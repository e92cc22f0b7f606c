---------------------------- MODULE VectorIndex ----------------------------
(***************************************************************************)
(* The vector index on disk (intelligence/index/vector_index.py,           *)
(* encryption.py, metadata.py, keyring/interface.py, cli/vyaso_intel.py):  *)
(* three files, rewritten in place one after the other by intelligence     *)
(* jobs, by key rotation and by any program that loads the index, and a    *)
(* key that comes from the environment, the keyring, or nowhere.           *)
(*                                                                         *)
(* One program runs at a time.  The daemon kills a job that takes too long *)
(* (kill_on_drop), users interrupt the others: at any step, also in the    *)
(* middle of a write.  Each program has the environment it was started in. *)
(***************************************************************************)
EXTENDS Integers

CONSTANTS
    Job,            \* intelligence jobs; each stands for the vectors it saves
    Empty,          \* the vectors of an index nothing was added to
    Garbage,        \* file contents that do not parse
    Absent,         \* no file
    None,           \* no vectors
    KeyringWorks,   \* a keyring backend is installed
    MaxKeys,        \* bound: keys generated
    MaxKills        \* bound: programs killed

ASSUME IndexAssumption ==
    /\ {Empty, Garbage, Absent, None} \cap Job = {}
    /\ Empty # None /\ Garbage \notin {Empty, None} /\ Absent \notin {Empty, None}
    /\ KeyringWorks \in BOOLEAN
    /\ MaxKeys \in Nat /\ MaxKills \in Nat

Vectors == Job \cup {Empty}

NoKey  == -1            \* not encrypted; no password stored; unusable key file
Source == -2            \* index.enc_key names the environment or the keyring
EnvKey == 0             \* VYASOAI_INDEX_KEY
Key    == 0 .. MaxKeys  \* the environment's key and the generated ones

NoMeta == -1            \* index.meta.json is missing or does not parse

VARIABLES
    index,      \* index.hnsw: the key it is encrypted with, what it holds
    keyFile,    \* index.enc_key: Source, a key, or NoKey
    meta,       \* index.meta.json: its key_version, 0 when it has none
    keyring,    \* the password stored in the keyring
    keys,       \* keys generated so far
    pc, op,     \* where the running program is, and which one it is
    env,        \* whether VYASOAI_INDEX_KEY is set in its environment
    mem,        \* the vectors it holds in memory
    key,        \* the key it generated or fetched
    saved,      \* what the last program saved, if it ended normally
    kills

files   == <<index, keyFile, meta>>
program == <<op, env, mem, key>>
vars    == <<files, keyring, keys, pc, program, saved, kills>>

Init ==
    /\ index = [key |-> NoKey, data |-> Absent]
    /\ keyFile = NoKey /\ meta = NoMeta
    /\ keyring = NoKey /\ keys = 0
    /\ pc = "idle" /\ op = "job" /\ env = FALSE /\ mem = None /\ key = NoKey
    /\ saved = None
    /\ kills = 0

-----------------------------------------------------------------------------
(* Keys                                                                     *)

\* get_index_key: the environment goes before the keyring; NoKey where a key
\* would be generated.
StoredKey(e) ==
    IF e THEN EnvKey ELSE IF KeyringWorks THEN keyring ELSE NoKey

\* The key load decrypts with; a key generated for the occasion fits nothing.
NamedKey(e) == IF keyFile = Source THEN StoredKey(e) ELSE keyFile

\* load reads the metadata and the key's name and decrypts the index.
Decrypts(e) ==
    /\ meta # NoMeta
    /\ NamedKey(e) # NoKey
    /\ index.key = NamedKey(e)

\* What a program started in environment e would load.
Loaded(e) ==
    IF Decrypts(e) /\ index.data \in Vectors THEN index.data ELSE None

GenerateKey ==
    /\ keys' = keys + 1
    /\ key' = keys + 1

-----------------------------------------------------------------------------
(* Programs start and end.                                                  *)

\* process: a new index holds the job's vectors only; ids start at 1 again.
StartJob(j, e) ==
    /\ pc = "idle"
    /\ keys < MaxKeys
    /\ pc' = "plain" /\ op' = "job" /\ env' = e /\ mem' = j
    /\ key' = NoKey /\ saved' = None
    /\ UNCHANGED <<files, keyring, keys, kills>>

\* key rotate, and programs that only load the index (evaluate.py --index).
StartLoad(o, e) ==
    /\ pc = "idle"
    /\ o = "rotate" => keys < MaxKeys
    /\ pc' = "load" /\ op' = o /\ env' = e /\ mem' = None
    /\ key' = NoKey /\ saved' = None
    /\ UNCHANGED <<files, keyring, keys, kills>>

\* The program ends with an error.
Exit ==
    /\ pc' = "idle"
    /\ UNCHANGED <<program, saved>>

\* The program ends normally after saving what it holds.
Done ==
    /\ pc' = "idle"
    /\ saved' = mem
    /\ UNCHANGED program

-----------------------------------------------------------------------------
(* load                                                                     *)

AfterLoad == pc' = IF op = "rotate" THEN "setkey" ELSE "idle"

\* An exception before the index is decrypted.
LoadFails ==
    /\ pc = "load"
    /\ ~Decrypts(env)
    /\ AfterLoad
    /\ UNCHANGED <<files, keyring, keys, program, saved, kills>>

\* The decrypted index replaces the file.
Decrypt ==
    /\ pc = "load"
    /\ Decrypts(env)
    /\ index' = [index EXCEPT !.key = NoKey]
    /\ pc' = "parse"
    /\ UNCHANGED <<keyFile, meta, keyring, keys, program, saved, kills>>

Parse ==
    /\ pc = "parse"
    /\ mem' = IF index.data \in Vectors THEN index.data ELSE None
    /\ AfterLoad
    /\ UNCHANGED <<files, keyring, keys, op, env, key, saved, kills>>

-----------------------------------------------------------------------------
(* save                                                                     *)

WritePlain ==
    /\ pc = "plain"
    /\ index' = [key |-> NoKey, data |-> mem]
    /\ pc' = "encrypt"
    /\ UNCHANGED <<keyFile, meta, keyring, keys, program, saved, kills>>

\* get_or_create_key, and the encrypted index replaces the plain one.
Encrypt ==
    /\ pc = "encrypt"
    /\ IF StoredKey(env) # NoKey
       THEN key' = StoredKey(env) /\ UNCHANGED keys
       ELSE GenerateKey
    /\ index' = [index EXCEPT !.key = key']
    /\ pc' = "keyfile"
    /\ UNCHANGED <<keyFile, meta, keyring, op, env, mem, saved, kills>>

\* Mutant of KeyInfo: a generated key is not written down.
KeySource == Source

\* index.enc_key names the key's source; a generated key is written itself.
KeyInfo == IF StoredKey(env) # NoKey THEN Source ELSE key

WriteKeyFile ==
    /\ pc = "keyfile"
    /\ keyFile' = KeyInfo
    /\ pc' = "meta"
    /\ UNCHANGED <<index, meta, keyring, keys, program, saved, kills>>

\* write_meta starts from nothing: a former key_version is gone.
WriteMeta ==
    /\ pc = "meta"
    /\ meta' = 0
    /\ IF op = "rotate"
       THEN pc' = "bump" /\ UNCHANGED <<program, saved>>
       ELSE Done
    /\ UNCHANGED <<index, keyFile, keyring, keys, kills>>

-----------------------------------------------------------------------------
(* key rotate, after its load                                               *)

\* Mutant of ToSave: what was not loaded is saved as it is.
AsLoaded == mem

\* An index that could not be loaded is replaced by an empty one.
ToSave == IF mem = None THEN Empty ELSE mem

\* set_index_key stores the new key, and save fetches it, or the
\* environment's.
SetKey ==
    /\ pc = "setkey"
    /\ KeyringWorks
    /\ GenerateKey
    /\ keyring' = keys + 1
    /\ mem' = ToSave
    /\ pc' = "plain"
    /\ UNCHANGED <<files, op, env, saved, kills>>

\* No keyring, or it refuses: without --force-env that is the end.
SetKeyFails ==
    /\ pc = "setkey"
    /\ \/ Exit /\ UNCHANGED keys
       \/ GenerateKey /\ pc' = "wrap" /\ UNCHANGED <<op, env, mem, saved>>
    /\ UNCHANGED <<files, keyring, kills>>

\* --force-env encrypts the file as it is, decrypted by the load or not.
Wrap ==
    /\ pc = "wrap"
    /\ IF index.data = Absent
       THEN Exit /\ UNCHANGED index
       ELSE /\ index' = [key  |-> key,
                         data |-> IF index.key = NoKey THEN index.data
                                  ELSE Garbage]
            /\ pc' = "wrapkey"
            /\ UNCHANGED <<program, saved>>
    /\ UNCHANGED <<keyFile, meta, keyring, keys, kills>>

WrapKey ==
    /\ pc = "wrapkey"
    /\ keyFile' = key
    /\ pc' = "bump"
    /\ UNCHANGED <<index, meta, keyring, keys, program, saved, kills>>

\* The metadata is read, its key_version incremented, and written.
BumpVersion ==
    /\ pc = "bump"
    /\ IF meta = NoMeta
       THEN Exit /\ UNCHANGED meta
       ELSE meta' = meta + 1 /\ Done
    /\ UNCHANGED <<index, keyFile, keyring, keys, kills>>

-----------------------------------------------------------------------------
\* The program is killed, or a write fails; the file it was about to write
\* is as before or torn.
Killed ==
    /\ pc # "idle"
    /\ kills < MaxKills
    /\ kills' = kills + 1
    /\ index' \in {index} \cup
          (IF pc \in {"plain", "encrypt", "wrap"} \/ (pc = "load" /\ Decrypts(env))
           THEN {[key |-> NoKey, data |-> Garbage]} ELSE {})
    /\ keyFile' \in {keyFile} \cup
          (IF pc \in {"keyfile", "wrapkey"} THEN {NoKey} ELSE {})
    /\ meta' \in {meta} \cup (IF pc \in {"meta", "bump"} THEN {NoMeta} ELSE {})
    /\ Exit
    /\ UNCHANGED <<keyring, keys>>

Next ==
    \/ \E e \in BOOLEAN :
          \/ \E j \in Job : StartJob(j, e)
          \/ StartLoad("rotate", e)
          \/ StartLoad("evaluate", e)
    \/ LoadFails \/ Decrypt \/ Parse
    \/ WritePlain \/ Encrypt \/ WriteKeyFile \/ WriteMeta
    \/ SetKey \/ SetKeyFails \/ Wrap \/ WrapKey \/ BumpVersion
    \/ Killed

Spec == Init /\ [][Next]_vars

-----------------------------------------------------------------------------
\* Every variable keeps its type; a save has vectors to save.
TypeOK ==
    /\ index \in [key : Key \cup {NoKey}, data : Vectors \cup {Garbage, Absent}]
    /\ keyFile \in Key \cup {NoKey, Source}
    /\ meta \in Nat \cup {NoMeta}
    /\ keyring \in Key \cup {NoKey}
    /\ keys \in 0 .. MaxKeys
    /\ pc \in {"idle", "load", "parse", "setkey", "wrap", "wrapkey", "bump",
               "plain", "encrypt", "keyfile", "meta"}
    /\ op \in {"job", "rotate", "evaluate"}
    /\ env \in BOOLEAN
    /\ mem \in Vectors \cup {None}
    /\ pc \in {"plain", "encrypt", "keyfile", "meta"} => mem # None
    /\ key \in Key \cup {NoKey}
    /\ saved \in Vectors \cup {None}
    /\ kills \in 0 .. MaxKills

\* After a job or a rotation that ended normally, whatever files killed ones
\* left behind and wherever their keys came from, a program in the same
\* environment loads exactly the vectors it held: a job's own, or, after a
\* rotation, those the rotation could load.
SavedIsLoadable ==
    pc = "idle" /\ saved # None => Loaded(env) = saved
=============================================================================
