---------------------------- MODULE IndexProofs ----------------------------
(* Theorems about VectorIndex, for every set of jobs and every bound.       *)
EXTENDS VectorIndex, TLAPS

\* The guards of StartJob and StartLoad leave a key for every program that
\* may generate one.
KeysLeft ==
    /\ pc \in {"load", "parse", "setkey"} /\ op = "rotate" => keys < MaxKeys
    /\ pc = "setkey" => op = "rotate"
    /\ pc \in {"plain", "encrypt"} => keys < MaxKeys \/ StoredKey(env) # NoKey

\* The files, step by step, hold what the running program holds.
SaveInv ==
    /\ pc # "idle" => saved = None
    /\ pc = "load" => mem = None
    /\ pc = "parse" => index.key = NoKey
    /\ pc = "encrypt" => index = [key |-> NoKey, data |-> mem]
    /\ pc = "keyfile" =>
          /\ index = [key |-> key, data |-> mem]
          /\ key # NoKey
          /\ StoredKey(env) # NoKey => key = StoredKey(env)
    /\ pc = "meta" =>
          index = [key |-> NamedKey(env), data |-> mem] /\ NamedKey(env) # NoKey
    /\ pc \in {"setkey", "wrap"} /\ mem # None =>
          index = [key |-> NoKey, data |-> mem]
    /\ pc \in {"wrap", "wrapkey"} => key \in Key
    /\ pc = "wrapkey" /\ mem # None => index = [key |-> key, data |-> mem]
    /\ pc = "bump" /\ mem # None =>
          index = [key |-> NamedKey(env), data |-> mem] /\ NamedKey(env) # NoKey

IndexInv == TypeOK /\ KeysLeft /\ SaveInv /\ SavedIsLoadable

-----------------------------------------------------------------------------
\* The constants' types, as the proofs use them.
LEMMA Distinct ==
    /\ None \notin Vectors /\ Garbage \notin Vectors /\ Absent \notin Vectors
    /\ Key \subseteq Int /\ 0 \in Key
    /\ NoKey \notin Key /\ Source \notin Key /\ Source # NoKey
    /\ MaxKeys \in Nat /\ MaxKills \in Nat
BY IndexAssumption DEF Vectors, Key, NoKey, Source

\* The environment and the keyring hold keys.
LEMMA StoredKeyType ==
    ASSUME TypeOK, NEW e \in BOOLEAN
    PROVE  StoredKey(e) \in Key \cup {NoKey}
BY Distinct DEF StoredKey, EnvKey, TypeOK

\* While a key is left, a generated one is a key, and a new one.
LEMMA GenerateTyped ==
    ASSUME TypeOK, keys < MaxKeys
    PROVE  keys + 1 \in Key /\ keys + 1 \in 0 .. MaxKeys
BY Distinct DEF TypeOK, Key

\* An error changes nothing but where the program is.
LEMMA ExitTyped ==
    ASSUME TypeOK, Exit
    PROVE  /\ pc' = "idle" /\ op' \in {"job", "rotate", "evaluate"}
           /\ env' \in BOOLEAN
           /\ mem' \in Vectors \cup {None} /\ key' \in Key \cup {NoKey}
           /\ saved' \in Vectors \cup {None}
BY DEF Exit, program, TypeOK

\* At first there are no files and nothing was saved.
THEOREM InitInv == Init => IndexInv
<1> SUFFICES ASSUME Init PROVE IndexInv
  OBVIOUS
<1>1. TypeOK
  <2>1. index \in [key : Key \cup {NoKey}, data : Vectors \cup {Garbage, Absent}]
    BY DEF Init
  <2>2. keys \in 0 .. MaxKeys /\ kills \in 0 .. MaxKills
    BY Distinct DEF Init
  <2> QED
    BY <2>1, <2>2 DEF Init, TypeOK, NoMeta
<1>2. KeysLeft /\ SaveInv /\ SavedIsLoadable
  BY DEF Init, KeysLeft, SaveInv, SavedIsLoadable
<1> QED
  BY <1>1, <1>2 DEF IndexInv

-----------------------------------------------------------------------------
\* Programs that start: none has saved anything, and a key is left.
LEMMA StartStep ==
    ASSUME IndexInv, NEW e \in BOOLEAN,
           \/ \E j \in Job : StartJob(j, e)
           \/ \E o \in {"rotate", "evaluate"} : StartLoad(o, e)
    PROVE  IndexInv'
<1> USE DEF IndexInv
<1>1. CASE \E j \in Job : StartJob(j, e)
  <2> PICK j \in Job : StartJob(j, e)
    BY <1>1
  <2>1. TypeOK'
    BY Distinct DEF StartJob, TypeOK, files, Vectors
  <2>2. KeysLeft' /\ SaveInv' /\ SavedIsLoadable'
    BY DEF StartJob, KeysLeft, SaveInv, SavedIsLoadable
  <2> QED
    BY <2>1, <2>2
<1>2. CASE \E o \in {"rotate", "evaluate"} : StartLoad(o, e)
  <2> PICK o \in {"rotate", "evaluate"} : StartLoad(o, e)
    BY <1>2
  <2>1. TypeOK'
    BY DEF StartLoad, TypeOK, files
  <2>2. KeysLeft' /\ SaveInv' /\ SavedIsLoadable'
    BY DEF StartLoad, KeysLeft, SaveInv, SavedIsLoadable
  <2> QED
    BY <2>1, <2>2
<1> QED
  BY <1>1, <1>2

\* load: what it takes into memory is what the decrypted file holds.
LEMMA LoadStep ==
    ASSUME IndexInv, LoadFails \/ Decrypt \/ Parse
    PROVE  IndexInv'
<1> USE DEF IndexInv
<1>1. CASE LoadFails
  <2>1. TypeOK'
    BY <1>1 DEF LoadFails, AfterLoad, TypeOK, files, program
  <2>2. KeysLeft' /\ SaveInv' /\ SavedIsLoadable'
    BY <1>1, Distinct DEF LoadFails, AfterLoad, KeysLeft, SaveInv,
       SavedIsLoadable, files, program, TypeOK
  <2> QED
    BY <2>1, <2>2
<1>2. CASE Decrypt
  <2>1. TypeOK'
    BY <1>2 DEF Decrypt, TypeOK, program
  <2>2. KeysLeft' /\ SaveInv' /\ SavedIsLoadable'
    BY <1>2 DEF Decrypt, KeysLeft, SaveInv, SavedIsLoadable, program
  <2> QED
    BY <2>1, <2>2
<1>3. CASE Parse
  <2>1. TypeOK'
    BY <1>3 DEF Parse, AfterLoad, TypeOK, files
  <2>2. KeysLeft'
    BY <1>3 DEF Parse, AfterLoad, KeysLeft
  <2>3. mem' # None => index = [key |-> NoKey, data |-> mem']
    BY <1>3 DEF Parse, TypeOK, SaveInv
  <2>4. SaveInv'
    BY <1>3, <2>3 DEF Parse, AfterLoad, SaveInv, files
  <2>5. SavedIsLoadable'
    BY <1>3 DEF Parse, SaveInv, SavedIsLoadable
  <2> QED
    BY <2>1, <2>2, <2>4, <2>5
<1> QED
  BY <1>1, <1>2, <1>3

-----------------------------------------------------------------------------
\* save, up to the key file: each step writes what the next one relies on.
LEMMA WriteStep ==
    ASSUME IndexInv, WritePlain \/ Encrypt \/ WriteKeyFile
    PROVE  IndexInv'
<1> USE DEF IndexInv
<1>1. CASE WritePlain
  <2>1. index' \in [key : Key \cup {NoKey}, data : Vectors \cup {Garbage, Absent}]
    BY <1>1 DEF WritePlain, TypeOK
  <2>2. TypeOK'
    BY <1>1, <2>1 DEF WritePlain, TypeOK, program
  <2>3. KeysLeft'
    BY <1>1 DEF WritePlain, KeysLeft, StoredKey, program
  <2>4. SaveInv' /\ SavedIsLoadable'
    BY <1>1 DEF WritePlain, SaveInv, SavedIsLoadable, program
  <2> QED
    BY <2>2, <2>3, <2>4
<1>2. CASE Encrypt
  <2>1. key' \in Key /\ keys' \in 0 .. MaxKeys
    <3>1. CASE StoredKey(env) # NoKey
      BY <1>2, <3>1, StoredKeyType DEF Encrypt, TypeOK
    <3>2. CASE StoredKey(env) = NoKey
      BY <1>2, <3>2, GenerateTyped DEF Encrypt, GenerateKey, KeysLeft
    <3> QED
      BY <3>1, <3>2
  <2>2. index' = [key |-> key', data |-> mem]
    BY <1>2 DEF Encrypt, SaveInv
  <2>3. index' \in [key : Key \cup {NoKey}, data : Vectors \cup {Garbage, Absent}]
    BY <1>2, <2>1, <2>2 DEF Encrypt, TypeOK
  <2>4. TypeOK'
    BY <1>2, <2>1, <2>3 DEF Encrypt, TypeOK
  <2>5. KeysLeft'
    BY <1>2 DEF Encrypt, KeysLeft
  <2>6. StoredKey(env)' = StoredKey(env)
    BY <1>2 DEF Encrypt, StoredKey
  <2>7. SaveInv' /\ SavedIsLoadable'
    BY <1>2, <2>1, <2>2, <2>6, Distinct
    DEF Encrypt, GenerateKey, SaveInv, SavedIsLoadable
  <2> QED
    BY <2>4, <2>5, <2>7
<1>3. CASE WriteKeyFile
  <2>1. StoredKey(env)' = StoredKey(env)
    BY <1>3 DEF WriteKeyFile, StoredKey, program
  <2>2. NamedKey(env)' = key
    BY <1>3, <2>1, Distinct
    DEF WriteKeyFile, NamedKey, KeyInfo, SaveInv, program, TypeOK
  <2>3. TypeOK'
    BY <1>3 DEF WriteKeyFile, KeyInfo, TypeOK, program
  <2>4. KeysLeft'
    BY <1>3 DEF WriteKeyFile, KeysLeft
  <2>5. SaveInv' /\ SavedIsLoadable'
    BY <1>3, <2>2 DEF WriteKeyFile, SaveInv, SavedIsLoadable, program
  <2> QED
    BY <2>3, <2>4, <2>5
<1> QED
  BY <1>1, <1>2, <1>3

\* The last writes: the files load as what was saved, or nothing was saved.
LEMMA MetaStep ==
    ASSUME IndexInv, WriteMeta \/ BumpVersion
    PROVE  IndexInv'
<1> USE DEF IndexInv
<1>1. CASE WriteMeta
  <2>1. NamedKey(env)' = NamedKey(env) /\ UNCHANGED <<index, mem, env, keys>>
    BY <1>1 DEF WriteMeta, Done, NamedKey, StoredKey, program
  <2>2. TypeOK'
    BY <1>1 DEF WriteMeta, Done, TypeOK, program, NoMeta
  <2>3. KeysLeft'
    BY <1>1 DEF WriteMeta, Done, KeysLeft
  <2>4. meta' # NoMeta /\ mem \in Vectors
    BY <1>1 DEF WriteMeta, NoMeta, TypeOK
  <2>5. SavedIsLoadable'
    BY <1>1, <2>1, <2>4 DEF WriteMeta, Done, SaveInv, SavedIsLoadable, Loaded,
       Decrypts
  <2>6. SaveInv'
    BY <1>1, <2>1 DEF WriteMeta, Done, SaveInv, program
  <2> QED
    BY <2>2, <2>3, <2>5, <2>6
<1>2. CASE BumpVersion
  <2>1. NamedKey(env)' = NamedKey(env) /\ UNCHANGED <<index, mem, env, keys>>
    BY <1>2 DEF BumpVersion, Exit, Done, NamedKey, StoredKey, program
  <2>2. TypeOK'
    BY <1>2 DEF BumpVersion, Exit, Done, TypeOK, program, NoMeta
  <2>3. KeysLeft' /\ SaveInv'
    BY <1>2 DEF BumpVersion, Exit, Done, KeysLeft, SaveInv
  <2>4. ASSUME meta # NoMeta, mem # None PROVE SavedIsLoadable'
    BY <1>2, <2>1, <2>4
    DEF BumpVersion, Done, SaveInv, SavedIsLoadable, Loaded, Decrypts, NoMeta,
        TypeOK
  <2>5. ASSUME meta = NoMeta \/ mem = None PROVE SavedIsLoadable'
    BY <1>2, <2>5 DEF BumpVersion, Exit, Done, SaveInv, SavedIsLoadable
  <2> QED
    BY <2>2, <2>3, <2>4, <2>5
<1> QED
  BY <1>1, <1>2

-----------------------------------------------------------------------------
\* Rotation: a stored key is the one save will fetch, or the environment's is.
LEMMA RotateStep ==
    ASSUME IndexInv, SetKey \/ SetKeyFails \/ Wrap \/ WrapKey
    PROVE  IndexInv'
<1> USE DEF IndexInv
<1>1. CASE SetKey
  <2>1. keys + 1 \in Key /\ keys + 1 \in 0 .. MaxKeys
    BY <1>1, GenerateTyped DEF SetKey, KeysLeft
  <2>2. ToSave \in Vectors
    BY DEF ToSave, TypeOK, Vectors
  <2>3. TypeOK'
    BY <1>1, <2>1, <2>2, Distinct DEF SetKey, GenerateKey, TypeOK, files
  <2>4. StoredKey(env)' # NoKey
    BY <1>1, <2>1, Distinct DEF SetKey, StoredKey, EnvKey, NoKey
  <2>5. KeysLeft' /\ SaveInv' /\ SavedIsLoadable'
    BY <1>1, <2>4 DEF SetKey, KeysLeft, SaveInv, SavedIsLoadable
  <2> QED
    BY <2>3, <2>5
<1>2. CASE SetKeyFails
  <2>1. CASE Exit /\ UNCHANGED keys
    <3>1. TypeOK'
      BY <1>2, <2>1, ExitTyped DEF SetKeyFails, TypeOK, files
    <3>2. KeysLeft' /\ SaveInv' /\ SavedIsLoadable'
      BY <1>2, <2>1 DEF SetKeyFails, Exit, KeysLeft, SaveInv, SavedIsLoadable
    <3> QED
      BY <3>1, <3>2
  <2>2. CASE GenerateKey /\ pc' = "wrap" /\ UNCHANGED <<op, env, mem, saved>>
    <3>1. keys + 1 \in Key /\ keys + 1 \in 0 .. MaxKeys
      BY <1>2, GenerateTyped DEF SetKeyFails, KeysLeft
    <3>2. TypeOK'
      BY <1>2, <2>2, <3>1 DEF SetKeyFails, GenerateKey, TypeOK, files
    <3>3. KeysLeft' /\ SaveInv' /\ SavedIsLoadable'
      BY <1>2, <2>2, <3>1
      DEF SetKeyFails, GenerateKey, KeysLeft, SaveInv, SavedIsLoadable, files
    <3> QED
      BY <3>2, <3>3
  <2> QED
    BY <1>2, <2>1, <2>2 DEF SetKeyFails
<1>3. CASE Wrap
  <2>1. CASE index.data = Absent
    <3>1. TypeOK'
      BY <1>3, <2>1, ExitTyped DEF Wrap, TypeOK
    <3>2. KeysLeft' /\ SaveInv' /\ SavedIsLoadable'
      BY <1>3, <2>1 DEF Wrap, Exit, KeysLeft, SaveInv, SavedIsLoadable
    <3> QED
      BY <3>1, <3>2
  <2>2. CASE index.data # Absent
    <3>1. key \in Key
      BY <1>3 DEF Wrap, SaveInv
    <3>2. index' \in [key : Key \cup {NoKey}, data : Vectors \cup {Garbage, Absent}]
      BY <1>3, <2>2, <3>1 DEF Wrap, TypeOK
    <3>3. TypeOK'
      BY <1>3, <2>2, <3>2 DEF Wrap, TypeOK, program
    <3>4. KeysLeft' /\ SavedIsLoadable'
      BY <1>3, <2>2 DEF Wrap, KeysLeft, SavedIsLoadable
    <3>5. SaveInv'
      BY <1>3, <2>2, <3>1 DEF Wrap, SaveInv, program
    <3> QED
      BY <3>3, <3>4, <3>5
  <2> QED
    BY <2>1, <2>2
<1>4. CASE WrapKey
  <2>1. NamedKey(env)' = key /\ key \in Key
    BY <1>4, Distinct DEF WrapKey, NamedKey, SaveInv, program
  <2>2. TypeOK'
    BY <1>4, <2>1 DEF WrapKey, TypeOK, program
  <2>3. KeysLeft' /\ SavedIsLoadable'
    BY <1>4 DEF WrapKey, KeysLeft, SavedIsLoadable
  <2>4. SaveInv'
    BY <1>4, <2>1, Distinct DEF WrapKey, SaveInv, program
  <2> QED
    BY <2>2, <2>3, <2>4
<1> QED
  BY <1>1, <1>2, <1>3, <1>4

\* A killed program has saved nothing.
LEMMA KilledStep ==
    ASSUME IndexInv, Killed
    PROVE  IndexInv'
<1> USE DEF IndexInv
<1>1. index' \in [key : Key \cup {NoKey}, data : Vectors \cup {Garbage, Absent}]
  BY DEF Killed, TypeOK
<1>2. keyFile' \in Key \cup {NoKey, Source}
  BY DEF Killed, TypeOK
<1>3. meta' \in Nat \cup {NoMeta}
  BY DEF Killed, TypeOK
<1>4. kills' \in 0 .. MaxKills
  BY Distinct DEF Killed, TypeOK
<1>5. TypeOK'
  BY <1>1, <1>2, <1>3, <1>4, ExitTyped DEF Killed, TypeOK
<1>6. pc' = "idle" /\ saved' = None
  BY DEF Killed, Exit, SaveInv
<1> QED
  BY <1>5, <1>6 DEF KeysLeft, SaveInv, SavedIsLoadable

\* A step outside the model changes none of it.
LEMMA StutterStep ==
    ASSUME IndexInv, UNCHANGED vars
    PROVE  IndexInv'
BY DEF IndexInv, TypeOK, KeysLeft, SaveInv, SavedIsLoadable, Loaded, Decrypts,
   NamedKey, StoredKey, vars, files, program

-----------------------------------------------------------------------------
\* IndexInv is inductive: the files are followed step by step, through every
\* program and every kill.
THEOREM IndexInvStep == IndexInv /\ [Next]_vars => IndexInv'
<1> SUFFICES ASSUME IndexInv, [Next]_vars PROVE IndexInv'
  OBVIOUS
<1> QED
  BY StartStep, LoadStep, WriteStep, MetaStep, RotateStep, KilledStep,
     StutterStep DEF Next

\* The inductive invariant of the index files.
THEOREM IndexCorrect == Spec => []IndexInv
BY InitInv, IndexInvStep, PTL DEF Spec

\* Every variable keeps its type (vector_index.py, vyaso_intel.py).
THEOREM TypeCorrect == Spec => []TypeOK
<1>1. IndexInv => TypeOK
  BY DEF IndexInv
<1> QED
  BY <1>1, IndexCorrect, PTL

\* What a job or a rotation saved can be loaded again, whatever killed
\* programs left behind and wherever keys came from.
THEOREM SavedLoads == Spec => []SavedIsLoadable
<1>1. IndexInv => SavedIsLoadable
  BY DEF IndexInv
<1> QED
  BY <1>1, IndexCorrect, PTL
=============================================================================
