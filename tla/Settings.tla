------------------------------ MODULE Settings ------------------------------
(***************************************************************************)
(* The settings page (Settings.tsx).  Its state lives while the page is    *)
(* mounted and "Save Changes" saves nothing; what leaves it are the purge  *)
(* requests, which are neither awaited nor looked at.                      *)
(***************************************************************************)
EXTENDS Tauri

CONSTANTS
    Process, Glob,      \* texts typed into the two fields of an exclusion
    PurgeSource, PurgeRange,    \* the options of the two purge selects
    Preference,         \* cloud, theme, density, retention
    MaxExclusions       \* bound: exclusions in the list

VARIABLES settings

ASSUME SettingsAssumption ==
    /\ Blank \notin Process \cup Glob
    /\ "all" \in PurgeSource /\ "all" \in PurgeRange
    /\ MaxExclusions \in Nat

Exclusion == [process : Process \cup {Blank}, glob : Glob \cup {Blank}]

\* What the field beside the purge button holds.
Confirmation == {"", "PURGE", "other"}

NoExclusion == [process |-> Blank, glob |-> Blank]

FreshSettings ==
    [changed |-> {}, exclusions |-> <<>>, pendingEx |-> NoExclusion,
     confirmPurge |-> "", source |-> "all", range |-> "all", purged |-> None]

-----------------------------------------------------------------------------
\* One of two values and the other one in turn.
Toggled(set, p) == IF p \in set THEN set \ {p} ELSE set \cup {p}

\* The two toggles and the two selects of Sync, Appearance and Data; nothing
\* reads them.
ChangePreference(p) ==
    settings' = [settings EXCEPT !.changed = Toggled(@, p)]

EditExclusion(ex) ==
    /\ ex # settings.pendingEx
    /\ \/ ex.process = settings.pendingEx.process
       \/ ex.glob = settings.pendingEx.glob
    /\ settings' = [settings EXCEPT !.pendingEx = ex]

AddExclusion ==
    /\ settings.pendingEx.process # Blank /\ settings.pendingEx.glob # Blank
    /\ Len(settings.exclusions) < MaxExclusions
    /\ settings' = [settings EXCEPT
                        !.exclusions = Append(@, settings.pendingEx),
                        !.pendingEx = NoExclusion]

DeleteExclusion(k) ==
    /\ k \in DOMAIN settings.exclusions
    /\ settings' = [settings EXCEPT !.exclusions = Settled(@, k)]

-----------------------------------------------------------------------------
(* Purges.                                                                  *)

ConfirmText(text) ==
    /\ text # settings.confirmPurge
    /\ settings' = [settings EXCEPT !.confirmPurge = text]

SelectPurge(source, range) ==
    /\ \/ source = settings.source /\ range # settings.range
       \/ source # settings.source /\ range = settings.range
    /\ settings' = [settings EXCEPT !.source = source, !.range = range]

\* The text stays: the next click purges again.
PurgeAll ==
    /\ settings.confirmPurge = "PURGE"
    /\ settings' = [settings EXCEPT
                        !.purged = [source |-> None, start |-> None]]

\* Mutant of PurgeStart: the two longer ranges fall through to all time.
PurgeStartOfDay(range) == IF range = "24h" THEN 1 ELSE None

PurgeStart(range) == CASE range = "24h" -> 1 [] range = "7d" -> 7
                       [] range = "30d" -> 30 [] OTHER -> None

\* "Apply Purge" asks for nothing.
ApplyPurge ==
    settings' = [settings EXCEPT
        !.purged = [source |-> IF settings.source = "all" THEN None
                               ELSE settings.source,
                    start |-> PurgeStart(settings.range)]]

-----------------------------------------------------------------------------
SettingsNext ==
    \/ \E p \in Preference : ChangePreference(p)
    \/ \E ex \in Exclusion : EditExclusion(ex)
    \/ AddExclusion
    \/ \E k \in 1 .. Len(settings.exclusions) : DeleteExclusion(k)
    \/ \E text \in Confirmation : ConfirmText(text)
    \/ \E source \in PurgeSource, range \in PurgeRange :
            SelectPurge(source, range)
    \/ PurgeAll \/ ApplyPurge

SettingsTypeOK ==
    settings \in [changed : SUBSET Preference,
                  exclusions : Seq([process : Process, glob : Glob]),
                  pendingEx : Exclusion, confirmPurge : Confirmation,
                  source : PurgeSource, range : PurgeRange,
                  purged : {None} \cup [source : PurgeSource \cup {None},
                                        start : {1, 7, 30, None}]]
=============================================================================
