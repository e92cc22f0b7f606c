------------------------------ MODULE Capture -------------------------------
(***************************************************************************)
(* The capture toggle (app/src/state/capture.tsx, the tray menu of         *)
(* src-tauri/src/main.rs).  The window and the tray each keep a flag of    *)
(* their own, flip it at once and post pause or resume without awaiting or *)
(* looking at the answer; neither ever asks the service, or the other.     *)
(* Requests in the air may be lost or overtake each other.                 *)
(***************************************************************************)
EXTENDS Naturals, Sequences

CONSTANTS
    MaxPosts    \* bound: requests in the air

ASSUME CaptureAssumption == MaxPosts \in Nat

VARIABLES
    paused,     \* isPaused of the window, paused of the tray
    posts,      \* paths posted and not yet received, oldest first
    recording,  \* what the service does (external)
    witness     \* the surface toggled last, while nothing has come between

capture_vars == <<paused, posts, recording, witness>>

Surface == {"window", "tray"}
Path    == {"pause", "resume"}
Nobody  == "nobody"

CaptureInit ==
    /\ paused = [s \in Surface |-> FALSE]
    /\ posts = <<>>
    /\ recording = TRUE
    /\ witness = "window"

-----------------------------------------------------------------------------
(* What the two surfaces tell the user.                                     *)

\* "Capture Paused", under the header of every page.
Banner == paused["window"]

Label == IF paused["window"] THEN "Paused" ELSE "Capturing"

\* The menu item is renamed with the flag.
TrayTitle == IF paused["tray"] THEN "Resume Capture" ELSE "Pause Capture"

ShowsPaused(s) == IF s = "window" THEN Banner /\ Label = "Paused"
                  ELSE TrayTitle = "Resume Capture"

-----------------------------------------------------------------------------
\* Mutant of PathOf: the flag is read before it is flipped.
PathOfOld(s, flag) == IF paused[s] THEN "pause" ELSE "resume"

PathOf(s, flag) == IF flag THEN "pause" ELSE "resume"

Flip(s) ==
    /\ Len(posts) < MaxPosts
    /\ paused' = [paused EXCEPT ![s] = ~paused[s]]
    /\ posts' = Append(posts, PathOf(s, ~paused[s]))
    /\ witness' = s
    /\ UNCHANGED recording

Toggle == Flip("window")

TrayToggle == Flip("tray")

-----------------------------------------------------------------------------
(* The network and the service.                                             *)

Without(i) == [k \in 1 .. Len(posts) - 1 |->
                    IF k < i THEN posts[k] ELSE posts[k + 1]]

Receive(i) ==
    /\ i \in DOMAIN posts
    /\ recording' = (posts[i] = "resume")
    /\ posts' = Without(i)
    /\ witness' = IF i = 1 THEN witness ELSE Nobody
    /\ UNCHANGED paused

\* fetch rejects, or the service answers an error: the catch is empty.
Lose(i) ==
    /\ i \in DOMAIN posts
    /\ posts' = Without(i)
    /\ witness' = Nobody
    /\ UNCHANGED <<paused, recording>>

\* The window is loaded again: its flag starts at FALSE, whatever it was.
ReloadCapture ==
    /\ paused' = [paused EXCEPT !["window"] = FALSE]
    /\ witness' = IF witness = "window" /\ paused["window"] THEN Nobody
                  ELSE witness
    /\ UNCHANGED <<posts, recording>>

-----------------------------------------------------------------------------
\* What happens outside the window.
Outside ==
    \/ TrayToggle
    \/ \E i \in 1 .. Len(posts) : Receive(i) \/ Lose(i)

CaptureTypeOK ==
    /\ paused \in [Surface -> BOOLEAN]
    /\ posts \in Seq(Path)
    /\ recording \in BOOLEAN
    /\ witness \in Surface \cup {Nobody}

\* When no request is in the air, the surface toggled last shows what the
\* service does, whatever the other one shows and however often either was
\* toggled before, unless a request was lost or overtaken since, or the
\* window loaded again while it showed a pause.
LastToggleHolds ==
    \A s \in Surface :
        witness = s /\ posts = <<>> => (recording <=> ~ShowsPaused(s))
=============================================================================
