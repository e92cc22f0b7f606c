------------------------------ MODULE MCDaemon ------------------------------
(* Small instances of Daemon for TLC.                                       *)
EXTENDS Daemon, TLC

CONSTANTS e1, e2, e3, h1, h2

\* e1 and e2 carry the same content.
TwoEvents == {e1, e2}
TwoShare == e1 :> h1 @@ e2 :> h1

ThreeEvents == {e1, e2, e3}
ThirdDiffers == e1 :> h1 @@ e2 :> h1 @@ e3 :> h2

Ids(S) == [hasIds |-> TRUE, ids |-> S, hasFilter |-> FALSE, filter |-> {}]
Where(S) == [hasIds |-> FALSE, ids |-> {}, hasFilter |-> TRUE, filter |-> S]
Both(S, T) == [hasIds |-> TRUE, ids |-> S, hasFilter |-> TRUE, filter |-> T]

\* No clause, one id, an id whose filter excludes it, an empty id list with a
\* filter, and filters that select some or all events.
KeyCriteria ==
    {NoCriteria, Ids({e1}), Both({e1}, {e2}), Both({}, {e1}),
     Where({e1}), Where({e1, e2}), Where(Event)}

IdCriteria == {Ids({e1}), Ids({e1, e2})}
=============================================================================
