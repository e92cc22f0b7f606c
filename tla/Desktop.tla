------------------------------ MODULE Desktop -------------------------------
(***************************************************************************)
(* The desktop app (App.tsx, AppShell.tsx, Timeline.tsx): one page is      *)
(* mounted at a time, under a shell with the navigation and the capture    *)
(* toggle.  Leaving a page drops its state; answers to its requests change *)
(* nothing any more.  Keys are heard on the whole window, so a full stop   *)
(* typed into any field opens the copilot page.                            *)
(***************************************************************************)
EXTENDS Search, Chat, Settings, Capture

\* No criteria are undefined.
ASSUME DesktopAssumption ==
    None \notin [query : Query \cup {Blank}, source : Source \cup PurgeSource,
                 range : TimeRange \cup PurgeRange]

VARIABLES
    route,      \* the path
    timeline    \* state of the mounted timeline page

page_vars == <<search, chat, settings, timeline>>
vars == <<alive, hash, route, page_vars, capture_vars>>

NavItem == {"/timeline", "/search", "/copilot", "/settings"}

\* "/" redirects to the timeline; no route is declared for a memory.
Route == NavItem \cup {"/memory"}

FreshTimeline == [items |-> <<>>, loading |-> TRUE, expanded |-> {}]

Init ==
    /\ TauriInit /\ CaptureInit
    /\ route = "/timeline"
    /\ search = FreshSearch
    /\ chat = FreshChat
    /\ settings = FreshSettings
    /\ timeline = FreshTimeline

-----------------------------------------------------------------------------
(* Moving between pages.                                                    *)

\* The page that is left is unmounted, the other one mounted afresh.
Unmount ==
    /\ search' = FreshSearch
    /\ chat' = FreshChat
    /\ settings' = FreshSettings
    /\ timeline' = FreshTimeline

\* The new path has no hash; a page that stays keeps its state.
Navigate(path) ==
    /\ route' = path
    /\ hash' = None
    /\ IF path = route THEN UNCHANGED page_vars ELSE Unmount

FollowLink == \E path \in NavItem : Navigate(path)

\* Any field may have the focus; the key still navigates.
PressDot == Navigate("/copilot")

-----------------------------------------------------------------------------
(* The timeline page.                                                       *)

\* slice(0, max(initialLoadCount, length)) takes all of them.
MemoriesLoaded ==
    /\ timeline.loading
    /\ timeline' = [timeline EXCEPT !.loading = FALSE, !.items = Mems]

\* The rejection is not handled: the list stays empty.
LoadFails ==
    /\ timeline.loading
    /\ timeline' = [timeline EXCEPT !.loading = FALSE]

\* Show More, Show Less
ToggleExpanded(m) ==
    timeline' = [timeline EXCEPT !.expanded = Toggled(@, m.id)]

TimelineNext ==
    \/ MemoriesLoaded
    \/ LoadFails
    \/ \E k \in DOMAIN timeline.items : ToggleExpanded(timeline.items[k])

\* The item's own path is not among the routes: the page is blank.
OpenMemory ==
    /\ route = "/timeline"
    /\ timeline.items # <<>>
    /\ Navigate("/memory")

-----------------------------------------------------------------------------
(* The window: what happens on the mounted page leaves the others alone.    *)

Stays(others) ==
    /\ alive
    /\ UNCHANGED <<others, route, capture_vars>>

OnTimeline ==
    /\ route = "/timeline" /\ TimelineNext
    /\ Stays(<<alive, hash, search, chat, settings>>)

OnSearch ==
    /\ route = "/search" /\ SearchNext
    /\ Stays(<<chat, settings, timeline>>)

OnCopilot ==
    /\ route = "/copilot" /\ ChatNext
    /\ Stays(<<search, settings, timeline>>)

OnSettings ==
    /\ route = "/settings" /\ SettingsNext
    /\ Stays(<<alive, hash, search, chat, timeline>>)

Leave ==
    /\ alive
    /\ FollowLink \/ PressDot \/ OpenMemory
    /\ UNCHANGED <<alive, capture_vars>>

\* The window is loaded again, at the same path.
Reload ==
    /\ alive' = TRUE
    /\ Unmount
    /\ ReloadCapture
    /\ UNCHANGED <<hash, route>>

\* The pill of the shell, and the one among the settings.
ClickPill == alive /\ Toggle

\* Ctrl+Shift+C, which every page hears.
PressCaptureKey == alive /\ Toggle

Capturing ==
    /\ ClickPill \/ PressCaptureKey \/ Outside
    /\ UNCHANGED <<alive, hash, route, page_vars>>

Next ==
    \/ OnTimeline \/ OnSearch \/ OnCopilot \/ OnSettings
    \/ Leave \/ Reload \/ Capturing

Spec == Init /\ [][Next]_vars

Runs(A, others) == A /\ Stays(others)

\* The browser's timers fire.  Users owe nothing, and neither do requests: the
\* shell's client has no timeout, and a page waits for its answer for ever.
Fairness ==
    WF_vars(Runs(route = "/search" /\ FireTimer, <<chat, settings, timeline>>))

FairSpec == Spec /\ Fairness

-----------------------------------------------------------------------------
TypeOK ==
    /\ alive \in BOOLEAN
    /\ hash \in {None} \cup Doc \cup {Mems[k].id : k \in DOMAIN Mems}
    /\ route \in Route
    /\ SearchTypeOK /\ ChatTypeOK /\ SettingsTypeOK /\ CaptureTypeOK
    /\ timeline \in [items : {<<>>, Mems}, loading : BOOLEAN,
                     expanded : SUBSET {Mems[k].id : k \in DOMAIN Mems}]
    /\ search # FreshSearch => route = "/search"
    /\ chat # FreshChat => route = "/copilot"
    /\ settings # FreshSettings => route = "/settings"
    /\ timeline # FreshTimeline => route = "/timeline"

\* A request asks for the criteria that are on screen when it is sent, although
\* the timer that sends it was started by an earlier render.
AsksWhatIsShown ==
    [][Len(search'.pending) > Len(search.pending) =>
            search'.pending[Len(search'.pending)] = search.asks]_vars

\* Enter opens the result drawn as active, and nothing when none is: the index
\* into the joined list and the offsets of the drawn buckets agree, whatever
\* results arrived since the index was moved.
OpensHighlighted ==
    [][route = "/search" /\ hash' # hash /\ hash' # None =>
            Highlighted = {hash'}]_vars

\* Not what the code gives, but what the next two properties suppose: no
\* request of the mounted page hangs.
RequestsSettle ==
    /\ WF_vars(Runs(route = "/search" /\ SearchSettles,
                    <<chat, settings, timeline>>))
    /\ WF_vars(Runs(route = "/copilot" /\ ChatSettles,
                    <<search, settings, timeline>>))

\* If no request hangs and none brings an error that breaks the window, results
\* for other criteria than those on screen are replaced, or the page is left,
\* as long as requests do not overlap and do not fail: only an answer that
\* comes after a later one, or none at all, leaves old results for good.
StaleIsReplaced ==
    RequestsSettle /\ []alive =>
        (Stale /\ search.alone ~> ~(Stale /\ search.alone))

\* Under the same two conditions the field opens again after each question,
\* whether its request is answered or rejected, unless the page is left or
\* loaded again.  Conversation says what stands under the question then.
QuestionSettles ==
    RequestsSettle /\ []alive => (chat.isTyping ~> ~chat.isTyping)

\* A granular purge names the memories that the search page lists for the same
\* source and time, although the two pages write their filters differently.
PurgesWhatSearchLists ==
    [][settings'.purged # settings.purged /\ settings'.purged # None =>
        LET filters == settings'.purged
            listed == UNION {{Flat(a)[k].id : k \in DOMAIN Flat(a)} :
                a \in [query : Query, source : {settings.source},
                       range : {settings.range}]}
        IN  \/ settings.confirmPurge = "PURGE"
            \/ listed = {Mems[k].id : k \in {k \in DOMAIN Mems :
                             MatchesFilters(Mems[k], filters)}}]_vars
=============================================================================
