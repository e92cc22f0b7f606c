--------------------------- MODULE DesktopProofs ----------------------------
(***************************************************************************)
(* Proofs about Desktop for all values of its constants.  Each page's      *)
(* state is changed by its own handlers or dropped as a whole, so what     *)
(* holds of a page is proved from the page's module.                       *)
(***************************************************************************)
EXTENDS Desktop, SequenceTheorems, WellFoundedInduction, TLAPS

-----------------------------------------------------------------------------
(* What a step of the window is for one page and for the capture toggle.    *)

\* The copilot page's state changes by its handlers, or is dropped when the
\* page is left or the window reloaded.
LEMMA ChatSteps ==
    ASSUME [Next]_vars
    PROVE  chat' = chat \/ chat' = FreshChat \/ ChatNext
  BY DEF Next, vars, page_vars, OnTimeline, OnSearch, OnCopilot, OnSettings,
         Stays, Leave, FollowLink, PressDot, OpenMemory, Navigate, Unmount,
         Reload, Capturing

\* The same of the search page.
LEMMA SearchSteps ==
    ASSUME [Next]_vars
    PROVE  search' = search \/ search' = FreshSearch \/ SearchNext
  BY DEF Next, vars, page_vars, OnTimeline, OnSearch, OnCopilot, OnSettings,
         Stays, Leave, FollowLink, PressDot, OpenMemory, Navigate, Unmount,
         Reload, Capturing

\* The flags and the requests of the capture toggle change by no page's handler.
LEMMA CaptureSteps ==
    ASSUME [Next]_vars
    PROVE  UNCHANGED capture_vars \/ Toggle \/ Outside \/ ReloadCapture
  BY DEF Next, vars, capture_vars, OnTimeline, OnSearch, OnCopilot, OnSettings,
         Stays, Leave, Reload, Capturing, ClickPill, PressCaptureKey

-----------------------------------------------------------------------------
(* Requests under way.                                                      *)

\* Without the i-th, what is left is a sequence of the same things.
LEMMA SettledType ==
    ASSUME NEW S, NEW pending \in Seq(S), NEW i \in DOMAIN pending
    PROVE  /\ Settled(pending, i) \in Seq(S)
           /\ Len(Settled(pending, i)) = Len(pending) - 1
  <1>1. Len(pending) \in Nat /\ i \in 1 .. Len(pending)
    OBVIOUS
  <1>2. \A k \in 1 .. Len(pending) - 1 :
            (IF k < i THEN pending[k] ELSE pending[k + 1]) \in S
    BY <1>1
  <1> QED
    BY <1>1, <1>2 DEF Settled

-----------------------------------------------------------------------------
(* The copilot page.                                                        *)

\* Conversation is inductive once the page's state is typed.
ChatInv == ChatTypeOK /\ Conversation

\* Odd and even numbers of messages alternate.
LEMMA Parity ==
    \A n \in Nat : n % 2 \in {0, 1} /\ (n % 2 = 1 <=> (n + 1) % 2 # 1)
  OBVIOUS

\* A page that was just mounted has no messages and awaits nothing.
LEMMA FreshConversation ==
    ASSUME chat = FreshChat
    PROVE  ChatInv
  <1>1. ChatTypeOK
    BY ChatAssumption DEF ChatTypeOK, FreshChat, Message
  <1>2. /\ chat.msgs = <<>> /\ Len(chat.msgs) = 0 /\ DOMAIN chat.msgs = {}
        /\ chat.isTyping = FALSE /\ chat.pending = <<>> /\ 0 % 2 = 0
    BY DEF FreshChat
  <1>3. Conversation
    BY <1>2 DEF Conversation
  <1> QED
    BY <1>1, <1>3 DEF ChatInv

\* The same of the state after a step.
LEMMA FreshAgain ==
    ASSUME chat' = FreshChat
    PROVE  ChatInv'
  <1>1. ChatTypeOK'
    BY ChatAssumption DEF ChatTypeOK, FreshChat, Message
  <1>2. /\ chat'.msgs = <<>> /\ Len(chat'.msgs) = 0 /\ DOMAIN chat'.msgs = {}
        /\ chat'.isTyping = FALSE /\ chat'.pending = <<>> /\ 0 % 2 = 0
    BY DEF FreshChat
  <1>3. Conversation'
    BY <1>2 DEF Conversation
  <1> QED
    BY <1>1, <1>3 DEF ChatInv

\* Before a question is sent no request is under way.
LEMMA BetweenQuestions ==
    ASSUME ChatInv, ~chat.isTyping
    PROVE  chat.pending = <<>> /\ Len(chat.msgs) % 2 # 1
  BY DEF ChatInv, Conversation

\* A request under way is the only one, and asks the last message.
LEMMA WhileTyping ==
    ASSUME ChatInv, NEW i \in DOMAIN chat.pending
    PROVE  /\ chat.isTyping /\ Len(chat.msgs) % 2 = 1
           /\ chat.pending = <<chat.msgs[Len(chat.msgs)].about>> /\ i = 1
  <1>1. chat.pending # <<>>
    OBVIOUS
  <1>2. chat.isTyping
    BY <1>1, BetweenQuestions
  <1>3. Len(chat.msgs) % 2 = 1
    BY <1>2 DEF ChatInv, Conversation
  <1>4. chat.pending = <<chat.msgs[Len(chat.msgs)].about>>
    BY <1>2 DEF ChatInv, Conversation
  <1>5. i = 1
    BY <1>4
  <1> QED
    BY <1>2, <1>3, <1>4, <1>5

\* A question follows an answered one.
LEMMA SendConverses ==
    ASSUME ChatInv, SendQuestion
    PROVE  ChatInv'
  <1> DEFINE asked == [role |-> "user", about |-> chat.input, origin |-> None,
                       sources |-> {}]
  <1>1. /\ chat.msgs \in Seq(Message) /\ Len(chat.msgs) \in Nat
        /\ chat.input \in Question
    BY DEF ChatInv, ChatTypeOK, SendQuestion
  <1>idle. ~chat.isTyping
    BY DEF SendQuestion, Disabled
  <1>even. chat.pending = <<>> /\ Len(chat.msgs) % 2 # 1
    BY <1>idle, BetweenQuestions
  <1>2. asked \in Message
    BY <1>1 DEF Message, Origin
  <1>3. chat' = [msgs |-> Append(chat.msgs, asked), input |-> Blank,
                 isTyping |-> TRUE, pending |-> <<chat.input>>]
    <2>1. chat = [msgs |-> chat.msgs, input |-> chat.input,
                  isTyping |-> chat.isTyping, pending |-> chat.pending]
      BY DEF ChatInv, ChatTypeOK
    <2>2. Append(chat.pending, chat.input) = <<chat.input>>
      BY <1>even
    <2> QED
      BY <2>1, <2>2 DEF SendQuestion
  <1>4. ChatTypeOK'
    BY <1>1, <1>2, <1>3 DEF ChatTypeOK
  <1>5. Conversation'
    <2>1. /\ Len(chat'.msgs) = Len(chat.msgs) + 1
          /\ chat'.msgs[Len(chat.msgs) + 1] = asked
          /\ \A k \in 1 .. Len(chat.msgs) : chat'.msgs[k] = chat.msgs[k]
      BY <1>1, <1>2, <1>3
    <2>2. DOMAIN chat'.msgs = 1 .. Len(chat.msgs) + 1
      BY <1>1, <1>2, <1>3
    <2>3. \A k \in 1 .. Len(chat.msgs) + 1 :
              IF k % 2 = 1 THEN chat'.msgs[k].role = "user"
              ELSE /\ chat'.msgs[k].role = "assistant"
                   /\ chat'.msgs[k].about = chat'.msgs[k - 1].about
      <3> SUFFICES ASSUME NEW k \in 1 .. Len(chat.msgs) + 1
                   PROVE  IF k % 2 = 1 THEN chat'.msgs[k].role = "user"
                          ELSE /\ chat'.msgs[k].role = "assistant"
                               /\ chat'.msgs[k].about = chat'.msgs[k - 1].about
        OBVIOUS
      <3>1. CASE k = Len(chat.msgs) + 1
        <4>1. k % 2 = 1
          BY <1>1, <1>even, <3>1, Parity
        <4> QED
          BY <2>1, <3>1, <4>1
      <3>2. CASE k \in 1 .. Len(chat.msgs)
        <4>1. k % 2 # 1 => k - 1 \in 1 .. Len(chat.msgs)
          BY <1>1, <3>2
        <4>2. k \in DOMAIN chat.msgs
          BY <1>1, <3>2
        <4>3. IF k % 2 = 1 THEN chat.msgs[k].role = "user"
              ELSE /\ chat.msgs[k].role = "assistant"
                   /\ chat.msgs[k].about = chat.msgs[k - 1].about
          BY <4>2 DEF ChatInv, Conversation
        <4> QED
          BY <2>1, <3>2, <4>1, <4>3
      <3> QED
        BY <1>1, <3>1, <3>2
    <2>4. Len(chat'.msgs) % 2 = 1
      BY <1>1, <1>even, <2>1, Parity
    <2>5. chat'.pending = <<chat'.msgs[Len(chat'.msgs)].about>>
      BY <1>1, <1>3, <2>1
    <2>6. chat'.isTyping = TRUE
      BY <1>3
    <2> QED
      BY <2>2, <2>3, <2>4, <2>5, <2>6 DEF Conversation
  <1> QED
    BY <1>4, <1>5 DEF ChatInv

\* An answer or an apology follows the question it is about.
LEMMA ReplyConverses ==
    ASSUME ChatInv, NEW i \in DOMAIN chat.pending,
           NEW origin \in Origin, NEW sources \in SUBSET Doc,
           Reply(i, origin, sources)
    PROVE  ChatInv'
  <1> DEFINE n == Len(chat.msgs)
             reply == [role |-> "assistant", about |-> chat.pending[i],
                       origin |-> origin, sources |-> sources]
  <1>1. /\ chat.msgs \in Seq(Message) /\ n \in Nat
        /\ chat.pending \in Seq(Question)
    BY DEF ChatInv, ChatTypeOK
  <1>2. /\ chat.pending = <<chat.msgs[n].about>> /\ i = 1 /\ n % 2 = 1
        /\ reply.about = chat.msgs[n].about
    <2>1. /\ chat.pending = <<chat.msgs[Len(chat.msgs)].about>> /\ i = 1
          /\ Len(chat.msgs) % 2 = 1
      BY WhileTyping
    <2>2. reply.about = chat.msgs[Len(chat.msgs)].about
      BY <2>1
    <2> QED
      BY <2>1, <2>2
  <1>3. reply \in Message
    BY <1>1, <1>2 DEF Message
  <1>4. Settled(chat.pending, i) = <<>>
    <2>1. Settled(chat.pending, i) \in Seq(Question)
          /\ Len(Settled(chat.pending, i)) = Len(chat.pending) - 1
      BY <1>1, SettledType
    <2>2. Len(chat.pending) = 1
      BY <1>2
    <2> QED
      BY <2>1, <2>2
  <1>5. chat' = [msgs |-> Append(chat.msgs, reply), input |-> chat.input,
                 isTyping |-> FALSE, pending |-> <<>>]
    BY <1>4 DEF Reply, ChatInv, ChatTypeOK
  <1>6. ChatTypeOK'
    BY <1>1, <1>3, <1>5 DEF ChatTypeOK, ChatInv
  <1>7. Conversation'
    <2>1. /\ Len(chat'.msgs) = n + 1
          /\ DOMAIN chat'.msgs = 1 .. n + 1
          /\ chat'.msgs[n + 1] = reply
          /\ \A k \in 1 .. n : chat'.msgs[k] = chat.msgs[k]
      BY <1>1, <1>3, <1>5
    <2>2. \A k \in 1 .. n + 1 :
              IF k % 2 = 1 THEN chat'.msgs[k].role = "user"
              ELSE /\ chat'.msgs[k].role = "assistant"
                   /\ chat'.msgs[k].about = chat'.msgs[k - 1].about
      <3> SUFFICES ASSUME NEW k \in 1 .. n + 1
                   PROVE  IF k % 2 = 1 THEN chat'.msgs[k].role = "user"
                          ELSE /\ chat'.msgs[k].role = "assistant"
                               /\ chat'.msgs[k].about = chat'.msgs[k - 1].about
        OBVIOUS
      <3>1. CASE k = n + 1
        <4>1. 0 % 2 # 1
          OBVIOUS
        <4>2. n \in 1 .. n /\ k - 1 = n
          <5>1. n # 0
            BY <1>2, <4>1
          <5> QED
            BY <1>1, <3>1, <5>1
        <4>3. k % 2 # 1
          BY <1>1, <1>2, <3>1, Parity
        <4>4. chat'.msgs[k] = reply /\ chat'.msgs[k - 1] = chat.msgs[n]
          BY <2>1, <3>1, <4>2
        <4> QED
          BY <1>2, <4>3, <4>4
      <3>2. CASE k \in 1 .. n
        <4>1. k % 2 # 1 => k - 1 \in 1 .. n
          BY <1>1, <3>2
        <4>2. k \in DOMAIN chat.msgs
          BY <1>1, <3>2
        <4>3. IF k % 2 = 1 THEN chat.msgs[k].role = "user"
              ELSE /\ chat.msgs[k].role = "assistant"
                   /\ chat.msgs[k].about = chat.msgs[k - 1].about
          BY <4>2 DEF ChatInv, Conversation
        <4> QED
          BY <2>1, <3>2, <4>1, <4>3
      <3> QED
        BY <1>1, <3>1, <3>2
    <2>3. Len(chat'.msgs) % 2 # 1
      BY <1>1, <1>2, <2>1, Parity
    <2>4. chat'.isTyping = FALSE /\ chat'.pending = <<>>
      BY <1>5
    <2> QED
      BY <2>1, <2>2, <2>3, <2>4 DEF Conversation
  <1> QED
    BY <1>6, <1>7 DEF ChatInv

\* Every handler of the page keeps the conversation.
LEMMA ChatStepsConverse ==
    ASSUME ChatInv, ChatNext
    PROVE  ChatInv'
  <1>1. ASSUME NEW text \in Question \cup {Blank}, ChangeInput(text)
        PROVE  ChatInv'
    BY <1>1 DEF ChatInv, ChatTypeOK, Conversation, ChangeInput
  <1>2. CASE SendQuestion
    BY <1>2, SendConverses
  <1>3. ASSUME NEW i \in 1 .. Len(chat.pending), NEW origin \in Origin,
               NEW sources \in SUBSET Doc, ChatAnswered(i, origin, sources)
        PROVE  ChatInv'
    BY <1>3, ReplyConverses DEF ChatAnswered
  <1>4. ASSUME NEW i \in 1 .. Len(chat.pending), ChatRejected(i)
        PROVE  ChatInv'
    BY <1>4, ReplyConverses DEF ChatRejected, Apologise, Origin
  <1>5. ASSUME NEW i \in 1 .. Len(chat.pending), ChatBroken(i)
        PROVE  ChatInv'
    BY <1>5, FreshAgain DEF ChatBroken
  <1>6. ASSUME NEW k \in 1 .. Len(chat.msgs), NEW d \in Doc, OpenSource(k, d)
        PROVE  ChatInv'
    BY <1>6 DEF OpenSource, ChatInv, ChatTypeOK, Conversation
  <1> QED
    BY <1>1, <1>2, <1>3, <1>4, <1>5, <1>6 DEF ChatNext, ChatSettles

\* The messages keep their type and the conversation its order through any
\* steps of the window.
THEOREM ChatCorrect == Spec => []ChatInv
  <1>1. Init => ChatInv
    BY FreshConversation DEF Init
  <1>2. ChatInv /\ [Next]_vars => ChatInv'
    <2> SUFFICES ASSUME ChatInv, [Next]_vars PROVE ChatInv'
      OBVIOUS
    <2>1. CASE chat' = chat
      BY <2>1 DEF ChatInv, ChatTypeOK, Conversation
    <2> QED
      BY <2>1, ChatSteps, FreshAgain, ChatStepsConverse
  <1> QED
    BY <1>1, <1>2, PTL DEF Spec

\* Conversation, for any questions, documents and number of messages: leaving
\* the page, reloading the window and failing requests included.
THEOREM QuestionsAreAnsweredInTurn == Spec => []Conversation
  <1>1. ChatInv => Conversation
    BY DEF ChatInv
  <1> QED
    BY <1>1, ChatCorrect, PTL

-----------------------------------------------------------------------------
(* The capture toggle.                                                      *)

\* The request posted last tells what the surface toggled last shows, and once
\* it was received the service does so.
CaptureInv ==
    /\ CaptureTypeOK
    /\ witness \in Surface =>
            IF posts = <<>> THEN recording = ~paused[witness]
            ELSE posts[Len(posts)] = IF paused[witness] THEN "pause"
                                     ELSE "resume"

\* Without the i-th of the requests in the air, the others are typed, and the
\* last one stays last unless it was the one.
LEMMA WithoutType ==
    ASSUME CaptureTypeOK, NEW i \in DOMAIN posts
    PROVE  /\ Without(i) \in Seq(Path)
           /\ Len(Without(i)) = Len(posts) - 1
           /\ i # Len(posts) =>
                Without(i)[Len(Without(i))] = posts[Len(posts)]
  <1>1. posts \in Seq(Path) /\ Len(posts) \in Nat /\ i \in 1 .. Len(posts)
    BY DEF CaptureTypeOK
  <1>2. \A k \in 1 .. Len(posts) - 1 :
            (IF k < i THEN posts[k] ELSE posts[k + 1]) \in Path
    BY <1>1
  <1>3. /\ Without(i) \in Seq(Path)
        /\ Len(Without(i)) = Len(posts) - 1
    BY <1>1, <1>2 DEF Without
  <1>4. ASSUME i # Len(posts)
        PROVE  Without(i)[Len(Without(i))] = posts[Len(posts)]
    <2>1. /\ Len(posts) - 1 \in 1 .. Len(posts) - 1
          /\ ~(Len(posts) - 1 < i)
          /\ Len(posts) - 1 + 1 = Len(posts)
      BY <1>1, <1>4
    <2> QED
      BY <1>3, <2>1 DEF Without
  <1> QED
    BY <1>3, <1>4

\* Flipping a flag makes the surface the one toggled last and its request the
\* last one posted.
LEMMA FlipCorrect ==
    ASSUME CaptureInv, NEW s \in Surface, Flip(s)
    PROVE  CaptureInv'
  <1> DEFINE path == IF ~paused[s] THEN "pause" ELSE "resume"
  <1>1. /\ paused \in [Surface -> BOOLEAN] /\ posts \in Seq(Path)
        /\ path \in Path
    BY DEF CaptureInv, CaptureTypeOK, Path
  <1>2. /\ paused' = [paused EXCEPT ![s] = ~paused[s]]
        /\ posts' = Append(posts, path) /\ witness' = s
        /\ recording' = recording
    BY DEF Flip, PathOf
  <1>3. CaptureTypeOK'
    BY <1>1, <1>2 DEF CaptureInv, CaptureTypeOK
  <1>4. posts' # <<>> /\ posts'[Len(posts')] = path
    BY <1>1, <1>2
  <1>5. path = IF paused'[s] THEN "pause" ELSE "resume"
    BY <1>1, <1>2
  <1> QED
    BY <1>2, <1>3, <1>4, <1>5 DEF CaptureInv

\* The service obeys the requests as they come; if all come in order, the last
\* one is obeyed last.
LEMMA ReceiveCorrect ==
    ASSUME CaptureInv, NEW i \in DOMAIN posts, Receive(i)
    PROVE  CaptureInv'
  <1>1. /\ posts \in Seq(Path) /\ Len(posts) \in Nat /\ i \in 1 .. Len(posts)
        /\ posts[i] \in {"pause", "resume"} /\ posts # <<>>
    BY DEF CaptureInv, CaptureTypeOK, Path
  <1>2. /\ Without(i) \in Seq(Path)
        /\ Len(Without(i)) = Len(posts) - 1
        /\ i # Len(posts) =>
                Without(i)[Len(Without(i))] = posts[Len(posts)]
    BY WithoutType DEF CaptureInv
  <1>3. CaptureTypeOK'
    BY <1>2 DEF Receive, CaptureInv, CaptureTypeOK
  <1>4. ASSUME witness' \in Surface
        PROVE  IF posts' = <<>> THEN recording' = ~paused'[witness']
               ELSE posts'[Len(posts')] = IF paused'[witness'] THEN "pause"
                                          ELSE "resume"
    <2>1. i = 1 /\ witness' = witness /\ paused' = paused /\ posts' = Without(i)
      BY <1>4 DEF Receive, Surface, Nobody
    <2>2. posts[Len(posts)] = IF paused[witness] THEN "pause" ELSE "resume"
      BY <1>1, <1>4, <2>1 DEF CaptureInv
    <2>3. CASE Len(posts) = 1
      <3>1. posts' = <<>>
        BY <1>2, <2>1, <2>3
      <3>2. recording' = (posts[1] = "resume")
        BY <2>1 DEF Receive
      <3>3. paused[witness] \in BOOLEAN
        BY <1>4, <2>1 DEF CaptureInv, CaptureTypeOK
      <3> QED
        BY <2>1, <2>2, <2>3, <3>1, <3>2, <3>3
    <2>4. CASE Len(posts) # 1
      <3>1. posts' # <<>> /\ posts'[Len(posts')] = posts[Len(posts)]
        BY <1>1, <1>2, <2>1, <2>4
      <3> QED
        BY <2>1, <2>2, <3>1
    <2> QED
      BY <2>3, <2>4
  <1> QED
    BY <1>3, <1>4 DEF CaptureInv

\* Every step of the window, the tray, the network and the service.
LEMMA CaptureStepsCorrect ==
    ASSUME CaptureInv, Toggle \/ Outside \/ ReloadCapture
    PROVE  CaptureInv'
  <1>1. CASE Toggle
    BY <1>1, FlipCorrect DEF Toggle, Surface
  <1>2. CASE TrayToggle
    BY <1>2, FlipCorrect DEF TrayToggle, Surface
  <1>3. ASSUME NEW i \in 1 .. Len(posts), Receive(i)
        PROVE  CaptureInv'
    BY <1>3, ReceiveCorrect DEF Receive
  <1>4. ASSUME NEW i \in 1 .. Len(posts), Lose(i)
        PROVE  CaptureInv'
    <2>1. Without(i) \in Seq(Path)
      BY <1>4, WithoutType DEF CaptureInv, Lose
    <2>2. CaptureTypeOK'
      BY <1>4, <2>1 DEF Lose, CaptureInv, CaptureTypeOK
    <2>3. witness' \notin Surface
      BY <1>4 DEF Lose, Surface, Nobody
    <2> QED
      BY <2>2, <2>3 DEF CaptureInv
  <1>5. CASE ReloadCapture
    <2>1. CaptureTypeOK'
      BY <1>5 DEF ReloadCapture, CaptureInv, CaptureTypeOK, Surface
    <2>2. witness' \in Surface => witness' = witness
      BY <1>5 DEF ReloadCapture, Surface, Nobody
    <2>3. witness' \in Surface => paused'[witness'] = paused[witness]
      BY <1>5, <2>2
         DEF ReloadCapture, CaptureInv, CaptureTypeOK, Surface, Nobody
    <2> QED
      BY <1>5, <2>1, <2>2, <2>3 DEF CaptureInv, ReloadCapture
  <1> QED
    BY <1>1, <1>2, <1>3, <1>4, <1>5 DEF Outside

\* The flags, the requests in the air and what the service does, through any
\* toggles, losses, overtaking requests and reloads.
THEOREM CaptureCorrect == Spec => []CaptureInv
  <1>1. Init => CaptureInv
    <2> SUFFICES ASSUME CaptureInit PROVE CaptureInv
      BY DEF Init
    <2>1. CaptureTypeOK
      BY DEF CaptureInit, CaptureTypeOK, Surface
    <2>2. posts = <<>> /\ recording = TRUE /\ witness = "window"
          /\ paused[witness] = FALSE
      BY DEF CaptureInit, Surface
    <2> QED
      BY <2>1, <2>2 DEF CaptureInv
  <1>2. CaptureInv /\ [Next]_vars => CaptureInv'
    <2> SUFFICES ASSUME CaptureInv, [Next]_vars PROVE CaptureInv'
      OBVIOUS
    <2>1. CASE UNCHANGED capture_vars
      BY <2>1 DEF capture_vars, CaptureInv, CaptureTypeOK
    <2> QED
      BY <2>1, CaptureSteps, CaptureStepsCorrect
  <1> QED
    BY <1>1, <1>2, PTL DEF Spec

\* LastToggleHolds, for any number of requests in the air.
THEOREM LastToggleIsObeyed == Spec => []LastToggleHolds
  <1>1. CaptureInv => LastToggleHolds
    <2> SUFFICES ASSUME CaptureInv, NEW s \in Surface, witness = s,
                        posts = <<>>
                 PROVE  recording <=> ~ShowsPaused(s)
      BY DEF LastToggleHolds
    <2>1. paused[s] \in BOOLEAN /\ recording = ~paused[s]
      BY DEF CaptureInv, CaptureTypeOK
    <2>2. ShowsPaused(s) <=> paused[s]
      BY <2>1 DEF ShowsPaused, Banner, Label, TrayTitle, Surface
    <2> QED
      BY <2>1, <2>2
  <1> QED
    BY <1>1, CaptureCorrect, PTL

-----------------------------------------------------------------------------
(* The search page.                                                         *)

\* A timer that runs knows the criteria on screen.
SearchInv ==
    /\ search = [asks |-> search.asks, timer |-> search.timer,
                 pending |-> search.pending, answer |-> search.answer,
                 activeIndex |-> search.activeIndex, alone |-> search.alone,
                 edits |-> search.edits]
    /\ search.pending \in Seq(Criteria)
    /\ search.timer \in {None, search.asks}
    /\ search.asks \in Criteria

\* Mounting the page starts a timer with the criteria it shows.
LEMMA FreshSearchHolds ==
    /\ search = FreshSearch => SearchInv
    /\ search' = FreshSearch => SearchInv'
  <1> DEFINE start == [query |-> Blank, source |-> "all", range |-> "all"]
  <1>1. start \in Criteria
    BY SearchAssumption DEF Criteria
  <1>2. /\ FreshSearch = [asks |-> start, timer |-> start, pending |-> <<>>,
                          answer |-> None, activeIndex |-> 0, alone |-> TRUE,
                          edits |-> 0]
        /\ <<>> \in Seq(Criteria)
    BY DEF FreshSearch
  <1> HIDE DEF start
  <1>3. ASSUME search = FreshSearch PROVE SearchInv
    BY <1>1, <1>2, <1>3 DEF SearchInv
  <1>4. ASSUME search' = FreshSearch PROVE SearchInv'
    BY <1>1, <1>2, <1>4 DEF SearchInv
  <1> QED
    BY <1>3, <1>4

\* Every handler of the page: a change of the criteria starts the timer anew,
\* and no answer or key touches it.
LEMMA SearchStepsHold ==
    ASSUME SearchInv, SearchNext
    PROVE  SearchInv'
  <1>1. ASSUME NEW c \in Criteria, Edit(c)
        PROVE  SearchInv'
    BY <1>1 DEF Edit, Rearmed, SearchInv
  <1>2. CASE FireTimer
    <2>1. search.timer \in Criteria /\ search.timer = search.asks
      BY <1>2 DEF FireTimer, SearchInv
    <2>2. Append(search.pending, search.timer) \in Seq(Criteria)
      BY <2>1 DEF SearchInv
    <2>3. /\ search'.timer = None /\ search'.asks = search.asks
          /\ search'.pending \in {search.pending,
                                  Append(search.pending, search.timer)}
      BY <1>2 DEF FireTimer, SearchInv
    <2>4. search' = [asks |-> search'.asks, timer |-> search'.timer,
                     pending |-> search'.pending, answer |-> search'.answer,
                     activeIndex |-> search'.activeIndex,
                     alone |-> search'.alone, edits |-> search'.edits]
      BY <1>2 DEF FireTimer, SearchInv
    <2> QED
      BY <2>1, <2>2, <2>3, <2>4 DEF SearchInv
  <1>3. ASSUME NEW i \in 1 .. Len(search.pending)
        PROVE  Settled(search.pending, i) \in Seq(Criteria)
    BY <1>3, SettledType DEF SearchInv
  <1>4. ASSUME NEW i \in 1 .. Len(search.pending),
               SearchAnswered(i) \/ SearchRejected(i)
        PROVE  SearchInv'
    BY <1>3, <1>4 DEF SearchAnswered, SearchRejected, SearchInv
  <1>5. ASSUME NEW i \in 1 .. Len(search.pending), SearchBroken(i)
        PROVE  SearchInv'
    BY <1>5, FreshSearchHolds DEF SearchBroken
  <1>6. CASE ArrowDown \/ ArrowUp \/ Enter
    BY <1>6 DEF ArrowDown, ArrowUp, Enter, SearchInv
  <1> QED
    BY <1>1, <1>2, <1>4, <1>5, <1>6 DEF SearchNext, SearchSettles

\* The timer knows what is shown, whatever pages are visited.
THEOREM SearchCorrect == Spec => []SearchInv
  <1>1. Init => SearchInv
    BY FreshSearchHolds DEF Init
  <1>2. SearchInv /\ [Next]_vars => SearchInv'
    <2> SUFFICES ASSUME SearchInv, [Next]_vars PROVE SearchInv'
      OBVIOUS
    <2>1. CASE search' = search
      BY <2>1 DEF SearchInv
    <2> QED
      BY <2>1, SearchSteps, FreshSearchHolds, SearchStepsHold
  <1> QED
    BY <1>1, <1>2, PTL DEF Spec

\* Only a timer adds a request.
LEMMA OnlyTimerAsks ==
    ASSUME SearchInv, [Next]_vars,
           Len(search'.pending) > Len(search.pending)
    PROVE  FireTimer
  <1>1. search.pending \in Seq(Criteria) /\ Len(search.pending) \in Nat
    BY DEF SearchInv
  <1>2. search' # search
    BY <1>1
  <1>3. search' # FreshSearch
    BY <1>1 DEF FreshSearch
  <1>4. ASSUME NEW c \in Criteria, Edit(c)
        PROVE  FALSE
    BY <1>1, <1>4 DEF Edit, SearchInv
  <1>5. ASSUME NEW i \in 1 .. Len(search.pending),
               SearchAnswered(i) \/ SearchRejected(i)
        PROVE  FALSE
    <2>1. Len(Settled(search.pending, i)) = Len(search.pending) - 1
      BY <1>1, <1>5, SettledType
    <2>2. search'.pending = Settled(search.pending, i)
      BY <1>5 DEF SearchAnswered, SearchRejected, SearchInv
    <2> QED
      BY <1>1, <2>1, <2>2
  <1>6. ASSUME NEW i \in 1 .. Len(search.pending), SearchBroken(i)
        PROVE  FALSE
    BY <1>3, <1>6 DEF SearchBroken
  <1>7. CASE ArrowDown \/ ArrowUp \/ Enter
    BY <1>1, <1>7 DEF ArrowDown, ArrowUp, Enter, SearchInv
  <1> QED
    BY <1>2, <1>3, <1>4, <1>5, <1>6, <1>7, SearchSteps
       DEF SearchNext, SearchSettles

\* AsksWhatIsShown, for any criteria and any number of changes.
THEOREM RequestsAskWhatIsShown == Spec => AsksWhatIsShown
  <1>1. SearchInv /\ [Next]_vars =>
            [Len(search'.pending) > Len(search.pending) =>
                search'.pending[Len(search'.pending)] = search.asks]_vars
    <2> SUFFICES ASSUME SearchInv, [Next]_vars,
                        Len(search'.pending) > Len(search.pending)
                 PROVE  search'.pending[Len(search'.pending)] = search.asks
      OBVIOUS
    <2>1. FireTimer
      BY OnlyTimerAsks
    <2>2. search.pending \in Seq(Criteria) /\ search.timer = search.asks
      BY <2>1 DEF FireTimer, SearchInv
    <2>3. search'.pending \in {search.pending,
                               Append(search.pending, search.timer)}
      BY <2>1 DEF FireTimer, SearchInv
    <2>4. search'.pending = Append(search.pending, search.timer)
      BY <2>2, <2>3
    <2> QED
      BY <2>2, <2>4
  <1> QED
    BY <1>1, SearchCorrect, PTL DEF Spec, AsksWhatIsShown

-----------------------------------------------------------------------------
(* Lists of memories.                                                       *)

\* Every set of numbers that is not empty has a least one.
LEMMA LeastNumber ==
    ASSUME NEW T \in SUBSET Nat, T # {}
    PROVE  \E m \in T : \A k \in T : m <= k
<1>1. IsWellFoundedOn({p \in Nat \X Nat : p[1] < p[2]}, Nat)
  BY NatLessThanWellFounded DEF OpToRel
<1>2. PICK m \in T :
         \A k \in T : <<k, m>> \notin {p \in Nat \X Nat : p[1] < p[2]}
  BY <1>1, WFMin
<1>3. ASSUME NEW k \in T
      PROVE  m <= k
  <2>1. k \in Nat /\ m \in Nat
    OBVIOUS
  <2>2. ~(k < m)
    BY <2>1, <1>2
  <2>3. QED
    BY <2>1, <2>2
<1>4. QED
  BY <1>3

Memory == {Mems[k] : k \in DOMAIN Mems}

Ids == {Mems[k].id : k \in DOMAIN Mems}

\* What the constant is made of.
LEMMA Memories ==
    /\ Mems \in Seq(Memory) /\ Len(Mems) \in Nat /\ DOMAIN Mems = 1 .. Len(Mems)
    /\ \A m \in Memory : /\ m.id \in Ids
                         /\ m.source \in {"app", "file", "browser", "email"}
                         /\ m.words \subseteq Query
    /\ None \notin Ids
  <1> DEFINE R == [id : {Mems[k].id : k \in 1 .. Len(Mems)} \ {None},
                   source : {"app", "file", "browser", "email"},
                   age : Nat, words : SUBSET Query]
  <1>1. Mems \in Seq(R)
    BY TauriAssumption
  <1>2. Len(Mems) \in Nat /\ DOMAIN Mems = 1 .. Len(Mems)
    BY <1>1
  <1>3. \A k \in 1 .. Len(Mems) : Mems[k] \in R
    BY <1>1, ElementOfSeq
  <1>4. Mems \in Seq(Memory)
    <2>1. Mems = [k \in 1 .. Len(Mems) |-> Mems[k]]
      BY <1>1
    <2>2. \A k \in 1 .. Len(Mems) : Mems[k] \in Memory
      BY <1>2 DEF Memory
    <2> QED
      BY <2>1, <2>2, <1>2, IsASeq
  <1>5. \A k \in 1 .. Len(Mems) :
            /\ Mems[k].id # None
            /\ Mems[k].source \in {"app", "file", "browser", "email"}
            /\ Mems[k].words \subseteq Query
    BY <1>3
  <1> QED
    BY <1>2, <1>4, <1>5 DEF Memory, Ids

\* The function that Picked chooses is there, for any number of memories.
PicksUpTo(f, places, n) ==
    f = [k \in 0 .. n |-> IF k = 0 THEN <<>>
                          ELSE IF k \in places THEN Append(f[k - 1], Mems[k])
                          ELSE f[k - 1]]

LEMMA PickingIsDefined ==
    ASSUME NEW places, NEW n \in Nat
    PROVE  \E f : PicksUpTo(f, places, n)
  <1> DEFINE T == {m \in Nat : ~\E f : PicksUpTo(f, places, m)}
  <1> SUFFICES ASSUME T # {}
               PROVE  FALSE
    OBVIOUS
  <1>1. PICK m \in T : \A k \in T : m <= k
    <2>1. T \in SUBSET Nat
      OBVIOUS
    <2> HIDE DEF T
    <2> QED
      BY <2>1, LeastNumber
  <1>2. m \in Nat /\ ~\E f : PicksUpTo(f, places, m)
    OBVIOUS
  <1>3. CASE m = 0
    <2>1. PicksUpTo([k \in 0 .. 0 |-> <<>>], places, 0)
      BY DEF PicksUpTo
    <2> QED
      BY <2>1, <1>2, <1>3
  <1>4. CASE m # 0
    <2>1. m - 1 \in Nat /\ m - 1 \notin T
      BY <1>1, <1>2, <1>4
    <2>2. PICK f : PicksUpTo(f, places, m - 1)
      BY <2>1
    <2> DEFINE g == [k \in 0 .. m |->
                        IF k # m THEN f[k]
                        ELSE IF m \in places THEN Append(f[m - 1], Mems[m])
                        ELSE f[m - 1]]
    <2>3. \A k \in 0 .. m - 1 : g[k] = f[k] /\ k \in 0 .. m /\ k # m
      BY <1>2
    <2>4. ASSUME NEW k \in 0 .. m
          PROVE  g[k] = IF k = 0 THEN <<>>
                        ELSE IF k \in places THEN Append(g[k - 1], Mems[k])
                        ELSE g[k - 1]
      <3>1. CASE k = m
        <4>1. k - 1 \in 0 .. m - 1
          BY <3>1, <1>2, <1>4
        <4>2. g[k] = IF m \in places THEN Append(f[m - 1], Mems[m])
                     ELSE f[m - 1]
          BY <3>1
        <4>3. g[k - 1] = f[m - 1]
          BY <3>1, <4>1, <2>3
        <4> QED
          BY <4>2, <4>3, <3>1, <1>4
      <3>2. CASE k # m
        <4>1. k \in 0 .. m - 1 /\ (k # 0 => k - 1 \in 0 .. m - 1)
          BY <3>2, <1>2
        <4>2. f[k] = IF k = 0 THEN <<>>
                     ELSE IF k \in places THEN Append(f[k - 1], Mems[k])
                     ELSE f[k - 1]
          BY <4>1, <2>2 DEF PicksUpTo
        <4>3. g[k] = f[k] /\ (k # 0 => g[k - 1] = f[k - 1])
          BY <4>1, <2>3
        <4> QED
          BY <4>2, <4>3
      <3> QED
        BY <3>1, <3>2
    <2>5. g = [k \in 0 .. m |-> g[k]]
      OBVIOUS
    <2> HIDE DEF g
    <2>6. PicksUpTo(g, places, m)
      BY <2>4, <2>5 DEF PicksUpTo
    <2> QED
      BY <2>6, <1>2
  <1> QED
    BY <1>3, <1>4

\* What is in a list, and what is at some places.
Listed(items) == {items[i] : i \in 1 .. Len(items)}

At(places) == {Mems[k] : k \in places}

\* Picking lists the memories at the given places, and no others.
LEMMA PickedAre ==
    ASSUME NEW places \in SUBSET DOMAIN Mems
    PROVE  /\ Picked(places) \in Seq(Memory)
           /\ Listed(Picked(places)) = At(places)
  <1> DEFINE f == CHOOSE g : PicksUpTo(g, places, Len(Mems))
             Good(k) == /\ f[k] \in Seq(Memory)
                        /\ {f[k][i] : i \in 1 .. Len(f[k])} =
                               {Mems[j] : j \in places \cap 1 .. k}
             T == {k \in 0 .. Len(Mems) : ~Good(k)}
  <1>0. Len(Mems) \in Nat
    BY Memories
  <1>1. PicksUpTo(f, places, Len(Mems))
    <2>1. \E g : PicksUpTo(g, places, Len(Mems))
      BY <1>0, PickingIsDefined
    <2> QED
      BY <2>1, Zenon
  <1>2. Picked(places) = f[Len(Mems)]
    BY Zenon DEF Picked, PicksUpTo
  <1> HIDE DEF f
  <1>3. \A k \in 0 .. Len(Mems) :
            f[k] = IF k = 0 THEN <<>>
                   ELSE IF k \in places THEN Append(f[k - 1], Mems[k])
                   ELSE f[k - 1]
    BY <1>1 DEF PicksUpTo
  <1>4. Good(0)
    <2>1. f[0] = <<>> /\ 0 \in 0 .. Len(Mems)
      BY <1>0, <1>3
    <2>2. 1 .. 0 = {} /\ places \cap 1 .. 0 = {} /\ Len(<<>>) = 0
      OBVIOUS
    <2>3. {f[0][i] : i \in 1 .. Len(f[0])} = {}
      BY <2>1, <2>2
    <2> QED
      BY <2>1, <2>2, <2>3, EmptySeq
  <1>5. ASSUME NEW k \in 1 .. Len(Mems), Good(k - 1)
        PROVE  Good(k)
    <2>1. /\ k \in 0 .. Len(Mems) /\ k # 0 /\ Mems[k] \in Memory
          /\ 1 .. k = (1 .. k - 1) \cup {k}
      BY <1>0, Memories DEF Memory
    <2>2. CASE k \in places
      <3> DEFINE s == f[k - 1]
      <3>1. f[k] = Append(s, Mems[k]) /\ s \in Seq(Memory)
        BY <2>1, <2>2, <1>3, <1>5
      <3>2. {s[i] : i \in 1 .. Len(s)} =
                {Mems[j] : j \in places \cap 1 .. k - 1}
        BY <1>5
      <3> HIDE DEF s
      <3>3. /\ f[k] \in Seq(Memory) /\ Len(f[k]) = Len(s) + 1 /\ Len(s) \in Nat
            /\ f[k][Len(s) + 1] = Mems[k]
            /\ \A i \in 1 .. Len(s) : f[k][i] = s[i]
        BY <2>1, <3>1, AppendProperties, LenProperties
      <3>4. 1 .. Len(f[k]) = (1 .. Len(s)) \cup {Len(s) + 1}
        BY <3>3
      <3>5. {f[k][i] : i \in 1 .. Len(f[k])} =
                {s[i] : i \in 1 .. Len(s)} \cup {Mems[k]}
        BY <3>3, <3>4
      <3>6. places \cap 1 .. k = (places \cap 1 .. k - 1) \cup {k}
        BY <2>1, <2>2
      <3> QED
        BY <3>2, <3>3, <3>5, <3>6
    <2>3. CASE k \notin places
      <3>1. f[k] = f[k - 1]
        BY <2>1, <2>3, <1>3
      <3>2. places \cap 1 .. k = places \cap 1 .. k - 1
        BY <2>1, <2>3
      <3> QED
        BY <3>1, <3>2, <1>5
    <2> QED
      BY <2>2, <2>3
  <1>6. T = {}
    <2> SUFFICES ASSUME T # {}
                 PROVE  FALSE
      OBVIOUS
    <2>1. PICK k \in T : \A j \in T : k <= j
      <3>1. T \in SUBSET Nat
        BY <1>0
      <3> HIDE DEF T
      <3> QED
        BY <3>1, LeastNumber
    <2>2. k # 0 /\ k \in 0 .. Len(Mems) /\ ~Good(k)
      BY <1>4
    <2>3. k \in 1 .. Len(Mems) /\ k - 1 \in 0 .. Len(Mems) /\ ~(k <= k - 1)
      BY <2>2, <1>0
    <2>4. Good(k - 1)
      BY <2>1, <2>3
    <2> QED
      BY <2>2, <2>3, <2>4, <1>5
  <1>7. Good(Len(Mems))
    <2>1. Len(Mems) \in 0 .. Len(Mems)
      BY <1>0
    <2> HIDE DEF Good
    <2> QED
      BY <2>1, <1>6
  <1>8. places \cap 1 .. Len(Mems) = places
    BY Memories
  <1> QED
    BY <1>2, <1>7, <1>8 DEF Listed, At

-----------------------------------------------------------------------------
(* The results, bucket by bucket.                                           *)

\* Four buckets of memories.
Four == {bs \in Seq(Seq(Memory)) : Len(bs) = 4}

\* What is found by a query and a filter.
Found(query, filters) ==
    {k \in DOMAIN Mems : /\ query \in Mems[k].words
                         /\ MatchesFilters(Mems[k], filters)}

\* Those of them that belong in the b-th bucket.
InBucket(query, filters, b) ==
    {k \in Found(query, filters) : Mems[k].source = BucketSource[b]}

\* A search gives four buckets, each with the memories found of its source.
LEMMA SearchGives ==
    ASSUME NEW query, NEW filters
    PROVE  /\ MockSearch(query, filters) \in Four
           /\ \A b \in 1 .. 4 :
                 Listed(MockSearch(query, filters)[b]) =
                     At(InBucket(query, filters, b))
  <1> DEFINE bs == MockSearch(query, filters)
             Of(b) == InBucket(query, filters, b)
  <1>1. DOMAIN BucketSource = 1 .. 4
    BY DEF BucketSource
  <1>2. bs = [b \in 1 .. 4 |-> Picked(Of(b))]
    BY <1>1 DEF MockSearch, Found, InBucket
  <1>3. \A b \in 1 .. 4 :
            /\ Picked(Of(b)) \in Seq(Memory)
            /\ Listed(Picked(Of(b))) = At(Of(b))
    <2> SUFFICES ASSUME NEW b \in 1 .. 4
                 PROVE  Of(b) \in SUBSET DOMAIN Mems
      BY PickedAre
    <2> QED
      BY DEF Found, InBucket
  <1> HIDE DEF bs, Of
  <1>4. \A b \in 1 .. 4 : bs[b] = Picked(Of(b))
    BY <1>2
  <1>5. bs \in Seq(Seq(Memory)) /\ Len(bs) = 4
    <2>1. \A b \in 1 .. 4 : Picked(Of(b)) \in Seq(Memory)
      BY <1>3
    <2>2. [b \in 1 .. 4 |-> Picked(Of(b))] \in Seq(Seq(Memory))
      BY <2>1, IsASeq
    <2>3. Len([b \in 1 .. 4 |-> Picked(Of(b))]) = 4
      OBVIOUS
    <2> QED
      BY <1>2, <2>2, <2>3
  <1>6. bs \in Four
    BY <1>5 DEF Four
  <1>7. \A b \in 1 .. 4 : Listed(bs[b]) = At(Of(b))
    BY <1>3, <1>4
  <1> QED
    BY <1>6, <1>7 DEF bs, Of

\* The parts of four buckets.
LEMMA FourParts ==
    ASSUME NEW bs \in Four
    PROVE  /\ DOMAIN bs = 1 .. 4 /\ Len(bs) = 4 /\ Len(bs) # 0
           /\ \A b \in 1 .. 4 : bs[b] \in Seq(Memory) /\ Len(bs[b]) \in Nat
  <1>1. bs \in Seq(Seq(Memory)) /\ Len(bs) = 4
    BY DEF Four
  <1>2. DOMAIN bs = 1 .. 4
    BY <1>1
  <1>3. \A b \in 1 .. 4 : bs[b] \in Seq(Memory)
    BY <1>1, ElementOfSeq
  <1> QED
    BY <1>1, <1>2, <1>3, LenProperties

\* The list that keys move in joins the four.
LEMMA Joined ==
    ASSUME NEW bs \in Four
    PROVE  FlattenSeq(bs) = ((bs[1] \o bs[2]) \o bs[3]) \o bs[4]
  <1> DEFINE P(f) == f = [i \in 1 .. Len(bs) |->
                             IF i = 1 THEN bs[i] ELSE f[i - 1] \o bs[i]]
             g == [i \in 1 .. 4 |->
                      CASE i = 1 -> bs[1] [] i = 2 -> bs[1] \o bs[2]
                        [] i = 3 -> (bs[1] \o bs[2]) \o bs[3]
                        [] i = 4 -> ((bs[1] \o bs[2]) \o bs[3]) \o bs[4]]
             h == CHOOSE f : P(f)
  <1>1. DOMAIN bs = 1 .. 4 /\ Len(bs) = 4 /\ Len(bs) # 0
    BY FourParts
  <1>2. P(g)
    BY <1>1
  <1>3. P(h)
    BY <1>2, Zenon
  <1>4. FlattenSeq(bs) = h[Len(bs)]
    BY <1>1, Zenon DEF FlattenSeq
  <1>5. h = [i \in 1 .. 4 |-> IF i = 1 THEN bs[i] ELSE h[i - 1] \o bs[i]]
    BY <1>1, <1>3
  <1> HIDE DEF h
  <1>6. \A i \in 1 .. 4 : h[i] = IF i = 1 THEN bs[i] ELSE h[i - 1] \o bs[i]
    BY <1>5
  <1>7. /\ h[1] = bs[1] /\ h[2] = h[1] \o bs[2]
        /\ h[3] = h[2] \o bs[3] /\ h[4] = h[3] \o bs[4]
    <2>1. \A i, j \in 1 .. 4 : i # 1 /\ j = i - 1 => h[i] = h[j] \o bs[i]
      BY <1>6
    <2>2. 1 \in 1 .. 4 /\ 2 \in 1 .. 4 /\ 3 \in 1 .. 4 /\ 4 \in 1 .. 4
      OBVIOUS
    <2>3. h[1] = bs[1]
      BY <1>6, <2>2
    <2>4. 2 # 1 /\ 1 = 2 - 1 /\ 3 # 1 /\ 2 = 3 - 1 /\ 4 # 1 /\ 3 = 4 - 1
      OBVIOUS
    <2>5. h[2] = h[1] \o bs[2]
      BY <2>1, <2>2, <2>4, Zenon
    <2>6. h[3] = h[2] \o bs[3]
      BY <2>1, <2>2, <2>4, Zenon
    <2>7. h[4] = h[3] \o bs[4]
      BY <2>1, <2>2, <2>4, Zenon
    <2> QED
      BY <2>3, <2>5, <2>6, <2>7
  <1> QED
    BY <1>1, <1>4, <1>7

\* Options ahead of the b-th bucket, summed.
Ahead(bs, b) == (IF b > 1 THEN Len(bs[1]) ELSE 0)
                + (IF b > 2 THEN Len(bs[2]) ELSE 0)
                + (IF b > 3 THEN Len(bs[3]) ELSE 0)

LEMMA Summed ==
    ASSUME NEW bs \in Four, NEW b \in 1 .. 4
    PROVE  Before(bs, b) = Ahead(bs, b)
  <1> DEFINE t == SubSeq(bs, 1, b - 1)
             D == DOMAIN t
             L == [i \in 1 .. 3 |-> Len(bs[i])]
             P(f) == f = [s \in SUBSET D |->
                             IF s = {} THEN 0
                             ELSE f[s \ {Max(s)}] + Len(t[Max(s)])]
             g == [s \in SUBSET D |-> (IF 1 \in s THEN L[1] ELSE 0)
                                      + (IF 2 \in s THEN L[2] ELSE 0)
                                      + (IF 3 \in s THEN L[3] ELSE 0)]
             h == CHOOSE f : P(f)
  <1>1. Before(bs, b) = h[D]
    BY Zenon DEF Before, FoldLeft, MapThenFoldSet
  <1>2. /\ D = 1 .. b - 1 /\ D \subseteq 1 .. 3
        /\ \A i \in D : L[i] = Len(t[i]) /\ L[i] \in Nat
    <2>1. bs \in Seq(Seq(Memory)) /\ Len(bs) = 4 /\ b - 1 \in 0 .. 3
      BY DEF Four
    <2>2. /\ t \in Seq(Seq(Memory)) /\ Len(t) = b - 1
          /\ \A i \in 1 .. b - 1 : t[i] = bs[i]
      <3> DEFINE j == b - 1
      <3>1. j \in Int /\ 1 \in Int /\ \A i \in 1 .. j : bs[i] \in Seq(Memory)
        BY <2>1, FourParts
      <3>2. j \in Nat /\ t = SubSeq(bs, 1, j)
        BY <2>1
      <3> HIDE DEF j, t
      <3>3. /\ SubSeq(bs, 1, j) \in Seq(Seq(Memory))
            /\ Len(SubSeq(bs, 1, j)) = IF 1 <= j THEN j - 1 + 1 ELSE 0
            /\ \A i \in 1 .. j - 1 + 1 : SubSeq(bs, 1, j)[i] = bs[1 + i - 1]
        BY <3>1, SubSeqProperties
      <3>4. j - 1 + 1 = j /\ \A i \in 1 .. j : 1 + i - 1 = i
        BY <3>2
      <3>5. /\ Len(t) = j /\ t \in Seq(Seq(Memory))
            /\ \A i \in 1 .. j : t[i] = bs[i]
        BY <3>2, <3>3, <3>4
      <3> QED
        BY <3>5 DEF j
    <2> HIDE DEF t
    <2>3. D = 1 .. b - 1
      BY <2>2
    <2>4. \A i \in 1 .. 3 : L[i] \in Nat
      BY FourParts
    <2>5. D \subseteq 1 .. 3
      BY <2>1, <2>3
    <2> HIDE DEF L
    <2>6. \A i \in 1 .. 3 : L[i] = Len(bs[i])
      BY DEF L
    <2> QED
      BY <2>2, <2>3, <2>4, <2>5, <2>6
  <1> HIDE DEF t, L
  <1>3. ASSUME NEW s \in SUBSET D, s # {}
        PROVE  Max(s) \in s /\ \A i \in s : Max(s) >= i
    <2>1. \E x \in s : \A y \in s : x >= y
      <3>1. s \subseteq {1, 2, 3}
        BY <1>2
      <3>2. CASE 3 \in s
        BY <3>1, <3>2
      <3>3. CASE 3 \notin s /\ 2 \in s
        BY <3>1, <3>3
      <3>4. CASE 3 \notin s /\ 2 \notin s
        BY <3>1, <3>4, <1>3
      <3> QED
        BY <3>2, <3>3, <3>4
    <2> QED
      BY <2>1, Zenon DEF Max
  <1>4. P(g)
    <2> DEFINE G(s) == (IF 1 \in s THEN L[1] ELSE 0)
                       + (IF 2 \in s THEN L[2] ELSE 0)
                       + (IF 3 \in s THEN L[3] ELSE 0)
    <2>1. ASSUME NEW s \in SUBSET D, s # {}
          PROVE  G(s) = G(s \ {Max(s)}) + Len(t[Max(s)])
      <3> DEFINE m == Max(s)
      <3>1. m \in s /\ m \in D /\ Len(t[m]) = L[m] /\ m \in {1, 2, 3}
        BY <1>2, <1>3, <2>1
      <3>2. \A i \in {1, 2, 3} : i \in s => L[i] \in Nat
        BY <1>2
      <3> HIDE DEF m
      <3>3. G(s) = G(s \ {m}) + L[m]
        BY <3>1, <3>2
      <3> QED
        BY <3>1, <3>3 DEF m
    <2>2. G({}) = 0
      OBVIOUS
    <2>3. \A s \in SUBSET D : s \ {Max(s)} \in SUBSET D /\ g[s] = G(s)
      OBVIOUS
    <2> HIDE DEF G
    <2>4. \A s \in SUBSET D : g[s] = IF s = {} THEN 0
                                     ELSE g[s \ {Max(s)}] + Len(t[Max(s)])
      BY <2>1, <2>2, <2>3
    <2>5. g = [s \in SUBSET D |-> g[s]]
      OBVIOUS
    <2> HIDE DEF g
    <2> QED
      BY <2>4, <2>5
  <1>5. P(h)
    BY <1>4, Zenon
  <1> HIDE DEF h
  <1>6. \A s \in SUBSET D : h[s] = IF s = {} THEN 0
                                   ELSE h[s \ {Max(s)}] + Len(t[Max(s)])
    BY <1>5
  <1>7. h[{}] = 0
    BY <1>6
  <1>8. ASSUME NEW k \in 1 .. 3, k < b
        PROVE  h[1 .. k] = h[1 .. k - 1] + L[k]
    <2>1. 1 .. k \in SUBSET D /\ 1 .. k # {} /\ k \in 1 .. k /\ k \in D
      BY <1>2, <1>8
    <2>2. Max(1 .. k) = k
      BY <2>1, <1>3
    <2>3. (1 .. k) \ {k} = 1 .. k - 1
      OBVIOUS
    <2>4. h[1 .. k] = h[(1 .. k) \ {k}] + Len(t[k])
      BY <2>1, <2>2, <1>6
    <2> QED
      BY <2>1, <2>3, <2>4, <1>2
  <1>9. 1 .. 0 = {} /\ \A i \in 1 .. 3 : L[i] = Len(bs[i]) /\ Len(bs[i]) \in Nat
    BY FourParts DEF L
  <1>10. /\ b > 1 => h[1 .. 1] = h[{}] + L[1]
         /\ b > 2 => h[1 .. 2] = h[1 .. 1] + L[2]
         /\ b > 3 => h[1 .. 3] = h[1 .. 2] + L[3]
    <2>1. 1 - 1 = 0 /\ 2 - 1 = 1 /\ 3 - 1 = 2 /\ 1 .. 0 = {}
      OBVIOUS
    <2>2. 1 \in 1 .. 3 /\ 2 \in 1 .. 3 /\ 3 \in 1 .. 3
      OBVIOUS
    <2>3. b > 1 => h[1 .. 1] = h[1 .. 1 - 1] + L[1]
      BY <2>2, <1>8
    <2>4. b > 2 => h[1 .. 2] = h[1 .. 2 - 1] + L[2]
      BY <2>2, <1>8
    <2>5. b > 3 => h[1 .. 3] = h[1 .. 3 - 1] + L[3]
      BY <2>2, <1>8
    <2> QED
      BY <2>1, <2>3, <2>4, <2>5
  <1>11. /\ b = 1 => D = {}
         /\ b = 2 => D = 1 .. 1
         /\ b = 3 => D = 1 .. 2
         /\ b = 4 => D = 1 .. 3
    BY <1>2
  <1>12. /\ b > 1 => h[1 .. 1] = Len(bs[1])
         /\ b > 2 => h[1 .. 2] = Len(bs[1]) + Len(bs[2])
         /\ b > 3 => h[1 .. 3] = Len(bs[1]) + Len(bs[2]) + Len(bs[3])
    <2> DEFINE a == h[{}]
               x == h[1 .. 1]
               y == h[1 .. 2]
               z == h[1 .. 3]
    <2>1. /\ a = 0 /\ (b > 1 => x = a + L[1])
          /\ (b > 2 => y = x + L[2]) /\ (b > 3 => z = y + L[3])
      BY <1>7, <1>10
    <2>2. /\ L[1] = Len(bs[1]) /\ L[2] = Len(bs[2]) /\ L[3] = Len(bs[3])
          /\ L[1] \in Nat /\ L[2] \in Nat /\ L[3] \in Nat
      BY <1>9
    <2> HIDE DEF a, x, y, z
    <2> DEFINE p == L[1]
               q == L[2]
               r == L[3]
    <2>3. b \in Nat /\ (b > 2 => b > 1) /\ (b > 3 => b > 2)
      OBVIOUS
    <2>4. p \in Nat /\ q \in Nat /\ r \in Nat
      BY <2>2
    <2>5. b > 1 => x = p
      BY <2>1, <2>4
    <2>6. b > 2 => y = p + q
      BY <2>1, <2>3, <2>4, <2>5
    <2>7. b > 3 => z = p + q + r
      BY <2>1, <2>3, <2>4, <2>6
    <2> QED
      BY <2>2, <2>5, <2>6, <2>7 DEF x, y, z
  <1> QED
    <2>1. CASE b = 1
      BY <2>1, <1>1, <1>7, <1>11 DEF Ahead
    <2>2. CASE b = 2
      BY <2>2, <1>1, <1>7, <1>9, <1>10, <1>11 DEF Ahead
    <2>3. CASE b = 3
      <3>1. h[D] = h[1 .. 2]
        BY <2>3, <1>11
      <3>2. h[1 .. 2] = Len(bs[1]) + Len(bs[2])
        <4>1. b > 2
          BY <2>3
        <4> QED
          BY <4>1, <1>12, Zenon
      <3>3. Ahead(bs, b) = Len(bs[1]) + Len(bs[2])
        BY <2>3, <1>9 DEF Ahead
      <3> QED
        BY <3>1, <3>2, <3>3, <1>1
    <2>4. CASE b = 4
      <3>1. h[D] = h[1 .. 3]
        BY <2>4, <1>11
      <3>2. h[1 .. 3] = Len(bs[1]) + Len(bs[2]) + Len(bs[3])
        <4>1. b > 3
          BY <2>4
        <4> QED
          BY <4>1, <1>12, Zenon
      <3>3. Ahead(bs, b) = Len(bs[1]) + Len(bs[2]) + Len(bs[3])
        BY <2>4, <1>9 DEF Ahead
      <3> QED
        BY <3>1, <3>2, <3>3, <1>1
    <2> QED
      BY <2>1, <2>2, <2>3, <2>4

\* One list after another: each element of the two has its place.
Joins(u, s, t) ==
    /\ Len(s) \in Nat /\ Len(t) \in Nat /\ Len(u) = Len(s) + Len(t)
    /\ \A k \in 1 .. Len(s) : k \in 1 .. Len(u) /\ u[k] = s[k]
    /\ \A k \in 1 .. Len(t) : /\ Len(s) + k \in 1 .. Len(u)
                              /\ u[Len(s) + k] = t[k]
    /\ \A n \in 1 .. Len(u) : \/ n \in 1 .. Len(s)
                              \/ \E k \in 1 .. Len(t) : n = Len(s) + k

\* Concatenation does that.
LEMMA ConcatAt ==
    ASSUME NEW S, NEW s \in Seq(S), NEW t \in Seq(S)
    PROVE  s \o t \in Seq(S) /\ Joins(s \o t, s, t)
  <1> DEFINE u == s \o t
  <1>1. Len(s) \in Nat /\ Len(t) \in Nat
    BY LenProperties
  <1>2. /\ u \in Seq(S) /\ Len(u) = Len(s) + Len(t)
        /\ \A i \in 1 .. Len(s) + Len(t) :
              u[i] = IF i <= Len(s) THEN s[i] ELSE t[i - Len(s)]
    BY ConcatProperties
  <1> HIDE DEF u
  <1>3. ASSUME NEW k \in 1 .. Len(s)
        PROVE  k \in 1 .. Len(u) /\ u[k] = s[k]
    BY <1>1, <1>2
  <1>4. ASSUME NEW k \in 1 .. Len(t)
        PROVE  Len(s) + k \in 1 .. Len(u) /\ u[Len(s) + k] = t[k]
    <2>1. /\ Len(s) + k \in 1 .. Len(s) + Len(t) /\ ~(Len(s) + k <= Len(s))
          /\ Len(s) + k - Len(s) = k
      BY <1>1
    <2> QED
      BY <2>1, <1>2
  <1>5. ASSUME NEW n \in 1 .. Len(u), n \notin 1 .. Len(s)
        PROVE  \E k \in 1 .. Len(t) : n = Len(s) + k
    <2>1. n - Len(s) \in 1 .. Len(t) /\ n = Len(s) + (n - Len(s))
      BY <1>1, <1>2, <1>5
    <2> QED
      BY <2>1
  <1> QED
    BY <1>1, <1>2, <1>3, <1>4, <1>5 DEF u, Joins

\* Each option keeps its place in the joined list, and has a place of its own.
LEMMA JoinedAt ==
    ASSUME NEW bs \in Four
    PROVE  /\ FlattenSeq(bs) \in Seq(Memory)
           /\ \A b \in 1 .. 4 : \A k \in 1 .. Len(bs[b]) :
                 /\ Ahead(bs, b) + k \in 1 .. Len(FlattenSeq(bs))
                 /\ FlattenSeq(bs)[Ahead(bs, b) + k] = bs[b][k]
           /\ \A n \in 1 .. Len(FlattenSeq(bs)) :
                 \E b \in 1 .. 4 : \E k \in 1 .. Len(bs[b]) :
                    n = Ahead(bs, b) + k
  <1> DEFINE p == bs[1]
             q == bs[2]
             r == bs[3]
             t == bs[4]
             pq == p \o q
             pqr == pq \o r
             all == pqr \o t
  <1>1. /\ p \in Seq(Memory) /\ q \in Seq(Memory)
        /\ r \in Seq(Memory) /\ t \in Seq(Memory)
        /\ Len(p) \in Nat /\ Len(q) \in Nat /\ Len(r) \in Nat /\ Len(t) \in Nat
    BY FourParts
  <1>2. FlattenSeq(bs) = all
    BY Joined
  <1>a. bs[1] = p /\ bs[2] = q /\ bs[3] = r /\ bs[4] = t
    OBVIOUS
  <1> HIDE DEF p, q, r, t
  <1>4. pq \in Seq(Memory) /\ Joins(pq, p, q)
    BY <1>1, ConcatAt
  <1> HIDE DEF pq
  <1>5. pqr \in Seq(Memory) /\ Joins(pqr, pq, r)
    BY <1>1, <1>4, ConcatAt
  <1> HIDE DEF pqr
  <1>6. all \in Seq(Memory) /\ Joins(all, pqr, t)
    BY <1>1, <1>5, ConcatAt
  <1> HIDE DEF all
  <1>3. /\ Ahead(bs, 1) = 0 /\ Ahead(bs, 2) = Len(p)
        /\ Ahead(bs, 3) = Len(pq) /\ Ahead(bs, 4) = Len(pqr)
    <2>1. Ahead(bs, 1) = 0 + 0 + 0 /\ Ahead(bs, 2) = Len(p) + 0 + 0
      BY <1>a DEF Ahead
    <2>2. /\ Ahead(bs, 3) = Len(p) + Len(q) + 0
          /\ Ahead(bs, 4) = Len(p) + Len(q) + Len(r)
      BY <1>a DEF Ahead
    <2> QED
      BY <2>1, <2>2, <1>1, <1>4, <1>5 DEF Joins
  <1>8. ASSUME NEW b \in 1 .. 4, NEW k \in 1 .. Len(bs[b])
        PROVE  /\ Ahead(bs, b) + k \in 1 .. Len(all)
               /\ all[Ahead(bs, b) + k] = bs[b][k]
    <2>0. k \in Nat
      OBVIOUS
    <2>1. CASE b = 1
      <3>1. k \in 1 .. Len(p) /\ Ahead(bs, b) + k = k
        BY <2>0, <2>1, <1>3, <1>a
      <3>2. k \in 1 .. Len(all) /\ all[k] = p[k]
        BY <3>1, <1>4, <1>5, <1>6, Zenon DEF Joins
      <3> QED
        BY <2>1, <3>1, <3>2, <1>a
    <2>2. CASE b = 2
      <3>1. k \in 1 .. Len(q) /\ Ahead(bs, b) = Len(p)
        BY <2>2, <1>3, <1>a
      <3>2. Len(p) + k \in 1 .. Len(all) /\ all[Len(p) + k] = q[k]
        BY <3>1, <1>4, <1>5, <1>6, Zenon DEF Joins
      <3>3. bs[b] = q
        BY <2>2, <1>a
      <3> QED
        BY <3>1, <3>2, <3>3, Zenon
    <2>3. CASE b = 3
      <3>1. k \in 1 .. Len(r) /\ Ahead(bs, b) = Len(pq)
        BY <2>3, <1>3, <1>a
      <3>2. Len(pq) + k \in 1 .. Len(all) /\ all[Len(pq) + k] = r[k]
        BY <3>1, <1>5, <1>6, Zenon DEF Joins
      <3>3. bs[b] = r
        BY <2>3, <1>a
      <3> QED
        BY <3>1, <3>2, <3>3, Zenon
    <2>4. CASE b = 4
      <3>1. k \in 1 .. Len(t) /\ Ahead(bs, b) = Len(pqr)
        BY <2>4, <1>3, <1>a
      <3>2. Len(pqr) + k \in 1 .. Len(all) /\ all[Len(pqr) + k] = t[k]
        BY <3>1, <1>6, Zenon DEF Joins
      <3>3. bs[b] = t
        BY <2>4, <1>a
      <3> QED
        BY <3>1, <3>2, <3>3, Zenon
    <2> QED
      BY <2>1, <2>2, <2>3, <2>4
  <1>9. ASSUME NEW n \in 1 .. Len(all)
        PROVE  \E b \in 1 .. 4 : \E k \in 1 .. Len(bs[b]) : n = Ahead(bs, b) + k
    <2>0. 1 \in 1 .. 4 /\ 2 \in 1 .. 4 /\ 3 \in 1 .. 4 /\ 4 \in 1 .. 4
      OBVIOUS
    <2>1. ASSUME NEW k \in 1 .. Len(t), n = Len(pqr) + k
          PROVE  \E x \in 1 .. Len(bs[4]) : n = Ahead(bs, 4) + x
      BY <2>1, <1>3, <1>a
    <2>2. ASSUME NEW k \in 1 .. Len(r), n = Len(pq) + k
          PROVE  \E x \in 1 .. Len(bs[3]) : n = Ahead(bs, 3) + x
      BY <2>2, <1>3, <1>a
    <2>3. ASSUME NEW k \in 1 .. Len(q), n = Len(p) + k
          PROVE  \E x \in 1 .. Len(bs[2]) : n = Ahead(bs, 2) + x
      BY <2>3, <1>3, <1>a
    <2>4. ASSUME n \in 1 .. Len(p)
          PROVE  \E x \in 1 .. Len(bs[1]) : n = Ahead(bs, 1) + x
      <3>1. n = Ahead(bs, 1) + n
        BY <1>3, <2>4
      <3> QED
        BY <3>1, <2>4, <1>a
    <2> QED
      BY <2>0, <2>1, <2>2, <2>3, <2>4, <1>4, <1>5, <1>6, Zenon DEF Joins
  <1> QED
    BY <1>2, <1>6, <1>8, <1>9

\* What an answer shows, as a list.
LEMMA FlatIs ==
    ASSUME NEW answer
    PROVE  /\ Flat(answer) \in Seq(Memory) /\ Len(Flat(answer)) \in Nat
           /\ Flat(answer) # <<>> => Buckets(answer) \in Four
  <1>1. CASE answer = None
    <2>1. Flat(answer) = FlattenSeq(<<>>)
      BY <1>1 DEF Flat, Buckets
    <2>2. FlattenSeq(<<>>) = <<>>
      BY Zenon, EmptySeq DEF FlattenSeq
    <2>3. <<>> \in Seq(Memory) /\ Len(<<>>) = 0
      BY EmptySeq
    <2>4. Flat(answer) = <<>>
      BY <2>1, <2>2
    <2> QED
      BY <2>3, <2>4
  <1>2. CASE answer # None
    <2>1. Buckets(answer) \in Four
      BY <1>2, SearchGives DEF Buckets
    <2>2. Flat(answer) \in Seq(Memory)
      BY <2>1, JoinedAt DEF Flat
    <2> QED
      BY <2>1, <2>2, LenProperties
  <1> QED
    BY <1>1, <1>2

-----------------------------------------------------------------------------
(* The keys of the search page.                                             *)

\* Lists count from one, the index from zero.
LEMMA Shifted ==
    ASSUME NEW a \in Nat, NEW k \in Nat, NEW n \in Nat
    PROVE  a + k - 1 = n <=> a + k = n + 1
  OBVIOUS

\* Enter opens the option drawn as active, and no other one is.
LEMMA EnterOpens ==
    ASSUME search.activeIndex \in Nat, Enter
    PROVE  hash' \in Ids /\ Highlighted = {hash'}
  <1> DEFINE bs == Buckets(search.answer)
             flat == Flat(search.answer)
             x == search.activeIndex
  <1>1. /\ flat \in Seq(Memory) /\ Len(flat) \in Nat /\ x \in Nat
        /\ x + 1 \in 1 .. Len(flat) /\ hash' = flat[x + 1].id
    BY FlatIs DEF Enter
  <1>2. /\ flat # <<>> => bs \in Four
        /\ flat = FlattenSeq(bs)
    BY FlatIs DEF Flat
  <1> DEFINE Drawn(c) == {bs[c][j].id : j \in {j \in DOMAIN bs[c] :
                              Before(bs, c) + j - 1 = x}}
  <1>3. Highlighted = UNION {Drawn(c) : c \in DOMAIN bs}
    BY DEF Highlighted
  <1>5. hash' \in Ids
    <2>1. flat[x + 1] \in Memory
      BY <1>1, ElementOfSeq
    <2> QED
      BY <1>1, <2>1, Memories
  <1> HIDE DEF bs, flat, x
  <1>4. bs \in Four
    <2>1. Len(<<>>) = 0 /\ Len(flat) # 0
      BY <1>1
    <2> QED
      BY <2>1, <1>2
  <1>6. /\ DOMAIN bs = 1 .. 4
        /\ \A c \in 1 .. 4 : /\ DOMAIN bs[c] = 1 .. Len(bs[c])
                             /\ Before(bs, c) = Ahead(bs, c)
                             /\ Ahead(bs, c) \in Nat
    <2>1. \A c \in 1 .. 4 : DOMAIN bs[c] = 1 .. Len(bs[c]) /\ Len(bs[c]) \in Nat
      BY <1>4, FourParts
    <2>2. ASSUME NEW c \in 1 .. 4
          PROVE  Ahead(bs, c) \in Nat
      <3>1. Len(bs[1]) \in Nat /\ Len(bs[2]) \in Nat /\ Len(bs[3]) \in Nat
        BY <2>1
      <3> DEFINE p == IF c > 1 THEN Len(bs[1]) ELSE 0
                 q == IF c > 2 THEN Len(bs[2]) ELSE 0
                 r == IF c > 3 THEN Len(bs[3]) ELSE 0
      <3>2. p \in Nat /\ q \in Nat /\ r \in Nat
        BY <3>1
      <3>3. Ahead(bs, c) = p + q + r
        BY Zenon DEF Ahead
      <3> HIDE DEF p, q, r
      <3> QED
        BY <3>2, <3>3
    <2> QED
      BY <1>4, <2>1, <2>2, FourParts, Summed
  <1>7. ASSUME NEW c \in 1 .. 4, NEW j \in 1 .. Len(bs[c]),
               Before(bs, c) + j - 1 = x
        PROVE  bs[c][j].id = hash'
    <2>1. Ahead(bs, c) + j = x + 1
      <3>1. Before(bs, c) = Ahead(bs, c) /\ Ahead(bs, c) \in Nat
        BY <1>6, Zenon
      <3>2. j \in Nat /\ x \in Nat
        BY <1>1
      <3>3. Ahead(bs, c) + j - 1 = x
        BY <1>7, <3>1, Zenon
      <3> QED
        BY <3>1, <3>2, <3>3, Shifted
    <2>2. FlattenSeq(bs)[Ahead(bs, c) + j] = bs[c][j]
      BY <1>4, JoinedAt
    <2> QED
      BY <1>1, <1>2, <2>1, <2>2
  <1>8. PICK b \in 1 .. 4 : \E k \in 1 .. Len(bs[b]) : x + 1 = Ahead(bs, b) + k
    BY <1>1, <1>2, <1>4, JoinedAt
  <1>9. PICK k \in 1 .. Len(bs[b]) : x + 1 = Ahead(bs, b) + k
    BY <1>8
  <1>10. Before(bs, b) + k - 1 = x
    <2>1. Before(bs, b) = Ahead(bs, b) /\ Before(bs, b) \in Nat
      BY <1>6, Zenon
    <2>2. k \in Nat /\ x \in Nat
      BY <1>1
    <2>3. Before(bs, b) + k = x + 1
      BY <1>9, <2>1, Zenon
    <2> QED
      BY <2>1, <2>2, <2>3, Shifted
  <1>11. b \in DOMAIN bs /\ k \in DOMAIN bs[b] /\ bs[b][k].id = hash'
    BY <1>6, <1>7, <1>10
  <1>12. hash' \in Drawn(b)
    BY <1>10, <1>11
  <1>13. \A c \in DOMAIN bs : \A h \in Drawn(c) : h = hash'
    BY <1>6, <1>7
  <1> HIDE DEF Drawn
  <1> QED
    BY <1>3, <1>5, <1>11, <1>12, <1>13

\* The state of a page that was just mounted is typed.
LEMMA FreshSearchType ==
    /\ search = FreshSearch => SearchTypeOK
    /\ search' = FreshSearch => SearchTypeOK'
  <1> DEFINE start == [query |-> Blank, source |-> "all", range |-> "all"]
  <1>1. start \in Criteria /\ 0 \in 0 .. MaxEdits /\ 0 \in Nat
    BY SearchAssumption DEF Criteria
  <1>2. /\ FreshSearch = [asks |-> start, timer |-> start, pending |-> <<>>,
                          answer |-> None, activeIndex |-> 0, alone |-> TRUE,
                          edits |-> 0]
        /\ <<>> \in Seq(Criteria)
    BY DEF FreshSearch
  <1> HIDE DEF start
  <1>3. FreshSearch \in [asks : Criteria, timer : Criteria \cup {None},
                         pending : Seq(Criteria), answer : Criteria \cup {None},
                         activeIndex : Nat, alone : BOOLEAN,
                         edits : 0 .. MaxEdits]
    BY <1>1, <1>2
  <1> QED
    BY <1>3 DEF SearchTypeOK

\* Every handler of the search page keeps its state typed: the highlighted
\* index, above all, is never negative.
LEMMA SearchStepsType ==
    ASSUME SearchTypeOK, SearchNext
    PROVE  SearchTypeOK'
  <1>1. /\ search.asks \in Criteria /\ search.timer \in Criteria \cup {None}
        /\ search.pending \in Seq(Criteria)
        /\ search.answer \in Criteria \cup {None}
        /\ search.activeIndex \in Nat /\ search.alone \in BOOLEAN
        /\ search.edits \in 0 .. MaxEdits /\ MaxEdits \in Nat
    BY SearchAssumption DEF SearchTypeOK
  <1>2. ASSUME NEW c \in Criteria, Edit(c)
        PROVE  SearchTypeOK'
    <2>1. search.edits + 1 \in 0 .. MaxEdits
      BY <1>1, <1>2 DEF Edit
    <2> QED
      BY <1>1, <1>2, <2>1 DEF Edit, Rearmed, SearchTypeOK
  <1>3. CASE FireTimer
    <2>1. search.timer \in Criteria
      BY <1>1, <1>3 DEF FireTimer
    <2>2. Append(search.pending, search.timer) \in Seq(Criteria)
      BY <1>1, <2>1
    <2> QED
      BY <1>1, <1>3, <2>2 DEF FireTimer, Cleared, SearchTypeOK
  <1>4. ASSUME NEW i \in 1 .. Len(search.pending)
        PROVE  /\ Settled(search.pending, i) \in Seq(Criteria)
               /\ search.pending[i] \in Criteria
    BY <1>1, <1>4, SettledType
  <1>5. ASSUME NEW i \in 1 .. Len(search.pending),
               SearchAnswered(i) \/ SearchRejected(i)
        PROVE  SearchTypeOK'
    BY <1>1, <1>4, <1>5 DEF SearchAnswered, SearchRejected, SearchTypeOK
  <1>6. ASSUME NEW i \in 1 .. Len(search.pending), SearchBroken(i)
        PROVE  SearchTypeOK'
    BY <1>6, FreshSearchType DEF SearchBroken
  <1>7. CASE ArrowDown
    <2>1. Len(Flat(search.answer)) \in Nat /\ Len(Flat(search.answer)) # 0
      BY <1>7, FlatIs, EmptySeq DEF ArrowDown, ShowsResults
    <2>2. Below(search.activeIndex) \in Nat
      BY <1>1, <2>1 DEF Below
    <2> QED
      BY <1>1, <1>7, <2>2 DEF ArrowDown, SearchTypeOK
  <1>8. CASE ArrowUp
    <2>1. Above(search.activeIndex) \in Nat
      BY <1>1 DEF Above
    <2> QED
      BY <1>1, <1>8, <2>1 DEF ArrowUp, SearchTypeOK
  <1>9. CASE Enter
    BY <1>9 DEF Enter, SearchTypeOK
  <1> QED
    BY <1>2, <1>3, <1>5, <1>6, <1>7, <1>8, <1>9 DEF SearchNext, SearchSettles

-----------------------------------------------------------------------------
(* The settings page.                                                       *)

\* The state of a page that was just mounted is typed.
LEMMA FreshSettingsType ==
    /\ settings = FreshSettings => SettingsTypeOK
    /\ settings' = FreshSettings => SettingsTypeOK'
  <1>1. NoExclusion \in Exclusion
    BY DEF NoExclusion, Exclusion
  <1>2. <<>> \in Seq([process : Process, glob : Glob])
    OBVIOUS
  <1>3. FreshSettings \in [changed : SUBSET Preference,
                  exclusions : Seq([process : Process, glob : Glob]),
                  pendingEx : Exclusion, confirmPurge : Confirmation,
                  source : PurgeSource, range : PurgeRange,
                  purged : {None} \cup [source : PurgeSource \cup {None},
                                        start : {1, 7, 30, None}]]
    BY <1>1, <1>2, SettingsAssumption DEF FreshSettings, Confirmation
  <1> QED
    BY <1>3 DEF SettingsTypeOK

\* Every handler of the settings page keeps its state typed: no exclusion has
\* an empty part.
LEMMA SettingsStepsType ==
    ASSUME SettingsTypeOK, SettingsNext
    PROVE  SettingsTypeOK'
  <1> DEFINE X == [process : Process, glob : Glob]
             P == {None} \cup [source : PurgeSource \cup {None},
                               start : {1, 7, 30, None}]
  <1>1. /\ settings.changed \in SUBSET Preference
        /\ settings.exclusions \in Seq(X) /\ settings.pendingEx \in Exclusion
        /\ settings.source \in PurgeSource /\ settings.range \in PurgeRange
    BY DEF SettingsTypeOK
  <1>2. ASSUME NEW p \in Preference, ChangePreference(p)
        PROVE  SettingsTypeOK'
    <2>1. Toggled(settings.changed, p) \in SUBSET Preference
      BY <1>1 DEF Toggled
    <2> QED
      BY <1>2, <2>1 DEF ChangePreference, SettingsTypeOK
  <1>3. ASSUME NEW ex \in Exclusion, EditExclusion(ex)
        PROVE  SettingsTypeOK'
    BY <1>3 DEF EditExclusion, SettingsTypeOK
  <1>4. CASE AddExclusion
    <2>1. settings.pendingEx \in X
      BY <1>1, <1>4 DEF AddExclusion, Exclusion
    <2> HIDE DEF X
    <2>2. Append(settings.exclusions, settings.pendingEx) \in Seq(X)
      BY <1>1, <2>1
    <2>3. NoExclusion \in Exclusion
      BY DEF NoExclusion, Exclusion
    <2> QED
      BY <1>4, <2>2, <2>3 DEF AddExclusion, SettingsTypeOK, X
  <1>5. ASSUME NEW k \in 1 .. Len(settings.exclusions), DeleteExclusion(k)
        PROVE  SettingsTypeOK'
    <2>1. Settled(settings.exclusions, k) \in Seq(X)
      BY <1>1, <1>5, SettledType DEF DeleteExclusion
    <2> QED
      BY <1>5, <2>1 DEF DeleteExclusion, SettingsTypeOK
  <1>6. ASSUME NEW text \in Confirmation, ConfirmText(text)
        PROVE  SettingsTypeOK'
    BY <1>6 DEF ConfirmText, SettingsTypeOK
  <1>7. ASSUME NEW source \in PurgeSource, NEW range \in PurgeRange,
               SelectPurge(source, range)
        PROVE  SettingsTypeOK'
    BY <1>7 DEF SelectPurge, SettingsTypeOK
  <1>8. ASSUME NEW purged \in P,
               settings' = [settings EXCEPT !.purged = purged]
        PROVE  SettingsTypeOK'
    BY <1>8 DEF SettingsTypeOK
  <1>9. CASE PurgeAll
    <2>1. [source |-> None, start |-> None] \in P
      OBVIOUS
    <2> QED
      BY <1>8, <1>9, <2>1 DEF PurgeAll
  <1>10. CASE ApplyPurge
    <2> DEFINE source == IF settings.source = "all" THEN None
                         ELSE settings.source
    <2>1. PurgeStart(settings.range) \in {1, 7, 30, None}
      BY DEF PurgeStart
    <2>2. source \in PurgeSource \cup {None}
      BY <1>1
    <2> HIDE DEF source
    <2>3. [source |-> source, start |-> PurgeStart(settings.range)] \in P
      BY <2>1, <2>2
    <2> QED
      BY <1>8, <1>10, <2>3 DEF ApplyPurge, source
  <1> QED
    BY <1>2, <1>3, <1>4, <1>5, <1>6, <1>7, <1>9, <1>10 DEF SettingsNext

-----------------------------------------------------------------------------
(* The window.                                                              *)

\* The pages' states are typed, what was opened exists, and a page that is
\* not mounted has no state.
WindowInv ==
    /\ alive \in BOOLEAN
    /\ hash \in {None} \cup Doc \cup Ids
    /\ route \in Route
    /\ SearchTypeOK /\ SettingsTypeOK
    /\ timeline \in [items : {<<>>, Mems}, loading : BOOLEAN,
                     expanded : SUBSET Ids]
    /\ route # "/search" => search = FreshSearch
    /\ route # "/copilot" => chat = FreshChat
    /\ route # "/settings" => settings = FreshSettings
    /\ route # "/timeline" => timeline = FreshTimeline

\* The timeline starts empty.
LEMMA FreshTimelineType ==
    FreshTimeline \in [items : {<<>>, Mems}, loading : BOOLEAN,
                       expanded : SUBSET Ids]
  BY DEF FreshTimeline

\* A window in which every page has just been mounted.
LEMMA FreshWindow ==
    ASSUME WindowInv, Unmount, alive' \in BOOLEAN,
           hash' \in {None} \cup Doc \cup Ids, route' \in Route
    PROVE  WindowInv'
  BY FreshSearchType, FreshSettingsType, FreshTimelineType
     DEF WindowInv, Unmount

\* Going to a path, with the page that is left or with the same one.
LEMMA NavigateTyped ==
    ASSUME WindowInv, NEW path \in Route, Navigate(path), alive' = alive
    PROVE  WindowInv'
  <1>1. CASE path = route
    BY <1>1 DEF Navigate, WindowInv, page_vars, SearchTypeOK, SettingsTypeOK
  <1>2. CASE path # route
    BY <1>2, FreshWindow DEF Navigate, WindowInv
  <1> QED
    BY <1>1, <1>2

\* What the timeline lists has ids.
LEMMA TimelineTyped ==
    ASSUME WindowInv, OnTimeline
    PROVE  WindowInv'
  <1> DEFINE T == [items : {<<>>, Mems}, loading : BOOLEAN,
                   expanded : SUBSET Ids]
  <1>1. timeline \in T /\ route = "/timeline" /\ alive \in BOOLEAN
    BY DEF WindowInv, OnTimeline
  <1>2. UNCHANGED <<alive, hash, search, chat, settings, route>>
    BY DEF OnTimeline, Stays
  <1>3. timeline' \in T
    <2>1. CASE MemoriesLoaded
      BY <1>1, <2>1 DEF MemoriesLoaded
    <2>2. CASE LoadFails
      BY <1>1, <2>2 DEF LoadFails
    <2>3. ASSUME NEW k \in DOMAIN timeline.items,
                 ToggleExpanded(timeline.items[k])
          PROVE  timeline' \in T
      <3>1. timeline.items = Mems
        BY <1>1
      <3>2. Mems[k].id \in Ids
        BY <3>1 DEF Ids
      <3>3. Toggled(timeline.expanded, Mems[k].id) \in SUBSET Ids
        BY <1>1, <3>2 DEF Toggled
      <3> QED
        BY <1>1, <2>3, <3>1, <3>3 DEF ToggleExpanded
    <2> QED
      BY <2>1, <2>2, <2>3 DEF OnTimeline, TimelineNext
  <1> QED
    BY <1>1, <1>2, <1>3 DEF WindowInv, SearchTypeOK, SettingsTypeOK

\* A handler of the search page may open a memory, or bring the window down.
LEMMA SearchTyped ==
    ASSUME WindowInv, OnSearch
    PROVE  WindowInv'
  <1>1. /\ SearchTypeOK /\ SearchNext /\ route = "/search" /\ route' = route
        /\ UNCHANGED <<chat, settings, timeline>>
    BY DEF WindowInv, OnSearch, Stays
  <1>2. SearchTypeOK'
    BY <1>1, SearchStepsType
  <1>3. \/ alive' = alive /\ hash' = hash
        \/ alive' = FALSE /\ hash' = hash
        \/ alive' = alive /\ Enter
    BY <1>1 DEF SearchNext, Edit, FireTimer, SearchSettles, SearchAnswered,
                SearchRejected, SearchBroken, ArrowDown, ArrowUp, Enter
  <1>4. alive' \in BOOLEAN /\ hash' \in {None} \cup Doc \cup Ids
    <2>1. search.activeIndex \in Nat
      BY <1>1 DEF SearchTypeOK
    <2> QED
      BY <1>3, <2>1, EnterOpens DEF WindowInv
  <1> QED
    BY <1>1, <1>2, <1>4 DEF WindowInv, SettingsTypeOK

\* A handler of the copilot page may open a source, or bring the window down.
LEMMA CopilotTyped ==
    ASSUME WindowInv, OnCopilot
    PROVE  WindowInv'
  <1>1. /\ ChatNext /\ route = "/copilot" /\ route' = route
        /\ UNCHANGED <<search, settings, timeline>>
    BY DEF OnCopilot, Stays
  <1>2. /\ alive' \in {alive, FALSE}
        /\ hash' \in {hash} \cup Doc
    BY <1>1 DEF ChatNext, ChangeInput, SendQuestion, ChatSettles, ChatAnswered,
                ChatRejected, ChatBroken, OpenSource
  <1> QED
    BY <1>1, <1>2 DEF WindowInv, SearchTypeOK, SettingsTypeOK

\* A handler of the settings page touches nothing else.
LEMMA SettingsTyped ==
    ASSUME WindowInv, OnSettings
    PROVE  WindowInv'
  <1>1. /\ SettingsTypeOK /\ SettingsNext
        /\ route = "/settings" /\ route' = route
        /\ UNCHANGED <<alive, hash, search, chat, timeline>>
    BY DEF WindowInv, OnSettings, Stays
  <1>2. SettingsTypeOK'
    BY <1>1, SettingsStepsType
  <1> QED
    BY <1>1, <1>2 DEF WindowInv, SearchTypeOK

\* The pages are typed, one of them mounted, through any steps.
THEOREM WindowCorrect == Spec => []WindowInv
  <1>1. Init => WindowInv
    BY FreshSearchType, FreshSettingsType, FreshTimelineType
       DEF Init, TauriInit, WindowInv, Route, NavItem
  <1>2. WindowInv /\ [Next]_vars => WindowInv'
    <2> SUFFICES ASSUME WindowInv, [Next]_vars PROVE WindowInv'
      OBVIOUS
    <2>1. CASE Leave
      BY <2>1, NavigateTyped
         DEF Leave, FollowLink, PressDot, OpenMemory, Route, NavItem
    <2>2. CASE Reload
      BY <2>2, FreshWindow DEF Reload, WindowInv
    <2>3. CASE Capturing \/ UNCHANGED vars
      BY <2>3 DEF Capturing, vars, page_vars, WindowInv, SearchTypeOK,
                  SettingsTypeOK
    <2> QED
      BY <2>1, <2>2, <2>3, TimelineTyped, SearchTyped, CopilotTyped,
         SettingsTyped DEF Next
  <1> QED
    BY <1>1, <1>2, PTL DEF Spec

\* TypeOK, for any memories, criteria, questions, documents and exclusions.
THEOREM DesktopTypeCorrect == Spec => []TypeOK
  <1>1. WindowInv /\ ChatInv /\ CaptureInv => TypeOK
    <2> SUFFICES ASSUME WindowInv, ChatTypeOK, CaptureTypeOK PROVE TypeOK
      BY DEF ChatInv, CaptureInv
    <2> QED
      BY DEF TypeOK, WindowInv, Ids
  <1> QED
    BY <1>1, WindowCorrect, ChatCorrect, CaptureCorrect, PTL

\* OpensHighlighted, for any memories and results, any moves of the index and
\* any answers since: Enter alone opens something on the search page.
THEOREM EnterOpensHighlighted == Spec => OpensHighlighted
  <1>1. WindowInv /\ [Next]_vars =>
            [route = "/search" /\ hash' # hash /\ hash' # None =>
                Highlighted = {hash'}]_vars
    <2> SUFFICES ASSUME WindowInv, [Next]_vars, route = "/search",
                        hash' # hash, hash' # None
                 PROVE  Highlighted = {hash'}
      OBVIOUS
    <2>1. OnSearch
      BY DEF Next, vars, OnTimeline, OnCopilot, OnSettings, Stays, Leave,
             FollowLink, PressDot, OpenMemory, Navigate, Reload, Capturing
    <2>2. Enter
      BY <2>1 DEF OnSearch, SearchNext, Edit, FireTimer, SearchSettles,
                  SearchAnswered, SearchRejected, SearchBroken, ArrowDown,
                  ArrowUp
    <2>3. search.activeIndex \in Nat
      BY DEF WindowInv, SearchTypeOK
    <2> QED
      BY <2>2, <2>3, EnterOpens
  <1> QED
    BY <1>1, WindowCorrect, PTL DEF Spec, OpensHighlighted

-----------------------------------------------------------------------------
(* What a purge names and what a search lists.                              *)

\* The memories listed for criteria are those found by them, whichever bucket
\* each is in.
LEMMA ListedAre ==
    ASSUME NEW c, c # None,
           NEW filters, filters = [source |-> c.source, start |-> Days(c.range)]
    PROVE  {Flat(c)[n].id : n \in DOMAIN Flat(c)} =
               {Mems[k].id : k \in Found(c.query, filters)}
  <1> DEFINE bs == MockSearch(c.query, filters)
             flat == Flat(c)
             Of(b) == InBucket(c.query, filters, b)
  <1>1. flat = FlattenSeq(bs)
    BY DEF Buckets, Flat
  <1>2. bs \in Four /\ \A b \in 1 .. 4 : Listed(bs[b]) = At(Of(b))
    BY SearchGives
  <1>3. DOMAIN flat = 1 .. Len(flat)
    BY FlatIs
  <1> HIDE DEF bs, flat
  <1>4. ASSUME NEW n \in DOMAIN flat
        PROVE  \E k \in Found(c.query, filters) : flat[n].id = Mems[k].id
    <2>0. n \in 1 .. Len(FlattenSeq(bs))
      BY <1>1, <1>3
    <2>1. PICK b \in 1 .. 4 : \E i \in 1 .. Len(bs[b]) : n = Ahead(bs, b) + i
      BY <2>0, <1>2, JoinedAt
    <2>2. PICK i \in 1 .. Len(bs[b]) : n = Ahead(bs, b) + i
      BY <2>1
    <2>3. flat[n] = bs[b][i]
      BY <1>1, <1>2, <2>2, JoinedAt
    <2>4. bs[b][i] \in {Mems[k] : k \in Of(b)}
      BY <1>2 DEF Listed, At
    <2>5. PICK k \in Of(b) : bs[b][i] = Mems[k]
      BY <2>4
    <2> QED
      BY <2>3, <2>5 DEF InBucket
  <1>5. ASSUME NEW k \in Found(c.query, filters)
        PROVE  \E n \in DOMAIN flat : flat[n].id = Mems[k].id
    <2>1. Mems[k] \in Memory
      BY DEF Found, Memory
    <2>2. PICK b \in 1 .. 4 : Mems[k].source = BucketSource[b]
      <3>1. Mems[k].source \in {"app", "file", "browser", "email"}
        BY <2>1, Memories
      <3>2. /\ BucketSource[1] = "app" /\ BucketSource[2] = "file"
            /\ BucketSource[3] = "browser" /\ BucketSource[4] = "email"
        BY DEF BucketSource
      <3>3. 1 \in 1 .. 4 /\ 2 \in 1 .. 4 /\ 3 \in 1 .. 4 /\ 4 \in 1 .. 4
        OBVIOUS
      <3> QED
        BY <3>1, <3>2, <3>3
    <2>3. Mems[k] \in {bs[b][i] : i \in 1 .. Len(bs[b])}
      <3>1. k \in Of(b)
        BY <2>2 DEF InBucket
      <3> QED
        BY <1>2, <3>1 DEF Listed, At
    <2>4. PICK i \in 1 .. Len(bs[b]) : Mems[k] = bs[b][i]
      BY <2>3
    <2>5. Ahead(bs, b) + i \in DOMAIN flat /\ flat[Ahead(bs, b) + i] = Mems[k]
      BY <1>1, <1>2, <1>3, <2>4, JoinedAt
    <2> QED
      BY <2>5
  <1>6. {flat[n].id : n \in DOMAIN flat} =
            {Mems[k].id : k \in Found(c.query, filters)}
    BY <1>4, <1>5
  <1> QED
    BY <1>6 DEF flat

\* The two pages write their filters differently and mean the same.
LEMMA SameFilters ==
    ASSUME NEW m, NEW source, NEW range
    PROVE  MatchesFilters(m, [source |-> source, start |-> Days(range)]) <=>
           MatchesFilters(m, [source |-> IF source = "all" THEN None
                                         ELSE source,
                              start |-> PurgeStart(range)])
  BY DEF MatchesFilters, Days, PurgeStart

\* The settings page's state changes by its handlers, or is dropped.
LEMMA SettingsSteps ==
    ASSUME [Next]_vars
    PROVE  settings' = settings \/ settings' = FreshSettings \/ SettingsNext
  BY DEF Next, vars, page_vars, OnTimeline, OnSearch, OnCopilot, OnSettings,
         Stays, Leave, FollowLink, PressDot, OpenMemory, Navigate, Unmount,
         Reload, Capturing

\* Only the two buttons request a purge.
LEMMA OnlyButtonsPurge ==
    ASSUME SettingsTypeOK, [Next]_vars, settings'.purged # settings.purged,
           settings'.purged # None
    PROVE  PurgeAll \/ ApplyPurge
  <1>1. settings' # settings /\ settings' # FreshSettings
    <2>1. FreshSettings.purged = None
      BY DEF FreshSettings
    <2> QED
      BY <2>1
  <1>2. SettingsNext
    BY <1>1, SettingsSteps
  <1>3. ASSUME \/ \E p \in Preference : ChangePreference(p)
               \/ \E ex \in Exclusion : EditExclusion(ex)
               \/ AddExclusion
               \/ \E k \in 1 .. Len(settings.exclusions) : DeleteExclusion(k)
               \/ \E text \in Confirmation : ConfirmText(text)
               \/ \E source \in PurgeSource, range \in PurgeRange :
                      SelectPurge(source, range)
        PROVE  FALSE
    BY <1>3 DEF SettingsTypeOK, ChangePreference, EditExclusion, AddExclusion,
                DeleteExclusion, ConfirmText, SelectPurge
  <1> QED
    BY <1>2, <1>3 DEF SettingsNext

\* PurgesWhatSearchLists, for any memories and any options of the selects, as
\* long as every memory is found by some text that may be typed.
THEOREM PurgeNamesWhatSearchLists ==
    ASSUME \A k \in DOMAIN Mems : Mems[k].words # {}
    PROVE  Spec => PurgesWhatSearchLists
  <1> DEFINE Shown(a) == {Flat(a)[k].id : k \in DOMAIN Flat(a)}
             R == [query : Query, source : {settings.source},
                   range : {settings.range}]
             listed == UNION {Shown(a) : a \in R}
             matching == {Mems[k].id : k \in {k \in DOMAIN Mems :
                             MatchesFilters(Mems[k], settings'.purged)}}
  <1>1. ASSUME SettingsTypeOK, ApplyPurge
        PROVE  listed = matching
    <2> DEFINE filters == [source |-> settings.source,
                           start |-> Days(settings.range)]
               Ask(q) == [query |-> q, source |-> settings.source,
                          range |-> settings.range]
    <2>1. settings'.purged = [source |-> IF settings.source = "all" THEN None
                                         ELSE settings.source,
                              start |-> PurgeStart(settings.range)]
      BY <1>1 DEF ApplyPurge, SettingsTypeOK
    <2>2. matching = {Mems[k].id : k \in {k \in DOMAIN Mems :
                          MatchesFilters(Mems[k], filters)}}
      BY <2>1, SameFilters
    <2>3. ASSUME NEW q \in Query
          PROVE  Shown(Ask(q)) = {Mems[k].id : k \in Found(q, filters)}
      <3>1. Ask(q) # None
        BY <1>1, DesktopAssumption DEF SettingsTypeOK
      <3>2. /\ Ask(q).query = q
            /\ filters = [source |-> Ask(q).source,
                          start |-> Days(Ask(q).range)]
        OBVIOUS
      <3> HIDE DEF Ask, filters
      <3> QED
        BY <3>1, <3>2, ListedAre
    <2>4. /\ \A q \in Query : Ask(q) \in R
          /\ \A a \in R : a = Ask(a.query) /\ a.query \in Query
      OBVIOUS
    <2>5. ASSUME NEW k \in DOMAIN Mems, MatchesFilters(Mems[k], filters)
          PROVE  \E q \in Query : k \in Found(q, filters)
      <3>1. Mems[k].words # {} /\ Mems[k].words \subseteq Query
        BY Memories DEF Memory
      <3> QED
        BY <2>5, <3>1 DEF Found
    <2>6. \A q \in Query : \A k \in Found(q, filters) :
              k \in DOMAIN Mems /\ MatchesFilters(Mems[k], filters)
      BY DEF Found
    <2> HIDE DEF Ask, filters, Shown, R
    <2>7. ASSUME NEW h \in listed
          PROVE  h \in matching
      <3>1. PICK a \in R : h \in Shown(a)
        BY <2>7
      <3>2. a.query \in Query
            /\ h \in {Mems[k].id : k \in Found(a.query, filters)}
        BY <2>3, <2>4, <3>1
      <3>3. PICK k \in Found(a.query, filters) : h = Mems[k].id
        BY <3>2
      <3>4. k \in DOMAIN Mems /\ MatchesFilters(Mems[k], filters)
        BY <2>6, <3>2
      <3> HIDE DEF matching
      <3> QED
        BY <2>2, <3>3, <3>4
    <2>8. ASSUME NEW h \in matching
          PROVE  h \in listed
      <3> HIDE DEF matching
      <3>1. PICK k \in DOMAIN Mems :
                MatchesFilters(Mems[k], filters) /\ h = Mems[k].id
        BY <2>2, <2>8
      <3>2. PICK q \in Query : k \in Found(q, filters)
        BY <2>5, <3>1
      <3>3. h \in Shown(Ask(q)) /\ Ask(q) \in R
        BY <2>3, <2>4, <3>1, <3>2
      <3> QED
        BY <3>3
    <2> HIDE DEF listed, matching
    <2> QED
      BY <2>7, <2>8
  <1>2. WindowInv /\ [Next]_vars =>
            [settings'.purged # settings.purged /\ settings'.purged # None =>
                \/ settings.confirmPurge = "PURGE"
                \/ listed = matching]_vars
    <2> SUFFICES ASSUME WindowInv, [Next]_vars,
                        settings'.purged # settings.purged,
                        settings'.purged # None
                 PROVE  settings.confirmPurge = "PURGE" \/ listed = matching
      OBVIOUS
    <2>1. SettingsTypeOK
      BY DEF WindowInv
    <2>2. PurgeAll \/ ApplyPurge
      BY <2>1, OnlyButtonsPurge
    <2> QED
      BY <1>1, <2>1, <2>2 DEF PurgeAll
  <1> QED
    BY <1>2, WindowCorrect, PTL DEF Spec, PurgesWhatSearchLists
=============================================================================
