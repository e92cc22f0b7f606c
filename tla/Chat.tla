-------------------------------- MODULE Chat --------------------------------
(***************************************************************************)
(* The copilot page (CopilotChat.tsx): a question is sent when the field   *)
(* and the button allow it; its answer, or an apology, is appended when    *)
(* the request settles, to whatever list of messages there is then.        *)
(***************************************************************************)
EXTENDS Tauri

CONSTANTS
    Question,   \* texts typed into the chat
    Doc,        \* documents an answer may name as its sources
    MaxQuestions    \* bound: questions in one visit of the page

VARIABLES chat

ASSUME ChatAssumption ==
    /\ None \notin Question /\ Blank \notin Question
    /\ None \notin Doc
    /\ MaxQuestions \in Nat

Origin == {"LOCAL", "CLOUD", None}

\* A message is about the question it asks, answers or apologises for.
Message == [role : {"user", "assistant"}, about : Question,
            origin : Origin, sources : SUBSET Doc]

FreshChat == [msgs |-> <<>>, input |-> Blank, isTyping |-> FALSE,
              pending |-> <<>>]

-----------------------------------------------------------------------------
\* Mutant of Disabled: the field stays open while the answer is awaited.
NeverDisabled == FALSE

\* While an answer is awaited neither the field nor the button reacts.
Disabled == chat.isTyping

ChangeInput(text) ==
    /\ ~Disabled
    /\ text # chat.input
    /\ chat' = [chat EXCEPT !.input = text]
    /\ UNCHANGED <<hash, alive>>

\* send, by the button or by Enter without Shift.
SendQuestion ==
    /\ ~Disabled
    /\ chat.input # Blank
    /\ Len(chat.msgs) < 2 * MaxQuestions
    /\ chat' = [chat EXCEPT
                    !.input = Blank,
                    !.isTyping = TRUE,
                    !.msgs = Append(@, [role |-> "user", about |-> chat.input,
                                        origin |-> None, sources |-> {}]),
                    !.pending = Append(@, chat.input)]
    /\ UNCHANGED <<hash, alive>>

\* The handler goes on after its await: a message, and isTyping is cleared.
Reply(i, origin, sources) ==
    chat' = [chat EXCEPT
                !.msgs = Append(@, [role |-> "assistant",
                                    about |-> chat.pending[i],
                                    origin |-> origin, sources |-> sources]),
                !.pending = Settled(@, i),
                !.isTyping = FALSE]

\* Every answer is shown, whatever its origin and its sources.
ChatAnswered(i, origin, sources) ==
    /\ i \in DOMAIN chat.pending
    /\ Reply(i, origin, sources)
    /\ UNCHANGED <<hash, alive>>

\* Mutant of Apologise: isTyping is cleared by an answer only.
ApologiseOnly(i) ==
    chat' = [chat EXCEPT
                !.msgs = Append(@, [role |-> "assistant",
                                    about |-> chat.pending[i],
                                    origin |-> None, sources |-> {}]),
                !.pending = Settled(@, i)]

Apologise(i) == Reply(i, None, {})

ChatRejected(i) ==
    /\ i \in DOMAIN chat.pending
    /\ Apologise(i)
    /\ UNCHANGED <<hash, alive>>

\* An error sent as JSON has no message: rendering its text throws, and the
\* whole tree is gone, the question and its field with it.
ChatBroken(i) ==
    /\ i \in DOMAIN chat.pending
    /\ alive' = FALSE
    /\ chat' = FreshChat
    /\ UNCHANGED hash

\* A button for each source under an assistant's message.
OpenSource(k, d) ==
    /\ k \in DOMAIN chat.msgs
    /\ chat.msgs[k].role = "assistant"
    /\ d \in chat.msgs[k].sources
    /\ hash' = d
    /\ UNCHANGED <<chat, alive>>

-----------------------------------------------------------------------------
ChatSettles ==
    \E i \in 1 .. Len(chat.pending) :
        \/ \E origin \in Origin, sources \in SUBSET Doc :
                ChatAnswered(i, origin, sources)
        \/ ChatRejected(i) \/ ChatBroken(i)

ChatNext ==
    \/ \E text \in Question \cup {Blank} : ChangeInput(text)
    \/ SendQuestion
    \/ ChatSettles
    \/ \E k \in 1 .. Len(chat.msgs), d \in Doc : OpenSource(k, d)

ChatTypeOK ==
    chat \in [msgs : Seq(Message), input : Question \cup {Blank},
              isTyping : BOOLEAN, pending : Seq(Question)]

\* Questions and answers alternate and each answer is about the question
\* above it; the dots are shown, and the field is locked, exactly while the
\* last question waits for its answer.
Conversation ==
    /\ \A k \in DOMAIN chat.msgs :
            IF k % 2 = 1 THEN chat.msgs[k].role = "user"
            ELSE /\ chat.msgs[k].role = "assistant"
                 /\ chat.msgs[k].about = chat.msgs[k - 1].about
    /\ chat.isTyping <=> Len(chat.msgs) % 2 = 1
    /\ chat.pending = IF chat.isTyping
                      THEN <<chat.msgs[Len(chat.msgs)].about>> ELSE <<>>
=============================================================================
