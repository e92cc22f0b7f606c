------------------------------- MODULE Chunks -------------------------------
(***************************************************************************)
(* The chunkers of the intelligence subprocess (chunking/chunker.py,       *)
(* prose.py, code.py): chunk_text cuts one text into overlapping chunks.   *)
(*                                                                         *)
(* Prose: sentences are gathered until they have enough tokens, and the    *)
(* last of them are taken over into the next chunk.  Sentences are numbers *)
(* and a chunk is the pair of its first and last sentence.                 *)
(* Code: each definition that is too long is cut by a sliding window.      *)
(* Positions are offsets, and a chunk is a half-open span.                 *)
(*                                                                         *)
(* The text is read as it is chosen: the next sentence, the end of a       *)
(* paragraph, the next definition, the end of the text.                    *)
(***************************************************************************)
EXTENDS Integers, Sequences

CONSTANTS
    Target,         \* target_tokens
    Back,           \* int(target_tokens * overlap_ratio)
    Window,         \* max_chars
    Overlap,        \* overlap_chars
    MaxTokens,      \* bound: tokens of one sentence
    MaxSentences,   \* bound: sentences of one text
    MaxLength,      \* bound: offsets in one text
    MaxSpans        \* bound: spans before the last definition is read

ASSUME ChunksAssumption ==
    /\ Target \in Nat \ {0} /\ Back \in 0 .. Target
    /\ Window \in Nat \ {0} /\ Overlap \in 0 .. Window - 1
    /\ MaxTokens \in Nat \ {0} /\ MaxSentences \in Nat
    /\ MaxLength \in Nat /\ MaxSpans \in Nat

VARIABLES
    content_type,   \* which chunker runs
    pc,
    n, upto,        \* sentences read; tokens of the first k of them
    breaks,         \* the last sentences of the paragraphs read
    lo, acc_tokens, \* acc is the sentences lo .. n
    unit, start,    \* the definition's span; where its next window starts
    chunks

prose == <<n, upto, breaks, lo, acc_tokens>>
code  == <<unit, start>>
vars  == <<content_type, pc, prose, code, chunks>>

Init ==
    /\ content_type \in {"prose", "python", "js"}
    /\ pc = "read"
    /\ n = 0 /\ upto = [k \in {0} |-> 0] /\ breaks = {0}
    /\ lo = 1 /\ acc_tokens = 0
    /\ unit = <<0, 0>> /\ start = 0
    /\ chunks = <<>>

-----------------------------------------------------------------------------
(* chunk_prose                                                              *)

\* estimate_tokens, summed over the sentences a .. b; it is at least 1 for
\* each of them.
Tokens(a, b) == upto[b] - upto[a - 1]

\* The next sentence of the paragraph joins acc.
AddSentence(t) ==
    /\ content_type = "prose" /\ pc = "read"
    /\ n < MaxSentences
    /\ n' = n + 1
    /\ upto' = [k \in 0 .. n + 1 |-> IF k = n + 1 THEN upto[n] + t ELSE upto[k]]
    /\ acc_tokens' = acc_tokens + t
    /\ pc' = IF acc_tokens + t >= Target THEN "full" ELSE "read"
    /\ UNCHANGED <<content_type, breaks, lo, code, chunks>>

\* Walking back from the last sentence until Back tokens are seen, or acc ends.
Enough(k) == k = lo \/ Tokens(k, n) >= Back

\* Mutants: the sentence that completes the overlap is left out; the tokens
\* of the sentences taken over are forgotten.
OneSentenceLess(k) ==
    /\ k \in lo + 1 .. n + 1
    /\ Enough(k - 1)
    /\ \A m \in k .. n : ~Enough(m)

Forgotten(k) == 0

\* acc keeps the sentences k .. n.
TakesOver(k) ==
    /\ k \in lo .. n + 1
    /\ Enough(k)
    /\ \A m \in k + 1 .. n + 1 : ~Enough(m)

Recounted(k) == Tokens(k, n)

EmitFull ==
    /\ pc = "full"
    /\ chunks' = Append(chunks, <<lo, n>>)
    /\ \E k \in lo .. n + 1 :
          /\ TakesOver(k)
          /\ lo' = k
          /\ acc_tokens' = Recounted(k)
    /\ pc' = "read"
    /\ UNCHANGED <<content_type, n, upto, breaks, code>>

\* Mutants: what is left of a paragraph is dropped when chunks were cut from
\* it; acc goes on into the next paragraph.
RestIfUncut == IF lo \in {b + 1 : b \in breaks} THEN Append(chunks, <<lo, n>>)
               ELSE chunks

AccGoesOn == UNCHANGED <<lo, acc_tokens>>

\* What is left in acc at the end of a paragraph is a chunk, also when it was
\* all taken over from the chunk before.
WithRest == IF lo <= n THEN Append(chunks, <<lo, n>>) ELSE chunks

FreshAcc == lo' = n + 1 /\ acc_tokens' = 0

EndParagraph ==
    /\ content_type = "prose" /\ pc = "read"
    /\ n \notin breaks
    /\ breaks' = breaks \cup {n}
    /\ chunks' = WithRest
    /\ FreshAcc
    /\ UNCHANGED <<content_type, pc, n, upto, code>>

-----------------------------------------------------------------------------
(* chunk_js_ts, chunk_go, chunk_rust: a definition reaches to the next one, *)
(* and what is before the first belongs to none.  chunk_python: the spans   *)
(* of ast.walk, in any order, nested ones too; _span_from_lines ends them   *)
(* where the last line starts, so a one-line definition is empty.           *)

NextUnit(s, e) ==
    /\ content_type # "prose" /\ pc = "read"
    /\ Len(chunks) < MaxSpans
    /\ content_type = "js" => s < e /\ (chunks # <<>> => s = unit[2])
    /\ unit' = <<s, e>>
    /\ start' = s
    /\ IF e - s <= Window
       THEN chunks' = Append(chunks, <<s, e>>) /\ UNCHANGED pc
       ELSE pc' = "window" /\ UNCHANGED chunks
    /\ UNCHANGED <<content_type, prose>>

Least(a, b)    == IF a <= b THEN a ELSE b
Greatest(a, b) == IF a >= b THEN a ELSE b

\* Mutants: the overlap is added; the window moves by the overlap alone.
StartPastEnd == Greatest(start + Window + Overlap, unit[1])

StartStays == Greatest(start - Overlap, unit[1])

NextStart == Greatest(start + Window - Overlap, unit[1])

NextWindow ==
    /\ pc = "window"
    /\ LET end == Least(unit[2], start + Window)
       IN  /\ chunks' = Append(chunks, <<start, end>>)
           /\ IF end >= unit[2]
              THEN pc' = "read" /\ UNCHANGED start
              ELSE start' = NextStart /\ UNCHANGED pc
    /\ UNCHANGED <<content_type, prose, unit>>

-----------------------------------------------------------------------------
\* spans.sort: by their starts, and stable, which makes p a permutation.
SortSpans ==
    \E p \in [1 .. Len(chunks) -> 1 .. Len(chunks)] :
        /\ \A i, j \in 1 .. Len(chunks) : i < j =>
              \/ chunks[p[i]][1] < chunks[p[j]][1]
              \/ chunks[p[i]][1] = chunks[p[j]][1] /\ p[i] < p[j]
        /\ chunks' = [i \in 1 .. Len(chunks) |-> chunks[p[i]]]

\* The text ends: after a paragraph, or after the last definition.  A text
\* without definitions is one chunk.
EndText(length) ==
    /\ pc = "read"
    /\ content_type = "prose" => n \in breaks
    /\ pc' = "done"
    /\ IF content_type # "prose" /\ chunks = <<>>
       THEN chunks' = <<<<0, length>>>>
       ELSE IF content_type = "python" THEN SortSpans ELSE UNCHANGED chunks
    /\ UNCHANGED <<content_type, prose, code>>

Next ==
    \/ \E t \in 1 .. MaxTokens : AddSentence(t)
    \/ EmitFull
    \/ EndParagraph
    \/ \E s, e \in 0 .. MaxLength : s <= e /\ NextUnit(s, e)
    \/ NextWindow
    \/ \E length \in 0 .. MaxLength : EndText(length)

Spec == Init /\ [][Next]_vars

-----------------------------------------------------------------------------
\* Every variable keeps its type, and acc_tokens is the tokens of acc.
TypeOK ==
    /\ content_type \in {"prose", "python", "js"}
    /\ pc \in {"read", "full", "window", "done"}
    /\ n \in 0 .. MaxSentences
    /\ upto \in [0 .. n -> Nat]
    /\ breaks \subseteq 0 .. n
    /\ lo \in 1 .. n + 1
    /\ acc_tokens = Tokens(lo, n)
    /\ unit \in Nat \X Nat
    /\ start \in Nat
    /\ chunks \in Seq(Nat \X Nat)

Prose == content_type = "prose"

\* No sentence is lost between a full chunk, the overlap and the end of a
\* paragraph: each one read is in a chunk or waits in acc, and none waits
\* when a paragraph has ended.
SentencesCovered ==
    Prose =>
      /\ \A k \in 1 .. n :
            k >= lo \/ \E c \in 1 .. Len(chunks) :
                          chunks[c][1] <= k /\ k <= chunks[c][2]
      /\ n \in breaks => lo = n + 1

\* No chunk reaches over the end of a paragraph, though acc is carried from
\* chunk to chunk.
OneParagraph ==
    Prose => \A c \in 1 .. Len(chunks), b \in breaks :
                ~(chunks[c][1] <= b /\ b < chunks[c][2])

\* When no sentence has more than Target - Back tokens, a chunk exceeds the
\* target by less than its last sentence: what is taken over leaves room.
SmallEnough ==
    (Prose /\ \A k \in 1 .. n : Tokens(k, k) <= Target - Back)
    => \A c \in 1 .. Len(chunks) : Tokens(chunks[c][1], chunks[c][2] - 1) < Target

\* Chunks come in the order of the text, and a chunk starts with at least
\* Back tokens of the one before it in its paragraph, or with all of it.
ContextShared ==
    Prose => \A c \in 1 .. Len(chunks) - 1 :
        LET this == chunks[c]
            next == chunks[c + 1]
        IN  /\ this[1] <= next[1] /\ this[2] <= next[2]
            /\ this[2] \in breaks \/ this[1] = next[1]
               \/ (next[1] <= this[2] + 1 /\ Tokens(next[1], this[2]) >= Back)

\* Definitions that follow one another leave no gap: each span starts no
\* later than the one before ends, none is longer than the window, and the
\* last one ends where the last definition ends.
WindowsCover ==
    content_type = "js" /\ pc # "done" =>
      /\ \A c \in 1 .. Len(chunks) :
            /\ chunks[c][1] < chunks[c][2]
            /\ chunks[c][2] <= chunks[c][1] + Window
            /\ c > 1 => chunks[c][1] <= chunks[c - 1][2]
      /\ pc = "read" /\ chunks # <<>> => chunks[Len(chunks)][2] = unit[2]

\* A window that is not the last moves on, so cutting a definition ends.
WindowsAdvance ==
    [][pc = "window" /\ pc' = "window" => start' > start]_vars
=============================================================================
