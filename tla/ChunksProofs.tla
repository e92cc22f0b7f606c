---------------------------- MODULE ChunksProofs ----------------------------
(* Theorems about Chunks, for every target, overlap and window.             *)
EXTENDS Chunks, TLAPS

\* Appending a span keeps the spans before it and adds it at the end.
LEMMA AppendSpan ==
    ASSUME NEW s \in Seq(Nat \X Nat), NEW x \in Nat \X Nat
    PROVE  /\ Append(s, x) \in Seq(Nat \X Nat)
           /\ Len(Append(s, x)) = Len(s) + 1
           /\ \A c \in 1 .. Len(s) : Append(s, x)[c] = s[c]
           /\ Append(s, x)[Len(s) + 1] = x
           /\ Len(s) \in Nat
OBVIOUS


\* Sentence counts stay numbers when a sentence is read.
LEMMA AddTyped ==
    ASSUME TypeOK, NEW t \in 1 .. MaxTokens, AddSentence(t)
    PROVE  TypeOK'
<1> USE ChunksAssumption
<1>1. n + 1 \in 0 .. MaxSentences /\ n \in Nat /\ lo \in 1 .. n + 2
  BY DEF TypeOK, AddSentence
<1>2. upto' \in [0 .. n + 1 -> Nat]
  BY <1>1 DEF TypeOK, AddSentence
<1>3. Tokens(lo, n)' = Tokens(lo, n) + t
  <2>1. upto'[n + 1] = upto[n] + t
    BY <1>1 DEF AddSentence
  <2>2. CASE lo - 1 = n + 1
    BY <2>2, <1>1 DEF TypeOK
  <2>3. CASE lo - 1 # n + 1
    <3>1. lo - 1 \in 0 .. n /\ upto'[lo - 1] = upto[lo - 1]
      BY <2>3, <1>1 DEF TypeOK, AddSentence
    <3>2. upto[n] \in Nat /\ upto[lo - 1] \in Nat
      BY <1>1, <3>1 DEF TypeOK
    <3> QED
      BY <2>1, <3>1, <3>2, <1>1 DEF Tokens, AddSentence
  <2> QED
    BY <2>2, <2>3
<1> QED
  BY <1>1, <1>2, <1>3 DEF TypeOK, AddSentence, code

\* What is taken over is a part of acc, and its tokens are counted again.
LEMMA EmitTyped ==
    ASSUME TypeOK, EmitFull
    PROVE  TypeOK'
<1> USE ChunksAssumption
<1>1. <<lo, n>> \in Nat \X Nat
  BY DEF TypeOK
<1>2. chunks' \in Seq(Nat \X Nat)
  BY <1>1 DEF TypeOK, EmitFull
<1>3. lo' \in 1 .. n + 1 /\ acc_tokens' = Tokens(lo', n)
  BY DEF TypeOK, EmitFull, Recounted
<1> QED
  BY <1>2, <1>3 DEF TypeOK, EmitFull, Tokens, code

\* A new paragraph starts with an empty acc.
LEMMA EndTyped ==
    ASSUME TypeOK, EndParagraph
    PROVE  TypeOK'
<1> USE ChunksAssumption
<1>1. <<lo, n>> \in Nat \X Nat /\ n \in Nat /\ upto[n] \in Nat
  BY DEF TypeOK
<1>2. chunks' \in Seq(Nat \X Nat)
  BY <1>1 DEF TypeOK, EndParagraph, WithRest
<1>3. lo' \in 1 .. n + 1 /\ acc_tokens' = 0 /\ Tokens(n + 1, n) = 0
  BY <1>1 DEF EndParagraph, FreshAcc, Tokens
<1>4. (breaks \cup {n}) \subseteq 0 .. n
  BY <1>1 DEF TypeOK
<1> QED
  BY <1>1, <1>2, <1>3, <1>4 DEF TypeOK, EndParagraph, FreshAcc, Tokens, code

\* The span of a definition is a span; prose is left alone.
LEMMA UnitTyped ==
    ASSUME TypeOK, NEW s \in 0 .. MaxLength, NEW e \in 0 .. MaxLength,
           NextUnit(s, e)
    PROVE  TypeOK'
<1> USE ChunksAssumption
<1>1. s \in Nat /\ e \in Nat /\ <<s, e>> \in Nat \X Nat
  OBVIOUS
<1>2. chunks' \in Seq(Nat \X Nat)
  <2>1. chunks \in Seq(Nat \X Nat)
    BY DEF TypeOK
  <2>2. Append(chunks, <<s, e>>) \in Seq(Nat \X Nat)
    BY <1>1, <2>1
  <2>3. CASE e - s <= Window
    BY <2>2, <2>3 DEF NextUnit
  <2>4. CASE ~(e - s <= Window)
    BY <2>1, <2>4 DEF NextUnit
  <2> QED
    BY <2>3, <2>4
<1> QED
  BY <1>1, <1>2 DEF TypeOK, NextUnit, prose, Tokens

\* So is a window.
LEMMA WindowTyped ==
    ASSUME TypeOK, NextWindow
    PROVE  TypeOK'
<1> USE ChunksAssumption
<1>1. unit[1] \in Nat /\ unit[2] \in Nat /\ start \in Nat
  BY DEF TypeOK
<1>2. <<start, Least(unit[2], start + Window)>> \in Nat \X Nat
  BY <1>1 DEF Least
<1>3. chunks' \in Seq(Nat \X Nat)
  BY <1>2, AppendSpan DEF TypeOK, NextWindow
<1>4. NextStart \in Nat
  BY <1>1 DEF NextStart, Greatest
<1> QED
  BY <1>3, <1>4 DEF TypeOK, NextWindow, prose, Tokens

\* Sorting rearranges the spans.
LEMMA TextTyped ==
    ASSUME TypeOK, NEW length \in 0 .. MaxLength, EndText(length)
    PROVE  TypeOK'
<1> USE ChunksAssumption
<1>1. CASE SortSpans
  <2>1. PICK p \in [1 .. Len(chunks) -> 1 .. Len(chunks)] :
            chunks' = [i \in 1 .. Len(chunks) |-> chunks[p[i]]]
    BY <1>1 DEF SortSpans
  <2>2. Len(chunks) \in Nat
    BY DEF TypeOK
  <2>3. \A i \in 1 .. Len(chunks) : chunks[p[i]] \in Nat \X Nat
    <3>1. \A i \in 1 .. Len(chunks) : chunks[i] \in Nat \X Nat
      BY <2>2 DEF TypeOK
    <3> QED
      BY <2>1, <3>1
  <2>4. [i \in 1 .. Len(chunks) |-> chunks[p[i]]] \in Seq(Nat \X Nat)
    BY <2>2, <2>3
  <2> QED
    BY <2>1, <2>4 DEF TypeOK, EndText, prose, code, Tokens
<1>2. CASE chunks' = <<<<0, length>>>> \/ UNCHANGED chunks
  <2>1. length \in Nat
    OBVIOUS
  <2>2. chunks' \in Seq(Nat \X Nat)
    <3>1. <<0, length>> \in Nat \X Nat /\ chunks \in Seq(Nat \X Nat)
      BY <2>1 DEF TypeOK
    <3>2. <<<<0, length>>>> \in Seq(Nat \X Nat)
      BY <3>1
    <3> QED
      BY <1>2, <3>1, <3>2
  <2> QED
    BY <2>2 DEF TypeOK, EndText, prose, code, Tokens
<1> QED
  BY <1>1, <1>2 DEF EndText

\* At first nothing is read and nothing is cut.
THEOREM InitTyped == Init => TypeOK
BY ChunksAssumption DEF Init, TypeOK, Tokens

\* Every step of a chunker keeps the types.
THEOREM NextTyped == TypeOK /\ [Next]_vars => TypeOK'
<1> SUFFICES ASSUME TypeOK, [Next]_vars PROVE TypeOK'
  OBVIOUS
<1>1. CASE UNCHANGED vars
  BY <1>1 DEF TypeOK, vars, prose, code, Tokens
<1> QED
  BY <1>1, AddTyped, EmitTyped, EndTyped, UnitTyped, WindowTyped, TextTyped
  DEF Next

\* Every variable keeps its type (chunker.py, prose.py, code.py).
THEOREM TypeCorrect == Spec => []TypeOK
BY InitTyped, NextTyped, PTL DEF Spec

-----------------------------------------------------------------------------
(* Prose: where acc and the chunks cut so far lie in the text.              *)

Small == \A k \in 1 .. n : Tokens(k, k) <= Target - Back

\* acc starts after every paragraph that ended; a full acc is not empty, and
\* neither it nor, before it was full, acc was at the target but for its last
\* sentence.  Spans lie in the text.
AccInv == Prose =>
    /\ \A b \in breaks : b < lo
    /\ pc = "full" => lo <= n
    /\ pc = "read" /\ Small => acc_tokens < Target
    /\ pc = "full" /\ Small => Tokens(lo, n - 1) < Target
    /\ \A k \in 1 .. n : upto[k - 1] <= upto[k]
    /\ \A c \in 1 .. Len(chunks) :
          1 <= chunks[c][1] /\ chunks[c][1] <= chunks[c][2] /\ chunks[c][2] <= n

\* Which steps are those of prose, and which are not.
PhaseInv ==
    /\ pc = "full" => Prose
    /\ pc = "window" => ~Prose

\* The last chunk and acc, which becomes the next one.
LastInv == Prose /\ chunks # <<>> =>
    LET last == chunks[Len(chunks)]
    IN  /\ last[1] <= lo
        /\ last[2] \in breaks \/ last[1] = lo
           \/ (lo <= last[2] + 1 /\ Tokens(lo, last[2]) >= Back)

ProseInv ==
    /\ PhaseInv /\ AccInv /\ LastInv
    /\ SentencesCovered /\ OneParagraph /\ SmallEnough /\ ContextShared

\* The tokens of sentences already read do not change.
LEMMA TokensKept ==
    ASSUME TypeOK, NEW t \in 1 .. MaxTokens, AddSentence(t)
    PROVE  /\ \A k \in 0 .. n : upto'[k] = upto[k]
           /\ upto'[n + 1] = upto[n] + t
           /\ \A a \in 1 .. n + 1, b \in 0 .. n : Tokens(a, b)' = Tokens(a, b)
           /\ n \in Nat /\ n' = n + 1
           /\ \A k \in 0 .. n : upto[k] \in Nat
<1> USE ChunksAssumption
<1>1. n \in Nat /\ n' = n + 1 /\ \A k \in 0 .. n : upto[k] \in Nat
  BY DEF TypeOK, AddSentence
<1>2. \A k \in 0 .. n : upto'[k] = upto[k]
  BY <1>1 DEF AddSentence
<1>3. upto'[n + 1] = upto[n] + t
  BY <1>1 DEF AddSentence
<1>4. ASSUME NEW a \in 1 .. n + 1, NEW b \in 0 .. n
      PROVE  Tokens(a, b)' = Tokens(a, b)
  <2>1. a - 1 \in 0 .. n
    BY <1>1
  <2>2. upto'[b] = upto[b] /\ upto'[a - 1] = upto[a - 1]
    BY <1>2, <2>1
  <2> QED
    BY <2>2 DEF Tokens
<1> QED
  BY <1>1, <1>2, <1>3, <1>4

\* A sentence is read: acc grows by it, and the chunks stay what they were.
LEMMA AddStep ==
    ASSUME TypeOK, ProseInv, NEW t \in 1 .. MaxTokens, AddSentence(t)
    PROVE  ProseInv'
<1> USE ChunksAssumption
<1> DEFINE L == Len(chunks)
<1>1. Prose /\ pc = "read" /\ chunks' = chunks /\ breaks' = breaks /\ lo' = lo
      /\ content_type' = content_type
      /\ acc_tokens' = acc_tokens + t
      /\ pc' = IF acc_tokens + t >= Target THEN "full" ELSE "read"
  BY DEF AddSentence, Prose
<1>2. /\ lo \in 1 .. n + 1 /\ breaks \subseteq 0 .. n /\ L \in Nat
      /\ acc_tokens = Tokens(lo, n)
      /\ \A c \in 1 .. L : chunks[c] \in Nat \X Nat
      /\ chunks # <<>> => L \in 1 .. L
  BY DEF TypeOK
<1>3. /\ \A b \in breaks : b < lo
      /\ Small => acc_tokens < Target
      /\ \A k \in 1 .. n : upto[k - 1] <= upto[k]
      /\ \A c \in 1 .. L :
            1 <= chunks[c][1] /\ chunks[c][1] <= chunks[c][2] /\ chunks[c][2] <= n
  BY <1>1 DEF ProseInv, AccInv
<1>4. Small' => Small
  <2> SUFFICES ASSUME Small', NEW k \in 1 .. n
               PROVE  Tokens(k, k) <= Target - Back
    BY DEF Small
  <2>1. k \in 1 .. n + 1 /\ k \in 0 .. n /\ k \in 1 .. n'
    BY TokensKept
  <2>2. Tokens(k, k)' = Tokens(k, k)
    BY <2>1, TokensKept
  <2>3. Tokens(k, k)' <= Target - Back
    BY <2>1 DEF Small
  <2> QED
    BY <2>2, <2>3
<1>5. PhaseInv'
  BY <1>1 DEF PhaseInv, Prose
<1>6. AccInv'
  <2>2. ASSUME NEW k \in 1 .. n + 1 PROVE upto'[k - 1] <= upto'[k]
    <3>1. CASE k = n + 1
      <4>1. upto'[n] = upto[n] /\ upto[n] \in Nat
        BY TokensKept
      <4> QED
        BY <3>1, <4>1, TokensKept
    <3>2. CASE k # n + 1
      <4>1. k \in 1 .. n /\ k - 1 \in 0 .. n /\ k \in 0 .. n
        BY <3>2, TokensKept
      <4>2. upto[k - 1] <= upto[k]
        BY <4>1, <1>3
      <4>3. upto'[k - 1] = upto[k - 1] /\ upto'[k] = upto[k]
        BY <4>1, TokensKept
      <4> QED
        BY <4>2, <4>3
    <3> QED
      BY <3>1, <3>2
  <2>3. n' = n + 1 /\ n \in Nat /\ n' - 1 = n
    BY TokensKept
  <2>4. pc' = "full" /\ Small' => (Tokens(lo, n - 1) < Target)'
    <3>2. (Tokens(lo, n - 1))' = upto'[n] - upto'[lo - 1]
      BY <1>1, <2>3 DEF Tokens
    <3>3. upto'[n] = upto[n] /\ upto'[lo - 1] = upto[lo - 1]
      BY <1>2, <2>3, TokensKept
    <3> QED
      BY <1>1, <1>2, <1>3, <1>4, <3>2, <3>3 DEF Tokens
  <2>5. pc' = "read" => acc_tokens' < Target
    <3>1. upto[n] \in Nat /\ upto[lo - 1] \in Nat
      BY <1>2, <2>3, TokensKept
    <3> QED
      BY <1>1, <1>2, <3>1 DEF Tokens
  <2>6. \A c \in 1 .. L : chunks[c][2] <= n + 1
    BY <1>2, <1>3, <2>3
  <2>7. pc' = "full" => lo <= n + 1
    BY <1>2, <2>3
  <2>8. \A k \in 1 .. n' : upto'[k - 1] <= upto'[k]
    BY <2>2, <2>3
  <2> QED
    BY <1>1, <1>3, <2>3, <2>4, <2>5, <2>6, <2>7, <2>8 DEF AccInv
<1>7. LastInv'
  <2> SUFFICES ASSUME chunks # <<>>
               PROVE  /\ chunks[L][1] <= lo
                      /\ chunks[L][2] \in breaks \/ chunks[L][1] = lo
                         \/ (lo <= chunks[L][2] + 1 /\ Tokens(lo, chunks[L][2])' >= Back)
    BY <1>1 DEF LastInv, Tokens
  <2>1. chunks[L][2] \in 0 .. n
    BY <1>2, <1>3, TokensKept
  <2>2. Tokens(lo, chunks[L][2])' = Tokens(lo, chunks[L][2])
    <3>1. upto'[chunks[L][2]] = upto[chunks[L][2]] /\ upto'[lo - 1] = upto[lo - 1]
      BY <1>2, <2>1, TokensKept
    <3> QED
      BY <1>1, <3>1 DEF Tokens
  <2> QED
    BY <1>1, <2>2 DEF ProseInv, LastInv
<1>8. SentencesCovered'
  <2>1. \A k \in 1 .. n :
           k >= lo \/ \E c \in 1 .. L : chunks[c][1] <= k /\ k <= chunks[c][2]
    BY <1>1 DEF ProseInv, SentencesCovered
  <2>2. n' = n + 1 /\ n \in Nat /\ n + 1 >= lo /\ n + 1 \notin breaks
    BY <1>2, TokensKept
  <2>3. \A k \in 1 .. n + 1 : k \in 1 .. n \/ k = n + 1
    BY <2>2
  <2> QED
    BY <1>1, <2>1, <2>2, <2>3 DEF SentencesCovered
<1>9. OneParagraph'
  BY <1>1 DEF ProseInv, OneParagraph, Prose
<1>10. SmallEnough'
  <2> SUFFICES ASSUME Small', NEW c \in 1 .. L
               PROVE  Tokens(chunks[c][1], chunks[c][2] - 1)' < Target
    BY <1>1 DEF SmallEnough, Small, Prose, Tokens
  <2>1. chunks[c][1] \in 1 .. n + 1 /\ chunks[c][2] - 1 \in 0 .. n
        /\ chunks[c][1] - 1 \in 0 .. n
    BY <1>2, <1>3, TokensKept
  <2>2. upto'[chunks[c][1] - 1] = upto[chunks[c][1] - 1]
        /\ upto'[chunks[c][2] - 1] = upto[chunks[c][2] - 1]
    BY <2>1, TokensKept
  <2>3. Tokens(chunks[c][1], chunks[c][2] - 1) < Target
    BY <1>1, <1>4 DEF ProseInv, SmallEnough, Small
  <2> QED
    BY <1>1, <2>2, <2>3 DEF Tokens
<1>11. ContextShared'
  <2> SUFFICES ASSUME NEW c \in 1 .. L - 1
               PROVE  /\ chunks[c][1] <= chunks[c + 1][1]
                      /\ chunks[c][2] <= chunks[c + 1][2]
                      /\ chunks[c][2] \in breaks
                         \/ chunks[c][1] = chunks[c + 1][1]
                         \/ (chunks[c + 1][1] <= chunks[c][2] + 1
                             /\ Tokens(chunks[c + 1][1], chunks[c][2])' >= Back)
    BY <1>1 DEF ContextShared, Prose, Tokens
  <2>1. c \in 1 .. L /\ c + 1 \in 1 .. L
    BY <1>2
  <2>2. chunks[c + 1][1] - 1 \in 0 .. n /\ chunks[c][2] \in 0 .. n
    BY <2>1, <1>2, <1>3, TokensKept
  <2>3. upto'[chunks[c + 1][1] - 1] = upto[chunks[c + 1][1] - 1]
        /\ upto'[chunks[c][2]] = upto[chunks[c][2]]
    BY <2>2, TokensKept
  <2>4. Tokens(chunks[c + 1][1], chunks[c][2])' = Tokens(chunks[c + 1][1], chunks[c][2])
    BY <1>1, <2>3 DEF Tokens
  <2> QED
    BY <1>1, <2>4 DEF ProseInv, ContextShared
<1> QED
  BY <1>5, <1>6, <1>7, <1>8, <1>9, <1>10, <1>11 DEF ProseInv

\* One more chunk, lo .. n: what every step that cuts prose has to show.
LEMMA CutKeeps ==
    ASSUME TypeOK, ProseInv, Prose, lo <= n, n \notin breaks,
           Small => Tokens(lo, n - 1) < Target,
           Prose', UNCHANGED <<n, upto>>,
           chunks' = Append(chunks, <<lo, n>>)
    PROVE  /\ Len(chunks') = Len(chunks) + 1 /\ chunks' # <<>>
           /\ chunks'[Len(chunks')] = <<lo, n>>
           /\ \A c \in 1 .. Len(chunks') :
                 1 <= chunks'[c][1] /\ chunks'[c][1] <= chunks'[c][2]
                 /\ chunks'[c][2] <= n
           /\ \A k \in 1 .. n : \E c \in 1 .. Len(chunks') :
                 chunks'[c][1] <= k /\ k <= chunks'[c][2]
           /\ \A c \in 1 .. Len(chunks'), b \in breaks \cup {n} :
                 ~(chunks'[c][1] <= b /\ b < chunks'[c][2])
           /\ SmallEnough'
           /\ breaks \subseteq breaks' => ContextShared'
<1> USE ChunksAssumption
<1> DEFINE L == Len(chunks)
<1>1. /\ chunks \in Seq(Nat \X Nat) /\ <<lo, n>> \in Nat \X Nat
      /\ L \in Nat /\ n \in Nat /\ lo \in 1 .. n /\ breaks \subseteq 0 .. n
      /\ \A c \in 1 .. L : chunks[c] \in Nat \X Nat
      /\ L >= 1 => chunks # <<>>
  <2>1. chunks \in Seq(Nat \X Nat) /\ n \in Nat /\ lo \in 1 .. n
        /\ breaks \subseteq 0 .. n
    BY DEF TypeOK
  <2>2. L \in Nat /\ \A c \in 1 .. L : chunks[c] \in Nat \X Nat
    BY <2>1
  <2>3. L >= 1 => chunks # <<>>
    OBVIOUS
  <2> QED
    BY <2>1, <2>2, <2>3
<1>2. /\ Len(chunks') = L + 1
      /\ chunks'[L + 1] = <<lo, n>>
      /\ \A c \in 1 .. L : chunks'[c] = chunks[c]
      /\ chunks' # <<>>
  BY <1>1, AppendSpan
<1>3. \A c \in 1 .. L + 1 : c \in 1 .. L \/ c = L + 1
  BY <1>1
<1>4. \A c \in 1 .. L :
         1 <= chunks[c][1] /\ chunks[c][1] <= chunks[c][2] /\ chunks[c][2] <= n
  BY DEF ProseInv, AccInv
<1>5. \A c \in 1 .. L + 1 :
         1 <= chunks'[c][1] /\ chunks'[c][1] <= chunks'[c][2] /\ chunks'[c][2] <= n
  BY <1>1, <1>2, <1>3, <1>4
<1>6. ASSUME NEW k \in 1 .. n
      PROVE  \E c \in 1 .. L + 1 : chunks'[c][1] <= k /\ k <= chunks'[c][2]
  <2>1. CASE k >= lo
    BY <1>1, <1>2, <2>1
  <2>2. CASE ~(k >= lo)
    <3>1. PICK c \in 1 .. L : chunks[c][1] <= k /\ k <= chunks[c][2]
      BY <2>2 DEF ProseInv, SentencesCovered
    <3>2. c \in 1 .. L + 1 /\ chunks'[c] = chunks[c]
      BY <1>1, <1>2
    <3> QED
      BY <3>1, <3>2
  <2> QED
    BY <2>1, <2>2
<1>7. ASSUME NEW c \in 1 .. L + 1, NEW b \in breaks \cup {n}
      PROVE  ~(chunks'[c][1] <= b /\ b < chunks'[c][2])
  <2>1. CASE b = n
    <3>1. chunks'[c][2] \in Nat
      <4>1. chunks'[c] \in Nat \X Nat
        BY <1>1, <1>2, <1>3
      <4> QED
        BY <4>1
    <3> QED
      BY <1>1, <1>5, <2>1, <3>1
  <2>2. CASE b \in breaks /\ c = L + 1
    <3>1. b < lo /\ b \in Nat
      BY <1>1, <2>2 DEF ProseInv, AccInv
    <3> QED
      BY <1>1, <1>2, <2>2, <3>1
  <2>3. CASE b \in breaks /\ c \in 1 .. L
    BY <1>2, <2>3 DEF ProseInv, OneParagraph
  <2> QED
    BY <1>3, <2>1, <2>2, <2>3
<1>8. SmallEnough'
  <2> SUFFICES ASSUME Small, NEW c \in 1 .. L + 1
               PROVE  Tokens(chunks'[c][1], chunks'[c][2] - 1) < Target
    BY <1>2 DEF SmallEnough, Small, Tokens
  <2>1. CASE c = L + 1
    BY <1>2, <2>1
  <2>2. CASE c \in 1 .. L
    BY <1>2, <2>2 DEF ProseInv, SmallEnough, Small
  <2> QED
    BY <1>3, <2>1, <2>2
<1>9. ASSUME breaks \subseteq breaks' PROVE ContextShared'
  <2> SUFFICES ASSUME NEW c \in 1 .. L
               PROVE  /\ chunks'[c][1] <= chunks'[c + 1][1]
                      /\ chunks'[c][2] <= chunks'[c + 1][2]
                      /\ chunks'[c][2] \in breaks
                         \/ chunks'[c][1] = chunks'[c + 1][1]
                         \/ (chunks'[c + 1][1] <= chunks'[c][2] + 1
                             /\ Tokens(chunks'[c + 1][1], chunks'[c][2]) >= Back)
    <3>1. Len(chunks') - 1 = L
      BY <1>1, <1>2
    <3>2. \A a, b : Tokens(a, b)' = Tokens(a, b)
      BY DEF Tokens
    <3> QED
      BY <1>9, <3>1, <3>2 DEF ContextShared
  <2>1. CASE c = L
    <3>1. L >= 1 /\ chunks # <<>> /\ L \in 1 .. L
      BY <1>1, <2>1
    <3>2. chunks'[c] = chunks[L] /\ chunks'[c + 1] = <<lo, n>>
      BY <1>2, <2>1, <3>1
    <3>3. /\ chunks[L][1] <= lo
          /\ chunks[L][2] \in breaks \/ chunks[L][1] = lo
             \/ (lo <= chunks[L][2] + 1 /\ Tokens(lo, chunks[L][2]) >= Back)
      BY <3>1 DEF ProseInv, LastInv
    <3>4. chunks[L][2] <= n
      BY <1>4, <3>1
    <3> QED
      BY <3>2, <3>3, <3>4
  <2>2. CASE c # L
    <3>1. c \in 1 .. L - 1 /\ c \in 1 .. L /\ c + 1 \in 1 .. L
      BY <1>1, <2>2
    <3>2. chunks'[c] = chunks[c] /\ chunks'[c + 1] = chunks[c + 1]
      BY <1>2, <3>1
    <3> QED
      BY <3>1, <3>2 DEF ProseInv, ContextShared
  <2> QED
    BY <2>1, <2>2
<1> QED
  BY <1>2, <1>5, <1>6, <1>7, <1>8, <1>9

\* A full acc is cut: what is taken over is the least that has Back tokens,
\* which leaves it below the target when sentences are small.
LEMMA EmitStep ==
    ASSUME TypeOK, TypeOK', ProseInv, EmitFull
    PROVE  ProseInv'
<1> USE ChunksAssumption
<1> DEFINE L == Len(chunks)
<1>1. PICK k \in lo .. n + 1 : TakesOver(k) /\ lo' = k /\ acc_tokens' = Tokens(k, n)
  BY DEF EmitFull, Recounted
<1>2. /\ Prose /\ Prose' /\ pc' = "read" /\ breaks' = breaks
      /\ UNCHANGED <<n, upto>> /\ chunks' = Append(chunks, <<lo, n>>)
      /\ pc = "full"
  BY DEF EmitFull, ProseInv, PhaseInv, Prose
<1>3. lo <= n /\ (Small => Tokens(lo, n - 1) < Target) /\ \A b \in breaks : b < lo
  BY <1>2 DEF ProseInv, AccInv
<1>4. n \in Nat /\ lo \in 1 .. n /\ k \in Nat /\ breaks \subseteq 0 .. n
      /\ \A m \in 0 .. n : upto[m] \in Nat
  BY <1>3 DEF TypeOK
<1>5. n \notin breaks
  BY <1>3, <1>4
<1>6. /\ Len(chunks') = L + 1 /\ chunks' # <<>>
      /\ chunks'[Len(chunks')] = <<lo, n>>
      /\ \A c \in 1 .. Len(chunks') :
            1 <= chunks'[c][1] /\ chunks'[c][1] <= chunks'[c][2]
            /\ chunks'[c][2] <= n
      /\ \A m \in 1 .. n : \E c \in 1 .. Len(chunks') :
            chunks'[c][1] <= m /\ m <= chunks'[c][2]
      /\ \A c \in 1 .. Len(chunks'), b \in breaks \cup {n} :
            ~(chunks'[c][1] <= b /\ b < chunks'[c][2])
      /\ SmallEnough' /\ ContextShared'
  BY <1>2, <1>3, <1>5, CutKeeps
<1>7. Small => acc_tokens' < Target
  <2>1. CASE k = n + 1
    <3>1. Tokens(k, n) = 0
      BY <1>4, <2>1 DEF Tokens
    <3> QED
      BY <1>1, <3>1
  <2>2. CASE k # n + 1
    <3>1. k \in 1 .. n /\ k + 1 \in k + 1 .. n + 1 /\ k + 1 # lo
      BY <1>1, <1>4, <2>2
    <3>2. ~(Tokens(k + 1, n) >= Back)
      BY <1>1, <3>1 DEF TakesOver, Enough
    <3>3. Tokens(k, n) = Tokens(k, k) + Tokens(k + 1, n)
      <4>1. upto[k] \in Nat /\ upto[k - 1] \in Nat /\ upto[n] \in Nat
            /\ k + 1 - 1 = k
        BY <1>4, <3>1
      <4> QED
        BY <4>1 DEF Tokens
    <3>4. Tokens(k, k) \in Int /\ Tokens(k + 1, n) \in Int
      <4>1. upto[k] \in Nat /\ upto[k - 1] \in Nat /\ upto[n] \in Nat
            /\ k + 1 - 1 = k
        BY <1>4, <3>1
      <4> QED
        BY <4>1 DEF Tokens
    <3>5. Small => Tokens(k, k) <= Target - Back
      BY <3>1 DEF Small
    <3> QED
      BY <1>1, <3>2, <3>3, <3>4, <3>5
  <2> QED
    BY <2>1, <2>2
<1>8. Small' <=> Small
  BY <1>2 DEF Small, Tokens
<1>9. AccInv'
  <2>1. \A b \in breaks : b < k
    BY <1>1, <1>3, <1>4
  <2>2. \A m \in 1 .. n : upto[m - 1] <= upto[m]
    BY <1>2 DEF ProseInv, AccInv
  <2> QED
    BY <1>1, <1>2, <1>6, <1>7, <1>8, <2>1, <2>2 DEF AccInv
<1>10. LastInv'
  <2>1. /\ lo <= k
        /\ lo = k \/ (k <= n + 1 /\ Tokens(k, n) >= Back)
    BY <1>1, <1>4 DEF TakesOver, Enough
  <2>2. chunks'[Len(chunks')][1] = lo /\ chunks'[Len(chunks')][2] = n
    BY <1>6
  <2> QED
    BY <1>1, <1>2, <2>1, <2>2 DEF LastInv, Tokens
<1>11. SentencesCovered'
  BY <1>2, <1>5, <1>6 DEF SentencesCovered
<1>12. OneParagraph'
  BY <1>2, <1>6 DEF OneParagraph
<1>13. PhaseInv'
  BY <1>2 DEF PhaseInv
<1> QED
  BY <1>6, <1>9, <1>10, <1>11, <1>12, <1>13 DEF ProseInv

\* A paragraph ends: what is left in acc is its last chunk; nothing is left
\* only when the chunk before ended with the paragraph.
LEMMA EndStep ==
    ASSUME TypeOK, TypeOK', ProseInv, EndParagraph
    PROVE  ProseInv'
<1> USE ChunksAssumption
<1> DEFINE L == Len(chunks)
<1>1. /\ Prose /\ Prose' /\ pc = "read" /\ pc' = "read"
      /\ breaks' = breaks \cup {n} /\ n \notin breaks
      /\ UNCHANGED <<n, upto>> /\ lo' = n + 1 /\ acc_tokens' = 0
      /\ chunks' = WithRest
  BY DEF EndParagraph, FreshAcc, Prose
<1>2. /\ n \in Nat /\ lo \in 1 .. n + 1 /\ breaks \subseteq 0 .. n /\ L \in Nat
      /\ acc_tokens = Tokens(lo, n)
      /\ \A m \in 0 .. n : upto[m] \in Nat
      /\ \A c \in 1 .. L : chunks[c] \in Nat \X Nat
      /\ chunks # <<>> => L \in 1 .. L
  <2>1. n \in Nat /\ lo \in 1 .. n + 1 /\ breaks \subseteq 0 .. n
        /\ acc_tokens = Tokens(lo, n) /\ upto \in [0 .. n -> Nat]
        /\ chunks \in Seq(Nat \X Nat)
    <3>1. TypeOK => n \in 0 .. MaxSentences /\ lo \in 1 .. n + 1
                    /\ breaks \subseteq 0 .. n /\ acc_tokens = Tokens(lo, n)
                    /\ upto \in [0 .. n -> Nat] /\ chunks \in Seq(Nat \X Nat)
      BY ZenonT(20) DEF TypeOK
    <3>2. n \in 0 .. MaxSentences => n \in Nat
      OBVIOUS
    <3> QED
      BY <3>1, <3>2
  <2> HIDE ChunksAssumption
  <2>2. L \in Nat /\ \A c \in 1 .. L : chunks[c] \in Nat \X Nat
    <3>1. L \in Nat
      BY <2>1
    <3>2. ASSUME NEW c \in 1 .. L
          PROVE  chunks[c] \in Nat \X Nat
      BY <2>1
    <3> QED
      BY <3>1, <3>2
  <2>3. chunks # <<>> => L \in 1 .. L
    BY <2>1
  <2> QED
    BY <2>1, <2>2, <2>3
<1>3. /\ \A b \in breaks : b < lo
      /\ Small => acc_tokens < Target
      /\ \A m \in 1 .. n : upto[m - 1] <= upto[m]
      /\ \A c \in 1 .. L :
            1 <= chunks[c][1] /\ chunks[c][1] <= chunks[c][2] /\ chunks[c][2] <= n
  BY <1>1 DEF ProseInv, AccInv
<1>4. Small' <=> Small
  BY <1>1 DEF Small, Tokens
<1>5. PhaseInv'
  BY <1>1 DEF PhaseInv
<1>6. \A b \in breaks' : b < lo'
  BY <1>1, <1>2
<1>7. CASE lo <= n
  <2>1. chunks' = Append(chunks, <<lo, n>>)
    BY <1>1, <1>7 DEF WithRest
  <2>2. Small => Tokens(lo, n - 1) < Target
    <3>1. upto[n - 1] <= upto[n] /\ upto[n - 1] \in Nat /\ upto[n] \in Nat
          /\ upto[lo - 1] \in Nat
      BY <1>2, <1>3, <1>7
    <3> QED
      BY <1>2, <1>3, <3>1 DEF Tokens
  <2>3. /\ Len(chunks') = L + 1 /\ chunks' # <<>>
        /\ chunks'[Len(chunks')] = <<lo, n>>
        /\ \A c \in 1 .. Len(chunks') :
              1 <= chunks'[c][1] /\ chunks'[c][1] <= chunks'[c][2]
              /\ chunks'[c][2] <= n
        /\ \A m \in 1 .. n : \E c \in 1 .. Len(chunks') :
              chunks'[c][1] <= m /\ m <= chunks'[c][2]
        /\ \A c \in 1 .. Len(chunks'), b \in breaks \cup {n} :
              ~(chunks'[c][1] <= b /\ b < chunks'[c][2])
        /\ SmallEnough' /\ ContextShared'
    BY <1>1, <1>7, <2>1, <2>2, CutKeeps
  <2>4. AccInv'
    BY <1>1, <1>3, <1>6, <2>3 DEF AccInv
  <2>5. LastInv'
    <3>1. chunks'[Len(chunks')][1] = lo /\ chunks'[Len(chunks')][2] = n
      BY <2>3
    <3> QED
      BY <1>1, <1>2, <3>1 DEF LastInv
  <2>6. SentencesCovered'
    BY <1>1, <2>3 DEF SentencesCovered
  <2>7. OneParagraph'
    BY <1>1, <2>3 DEF OneParagraph
  <2> QED
    BY <1>5, <2>3, <2>4, <2>5, <2>6, <2>7 DEF ProseInv
<1>8. CASE lo = n + 1
  <2>1. chunks' = chunks
    BY <1>1, <1>2, <1>8 DEF WithRest
  <2>2. AccInv'
    BY <1>1, <1>3, <1>6, <2>1 DEF AccInv
  <2>3. LastInv'
    <3> SUFFICES ASSUME chunks # <<>>
                 PROVE  chunks[L][1] <= n + 1 /\ chunks[L][2] \in breaks'
      BY <1>1, <2>1 DEF LastInv
    <3>1. chunks[L] \in Nat \X Nat /\ chunks[L][1] <= chunks[L][2]
          /\ chunks[L][2] <= n
      BY <1>2, <1>3
    <3>2. chunks[L][2] \in breaks \/ chunks[L][1] = lo \/ lo <= chunks[L][2] + 1
      BY <1>1 DEF ProseInv, LastInv
    <3>3. chunks[L][1] \in Nat /\ chunks[L][2] \in Nat
      BY <3>1
    <3>4. chunks[L][2] \in breaks \/ chunks[L][2] = n
      BY <1>2, <1>8, <3>1, <3>2, <3>3
    <3> QED
      BY <1>1, <1>2, <3>1, <3>3, <3>4
  <2>4. SentencesCovered'
    <3>1. \A m \in 1 .. n : \E c \in 1 .. L : chunks[c][1] <= m /\ m <= chunks[c][2]
      BY <1>1, <1>2, <1>8 DEF ProseInv, SentencesCovered
    <3> QED
      BY <1>1, <2>1, <3>1 DEF SentencesCovered
  <2>5. OneParagraph'
    <3> SUFFICES ASSUME NEW c \in 1 .. L, NEW b \in breaks \cup {n}
                 PROVE  ~(chunks[c][1] <= b /\ b < chunks[c][2])
      BY <1>1, <2>1 DEF OneParagraph
    <3>1. chunks[c][2] \in Nat /\ chunks[c][2] <= n
      <4>1. chunks[c] \in Nat \X Nat
        BY <1>2
      <4> QED
        BY <1>3, <4>1
    <3>2. CASE b = n
      BY <1>2, <3>1, <3>2
    <3>3. CASE b \in breaks
      BY <1>1, <3>3 DEF ProseInv, OneParagraph
    <3> QED
      BY <3>2, <3>3
  <2>6. SmallEnough'
    BY <1>1, <1>4, <2>1 DEF ProseInv, SmallEnough, Small, Tokens
  <2>7. ContextShared'
    BY <1>1, <2>1 DEF ProseInv, ContextShared, Tokens
  <2> QED
    BY <1>5, <2>2, <2>3, <2>4, <2>5, <2>6, <2>7 DEF ProseInv
<1> QED
  BY <1>2, <1>7, <1>8

\* Steps that leave prose and its chunks alone: those of the other chunkers,
\* and the end of a text.
LEMMA OtherStep ==
    ASSUME ProseInv, UNCHANGED <<content_type, prose>>,
           pc' = "full" => pc = "full",
           Prose => (pc' = "done" /\ chunks' = chunks) \/ UNCHANGED <<pc, chunks>>,
           PhaseInv'
    PROVE  ProseInv'
<1>1. CASE ~Prose
  <2>1. ~Prose'
    BY <1>1 DEF Prose
  <2> QED
    BY <2>1 DEF ProseInv, AccInv, LastInv, SentencesCovered, OneParagraph,
                SmallEnough, ContextShared
<1>2. CASE Prose
  <2>1. /\ Prose' /\ chunks' = chunks
        /\ UNCHANGED <<n, upto, breaks, lo, acc_tokens>>
        /\ pc' = "full" => pc = "full"
        /\ pc' = "read" => pc = "read"
    BY <1>2 DEF Prose, prose
  <2>2. AccInv'
    BY <2>1, <1>2 DEF ProseInv, AccInv, Small, Tokens
  <2>3. LastInv'
    BY <2>1, <1>2 DEF ProseInv, LastInv, Tokens
  <2>4. SentencesCovered' /\ OneParagraph'
    BY <2>1, <1>2 DEF ProseInv, SentencesCovered, OneParagraph
  <2>5. SmallEnough'
    BY <2>1, <1>2 DEF ProseInv, SmallEnough, Tokens
  <2>6. ContextShared'
    BY <2>1, <1>2 DEF ProseInv, ContextShared, Tokens
  <2> QED
    BY <2>2, <2>3, <2>4, <2>5, <2>6 DEF ProseInv
<1> QED
  BY <1>1, <1>2

\* ProseInv is inductive: acc and the last chunk say where the next chunk
\* starts, whatever sentences and paragraphs follow.
THEOREM ProseInvStep == TypeOK /\ ProseInv /\ [Next]_vars => ProseInv'
<1> SUFFICES ASSUME TypeOK, ProseInv, [Next]_vars PROVE ProseInv'
  OBVIOUS
<1>1. TypeOK'
  BY NextTyped
<1>2. ASSUME NEW s, NEW e, NextUnit(s, e) PROVE ProseInv'
  BY <1>2, OtherStep DEF NextUnit, PhaseInv, ProseInv, Prose
<1>3. CASE NextWindow
  BY <1>3, OtherStep DEF NextWindow, PhaseInv, ProseInv, Prose
<1>4. ASSUME NEW length, EndText(length) PROVE ProseInv'
  BY <1>4, OtherStep DEF EndText, PhaseInv, ProseInv, Prose
<1>5. CASE UNCHANGED vars
  BY <1>5, OtherStep DEF vars, PhaseInv, ProseInv, Prose
<1> QED
  BY <1>1, <1>2, <1>3, <1>4, <1>5, AddStep, EmitStep, EndStep DEF Next

\* The inductive invariant of chunk_prose holds in every reachable state.
THEOREM ProseCorrect == Spec => []ProseInv
<1>1. Init => ProseInv
  BY ChunksAssumption DEF Init, ProseInv, PhaseInv, AccInv, LastInv,
     SentencesCovered, OneParagraph, SmallEnough, ContextShared, Prose
<1> QED
  BY <1>1, ProseInvStep, TypeCorrect, PTL DEF Spec

\* chunk_prose loses no sentence.
THEOREM NoSentenceLost == Spec => []SentencesCovered
<1>1. ProseInv => SentencesCovered
  BY DEF ProseInv
<1> QED
  BY <1>1, ProseCorrect, PTL

\* chunk_prose cuts at the ends of paragraphs.
THEOREM ParagraphsApart == Spec => []OneParagraph
<1>1. ProseInv => OneParagraph
  BY DEF ProseInv
<1> QED
  BY <1>1, ProseCorrect, PTL

\* With small sentences chunk_prose keeps to its target.
THEOREM ChunksAreSmall == Spec => []SmallEnough
<1>1. ProseInv => SmallEnough
  BY DEF ProseInv
<1> QED
  BY <1>1, ProseCorrect, PTL

\* Neighbouring chunks of a paragraph share their context.
THEOREM NeighboursOverlap == Spec => []ContextShared
<1>1. ProseInv => ContextShared
  BY DEF ProseInv
<1> QED
  BY <1>1, ProseCorrect, PTL

-----------------------------------------------------------------------------
(* Code: the next window starts in its definition, after the one before.    *)

Js == content_type = "js" /\ pc # "done"

StartInv == Js /\ pc = "window" =>
    /\ unit[1] <= start /\ start < unit[2]
    /\ chunks # <<>> => start <= chunks[Len(chunks)][2]

\* A span that starts no later than the last one ends keeps the cover.
LEMMA SpanKeeps ==
    ASSUME chunks \in Seq(Nat \X Nat), NEW s \in Nat, NEW e \in Nat,
           s < e, e <= s + Window, Js, WindowsCover,
           chunks # <<>> => s <= chunks[Len(chunks)][2],
           chunks' = Append(chunks, <<s, e>>)
    PROVE  /\ \A c \in 1 .. Len(chunks') :
                 /\ chunks'[c][1] < chunks'[c][2]
                 /\ chunks'[c][2] <= chunks'[c][1] + Window
                 /\ c > 1 => chunks'[c][1] <= chunks'[c - 1][2]
           /\ chunks'[Len(chunks')][2] = e
           /\ chunks' # <<>>
<1> DEFINE L == Len(chunks)
<1>1. L \in Nat /\ <<s, e>> \in Nat \X Nat /\ (L >= 1 => chunks # <<>>)
  OBVIOUS
<1>2. /\ Len(chunks') = L + 1 /\ chunks' # <<>>
      /\ chunks'[L + 1] = <<s, e>>
      /\ \A c \in 1 .. L : chunks'[c] = chunks[c]
  BY <1>1, AppendSpan
<1>3. ASSUME NEW c \in 1 .. L + 1
      PROVE  /\ chunks'[c][1] < chunks'[c][2]
             /\ chunks'[c][2] <= chunks'[c][1] + Window
             /\ c > 1 => chunks'[c][1] <= chunks'[c - 1][2]
  <2>1. CASE c \in 1 .. L
    <3>1. c > 1 => c - 1 \in 1 .. L
      BY <1>1, <2>1
    <3>2. chunks'[c] = chunks[c] /\ (c > 1 => chunks'[c - 1] = chunks[c - 1])
      BY <1>2, <2>1, <3>1
    <3> QED
      BY <2>1, <3>2 DEF WindowsCover, Js
  <2>2. CASE c = L + 1
    <3>1. c > 1 => L \in 1 .. L /\ chunks # <<>> /\ c - 1 = L
      BY <1>1, <2>2
    <3>2. c > 1 => chunks'[c - 1] = chunks[L]
      BY <1>2, <3>1
    <3> QED
      BY <1>2, <2>2, <3>1, <3>2
  <2> QED
    BY <1>1, <2>1, <2>2
<1>4. \A c \in 1 .. Len(chunks') :
         /\ chunks'[c][1] < chunks'[c][2]
         /\ chunks'[c][2] <= chunks'[c][1] + Window
         /\ c > 1 => chunks'[c][1] <= chunks'[c - 1][2]
  <2> HIDE DEF L
  <2>1. Len(chunks') = L + 1
    BY <1>2
  <2> QED
    BY <1>3, <2>1
<1>5. chunks'[Len(chunks')][2] = e
  <2>1. chunks'[Len(chunks')] = <<s, e>>
    BY <1>2
  <2> QED
    BY <2>1
<1> QED
  BY <1>2, <1>4, <1>5

\* The next definition starts where the one before ended.
LEMMA UnitStep ==
    ASSUME TypeOK, StartInv, WindowsCover,
           NEW s \in 0 .. MaxLength, NEW e \in 0 .. MaxLength, NextUnit(s, e)
    PROVE  StartInv' /\ WindowsCover'
<1> USE ChunksAssumption
<1> SUFFICES ASSUME Js' PROVE StartInv' /\ WindowsCover'
  BY DEF StartInv, WindowsCover, Js
<1>1. /\ Js /\ pc = "read" /\ s < e /\ s \in Nat /\ e \in Nat
      /\ chunks # <<>> => s = unit[2]
      /\ unit' = <<s, e>> /\ start' = s
      /\ chunks \in Seq(Nat \X Nat)
  BY DEF NextUnit, Js, TypeOK
<1>2. chunks # <<>> => s = chunks[Len(chunks)][2]
  BY <1>1 DEF WindowsCover, Js
<1>3. CASE e - s <= Window
  <2>1. chunks' = Append(chunks, <<s, e>>) /\ pc' = "read" /\ e <= s + Window
    BY <1>1, <1>3 DEF NextUnit
  <2>2. chunks # <<>> => s <= chunks[Len(chunks)][2]
    BY <1>1, <1>2
  <2>3. WindowsCover'
    BY <1>1, <2>1, <2>2, SpanKeeps DEF WindowsCover
  <2> QED
    BY <2>1, <2>3 DEF StartInv
<1>4. CASE ~(e - s <= Window)
  <2>1. chunks' = chunks /\ pc' = "window"
    BY <1>1, <1>4 DEF NextUnit
  <2>2. WindowsCover'
    BY <1>1, <2>1 DEF WindowsCover, Js
  <2>3. StartInv'
    BY <1>1, <1>2, <2>1 DEF StartInv
  <2> QED
    BY <2>2, <2>3
<1> QED
  BY <1>3, <1>4

\* The next window overlaps this one, and starts before the definition ends.
LEMMA WindowStep ==
    ASSUME TypeOK, StartInv, WindowsCover, NextWindow
    PROVE  StartInv' /\ WindowsCover'
<1> USE ChunksAssumption
<1> SUFFICES ASSUME Js' PROVE StartInv' /\ WindowsCover'
  BY DEF StartInv, WindowsCover, Js
<1> DEFINE end == Least(unit[2], start + Window)
<1>1. /\ Js /\ pc = "window" /\ unit' = unit
      /\ chunks' = Append(chunks, <<start, end>>)
      /\ chunks \in Seq(Nat \X Nat)
      /\ unit[1] \in Nat /\ unit[2] \in Nat /\ start \in Nat
  BY DEF NextWindow, Js, TypeOK
<1>2. /\ unit[1] <= start /\ start < unit[2]
      /\ chunks # <<>> => start <= chunks[Len(chunks)][2]
  BY <1>1 DEF StartInv
<1>3. end \in Nat /\ start < end /\ end <= start + Window
      /\ (end >= unit[2] => end = unit[2])
      /\ (~(end >= unit[2]) => end = start + Window)
  BY <1>1, <1>2 DEF Least
<1>4. /\ \A c \in 1 .. Len(chunks') :
            /\ chunks'[c][1] < chunks'[c][2]
            /\ chunks'[c][2] <= chunks'[c][1] + Window
            /\ c > 1 => chunks'[c][1] <= chunks'[c - 1][2]
      /\ chunks'[Len(chunks')][2] = end
      /\ chunks' # <<>>
  BY <1>1, <1>2, <1>3, SpanKeeps
<1>5. CASE end >= unit[2]
  <2>1. pc' = "read"
    BY <1>5 DEF NextWindow
  <2> QED
    BY <1>1, <1>3, <1>4, <1>5, <2>1 DEF StartInv, WindowsCover
<1>6. CASE ~(end >= unit[2])
  <2>1. pc' = "window" /\ start' = NextStart
    BY <1>1, <1>6 DEF NextWindow
  <2>2. unit[1] <= NextStart /\ NextStart <= end /\ NextStart < unit[2]
    BY <1>1, <1>2, <1>3, <1>6 DEF NextStart, Greatest
  <2> QED
    BY <1>1, <1>4, <2>1, <2>2 DEF StartInv, WindowsCover
<1> QED
  BY <1>5, <1>6

\* Consecutive definitions are covered by windows without a gap.
THEOREM WindowsCoverAll == Spec => []WindowsCover
<1>1. Init => StartInv /\ WindowsCover
  BY DEF Init, StartInv, WindowsCover, Js
<1>2. TypeOK /\ PhaseInv /\ StartInv /\ WindowsCover /\ [Next]_vars
      => (StartInv /\ WindowsCover)'
  <2> SUFFICES ASSUME TypeOK, PhaseInv, StartInv, WindowsCover, [Next]_vars
               PROVE  (StartInv /\ WindowsCover)'
    OBVIOUS
  <2>1. ASSUME NEW t \in 1 .. MaxTokens, AddSentence(t)
        PROVE  (StartInv /\ WindowsCover)'
    BY <2>1 DEF AddSentence, StartInv, WindowsCover, Js
  <2>2. CASE EmitFull
    BY <2>2 DEF EmitFull, PhaseInv, Prose, StartInv, WindowsCover, Js
  <2>3. CASE EndParagraph
    BY <2>3 DEF EndParagraph, StartInv, WindowsCover, Js
  <2>4. ASSUME NEW length \in 0 .. MaxLength, EndText(length)
        PROVE  (StartInv /\ WindowsCover)'
    BY <2>4 DEF EndText, StartInv, WindowsCover, Js
  <2>5. CASE UNCHANGED vars
    BY <2>5 DEF vars, code, StartInv, WindowsCover, Js
  <2> QED
    BY <2>1, <2>2, <2>3, <2>4, <2>5, UnitStep, WindowStep DEF Next
<1>3. ProseInv => PhaseInv
  BY DEF ProseInv
<1> QED
  BY <1>1, <1>2, <1>3, TypeCorrect, ProseCorrect, PTL DEF Spec

\* Since the overlap is less than the window, cutting a definition advances.
THEOREM CuttingAdvances == Spec => WindowsAdvance
<1>1. TypeOK /\ [Next]_vars
      => (pc = "window" /\ pc' = "window" => start' > start) \/ UNCHANGED vars
  <2> SUFFICES ASSUME TypeOK, Next, pc = "window", pc' = "window"
               PROVE  start' > start
    OBVIOUS
  <2>1. NextWindow
    <3>1. \A t \in 1 .. MaxTokens : ~AddSentence(t)
      BY DEF AddSentence
    <3>2. ~EmitFull /\ ~EndParagraph
      BY DEF EmitFull, EndParagraph
    <3>3. \A s, e \in 0 .. MaxLength : ~NextUnit(s, e)
      BY DEF NextUnit
    <3>4. \A length \in 0 .. MaxLength : ~EndText(length)
      BY DEF EndText
    <3> QED
      BY <3>1, <3>2, <3>3, <3>4 DEF Next
  <2>2. start' = NextStart
    BY <2>1 DEF NextWindow
  <2> QED
    BY <2>2, ChunksAssumption DEF TypeOK, NextStart, Greatest
<1> QED
  BY <1>1, TypeCorrect, PTL DEF Spec, WindowsAdvance
=============================================================================
