---------------------------- MODULE BlocksProofs ----------------------------
(***************************************************************************)
(* Theorems about the blocks of HTML and Markdown, for any tags and words  *)
(* and contents of any length.  They rest on where the parsers took each   *)
(* block: a block found from its own place or before it leaves the places  *)
(* of the later ones ahead of the search.                                  *)
(***************************************************************************)
EXTENDS ChunkText, SequenceTheorems, FiniteSetTheorems, TLAPS

-----------------------------------------------------------------------------
(* What chunk_text does to the chunkers.                                    *)

\* Finding blocks leaves the chunkers alone: what Chunks shows of them holds of
\* chunk_text.
THEOREM ImplementsChunks == ChunkTextSpec => Spec
<1>1. ChunkTextInit => Init
  BY DEF ChunkTextInit
<1>2. [ChunkTextNext]_<<vars, block_vars>> => [Next]_vars
  BY DEF ChunkTextNext
<1> QED
  BY <1>1, <1>2, PTL DEF ChunkTextSpec, Spec

-----------------------------------------------------------------------------
(* Numbers and sequences.                                                   *)

\* Every set of numbers that is not empty has a least one.
LEMMA LeastNumber ==
    ASSUME NEW T \in SUBSET Nat, T # {}
    PROVE  \E m \in T : \A k \in T : m <= k
<1>1. IsWellFoundedOn({p \in Nat \X Nat : p[1] < p[2]}, Nat)
  BY NatLessThanWellFounded DEF OpToRel
<1>2. PICK m \in T :
         \A k \in T : <<k, m>> \notin {p \in Nat \X Nat : p[1] < p[2]}
  BY <1>1, WFMin
<1>3. ASSUME NEW k \in T
      PROVE  m <= k
  <2>1. k \in Nat /\ m \in Nat
    OBVIOUS
  <2>2. ~(k < m)
    BY <2>1, <1>2
  <2>3. QED
    BY <2>1, <2>2
<1>4. QED
  BY <1>3

\* A part of a sequence, element by element.
LEMMA Part ==
    ASSUME NEW S, NEW s \in Seq(S), NEW i \in Nat, NEW j \in Nat, j <= Len(s)
    PROVE  /\ SubSeq(s, i + 1, j) \in Seq(S)
           /\ i < j => /\ Len(SubSeq(s, i + 1, j)) = j - i
                       /\ SubSeq(s, i + 1, j) # <<>>
           /\ i >= j => SubSeq(s, i + 1, j) = <<>>
           /\ \A k \in 1 .. j - i : SubSeq(s, i + 1, j)[k] = s[i + k]
<1>1. \A k \in i + 1 .. j : s[k] \in S
  OBVIOUS
<1>2. /\ SubSeq(s, i + 1, j) \in Seq(S)
      /\ Len(SubSeq(s, i + 1, j)) = IF i + 1 <= j THEN j - (i + 1) + 1 ELSE 0
      /\ \A k \in 1 .. j - (i + 1) + 1 :
            SubSeq(s, i + 1, j)[k] = s[i + 1 + k - 1]
  BY <1>1, SubSeqProperties
<1>3. i >= j => SubSeq(s, i + 1, j) = <<>>
  BY SubSeqEmpty
<1>4. i < j => Len(SubSeq(s, i + 1, j)) # 0
  BY <1>2
<1>5. i < j => SubSeq(s, i + 1, j) # <<>>
  BY <1>4, EmptySeq
<1> QED
  BY <1>2, <1>3, <1>5

\* What follows an element that is not the last is not empty.
LEMMA RestNotEmpty ==
    ASSUME NEW S, NEW s \in Seq(S), NEW i \in Nat, i < Len(s)
    PROVE  SubSeq(s, i + 1, Len(s)) # <<>>
<1> DEFINE j == Len(s)
<1>1. j \in Nat /\ j <= Len(s) /\ i < j
  BY LenProperties
<1> HIDE DEF j
<1>2. SubSeq(s, i + 1, j) # <<>>
  BY <1>1, Part
<1> QED
  BY <1>2 DEF j

-----------------------------------------------------------------------------
(* The invariant.                                                           *)

Sym == [kind : {"word", "open", "close", "blank", "fence", "markup"},
        name : Word \cup Tag \cup {""}]

Block == Seq(Sym) \ {<<>>}

BlocksTyped ==
    /\ BlocksTypeOK
    /\ content \in Seq(Sym) /\ buf \in Seq(Sym)
    /\ blocks \in Seq(Block) /\ spans \in Seq(Nat \X Nat)
    /\ format = "text" => phase = "parse"
    /\ phase = "parse" => next = 1 /\ cursor = 0 /\ spans = <<>>
    /\ phase = "over" => next = Len(blocks) + 1

\* A text has the symbols of b from i on.
HasAt(c, b, i) ==
    i + Len(b) <= Len(c) /\ \A k \in 1 .. Len(b) : c[i + k] = b[k]

\* Where each block of bs was taken out of c: after the one before, up to limit.
PlacedIn(c, bs, at, limit) ==
    /\ at \in [1 .. Len(bs) -> Nat]
    /\ \A k \in 1 .. Len(bs) :
          HasAt(c, bs[k], at[k]) /\ at[k] + Len(bs[k]) <= limit
    /\ \A k \in 1 .. Len(bs) - 1 : at[k] + Len(bs[k]) <= at[k + 1]

Placed(at, limit) == PlacedIn(content, blocks, at, limit)

\* The element whose end may still come, in a flat html text.
Pending ==
    {i \in 1 .. Len(content) :
        /\ content[i].kind = "open"
        /\ \A k \in i + 1 .. Len(content) : content[k].kind = "word"}

FlatSoFar ==
    \A i \in 1 .. Len(content) :
        content[i].kind \in {"open", "close"} =>
            i \in Pending \/ \E x \in Element : i \in {x[1], x[2]}

Texts == {x \in Element : x[2] > x[1] + 1}

MarkdownParsed ==
    format = "markdown" /\ phase = "parse" => \E at : Placed(at, mark)

\* The stack and the data are those of the pending element, which comes after
\* every block.
HtmlRead ==
    /\ Pending = {} => stack = <<>> /\ buf = <<>>
    /\ \A i \in Pending :
          /\ stack = <<content[i].name>>
          /\ buf = SubSeq(content, i + 1, Len(content))
    /\ \E at : /\ Placed(at, Len(content))
               /\ \A i \in Pending : Placed(at, i)
    /\ Len(blocks) = Cardinality(Texts)

HtmlParsed == format = "html" /\ phase = "parse" /\ FlatSoFar => HtmlRead

\* The search has not passed the places of the blocks it still looks for.
LookedUp ==
    phase # "parse" /\ (format = "html" => Flat) =>
        /\ \E at : /\ Placed(at, Len(content))
                   /\ \A k \in next .. Len(blocks) : cursor <= at[k]
        /\ Len(spans) = next - 1
        /\ format = "html" => Len(blocks) = Cardinality(Texts)

InOrder == SpansInOrder /\ \A c \in 1 .. Len(spans) : spans[c][2] <= cursor

-----------------------------------------------------------------------------
(* Occurrences.                                                             *)

\* A block occurs where the content has its symbols.
LEMMA OccursWhere ==
    ASSUME content \in Seq(Sym), NEW b \in Seq(Sym), NEW i \in Nat
    PROVE  Occurs(b, i) <=> HasAt(content, b, i)
<1> SUFFICES ASSUME i + Len(b) <= Len(content)
             PROVE  SubSeq(content, i + 1, i + Len(b)) = b <=>
                        \A k \in 1 .. Len(b) : content[i + k] = b[k]
  BY DEF Occurs, HasAt
<1> DEFINE t == SubSeq(content, i + 1, i + Len(b))
<1>1. Len(b) \in Nat /\ i + Len(b) \in Nat
  OBVIOUS
<1>2. /\ t \in Seq(Sym)
      /\ i < i + Len(b) => Len(t) = i + Len(b) - i
      /\ i >= i + Len(b) => t = <<>>
      /\ \A k \in 1 .. Len(b) : t[k] = content[i + k]
  <2>1. i + Len(b) - i = Len(b)
    BY <1>1
  <2> QED
    BY Part, <1>1, <2>1
<1>3. Len(t) = Len(b)
  BY <1>1, <1>2
<1> HIDE DEF t
<1>4. t = b <=> \A k \in 1 .. Len(b) : t[k] = b[k]
  BY <1>2, <1>3, SeqEqual
<1>5. t = b <=> \A k \in 1 .. Len(b) : content[i + k] = b[k]
  BY <1>2, <1>4
<1> QED
  BY <1>5 DEF t

\* A block is found at its own place or before.
LEMMA FoundInTime ==
    ASSUME content \in Seq(Sym), NEW b \in Seq(Sym),
           NEW from \in Nat, NEW p \in Nat, from <= p, HasAt(content, b, p)
    PROVE  /\ Found(b, from) # {}
           /\ \A i \in Found(b, from) : i \in Nat /\ from <= i /\ i <= p
<1> DEFINE T == {i \in from .. Len(content) : HasAt(content, b, i)}
<1>1. p \in T
  BY DEF HasAt
<1>2. PICK m \in T : \A k \in T : m <= k
  <2>1. T \in SUBSET Nat /\ T # {}
    BY <1>1
  <2> HIDE DEF T
  <2> QED
    BY <2>1, LeastNumber
<1>3. m \in Found(b, from)
  <2>1. m \in from .. Len(content) /\ m \in Nat /\ Occurs(b, m)
    BY OccursWhere
  <2>2. ASSUME NEW j \in from .. m - 1, Occurs(b, j)
        PROVE  FALSE
    <3>1. j \in Nat /\ j \in from .. Len(content) /\ HasAt(content, b, j)
      BY <2>1, <2>2, OccursWhere
    <3> QED
      BY <3>1, <2>1, <1>2
  <2> QED
    BY <2>1, <2>2 DEF Found
<1>4. ASSUME NEW i \in Found(b, from)
      PROVE  i \in Nat /\ from <= i /\ i <= p
  <2>1. i \in from .. Len(content) /\ \A j \in from .. i - 1 : ~Occurs(b, j)
    BY DEF Found
  <2>2. Occurs(b, p)
    BY OccursWhere
  <2> QED
    BY <2>1, <2>2
<1> QED
  BY <1>3, <1>4

\* What is said of one block that has its place.
LEMMA PlaceOf ==
    ASSUME NEW c, NEW bs \in Seq(Block), NEW at, NEW l,
           PlacedIn(c, bs, at, l), NEW k \in 1 .. Len(bs)
    PROVE  /\ bs[k] \in Seq(Sym) /\ Len(bs[k]) \in Nat /\ at[k] \in Nat
           /\ HasAt(c, bs[k], at[k]) /\ at[k] + Len(bs[k]) <= l
<1>1. bs[k] \in Seq(Sym) /\ Len(bs[k]) \in Nat
  <2>1. bs[k] \in Seq(Sym)
    BY ElementOfSeq DEF Block
  <2> QED
    BY <2>1, LenProperties
<1>2. at[k] \in Nat
  BY DEF PlacedIn
<1> QED
  BY <1>1, <1>2 DEF PlacedIn

\* Later blocks have later places.
LEMMA PlacesRise ==
    ASSUME NEW c, NEW bs \in Seq(Block), NEW at, NEW l, PlacedIn(c, bs, at, l),
           NEW k \in 1 .. Len(bs), NEW j \in k + 1 .. Len(bs)
    PROVE  at[k] + Len(bs[k]) <= at[j]
<1> DEFINE T == {m \in k + 1 .. Len(bs) : ~(at[k] + Len(bs[k]) <= at[m])}
<1>1. Len(bs) \in Nat
  BY LenProperties
<1>2. \A m \in 1 .. Len(bs) : at[m] \in Nat /\ Len(bs[m]) \in Nat
  BY PlaceOf
<1>3. \A m \in 1 .. Len(bs) - 1 : at[m] + Len(bs[m]) <= at[m + 1]
  BY DEF PlacedIn
<1>4. SUFFICES ASSUME j \in T
               PROVE  FALSE
  OBVIOUS
<1>5. PICK m \in T : \A h \in T : m <= h
  <2>1. T \in SUBSET Nat /\ T # {}
    BY <1>1, <1>4
  <2> HIDE DEF T
  <2> QED
    BY <2>1, LeastNumber
<1>6. m \in k + 1 .. Len(bs) /\ ~(at[k] + Len(bs[k]) <= at[m])
  BY <1>5
<1>7. CASE m = k + 1
  BY <1>1, <1>2, <1>3, <1>6, <1>7
<1>8. CASE m # k + 1
  <2>1. m - 1 \in k + 1 .. Len(bs) /\ m - 1 \in 1 .. Len(bs) - 1 /\ m - 1 + 1 = m
    BY <1>1, <1>6, <1>8
  <2>2. at[k] + Len(bs[k]) <= at[m - 1]
    BY <2>1, <1>5, <1>6
  <2>3. at[m - 1] + Len(bs[m - 1]) <= at[m]
    BY <2>1, <1>3
  <2>4. /\ at[k] \in Nat /\ Len(bs[k]) \in Nat /\ at[m] \in Nat
        /\ at[m - 1] \in Nat /\ Len(bs[m - 1]) \in Nat
    BY <2>1, <1>1, <1>2, <1>6
  <2> QED
    BY <2>2, <2>3, <2>4, <1>6
<1> QED
  BY <1>7, <1>8

\* The limit may be further on.
LEMMA PlacedUpTo ==
    ASSUME NEW c, NEW bs \in Seq(Block), NEW at, NEW l \in Nat,
           NEW limit \in Nat, l <= limit, PlacedIn(c, bs, at, l)
    PROVE  PlacedIn(c, bs, at, limit)
<1>1. ASSUME NEW k \in 1 .. Len(bs)
      PROVE  at[k] + Len(bs[k]) <= limit
  <2>1. at[k] \in Nat /\ Len(bs[k]) \in Nat /\ at[k] + Len(bs[k]) <= l
    BY PlaceOf
  <2> QED
    BY <2>1
<1> QED
  BY <1>1 DEF PlacedIn

\* Reading on moves no block.
LEMMA StillPlaced ==
    ASSUME NEW c \in Seq(Sym), NEW bs \in Seq(Block), NEW s \in Sym, NEW at,
           NEW l \in Nat, NEW limit \in Nat, l <= limit, PlacedIn(c, bs, at, l)
    PROVE  PlacedIn(Append(c, s), bs, at, limit)
<1> DEFINE d == Append(c, s)
<1>1. /\ Len(d) = Len(c) + 1 /\ Len(c) \in Nat
      /\ \A k \in 1 .. Len(c) : d[k] = c[k]
  BY AppendProperties
<1> HIDE DEF d
<1>2. ASSUME NEW k \in 1 .. Len(bs)
      PROVE  HasAt(d, bs[k], at[k]) /\ at[k] + Len(bs[k]) <= limit
  <2>1. /\ at[k] \in Nat /\ Len(bs[k]) \in Nat
        /\ HasAt(c, bs[k], at[k]) /\ at[k] + Len(bs[k]) <= l
    BY PlaceOf
  <2>2. at[k] + Len(bs[k]) <= limit
    BY <2>1
  <2>3. HasAt(d, bs[k], at[k])
    <3>1. \A j \in 1 .. Len(bs[k]) : at[k] + j \in 1 .. Len(c)
      BY <2>1 DEF HasAt
    <3>2. \A j \in 1 .. Len(bs[k]) : d[at[k] + j] = c[at[k] + j]
      BY <3>1, <1>1
    <3>3. /\ at[k] + Len(bs[k]) <= Len(c)
          /\ \A j \in 1 .. Len(bs[k]) : c[at[k] + j] = bs[k][j]
      BY <2>1 DEF HasAt
    <3>4. at[k] + Len(bs[k]) <= Len(d)
      BY <3>3, <2>1, <1>1
    <3>5. \A j \in 1 .. Len(bs[k]) : d[at[k] + j] = bs[k][j]
      BY <3>2, <3>3
    <3> QED
      BY <3>4, <3>5 DEF HasAt
  <2> QED
    BY <2>2, <2>3
<1> QED
  BY <1>2 DEF PlacedIn, d

\* A part of the text after the last block is one more block.
LEMMA OneMorePlaced ==
    ASSUME NEW c \in Seq(Sym), NEW bs \in Seq(Block), NEW at,
           NEW l \in Nat, PlacedIn(c, bs, at, l),
           NEW i \in Nat, NEW e \in Nat, l <= i, i < e, e <= Len(c)
    PROVE  /\ SubSeq(c, i + 1, e) \in Block
           /\ \E to : PlacedIn(c, Append(bs, SubSeq(c, i + 1, e)), to, e)
<1> DEFINE b  == SubSeq(c, i + 1, e)
           cs == Append(bs, b)
           to == [k \in 1 .. Len(cs) |-> IF k = Len(cs) THEN i ELSE at[k]]
<1>1. b \in Seq(Sym) /\ Len(b) = e - i /\ \A k \in 1 .. e - i : b[k] = c[i + k]
  BY Part
<1> HIDE DEF b
<1>2. b # <<>>
  BY <1>1
<1>3. /\ Len(cs) = Len(bs) + 1 /\ cs[Len(bs) + 1] = b
      /\ \A k \in 1 .. Len(bs) : cs[k] = bs[k]
  <2>1. b \in Block
    BY <1>1, <1>2 DEF Block
  <2> QED
    BY <2>1, AppendProperties
<1> HIDE DEF cs
<1>4. Len(bs) \in Nat
  OBVIOUS
<1>5. /\ to \in [1 .. Len(cs) -> Nat] /\ to[Len(bs) + 1] = i
      /\ \A k \in 1 .. Len(bs) : to[k] = at[k] /\ at[k] \in Nat
  <2>1. \A k \in 1 .. Len(bs) : at[k] \in Nat
    BY DEF PlacedIn
  <2> QED
    BY <2>1, <1>3, <1>4
<1> HIDE DEF to
<1>6. ASSUME NEW k \in 1 .. Len(cs)
      PROVE  HasAt(c, cs[k], to[k]) /\ to[k] + Len(cs[k]) <= e
  <2>1. CASE k = Len(bs) + 1
    BY <2>1, <1>1, <1>3, <1>5 DEF HasAt
  <2>2. CASE k \in 1 .. Len(bs)
    <3>1. /\ HasAt(c, bs[k], at[k]) /\ at[k] \in Nat
          /\ at[k] + Len(bs[k]) <= l /\ Len(bs[k]) \in Nat
      BY <2>2, PlaceOf
    <3> QED
      BY <3>1, <2>2, <1>3, <1>5
  <2> QED
    BY <2>1, <2>2, <1>3, <1>4
<1>7. ASSUME NEW k \in 1 .. Len(cs) - 1
      PROVE  to[k] + Len(cs[k]) <= to[k + 1]
  <2>1. k \in 1 .. Len(bs) /\ cs[k] = bs[k] /\ to[k] = at[k] /\ at[k] \in Nat
    BY <1>3, <1>4, <1>5
  <2>2. at[k] + Len(bs[k]) <= l /\ Len(bs[k]) \in Nat
    BY <2>1, PlaceOf
  <2>3. CASE k = Len(bs)
    BY <2>1, <2>2, <2>3, <1>5
  <2>4. CASE k \in 1 .. Len(bs) - 1
    <3>1. at[k] + Len(bs[k]) <= at[k + 1] /\ k + 1 \in 1 .. Len(bs)
      BY <2>4, <1>4 DEF PlacedIn
    <3> QED
      BY <3>1, <2>1, <1>5
  <2> QED
    BY <2>1, <2>3, <2>4, <1>4
<1>8. PlacedIn(c, cs, to, e)
  BY <1>5, <1>6, <1>7 DEF PlacedIn
<1> QED
  BY <1>1, <1>2, <1>8 DEF b, cs, Block

-----------------------------------------------------------------------------
(* The types.                                                               *)

\* Reading a symbol keeps the types when what it does to the rest does.
LEMMA ReadTyped ==
    ASSUME BlocksTyped, NEW s \in Sym, Read(s),
           blocks' \in Seq(Block), stack' \in Seq(Tag), buf' \in Seq(Sym),
           mark' \in 0 .. Len(content) + 1, fence' \in {"none", "open", "lone"}
    PROVE  BlocksTyped'
<1>1. /\ content' \in Seq(Sym) /\ Len(content') = Len(content) + 1
      /\ Len(content) \in Nat
  BY AppendProperties DEF BlocksTyped, Read
<1>2. Len(content') <= MaxSymbols
  BY <1>1, BlocksAssumption DEF Read
<1>3. /\ phase' = "parse" /\ format' = format
      /\ next' = 1 /\ cursor' = 0 /\ spans' = <<>>
  BY DEF Read, BlocksTyped, finding
<1>4. \A i \in 1 .. Len(blocks') : blocks'[i] # <<>>
  BY ElementOfSeq DEF Block
<1>5. Len(blocks') \in Nat /\ 1 \in 1 .. Len(blocks') + 1
  BY LenProperties
<1>6. spans' \in Seq(Nat \X Nat) /\ Len(spans') = 0
  BY <1>3, EmptySeq
<1>7. BlocksTypeOK'
  BY <1>1, <1>2, <1>3, <1>4, <1>5, <1>6 DEF BlocksTyped, BlocksTypeOK
<1> QED
  BY <1>1, <1>3, <1>6, <1>7 DEF BlocksTyped

\* The symbols the actions read.
LEMMA Symbols ==
    /\ Blank \in Sym /\ Fence \in Sym /\ Markup \in Sym
    /\ \A t \in Tag : Symbol("open", t) \in Sym /\ Symbol("close", t) \in Sym
    /\ \A w \in Word : Symbol("word", w) \in Sym
BY DEF Sym, Symbol, Blank, Fence, Markup

\* A paragraph is a block.
LEMMA ParagraphTyped == BlocksTyped => WithParagraph \in Seq(Block)
<1> DEFINE p == SubSeq(content, mark + 1, Len(content))
<1> SUFFICES ASSUME BlocksTyped, mark # Len(content)
             PROVE  p \in Block
  <2>1. BlocksTyped => blocks \in Seq(Block)
    BY DEF BlocksTyped
  <2>2. \A b \in Block : blocks \in Seq(Block) => Append(blocks, b) \in Seq(Block)
    BY AppendProperties
  <2> QED
    BY <2>1, <2>2 DEF WithParagraph
<1>1. /\ content \in Seq(Sym) /\ mark \in Nat /\ Len(content) \in Nat
      /\ mark < Len(content)
  BY DEF BlocksTyped, BlocksTypeOK
<1>2. p \in Seq(Sym) /\ p # <<>>
  BY <1>1, Part
<1> HIDE DEF p
<1> QED
  BY <1>2 DEF Block

\* So is the code between two fences.
LEMMA CodeTyped == BlocksTyped => WithCode \in Seq(Block)
<1> SUFFICES ASSUME BlocksTyped, NEW e \in CodeEnds
             PROVE  SubSeq(content, mark + 1, e) \in Block
  <2>1. BlocksTyped => blocks \in Seq(Block)
    BY DEF BlocksTyped
  <2>2. \A b \in Block : blocks \in Seq(Block) => Append(blocks, b) \in Seq(Block)
    BY AppendProperties
  <2>3. CodeEnds # {} => (CHOOSE x \in CodeEnds : TRUE) \in CodeEnds
    OBVIOUS
  <2> QED
    BY <2>1, <2>2, <2>3 DEF WithCode
<1>1. /\ content \in Seq(Sym) /\ mark \in Nat /\ Len(content) \in Nat
      /\ e \in Nat /\ mark < e /\ e <= Len(content)
  BY DEF BlocksTyped, BlocksTypeOK, CodeEnds
<1>2. /\ SubSeq(content, mark + 1, e) \in Seq(Sym)
      /\ SubSeq(content, mark + 1, e) # <<>>
  BY <1>1, Part
<1> QED
  BY <1>2 DEF Block

\* What is found lies in the content, at or after the cursor, unless markdown
\* searches again.
LEMMA FoundTyped ==
    ASSUME BlocksTyped, next <= Len(blocks), NEW i \in Occurrence(blocks[next])
    PROVE  /\ blocks[next] \in Block /\ Len(blocks[next]) \in Nat \ {0}
           /\ i \in Nat /\ i + Len(blocks[next]) <= Len(content)
           /\ i \in Found(blocks[next], cursor) => cursor <= i
<1>1. next \in 1 .. Len(blocks) /\ blocks \in Seq(Block) /\ cursor \in Nat
  BY LenProperties DEF BlocksTyped, BlocksTypeOK
<1>2. blocks[next] \in Block
  BY <1>1, ElementOfSeq
<1>3. Len(blocks[next]) \in Nat \ {0}
  BY <1>2, EmptySeq DEF Block
<1>4. i \in Found(blocks[next], cursor) \/ i \in Found(blocks[next], 0)
  BY DEF Occurrence
<1>5. Len(content) \in Nat
  BY LenProperties DEF BlocksTyped
<1> QED
  BY <1>1, <1>2, <1>3, <1>4, <1>5 DEF Found, Occurs

\* A span of its own for each block that is found.
LEMMA FindTyped ==
    ASSUME BlocksTyped, FindBlock
    PROVE  BlocksTyped'
<1>1. PICK i \in Occurrence(blocks[next]) : FoundAt(i)
  BY DEF FindBlock
<1> DEFINE e == i + Len(blocks[next])
<1>2. i \in Nat /\ e \in Nat /\ i < e /\ e <= Len(content) /\ Len(content) \in Nat
  BY FoundTyped, LenProperties DEF FindBlock, BlocksTyped
<1>3. spans' = Append(spans, <<i, e>>) /\ cursor' = e
  BY <1>1 DEF FoundAt, EndOf, Advanced
<1> HIDE DEF e
<1>4. /\ spans' \in Seq(Nat \X Nat) /\ Len(spans') = Len(spans) + 1
      /\ spans'[Len(spans) + 1] = <<i, e>> /\ Len(spans) \in Nat
      /\ \A c \in 1 .. Len(spans) : spans'[c] = spans[c]
  <2>1. spans \in Seq(Nat \X Nat) /\ <<i, e>> \in Nat \X Nat
    BY <1>2 DEF BlocksTyped
  <2> QED
    BY <2>1, <1>3, AppendProperties, LenProperties
<1>5. ASSUME NEW c \in 1 .. Len(spans')
      PROVE  /\ 0 <= spans'[c][1] /\ spans'[c][1] < spans'[c][2]
             /\ spans'[c][2] <= Len(content')
  <2>1. content' = content
    BY DEF FindBlock
  <2>2. CASE c \in 1 .. Len(spans)
    BY <2>1, <2>2, <1>4 DEF BlocksTyped, BlocksTypeOK
  <2>3. CASE c = Len(spans) + 1
    BY <2>1, <2>3, <1>4, <1>2
  <2> QED
    BY <2>2, <2>3, <1>4
<1>6. next' \in 1 .. Len(blocks') + 1
  <2>1. Len(blocks) \in Nat
    BY LenProperties DEF BlocksTyped
  <2> QED
    BY <2>1 DEF FindBlock, BlocksTyped, BlocksTypeOK
<1>7. phase' = "find"
  BY DEF FindBlock
<1> QED
  BY <1>2, <1>3, <1>4, <1>5, <1>6, <1>7
  DEF FindBlock, BlocksTyped, BlocksTypeOK, html, markdown

\* Every step of the search and of the parsers keeps the types.
LEMMA NextTyped ==
    ASSUME BlocksTyped, BlocksNext
    PROVE  BlocksTyped'
<1>1. /\ content \in Seq(Sym) /\ blocks \in Seq(Block) /\ stack \in Seq(Tag)
      /\ buf \in Seq(Sym) /\ Len(content) \in Nat /\ mark \in 0 .. Len(content)
      /\ mark \in 0 .. Len(content) + 1 /\ Len(content) + 1 \in 0 .. Len(content) + 1
      /\ fence \in {"none", "open", "lone"}
  BY LenProperties DEF BlocksTyped, BlocksTypeOK
<1>2. ASSUME NEW t \in Tag, StartTag(t)
      PROVE  BlocksTyped'
  <2>1. stack' \in Seq(Tag)
    BY <1>1, <1>2, AppendProperties DEF StartTag
  <2> QED
    BY <1>1, <1>2, <2>1, Symbols, ReadTyped DEF StartTag, markdown
<1>3. ASSUME NEW w \in Word, Data(w)
      PROVE  BlocksTyped'
  <2>1. buf' \in Seq(Sym)
    BY <1>1, <1>3, Symbols, AppendProperties DEF Data
  <2> QED
    BY <1>1, <1>3, <2>1, Symbols, ReadTyped DEF Data, markdown
<1>4. CASE OtherMarkup
  BY <1>1, <1>4, Symbols, ReadTyped DEF OtherMarkup, html, markdown
<1>5. ASSUME NEW t \in Tag, EndTag(t)
      PROVE  BlocksTyped'
  <2>1. CASE stack # <<>> /\ stack[Len(stack)] = t
    <3>1. stack' \in Seq(Tag)
      <4> DEFINE j == Len(stack) - 1
      <4>1. stack' = SubSeq(stack, 1, j)
        BY <1>5, <2>1 DEF EndTag
      <4>2. Len(stack) \in Nat \ {0}
        BY <2>1, <1>1, EmptySeq
      <4>3. j \in Nat /\ \A i \in 1 .. j : stack[i] \in Tag
        BY <4>2, <1>1
      <4> HIDE DEF j
      <4>4. SubSeq(stack, 1, j) \in Seq(Tag)
        BY <4>3, SubSeqProperties
      <4> QED
        BY <4>1, <4>4
    <3>2. blocks' \in Seq(Block) /\ buf' \in Seq(Sym)
      <4>1. buf # <<>> => buf \in Block
        BY <1>1 DEF Block
      <4>2. buf # <<>> => Append(blocks, buf) \in Seq(Block)
        BY <4>1, <1>1, AppendProperties
      <4>3. buf' = <<>> /\ <<>> \in Seq(Sym)
        BY <1>5, <2>1, EmptySeq DEF EndTag, Cleared
      <4> QED
        BY <4>2, <4>3, <1>1, <1>5, <2>1 DEF EndTag
    <3> QED
      BY <1>1, <1>5, <3>1, <3>2, Symbols, ReadTyped DEF EndTag, markdown
  <2>2. CASE ~(stack # <<>> /\ stack[Len(stack)] = t)
    BY <1>1, <1>5, <2>2, Symbols, ReadTyped DEF EndTag, html, markdown
  <2> QED
    BY <2>1, <2>2
<1>6. ASSUME NEW w \in Word, Line(w)
      PROVE  BlocksTyped'
  BY <1>1, <1>6, Symbols, ReadTyped DEF Line, html, markdown
<1>7. CASE BlankLines
  <2>1. blocks' \in Seq(Block) /\ mark' \in 0 .. Len(content) + 1
    BY <1>1, <1>7, ParagraphTyped DEF BlankLines
  <2> QED
    BY <1>1, <1>7, <2>1, Symbols, ReadTyped DEF BlankLines, html
<1>8. CASE OpenFence
  BY <1>1, <1>8, ParagraphTyped, Symbols, ReadTyped DEF OpenFence, html
<1>9. CASE LoneFence
  BY <1>1, <1>9, Symbols, ReadTyped DEF LoneFence, html
<1>10. CASE CloseFence
  <2>1. /\ blocks' \in Seq(Block) /\ mark' \in 0 .. Len(content) + 1
        /\ fence' \in {"none", "open", "lone"}
    BY <1>1, <1>10, CodeTyped DEF CloseFence, markdown
  <2> QED
    BY <1>1, <1>10, <2>1, Symbols, ReadTyped DEF CloseFence, html
<1>11. CASE EndContent
  <2>1. blocks' \in Seq(Block)
    BY <1>1, <1>11, ParagraphTyped DEF EndContent
  <2>2. \A i \in 1 .. Len(blocks') : blocks'[i] # <<>>
    BY <2>1, ElementOfSeq DEF Block
  <2>3. next' = 1 /\ 1 \in 1 .. Len(blocks') + 1
    BY <1>11, <2>1, LenProperties DEF EndContent, BlocksTyped, finding
  <2> QED
    BY <1>11, <2>1, <2>2, <2>3
    DEF EndContent, BlocksTyped, BlocksTypeOK, html, markdown, finding
<1>12. CASE FindBlock
  BY <1>12, FindTyped
<1>13. CASE SkipBlock
  <2>1. next' \in 1 .. Len(blocks') + 1
    BY <1>1, <1>13, LenProperties DEF SkipBlock, BlocksTyped, BlocksTypeOK
  <2> QED
    BY <1>13, <2>1 DEF SkipBlock, BlocksTyped, BlocksTypeOK, html, markdown
<1>14. CASE AllFound
  <2>1. next = Len(blocks) + 1
    BY <1>1, <1>14, LenProperties DEF AllFound, BlocksTyped, BlocksTypeOK
  <2> QED
    BY <1>14, <2>1
    DEF AllFound, BlocksTyped, BlocksTypeOK, html, markdown, finding
<1> QED
  BY <1>2, <1>3, <1>4, <1>5, <1>6, <1>7, <1>8, <1>9, <1>10, <1>11, <1>12,
     <1>13, <1>14 DEF BlocksNext

\* chunk_text keeps the types of its variables, and of the symbols in them.
THEOREM BlocksTypeCorrect == ChunkTextSpec => []BlocksTyped
<1>1. ChunkTextInit => BlocksTyped
  BY BlocksAssumption, EmptySeq
  DEF ChunkTextInit, BlocksInit, BlocksTyped, BlocksTypeOK
<1>2. BlocksTyped /\ [ChunkTextNext]_<<vars, block_vars>> => BlocksTyped'
  <2>1. BlocksTyped /\ UNCHANGED block_vars => BlocksTyped'
    BY DEF BlocksTyped, BlocksTypeOK, block_vars, html, markdown, finding
  <2> QED
    BY <2>1, NextTyped DEF ChunkTextNext
<1> QED
  BY <1>1, <1>2, PTL DEF ChunkTextSpec

-----------------------------------------------------------------------------
(* The search.                                                              *)

\* The blocks of Markdown, and those of a flat html text, are found from the
\* cursor on, each at its own place or before it.
LEMMA Ahead ==
    ASSUME BlocksTyped, phase = "find", next <= Len(blocks), NEW at,
           Placed(at, Len(content)), cursor <= at[next]
    PROVE  /\ Occurrence(blocks[next]) = Found(blocks[next], cursor)
           /\ Found(blocks[next], cursor) # {}
           /\ \A i \in Found(blocks[next], cursor) :
                 i \in Nat /\ cursor <= i /\ i <= at[next]
<1>1. /\ next \in 1 .. Len(blocks) /\ blocks \in Seq(Block)
      /\ cursor \in Nat /\ content \in Seq(Sym)
  BY LenProperties DEF BlocksTyped, BlocksTypeOK
<1>2. /\ blocks[next] \in Seq(Sym) /\ at[next] \in Nat
      /\ HasAt(content, blocks[next], at[next])
  BY <1>1, PlaceOf DEF Placed
<1> QED
  BY <1>1, <1>2, FoundInTime DEF Occurrence

\* The search reads the content and the blocks.
LEMMA ContentFixed ==
    ASSUME content' = content, blocks' = blocks
    PROVE  /\ Flat' <=> Flat
           /\ Texts' = Texts
           /\ \A at, l : Placed(at, l)' <=> Placed(at, l)
BY DEF Flat, Texts, Element, Placed

\* A block found leaves the places of the others ahead.
LEMMA FindAhead ==
    ASSUME BlocksTyped, LookedUp, FindBlock
    PROVE  LookedUp'
<1>0. /\ content' = content /\ blocks' = blocks /\ format' = format
      /\ next' = next + 1 /\ next' - 1 = next
  BY DEF FindBlock, BlocksTyped, BlocksTypeOK
<1> SUFFICES ASSUME format = "html" => Flat
             PROVE  /\ \E at : /\ Placed(at, Len(content))
                               /\ \A k \in next + 1 .. Len(blocks) : cursor' <= at[k]
                    /\ Len(spans') = next
                    /\ format = "html" => Len(blocks) = Cardinality(Texts)
  BY <1>0, ContentFixed DEF LookedUp
<1>1. /\ next \in 1 .. Len(blocks) /\ blocks \in Seq(Block) /\ Len(blocks) \in Nat
      /\ spans \in Seq(Nat \X Nat)
  BY LenProperties DEF FindBlock, BlocksTyped, BlocksTypeOK
<1>2. PICK at : /\ Placed(at, Len(content))
                /\ \A k \in next .. Len(blocks) : cursor <= at[k]
  BY DEF LookedUp, FindBlock
<1>3. PICK i \in Occurrence(blocks[next]) : FoundAt(i)
  BY DEF FindBlock
<1>4. /\ i \in Nat /\ i <= at[next]
      /\ at[next] \in Nat /\ Len(blocks[next]) \in Nat
  BY <1>1, <1>2, <1>3, Ahead, PlaceOf DEF FindBlock, Placed
<1>5. cursor' = i + Len(blocks[next]) /\ Len(spans') = Len(spans) + 1
  <2>1. <<i, i + Len(blocks[next])>> \in Nat \X Nat
    BY <1>4
  <2> QED
    BY <2>1, <1>1, <1>3, AppendProperties DEF FoundAt, EndOf, Advanced
<1>6. ASSUME NEW k \in next + 1 .. Len(blocks)
      PROVE  cursor' <= at[k]
  <2>1. at[next] + Len(blocks[next]) <= at[k]
    BY <1>1, <1>2, PlacesRise DEF Placed
  <2>2. at[k] \in Nat
    BY <1>1, <1>2, PlaceOf DEF Placed
  <2> QED
    BY <2>1, <2>2, <1>4, <1>5
<1> QED
  BY <1>1, <1>2, <1>5, <1>6 DEF LookedUp, FindBlock

\* No such block is passed over.
LEMMA NoneSkipped ==
    ASSUME BlocksTyped, LookedUp, SkipBlock
    PROVE  ~(format = "html" => Flat)
<1> SUFFICES ASSUME format = "html" => Flat
             PROVE  FALSE
  OBVIOUS
<1>1. next \in 1 .. Len(blocks) /\ blocks \in Seq(Block) /\ Len(blocks) \in Nat
  BY LenProperties DEF SkipBlock, BlocksTyped, BlocksTypeOK
<1>2. PICK at : /\ Placed(at, Len(content))
                /\ \A k \in next .. Len(blocks) : cursor <= at[k]
  BY DEF LookedUp, SkipBlock
<1>3. cursor <= at[next]
  BY <1>1, <1>2
<1> QED
  BY <1>2, <1>3, Ahead DEF SkipBlock

\* The paragraph at the end is one more block.
LEMMA ParagraphPlaced ==
    ASSUME BlocksTyped, MarkdownParsed, phase = "parse", format = "markdown"
    PROVE  \E at : PlacedIn(content, WithParagraph, at, Len(content))
<1>1. PICK at : PlacedIn(content, blocks, at, mark)
  BY DEF MarkdownParsed, Placed
<1>2. /\ content \in Seq(Sym) /\ blocks \in Seq(Block)
      /\ mark \in Nat /\ Len(content) \in Nat /\ mark <= Len(content)
  BY LenProperties DEF BlocksTyped, BlocksTypeOK
<1>3. CASE mark = Len(content)
  BY <1>1, <1>3 DEF WithParagraph
<1>4. CASE mark # Len(content)
  <2>1. mark < Len(content)
    BY <1>2, <1>4
  <2> QED
    BY <1>1, <1>2, <1>4, <2>1, OneMorePlaced DEF WithParagraph
<1> QED
  BY <1>3, <1>4

\* So is the code between two fences.
LEMMA CodePlaced ==
    ASSUME BlocksTyped, MarkdownParsed, phase = "parse", format = "markdown"
    PROVE  \E at : PlacedIn(content, WithCode, at, Len(content))
<1>1. PICK at : PlacedIn(content, blocks, at, mark)
  BY DEF MarkdownParsed, Placed
<1>2. /\ content \in Seq(Sym) /\ blocks \in Seq(Block)
      /\ mark \in Nat /\ Len(content) \in Nat /\ mark <= Len(content)
  BY LenProperties DEF BlocksTyped, BlocksTypeOK
<1>3. CASE CodeEnds = {}
  BY <1>1, <1>2, <1>3, PlacedUpTo DEF WithCode
<1>4. CASE CodeEnds # {}
  <2> DEFINE e == CHOOSE x \in CodeEnds : TRUE
  <2>1. e \in CodeEnds
    BY <1>4
  <2> HIDE DEF e
  <2>2. e \in Nat /\ mark < e /\ e <= Len(content)
    BY <2>1, <1>2 DEF CodeEnds
  <2>3. \E to : PlacedIn(content, Append(blocks, SubSeq(content, mark + 1, e)), to, e)
    BY <1>1, <1>2, <2>2, OneMorePlaced
  <2>4. WithCode = Append(blocks, SubSeq(content, mark + 1, e))
    BY <1>4 DEF WithCode, e
  <2>5. WithCode \in Seq(Block)
    BY CodeTyped
  <2> QED
    BY <2>2, <2>3, <2>4, <2>5, <1>2, PlacedUpTo
<1> QED
  BY <1>3, <1>4

\* When the content ends the search starts with every block ahead.
LEMMA EndAhead ==
    ASSUME BlocksTyped, MarkdownParsed, HtmlParsed, EndContent
    PROVE  LookedUp'
<1>1. /\ content' = content /\ format' = format /\ phase = "parse"
      /\ next' = 1 /\ cursor' = 0 /\ spans' = <<>> /\ Len(spans') = 0
  BY DEF EndContent, BlocksTyped, finding
<1>2. blocks' \in Seq(Block) /\ Len(content) \in Nat
  BY ParagraphTyped, LenProperties DEF EndContent, BlocksTyped
<1>3. SUFFICES ASSUME format = "html" => Flat
               PROVE  /\ \E at : PlacedIn(content, blocks', at, Len(content))
                      /\ format = "html" => Len(blocks') = Cardinality(Texts)
  <2>1. \A at : PlacedIn(content, blocks', at, Len(content)) =>
            \A k \in 1 .. Len(blocks') : 0 <= at[k]
    BY <1>2, PlaceOf
  <2>2. (Flat' <=> Flat) /\ Texts' = Texts
    BY <1>1 DEF Flat, Texts, Element
  <2> QED
    BY <1>1, <2>1, <2>2 DEF LookedUp, Placed
<1>4. CASE format = "markdown"
  BY <1>1, <1>4, ParagraphPlaced DEF EndContent
<1>5. CASE format = "html"
  <2>1. FlatSoFar
    BY <1>3, <1>5 DEF Flat, FlatSoFar
  <2>2. blocks' = blocks
    BY <1>5 DEF EndContent
  <2> QED
    BY <1>1, <1>5, <2>1, <2>2 DEF HtmlParsed, HtmlRead, Placed
<1> QED
  BY <1>4, <1>5 DEF EndContent, BlocksTyped, BlocksTypeOK

-----------------------------------------------------------------------------
(* Reading Markdown.                                                        *)

\* Every step of the parser leaves each block where it was taken, before mark.
LEMMA MarkdownStep ==
    ASSUME BlocksTyped, MarkdownParsed, BlocksNext
    PROVE  MarkdownParsed'
<1> SUFFICES ASSUME format' = "markdown", phase' = "parse"
             PROVE  \E at : PlacedIn(content', blocks', at, mark')
  BY DEF MarkdownParsed, Placed
<1>1. /\ content \in Seq(Sym) /\ blocks \in Seq(Block) /\ Len(content) \in Nat
      /\ mark \in Nat /\ Len(content) + 1 \in Nat
  BY LenProperties DEF BlocksTyped, BlocksTypeOK
<1>2. PICK s \in Sym : Read(s) /\ content' = Append(content, s)
  BY Symbols DEF BlocksNext, StartTag, EndTag, Data, Line, OtherMarkup, BlankLines,
     OpenFence, LoneFence, CloseFence, EndContent, FindBlock, SkipBlock, AllFound,
     Read
<1>3. format = "markdown" /\ phase = "parse"
  BY <1>2 DEF Read
<1>4. CASE blocks' = blocks /\ mark' = mark
  BY <1>1, <1>2, <1>3, <1>4, StillPlaced DEF MarkdownParsed, Placed
<1>5. CASE blocks' \in {WithParagraph, WithCode} /\ mark' = Len(content) + 1
  <2>1. blocks' \in Seq(Block)
    BY <1>5, ParagraphTyped, CodeTyped
  <2>2. PICK at : PlacedIn(content, blocks', at, Len(content))
    BY <1>3, <1>5, ParagraphPlaced, CodePlaced
  <2> QED
    BY <1>1, <1>2, <1>5, <2>1, <2>2, StillPlaced
<1>6. \/ \E w \in Word : Line(w)
      \/ BlankLines \/ OpenFence \/ LoneFence \/ CloseFence
  BY <1>2, <1>3 DEF BlocksNext, StartTag, EndTag, Data, OtherMarkup, EndContent,
     FindBlock, SkipBlock, AllFound
<1> QED
  BY <1>4, <1>5, <1>6
  DEF Line, BlankLines, OpenFence, LoneFence, CloseFence, markdown

-----------------------------------------------------------------------------
(* Reading HTML.                                                            *)

\* Pending elements do not hold one another.
LEMMA OnePending ==
    ASSUME NEW i \in Pending, NEW j \in Pending
    PROVE  i = j
<1>1. i \in Int /\ j \in Int
  BY DEF Pending
<1>2. ~(i < j) /\ ~(j < i)
  BY <1>1 DEF Pending
<1> QED
  BY <1>1, <1>2

\* What the next symbol does to the pending element.
LEMMA PendingGrows ==
    ASSUME content \in Seq(Sym), NEW s \in Sym, content' = Append(content, s)
    PROVE  /\ s.kind = "word" => Pending' = Pending
           /\ s.kind = "open" => Pending' = {Len(content) + 1}
           /\ s.kind \notin {"word", "open"} => Pending' = {}
<1> DEFINE len == Len(content)
<1>1. /\ len \in Nat /\ Len(content') = len + 1 /\ content'[len + 1] = s
      /\ \A k \in 1 .. len : content'[k] = content[k]
  BY AppendProperties, LenProperties
<1>2. ASSUME NEW i \in 1 .. len
      PROVE  i \in Pending' <=> i \in Pending /\ s.kind = "word"
  <2>1. i + 1 .. len + 1 = (i + 1 .. len) \cup {len + 1} /\ i \in 1 .. len + 1
    BY <1>1
  <2>2. \A k \in i + 1 .. len : content'[k] = content[k]
    BY <1>1
  <2> QED
    BY <1>1, <2>1, <2>2 DEF Pending
<1>3. len + 1 \in Pending' <=> s.kind = "open"
  BY <1>1 DEF Pending
<1>4. Pending \subseteq 1 .. len /\ Pending' \subseteq 1 .. len + 1
  BY <1>1 DEF Pending
<1>5. \A i \in 1 .. len + 1 : i \in 1 .. len \/ i = len + 1
  BY <1>1
<1> QED
  BY <1>2, <1>3, <1>4, <1>5

\* The end of the pending element makes it an element.
LEMMA ElementGrows ==
    ASSUME content \in Seq(Sym), NEW s \in Sym, content' = Append(content, s)
    PROVE  Element' = Element \cup
               {<<i, Len(content) + 1>> : i \in
                    {i \in Pending : s = Symbol("close", content[i].name)}}
<1> DEFINE len == Len(content)
           Ended == {<<i, len + 1>> : i \in
                        {i \in Pending : s = Symbol("close", content[i].name)}}
<1>1. /\ len \in Nat /\ Len(content') = len + 1 /\ content'[len + 1] = s
      /\ \A k \in 1 .. len : content'[k] = content[k]
  BY AppendProperties, LenProperties
<1>2. ASSUME NEW i \in 1 .. len, NEW j \in 1 .. len
      PROVE  <<i, j>> \in Element' <=> <<i, j>> \in Element
  <2>1. <<i, j>> \in (1 .. len) \X (1 .. len) /\ <<i, j>> \in (1 .. len + 1) \X (1 .. len + 1)
    BY <1>1
  <2>2. \A k \in i + 1 .. j - 1 : content'[k] = content[k]
    BY <1>1
  <2> QED
    BY <1>1, <2>1, <2>2 DEF Element
<1>3. ASSUME NEW i \in 1 .. len
      PROVE  <<i, len + 1>> \in Element' <=> <<i, len + 1>> \in Ended
  <2>1. <<i, len + 1>> \in (1 .. len + 1) \X (1 .. len + 1) /\ i < len + 1
    BY <1>1
  <2>2. i + 1 .. len + 1 - 1 = i + 1 .. len
    BY <1>1
  <2>3. \A k \in i + 1 .. len : content'[k] = content[k]
    BY <1>1
  <2>4. <<i, len + 1>> \in Ended <=>
            i \in Pending /\ s = Symbol("close", content[i].name)
    OBVIOUS
  <2>5. <<i, len + 1>> \in Element' <=>
            /\ content'[i].kind = "open"
            /\ content'[len + 1] = Symbol("close", content'[i].name)
            /\ \A k \in i + 1 .. len : content'[k].kind = "word"
    BY <1>1, <2>1, <2>2 DEF Element
  <2>6. i \in Pending <=> /\ content[i].kind = "open"
                          /\ \A k \in i + 1 .. len : content[k].kind = "word"
    BY DEF Pending
  <2> QED
    BY <1>1, <2>3, <2>4, <2>5, <2>6
<1>4. /\ Element \subseteq (1 .. len) \X (1 .. len)
      /\ \A x \in Element' : \E i \in 1 .. len, j \in 1 .. len + 1 : x = <<i, j>>
  BY <1>1 DEF Element
<1>5. \A j \in 1 .. len + 1 : j \in 1 .. len \/ j = len + 1
  BY <1>1
<1>6. Ended \subseteq (1 .. len) \X {len + 1}
  BY DEF Pending
<1>7. Element' \subseteq Element \cup Ended
  BY <1>2, <1>3, <1>4, <1>5
<1>8. Element \subseteq Element' /\ Ended \subseteq Element'
  BY <1>2, <1>3, <1>4, <1>6
<1> QED
  BY <1>7, <1>8

\* A text that is flat was flat before its last symbol.
LEMMA FlatBefore ==
    ASSUME content \in Seq(Sym), NEW s \in Sym, content' = Append(content, s),
           FlatSoFar'
    PROVE  FlatSoFar
<1> DEFINE len == Len(content)
<1>1. /\ len \in Nat /\ Len(content') = len + 1
      /\ \A k \in 1 .. len : content'[k] = content[k]
  BY AppendProperties, LenProperties
<1>2. ASSUME NEW i \in 1 .. len, content[i].kind \in {"open", "close"}
      PROVE  i \in Pending \/ \E x \in Element : i \in {x[1], x[2]}
  <2>1. i \in 1 .. len + 1 /\ i # len + 1 /\ content'[i].kind \in {"open", "close"}
    BY <1>1, <1>2
  <2>2. CASE i \in Pending'
    BY <2>1, <2>2, PendingGrows
  <2>3. CASE \E x \in Element' : i \in {x[1], x[2]}
    BY <2>1, <2>3, ElementGrows
  <2> QED
    BY <2>1, <2>2, <2>3, <1>1 DEF FlatSoFar
<1> QED
  BY <1>2 DEF FlatSoFar

\* In a flat text only a word or its end follows a pending element.
LEMMA FlatPending ==
    ASSUME content \in Seq(Sym), NEW s \in Sym, content' = Append(content, s),
           FlatSoFar', NEW i \in Pending
    PROVE  s.kind = "word" \/ s = Symbol("close", content[i].name)
<1> DEFINE len == Len(content)
<1>1. /\ len \in Nat /\ Len(content') = len + 1
      /\ \A k \in 1 .. len : content'[k] = content[k]
  BY AppendProperties, LenProperties
<1>2. /\ i \in 1 .. len /\ content[i].kind = "open"
      /\ \A k \in i + 1 .. len : content[k].kind = "word"
  BY DEF Pending
<1>3. i \in 1 .. len + 1 /\ i # len + 1 /\ content'[i].kind = "open"
  BY <1>1, <1>2
<1>4. CASE i \in Pending'
  BY <1>3, <1>4, PendingGrows
<1>5. CASE \E x \in Element' : i \in {x[1], x[2]}
  <2>1. PICK x \in Element' : i \in {x[1], x[2]}
    BY <1>5
  <2>2. x \notin Element
    <3>1. SUFFICES ASSUME x \in Element
                   PROVE  FALSE
      OBVIOUS
    <3>2. /\ x[1] \in 1 .. len /\ x[2] \in 1 .. len /\ x[1] < x[2]
          /\ content[x[2]].kind = "close"
      BY <3>1 DEF Element, Symbol
    <3>3. i = x[1] => x[2] \in i + 1 .. len
      BY <3>2, <1>2
    <3> QED
      BY <2>1, <3>2, <3>3, <1>2
  <2>3. PICK j \in Pending :
            x = <<j, len + 1>> /\ s = Symbol("close", content[j].name)
    BY <2>2, ElementGrows
  <2> QED
    BY <2>3, OnePending
<1> QED
  BY <1>1, <1>3, <1>4, <1>5 DEF FlatSoFar

\* In a flat text an end belongs to the pending element.
LEMMA FlatEnd ==
    ASSUME content \in Seq(Sym), NEW s \in Sym, content' = Append(content, s),
           FlatSoFar', s.kind = "close"
    PROVE  \E i \in Pending : s = Symbol("close", content[i].name)
<1> DEFINE len == Len(content)
<1>1. len \in Nat /\ Len(content') = len + 1 /\ content'[len + 1] = s
  BY AppendProperties, LenProperties
<1>2. len + 1 \in 1 .. len + 1 /\ len + 1 \notin Pending'
  BY <1>1, PendingGrows
<1>3. PICK x \in Element' : len + 1 \in {x[1], x[2]}
  BY <1>1, <1>2 DEF FlatSoFar
<1>4. x \notin Element
  BY <1>1, <1>3 DEF Element
<1> QED
  BY <1>4, ElementGrows

\* Only an end adds an element, and only one that holds text counts.
LEMMA TextsGrow ==
    ASSUME content \in Seq(Sym), NEW s \in Sym, content' = Append(content, s)
    PROVE  /\ s.kind # "close" => Texts' = Texts
           /\ \A i \in Pending :
                 s = Symbol("close", content[i].name) =>
                     Cardinality(Texts') = IF i < Len(content)
                                           THEN Cardinality(Texts) + 1
                                           ELSE Cardinality(Texts)
<1> DEFINE len == Len(content)
<1>1. len \in Nat
  BY LenProperties
<1>2. ASSUME s.kind # "close"
      PROVE  Texts' = Texts
  <2>1. \A i \in Pending : s # Symbol("close", content[i].name)
    BY <1>2 DEF Symbol
  <2>2. Element' = Element
    BY <2>1, ElementGrows
  <2> QED
    BY <2>2 DEF Texts
<1>3. ASSUME NEW i \in Pending, s = Symbol("close", content[i].name)
      PROVE  Cardinality(Texts') = IF i < len THEN Cardinality(Texts) + 1
                                   ELSE Cardinality(Texts)
  <2> DEFINE x == <<i, len + 1>>
  <2>1. Element' = Element \cup {x}
    <3>1. {j \in Pending : s = Symbol("close", content[j].name)} = {i}
      BY <1>3, OnePending
    <3> QED
      BY <3>1, ElementGrows
  <2>2. i \in 1 .. len
    BY DEF Pending
  <2>3. x \notin Texts
    BY <1>1 DEF Texts, Element
  <2>4. Texts' = IF i < len THEN Texts \cup {x} ELSE Texts
    BY <1>1, <2>1, <2>2 DEF Texts
  <2>5. IsFiniteSet(Texts)
    <3>1. IsFiniteSet((1 .. len) \X (1 .. len))
      <4>1. 1 \in Int /\ len \in Int
        BY <1>1
      <4>2. IsFiniteSet(1 .. len)
        BY <4>1, FS_Interval
      <4> QED
        BY <4>2, FS_Product
    <3>2. Texts \subseteq (1 .. len) \X (1 .. len)
      BY DEF Texts, Element
    <3> QED
      BY <3>1, <3>2, FS_Subset
  <2> QED
    BY <2>3, <2>4, <2>5, FS_AddElement
<1> QED
  BY <1>2, <1>3

\* The data of an element goes on to the next symbol.
LEMMA PartGrows ==
    ASSUME NEW c \in Seq(Sym), NEW s \in Sym, NEW i \in 1 .. Len(c)
    PROVE  Append(SubSeq(c, i + 1, Len(c)), s) =
               SubSeq(Append(c, s), i + 1, Len(c) + 1)
<1> DEFINE len == Len(c)
           d == Append(c, s)
           p == SubSeq(c, i + 1, len)
           q == SubSeq(d, i + 1, len + 1)
<1>1. /\ len \in Nat /\ i \in Nat /\ i <= len /\ len + 1 \in Nat
      /\ d \in Seq(Sym) /\ Len(d) = len + 1 /\ d[len + 1] = s
      /\ \A k \in 1 .. len : d[k] = c[k]
  BY AppendProperties, LenProperties
<1> HIDE DEF d
<1>2. p \in Seq(Sym) /\ Len(p) = len - i /\ \A k \in 1 .. len - i : p[k] = c[i + k]
  <2>1. i = len => Len(<<>>) = len - i
    BY <1>1, EmptySeq
  <2>2. /\ p \in Seq(Sym)
        /\ i < len => Len(p) = len - i
        /\ i >= len => p = <<>>
        /\ \A k \in 1 .. len - i : p[k] = c[i + k]
    BY <1>1, Part
  <2> QED
    BY <1>1, <2>1, <2>2
<1>3. /\ q \in Seq(Sym) /\ Len(q) = len + 1 - i
      /\ \A k \in 1 .. len + 1 - i : q[k] = d[i + k]
  <2> DEFINE j == len + 1
  <2>1. j \in Nat /\ j <= Len(d) /\ i < j /\ i \in Nat /\ d \in Seq(Sym)
    BY <1>1
  <2> HIDE DEF j
  <2>2. /\ SubSeq(d, i + 1, j) \in Seq(Sym) /\ Len(SubSeq(d, i + 1, j)) = j - i
        /\ \A k \in 1 .. j - i : SubSeq(d, i + 1, j)[k] = d[i + k]
    BY <2>1, Part
  <2> QED
    BY <2>2 DEF j
<1> HIDE DEF p, q, len
<1>4. /\ Append(p, s) \in Seq(Sym) /\ Len(Append(p, s)) = len - i + 1
      /\ Append(p, s)[len - i + 1] = s
      /\ \A k \in 1 .. len - i : Append(p, s)[k] = p[k]
  <2>1. p \in Seq(Sym) /\ Len(p) = len - i
    BY <1>2
  <2>2. /\ Append(p, s) \in Seq(Sym) /\ Len(Append(p, s)) = Len(p) + 1
        /\ Append(p, s)[Len(p) + 1] = s
        /\ \A k \in 1 .. Len(p) : Append(p, s)[k] = p[k]
    BY <2>1, AppendProperties
  <2> QED
    BY <2>1, <2>2
<1>5. ASSUME NEW k \in 1 .. len + 1 - i
      PROVE  Append(p, s)[k] = q[k]
  <2>1. CASE k = len - i + 1
    <3>1. i + k = len + 1
      BY <2>1, <1>1
    <3> QED
      BY <2>1, <3>1, <1>1, <1>3, <1>4
  <2>2. CASE k \in 1 .. len - i
    <3>1. i + k \in 1 .. len
      BY <2>2, <1>1
    <3> QED
      BY <2>2, <3>1, <1>1, <1>2, <1>3, <1>4
  <2>3. k = len - i + 1 \/ k \in 1 .. len - i
    BY <1>1
  <2> QED
    BY <2>1, <2>2, <2>3
<1>6. Append(p, s) = q
  <2>1. Len(Append(p, s)) = Len(q) /\ len - i + 1 = len + 1 - i
    BY <1>1, <1>3, <1>4
  <2> QED
    BY <2>1, <1>3, <1>4, <1>5, SeqEqual
<1> QED
  BY <1>6 DEF p, q, d, len

\* What every symbol read from a flat html text finds.
LEMMA HtmlBefore ==
    ASSUME BlocksTyped, HtmlParsed, format = "html", NEW s \in Sym, Read(s),
           FlatSoFar'
    PROVE  /\ HtmlRead
           /\ content' = Append(content, s) /\ content \in Seq(Sym)
           /\ blocks \in Seq(Block) /\ Len(content) \in Nat
           /\ Len(content') = Len(content) + 1
           /\ content'[Len(content) + 1] = s
           /\ \A i \in 1 .. Len(content) : content'[i] = content[i]
<1>1. /\ content' = Append(content, s) /\ content \in Seq(Sym)
      /\ blocks \in Seq(Block) /\ phase = "parse"
  BY DEF BlocksTyped, Read
<1>2. FlatSoFar
  BY <1>1, FlatBefore
<1>3. HtmlRead
  BY <1>1, <1>2 DEF HtmlParsed
<1>4. /\ Len(content') = Len(content) + 1 /\ Len(content) \in Nat
      /\ content'[Len(content) + 1] = s
      /\ \A i \in 1 .. Len(content) : content'[i] = content[i]
  BY <1>1, AppendProperties, LenProperties
<1> QED
  BY <1>1, <1>3, <1>4

\* Reading a symbol that takes no block leaves the others where they are.
LEMMA NoneTaken ==
    ASSUME BlocksTyped, HtmlRead, NEW s \in Sym, content' = Append(content, s),
           blocks' = blocks, s.kind # "close", Pending # {} => Pending' = Pending
    PROVE  /\ \E at : /\ PlacedIn(content', blocks', at, Len(content'))
                      /\ \A i \in Pending' : PlacedIn(content', blocks', at, i)
           /\ Len(blocks') = Cardinality(Texts')
<1>0. content \in Seq(Sym) /\ blocks \in Seq(Block)
  BY DEF BlocksTyped
<1>1. /\ content \in Seq(Sym) /\ blocks \in Seq(Block) /\ Len(content) \in Nat
      /\ Len(content') = Len(content) + 1 /\ Len(content') \in Nat
  BY <1>0, AppendProperties, LenProperties
<1>2. PICK at : /\ Placed(at, Len(content))
                /\ \A i \in Pending : Placed(at, i)
  BY DEF HtmlRead
<1>3. PlacedIn(content', blocks', at, Len(content'))
  BY <1>1, <1>2, StillPlaced DEF Placed
<1>4. ASSUME NEW i \in Pending'
      PROVE  PlacedIn(content', blocks', at, i)
  <2>1. CASE Pending # {}
    <3>1. i \in Nat /\ Placed(at, i)
      BY <2>1, <1>2 DEF Pending
    <3> QED
      BY <3>1, <1>1, StillPlaced DEF Placed
  <2>2. CASE Pending = {}
    <3>1. i = Len(content) + 1
      BY <2>2, <1>1, PendingGrows
    <3> QED
      BY <3>1, <1>1, <1>3
  <2> QED
    BY <2>1, <2>2
<1>5. Texts' = Texts
  BY <1>1, TextsGrow
<1> QED
  BY <1>3, <1>4, <1>5 DEF Placed, HtmlRead


\* An end that takes nothing leaves the blocks alone; one that takes the data
\* of the pending element adds a block after the others.
LEMMA EndPlaced ==
    ASSUME BlocksTyped, HtmlRead, NEW s \in Sym, content' = Append(content, s),
           NEW i \in Pending, s = Symbol("close", content[i].name),
           blocks' = IF buf = <<>> THEN blocks ELSE Append(blocks, buf)
    PROVE  /\ \E at : PlacedIn(content', blocks', at, Len(content'))
           /\ Len(blocks') = Cardinality(Texts')
<1>0. content \in Seq(Sym) /\ blocks \in Seq(Block)
  BY DEF BlocksTyped
<1>1. /\ Len(content) \in Nat /\ Len(content) + 1 \in Nat
      /\ Len(content') = Len(content) + 1
  BY <1>0, AppendProperties, LenProperties
<1>2. i \in Nat /\ i <= Len(content) /\ i \in 1 .. Len(content)
  BY <1>1 DEF Pending
<1>3. /\ buf = SubSeq(content, i + 1, Len(content))
      /\ Len(blocks) = Cardinality(Texts)
  BY DEF HtmlRead
<1>4. PICK at : Placed(at, Len(content)) /\ Placed(at, i)
  BY DEF HtmlRead
<1>5. Cardinality(Texts') = IF i < Len(content) THEN Cardinality(Texts) + 1
                            ELSE Cardinality(Texts)
  BY <1>0, TextsGrow
<1>6. CASE i < Len(content)
  <2>1. buf # <<>>
    BY <1>0, <1>2, <1>3, <1>6, RestNotEmpty
  <2>2. /\ buf \in Block
        /\ \E to : PlacedIn(content, Append(blocks, buf), to, Len(content))
    BY <1>0, <1>1, <1>2, <1>3, <1>4, <1>6, OneMorePlaced DEF Placed
  <2>3. /\ blocks' = Append(blocks, buf) /\ blocks' \in Seq(Block)
        /\ Len(blocks') = Len(blocks) + 1
    BY <1>0, <2>1, <2>2, AppendProperties
  <2>4. PICK to : PlacedIn(content, blocks', to, Len(content))
    BY <2>2, <2>3
  <2>5. PlacedIn(Append(content, s), blocks', to, Len(content) + 1)
    <3>1. Len(content) <= Len(content) + 1
      BY <1>1
    <3> QED
      BY <3>1, <1>0, <1>1, <2>3, <2>4, StillPlaced
  <2>6. PlacedIn(content', blocks', to, Len(content'))
    BY <1>1, <2>5
  <2> QED
    BY <2>3, <2>6, <1>3, <1>5, <1>6
<1>7. CASE ~(i < Len(content))
  <2>1. blocks' = blocks
    BY <1>0, <1>1, <1>2, <1>3, <1>7, Part
  <2>2. PlacedIn(content', blocks', at, Len(content'))
    BY <1>0, <1>1, <1>4, <2>1, StillPlaced DEF Placed
  <2> QED
    BY <2>1, <2>2, <1>3, <1>5, <1>7
<1> QED
  BY <1>6, <1>7

\* An open tag, in a flat text, follows no pending element and is one.
LEMMA StartTagRead ==
    ASSUME BlocksTyped, HtmlParsed, NEW t \in Tag, StartTag(t), FlatSoFar'
    PROVE  HtmlRead'
<1> DEFINE s == Symbol("open", t)
           len == Len(content)
<1>1. s \in Sym /\ Read(s) /\ format = "html" /\ s.kind = "open" /\ s.name = t
  BY Symbols DEF StartTag, Symbol
<1> HIDE DEF s
<1>2. /\ HtmlRead /\ content' = Append(content, s) /\ content \in Seq(Sym)
      /\ len \in Nat /\ Len(content') = len + 1 /\ content'[len + 1] = s
  BY <1>1, HtmlBefore
<1>3. Pending = {}
  <2>1. \A i \in Pending : s.kind = "word" \/ s = Symbol("close", content[i].name)
    BY <1>1, <1>2, FlatPending
  <2> QED
    BY <2>1, <1>1 DEF Symbol
<1>4. Pending' = {len + 1}
  BY <1>1, <1>2, PendingGrows
<1>5. stack' = <<t>> /\ buf' = <<>>
  BY <1>2, <1>3 DEF HtmlRead, StartTag
<1>6. SubSeq(content', len + 1 + 1, len + 1) = <<>>
  BY <1>2, SubSeqEmpty
<1>7. blocks' = blocks
  BY DEF StartTag
<1>8. /\ \E at : /\ PlacedIn(content', blocks', at, Len(content'))
                 /\ \A i \in Pending' : PlacedIn(content', blocks', at, i)
      /\ Len(blocks') = Cardinality(Texts')
  BY <1>1, <1>2, <1>3, <1>7, NoneTaken
<1>9. \A i \in Pending' : /\ stack' = <<content'[i].name>>
                          /\ buf' = SubSeq(content', i + 1, Len(content'))
  BY <1>1, <1>2, <1>4, <1>5, <1>6
<1> QED
  BY <1>4, <1>8, <1>9 DEF HtmlRead, Placed

\* Data goes to the pending element, and nowhere when there is none.
LEMMA DataRead ==
    ASSUME BlocksTyped, HtmlParsed, NEW w \in Word, Data(w), FlatSoFar'
    PROVE  HtmlRead'
<1> DEFINE s == Symbol("word", w)
           len == Len(content)
<1>1. s \in Sym /\ Read(s) /\ format = "html" /\ s.kind = "word"
  BY Symbols DEF Data, Symbol
<1>2. /\ stack' = stack /\ blocks' = blocks
      /\ buf' = IF stack # <<>> THEN Append(buf, s) ELSE buf
  BY DEF Data
<1> HIDE DEF s
<1>3. /\ HtmlRead /\ content' = Append(content, s) /\ content \in Seq(Sym)
      /\ len \in Nat /\ Len(content') = len + 1
      /\ \A i \in 1 .. len : content'[i] = content[i]
  BY <1>1, HtmlBefore
<1>4. Pending' = Pending
  BY <1>1, <1>3, PendingGrows
<1>5. ASSUME NEW i \in Pending'
      PROVE  /\ stack' = <<content'[i].name>>
             /\ buf' = SubSeq(content', i + 1, Len(content'))
  <2>1. i \in Pending /\ i \in 1 .. len
    BY <1>4 DEF Pending
  <2>2. stack = <<content[i].name>> /\ buf = SubSeq(content, i + 1, len)
    BY <2>1, <1>3 DEF HtmlRead
  <2>3. stack # <<>>
    BY <2>2
  <2>4. buf' = Append(SubSeq(content, i + 1, len), s)
    BY <2>2, <2>3, <1>2
  <2>5. buf' = SubSeq(content', i + 1, len + 1)
    BY <2>1, <2>4, <1>1, <1>3, PartGrows
  <2> QED
    BY <2>1, <2>2, <2>5, <1>2, <1>3
<1>6. /\ \E at : /\ PlacedIn(content', blocks', at, Len(content'))
                 /\ \A i \in Pending' : PlacedIn(content', blocks', at, i)
      /\ Len(blocks') = Cardinality(Texts')
  BY <1>1, <1>2, <1>3, <1>4, NoneTaken
<1>7. Pending' = {} => stack' = <<>> /\ buf' = <<>>
  BY <1>2, <1>3, <1>4 DEF HtmlRead
<1> QED
  BY <1>5, <1>6, <1>7 DEF HtmlRead, Placed

\* Other markup, in a flat text, follows no pending element.
LEMMA OtherMarkupRead ==
    ASSUME BlocksTyped, HtmlParsed, OtherMarkup, FlatSoFar'
    PROVE  HtmlRead'
<1>1. /\ Markup \in Sym /\ Read(Markup) /\ format = "html"
      /\ Markup.kind = "markup"
  BY Symbols DEF OtherMarkup, Markup, Symbol
<1>2. HtmlRead /\ content' = Append(content, Markup) /\ content \in Seq(Sym)
  BY <1>1, HtmlBefore
<1>3. Pending = {}
  <2>1. \A i \in Pending :
            Markup.kind = "word" \/ Markup = Symbol("close", content[i].name)
    BY <1>1, <1>2, FlatPending
  <2> QED
    BY <2>1, <1>1 DEF Symbol
<1>4. Pending' = {}
  BY <1>1, <1>2, PendingGrows
<1>5. stack' = <<>> /\ buf' = <<>> /\ blocks' = blocks
  BY <1>2, <1>3 DEF HtmlRead, OtherMarkup, html
<1>6. /\ \E at : PlacedIn(content', blocks', at, Len(content'))
      /\ Len(blocks') = Cardinality(Texts')
  BY <1>1, <1>2, <1>3, <1>5, NoneTaken
<1> QED
  BY <1>4, <1>5, <1>6 DEF HtmlRead, Placed

\* The end of the pending element takes its text.
LEMMA EndTagRead ==
    ASSUME BlocksTyped, HtmlParsed, NEW t \in Tag, EndTag(t), FlatSoFar'
    PROVE  HtmlRead'
<1> DEFINE s == Symbol("close", t)
<1>1. /\ s \in Sym /\ Read(s) /\ format = "html"
      /\ s.kind = "close" /\ s.name = t
  BY Symbols DEF EndTag, Symbol
<1>2. HtmlRead /\ content' = Append(content, s) /\ content \in Seq(Sym)
  BY <1>1, HtmlBefore
<1>3. PICK i \in Pending : s = Symbol("close", content[i].name)
  BY <1>1, <1>2, FlatEnd
<1>4. stack = <<t>>
  <2>1. content[i].name = t
    BY <1>3 DEF Symbol
  <2> QED
    BY <2>1, <1>2 DEF HtmlRead
<1>5. /\ blocks' = IF buf = <<>> THEN blocks ELSE Append(blocks, buf)
      /\ buf' = <<>> /\ stack' = SubSeq(stack, 1, Len(stack) - 1)
  BY <1>4 DEF EndTag, Cleared
<1>6. stack' = <<>>
  BY <1>4, <1>5, SubSeqEmpty
<1>7. Pending' = {}
  BY <1>1, <1>2, PendingGrows
<1>8. /\ \E at : PlacedIn(content', blocks', at, Len(content'))
      /\ Len(blocks') = Cardinality(Texts')
  BY <1>1, <1>2, <1>3, <1>5, EndPlaced
<1> QED
  BY <1>5, <1>6, <1>7, <1>8 DEF HtmlRead, Placed

\* Every step of the parser leaves the blocks of a flat html text in place.
LEMMA HtmlStep ==
    ASSUME BlocksTyped, HtmlParsed, BlocksNext
    PROVE  HtmlParsed'
<1> SUFFICES ASSUME format' = "html", phase' = "parse", FlatSoFar'
             PROVE  HtmlRead'
  BY DEF HtmlParsed
<1>1. \/ \E t \in Tag : StartTag(t) \/ EndTag(t)
      \/ \E w \in Word : Data(w)
      \/ OtherMarkup
  BY DEF BlocksNext, Line, BlankLines, OpenFence, LoneFence, CloseFence, EndContent,
     FindBlock, SkipBlock, AllFound, Read
<1> QED
  BY <1>1, StartTagRead, EndTagRead, DataRead, OtherMarkupRead

-----------------------------------------------------------------------------
(* The invariant holds.                                                     *)

\* Every step of the search leaves the blocks it still looks for ahead.
LEMMA LookedUpStep ==
    ASSUME BlocksTyped, MarkdownParsed, HtmlParsed, LookedUp, BlocksNext
    PROVE  LookedUp'
<1> SUFFICES ASSUME phase' # "parse", format' = "html" => Flat'
             PROVE  LookedUp'
  BY DEF LookedUp
<1>1. EndContent \/ FindBlock \/ SkipBlock \/ AllFound
  <2>1. \/ \E s : Read(s)
        \/ EndContent \/ FindBlock \/ SkipBlock \/ AllFound
    BY DEF BlocksNext, StartTag, EndTag, Data, Line, OtherMarkup, BlankLines,
       OpenFence, LoneFence, CloseFence
  <2> QED
    BY <2>1 DEF Read
<1>2. CASE EndContent
  BY <1>2, EndAhead
<1>3. CASE FindBlock
  BY <1>3, FindAhead
<1>4. CASE SkipBlock
  <2>1. content' = content /\ blocks' = blocks /\ format' = format
    BY <1>4 DEF SkipBlock
  <2> QED
    BY <2>1, <1>4, NoneSkipped, ContentFixed
<1>5. CASE AllFound
  <2>1. /\ content' = content /\ blocks' = blocks /\ format' = format
        /\ next' = next /\ cursor' = cursor /\ spans' = spans /\ phase = "find"
    BY <1>5 DEF AllFound, finding
  <2> QED
    BY <2>1, ContentFixed DEF LookedUp
<1> QED
  BY <1>1, <1>2, <1>3, <1>4, <1>5

\* The invariant that is preserved by every step.
Blocked ==
    BlocksTyped /\ MarkdownParsed /\ HtmlParsed /\ LookedUp /\ InOrder

\* Every block found from the cursor on keeps the order of the spans, and in
\* Markdown no search starts again.
LEMMA InOrderStep ==
    ASSUME BlocksTyped, LookedUp, InOrder, BlocksNext
    PROVE  InOrder'
<1>1. CASE FindBlock
  <2>1. PICK i \in Occurrence(blocks[next]) : FoundAt(i)
    BY <1>1 DEF FindBlock
  <2> DEFINE e == i + Len(blocks[next])
  <2>2. i \in Found(blocks[next], cursor)
    <3>1. CASE format = "html"
      BY <3>1, <2>1 DEF Occurrence
    <3>2. CASE format # "html"
      <4>1. PICK at : /\ Placed(at, Len(content))
                      /\ \A k \in next .. Len(blocks) : cursor <= at[k]
        BY <1>1, <3>2 DEF LookedUp, FindBlock
      <4>2. next \in 1 .. Len(blocks) /\ Len(blocks) \in Nat
        BY <1>1, LenProperties DEF FindBlock, BlocksTyped, BlocksTypeOK
      <4>3. cursor <= at[next]
        BY <4>1, <4>2
      <4> QED
        BY <1>1, <2>1, <4>1, <4>3, Ahead DEF FindBlock
    <3> QED
      BY <3>1, <3>2
  <2>3. i \in Nat /\ cursor <= i /\ Len(blocks[next]) \in Nat \ {0}
    BY <1>1, <2>1, <2>2, FoundTyped DEF FindBlock
  <2>4. e \in Nat /\ i < e /\ cursor \in Nat
    BY <2>3 DEF BlocksTyped, BlocksTypeOK
  <2>5. spans' = Append(spans, <<i, e>>) /\ cursor' = e
    BY <2>1 DEF FoundAt, EndOf, Advanced
  <2> HIDE DEF e
  <2>6. /\ Len(spans') = Len(spans) + 1 /\ Len(spans) \in Nat
        /\ spans'[Len(spans) + 1] = <<i, e>>
        /\ \A c \in 1 .. Len(spans) : spans'[c] = spans[c]
    <3>1. spans \in Seq(Nat \X Nat) /\ <<i, e>> \in Nat \X Nat
      BY <2>3, <2>4 DEF BlocksTyped
    <3> QED
      BY <3>1, <2>5, AppendProperties, LenProperties
  <2>7. ASSUME NEW c \in 1 .. Len(spans)
        PROVE  spans[c][2] \in Nat /\ spans[c][2] <= cursor
    <3>1. spans[c] \in Nat \X Nat
      BY ElementOfSeq DEF BlocksTyped
    <3> QED
      BY <3>1 DEF InOrder
  <2>8. ASSUME NEW c \in 1 .. Len(spans')
        PROVE  spans'[c][2] <= cursor'
    <3>1. CASE c = Len(spans) + 1
      BY <3>1, <2>4, <2>5, <2>6
    <3>2. CASE c \in 1 .. Len(spans)
      BY <3>2, <2>3, <2>4, <2>5, <2>6, <2>7
    <3> QED
      BY <3>1, <3>2, <2>6
  <2>9. ASSUME NEW c \in 1 .. Len(spans') - 1
        PROVE  spans'[c][2] <= spans'[c + 1][1]
    <3>1. c \in 1 .. Len(spans)
      BY <2>6
    <3>2. CASE c = Len(spans)
      BY <3>1, <3>2, <2>3, <2>4, <2>6, <2>7
    <3>3. CASE c \in 1 .. Len(spans) - 1
      <4>1. c + 1 \in 1 .. Len(spans)
        BY <3>3, <2>6
      <4> QED
        BY <3>1, <3>3, <4>1, <2>6 DEF InOrder, SpansInOrder
    <3> QED
      BY <3>1, <3>2, <3>3, <2>6
  <2> QED
    BY <2>8, <2>9 DEF InOrder, SpansInOrder
<1>2. CASE spans' = spans /\ cursor' = cursor
  BY <1>2 DEF InOrder, SpansInOrder
<1>3. FindBlock \/ (spans' = spans /\ cursor' = cursor)
  BY DEF BlocksNext, StartTag, EndTag, Data, Line, OtherMarkup, BlankLines,
     OpenFence, LoneFence, CloseFence, EndContent, SkipBlock, AllFound, Read,
     finding
<1> QED
  BY <1>1, <1>2, <1>3

\* The blocks always lie ahead of the search, in the order they were taken.
THEOREM BlocksLieAhead == ChunkTextSpec => []Blocked
<1>1. ChunkTextInit => Blocked
  <2>1. ChunkTextInit => BlocksTyped
    BY BlocksAssumption, EmptySeq
    DEF ChunkTextInit, BlocksInit, BlocksTyped, BlocksTypeOK
  <2> SUFFICES ASSUME BlocksInit
               PROVE  MarkdownParsed /\ HtmlParsed /\ LookedUp /\ InOrder
    BY <2>1 DEF ChunkTextInit, Blocked
  <2>2. /\ content = <<>> /\ blocks = <<>> /\ spans = <<>> /\ phase = "parse"
        /\ stack = <<>> /\ buf = <<>> /\ mark = 0
        /\ Len(content) = 0 /\ Len(blocks) = 0 /\ Len(spans) = 0
    BY EmptySeq DEF BlocksInit
  <2>3. Placed([k \in 1 .. 0 |-> 0], 0)
    BY <2>2 DEF Placed, PlacedIn
  <2>4. Pending = {} /\ Texts = {}
    BY <2>2 DEF Pending, Texts, Element
  <2>5. Cardinality(Texts) = 0
    BY <2>4, FS_EmptySet
  <2>6. MarkdownParsed
    BY <2>2, <2>3 DEF MarkdownParsed
  <2>7. HtmlParsed
    BY <2>2, <2>3, <2>4, <2>5 DEF HtmlParsed, HtmlRead
  <2>8. LookedUp /\ InOrder
    BY <2>2 DEF LookedUp, InOrder, SpansInOrder
  <2> QED
    BY <2>6, <2>7, <2>8
<1>2. Blocked /\ [ChunkTextNext]_<<vars, block_vars>> => Blocked'
  <2>1. ASSUME Blocked, BlocksNext
        PROVE  Blocked'
    BY <2>1, NextTyped, MarkdownStep, HtmlStep, LookedUpStep, InOrderStep
    DEF Blocked
  <2>2. ASSUME Blocked, UNCHANGED block_vars
        PROVE  Blocked'
    <3>1. /\ format' = format /\ phase' = phase /\ content' = content
          /\ blocks' = blocks /\ stack' = stack /\ buf' = buf
          /\ mark' = mark /\ fence' = fence
          /\ next' = next /\ cursor' = cursor /\ spans' = spans
      BY <2>2 DEF block_vars, html, markdown, finding
    <3>2. BlocksTyped'
      BY <2>2, <3>1 DEF Blocked, BlocksTyped, BlocksTypeOK
    <3>3. /\ (FlatSoFar' <=> FlatSoFar) /\ Pending' = Pending
          /\ (Flat' <=> Flat) /\ Texts' = Texts
      BY <3>1 DEF FlatSoFar, Pending, Flat, Texts, Element
    <3>4. \A at, l : PlacedIn(content', blocks', at, l) <=>
                         PlacedIn(content, blocks, at, l)
      BY <3>1
    <3>5. MarkdownParsed'
      BY <2>2, <3>1, <3>4 DEF Blocked, MarkdownParsed, Placed
    <3>6. HtmlParsed'
      BY <2>2, <3>1, <3>3, <3>4 DEF Blocked, HtmlParsed, HtmlRead, Placed
    <3>7. LookedUp'
      BY <2>2, <3>1, <3>3, <3>4 DEF Blocked, LookedUp, Placed
    <3>8. InOrder'
      BY <2>2, <3>1 DEF Blocked, InOrder, SpansInOrder
    <3> QED
      BY <3>2, <3>5, <3>6, <3>7, <3>8 DEF Blocked
  <2> QED
    BY <2>1, <2>2 DEF ChunkTextNext
<1> QED
  BY <1>1, <1>2, PTL DEF ChunkTextSpec

\* No block is empty, and the parser and the search stay inside the content:
\* every span they give to chunk_prose does.
THEOREM BlocksTypeHolds == ChunkTextSpec => []BlocksTypeOK
<1>1. BlocksTyped => BlocksTypeOK
  BY DEF BlocksTyped
<1> QED
  BY <1>1, BlocksTypeCorrect, PTL

\* Spans never overlap and keep the order of the content.
THEOREM BlocksInOrder == ChunkTextSpec => []SpansInOrder
<1>1. Blocked => SpansInOrder
  BY DEF Blocked, InOrder
<1> QED
  BY <1>1, BlocksLieAhead, PTL

\* No paragraph and no code block of a Markdown text is lost, however long the
\* text and however often its words repeat.
THEOREM MarkdownIsComplete == ChunkTextSpec => []MarkdownComplete
<1>1. Blocked => MarkdownComplete
  <2> SUFFICES ASSUME Blocked, format = "markdown", phase = "over"
               PROVE  Len(spans) = Len(blocks)
    BY DEF MarkdownComplete
  <2>1. Len(spans) = next - 1 /\ next = Len(blocks) + 1
    BY DEF Blocked, LookedUp, BlocksTyped
  <2>2. Len(blocks) \in Nat
    BY LenProperties DEF Blocked, BlocksTyped
  <2> QED
    BY <2>1, <2>2
<1> QED
  BY <1>1, BlocksLieAhead, PTL

\* The text of every element of a flat html text is found.
THEOREM HtmlIsComplete == ChunkTextSpec => []HtmlComplete
<1>1. Blocked => HtmlComplete
  <2> SUFFICES ASSUME Blocked, format = "html", phase = "over", Flat
               PROVE  Len(spans) = Cardinality(Texts)
    BY DEF HtmlComplete, Texts
  <2>1. /\ Len(spans) = next - 1 /\ next = Len(blocks) + 1
        /\ Len(blocks) = Cardinality(Texts)
    BY DEF Blocked, LookedUp, BlocksTyped
  <2>2. Len(blocks) \in Nat
    BY LenProperties DEF Blocked, BlocksTyped
  <2> QED
    BY <2>1, <2>2
<1> QED
  BY <1>1, BlocksLieAhead, PTL

=============================================================================
