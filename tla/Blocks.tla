------------------------------- MODULE Blocks -------------------------------
(***************************************************************************)
(* HTML and Markdown in chunk_text (chunking/markdown_html.py, chunker.py).*)
(* A parser takes blocks of text out of the content; then each block is    *)
(* looked up in the content, in order, to learn its offsets, and is cut by *)
(* chunk_prose.  A block that is not found has no chunks.                  *)
(*                                                                         *)
(* The content is a sequence of symbols: words, tags, blank lines, code    *)
(* fences.  It is chosen symbol by symbol while the parser reads it.       *)
(* Offsets count symbols, and a span is half-open.                         *)
(***************************************************************************)
EXTENDS Integers, Sequences, FiniteSets

CONSTANTS
    Tag,            \* ALLOWED_TAGS
    Word,           \* pieces of text
    MaxSymbols      \* bound: symbols of one content

ASSUME BlocksAssumption == MaxSymbols \in Nat

VARIABLES
    format,         \* which branch of chunk_text runs
    phase,          \* parsing, finding, or over
    content,        \* what has been read
    blocks,         \* the blocks taken out so far
    stack, buf,     \* html: the open tags, the data since the last block
    mark, fence,    \* markdown: where the block being read starts; the fence
    next,           \* the block to look up
    cursor,         \* offset, cursor: where the search starts
    spans           \* where the blocks were found

html       == <<stack, buf>>
markdown   == <<mark, fence>>
finding    == <<next, cursor, spans>>
block_vars == <<format, phase, content, blocks, html, markdown, finding>>

Symbol(kind, name) == [kind |-> kind, name |-> name]
Blank  == Symbol("blank", "")
Fence  == Symbol("fence", "")
Markup == Symbol("markup", "")

BlocksInit ==
    /\ format \in {"text", "html", "markdown"}
    /\ phase = "parse"
    /\ content = <<>> /\ blocks = <<>>
    /\ stack = <<>> /\ buf = <<>>
    /\ mark = 0 /\ fence = "none"
    /\ next = 1 /\ cursor = 0 /\ spans = <<>>

Read(s) ==
    /\ phase = "parse"
    /\ Len(content) < MaxSymbols
    /\ content' = Append(content, s)
    /\ UNCHANGED <<format, phase, finding>>

-----------------------------------------------------------------------------
(* BlockHTMLParser                                                          *)

StartTag(t) ==
    /\ format = "html"
    /\ Read(Symbol("open", t))
    /\ stack' = Append(stack, t)
    /\ UNCHANGED <<blocks, buf, markdown>>

\* handle_data: text outside every allowed tag is left out.
Data(w) ==
    /\ format = "html"
    /\ Read(Symbol("word", w))
    /\ buf' = IF stack # <<>> THEN Append(buf, Symbol("word", w)) ELSE buf
    /\ UNCHANGED <<blocks, stack, markdown>>

\* Any other tag, a comment: markup between two pieces of data, which the
\* parser joins.  (A character reference, too, makes the data differ from the
\* content.)
OtherMarkup ==
    /\ format = "html"
    /\ Read(Markup)
    /\ UNCHANGED <<blocks, html, markdown>>

\* Mutant: the data of a block goes on into the next one.
Kept == buf

Cleared == <<>>

\* handle_endtag: only the end of the innermost open tag ends a block.
EndTag(t) ==
    /\ format = "html"
    /\ Read(Symbol("close", t))
    /\ IF stack # <<>> /\ stack[Len(stack)] = t
       THEN /\ blocks' = IF buf = <<>> THEN blocks ELSE Append(blocks, buf)
            /\ buf' = Cleared
            /\ stack' = SubSeq(stack, 1, Len(stack) - 1)
       ELSE UNCHANGED <<blocks, html>>
    /\ UNCHANGED markdown

-----------------------------------------------------------------------------
(* parse_markdown_to_blocks                                                 *)

\* What has been read since the last block, as a paragraph.
WithParagraph ==
    IF mark = Len(content) THEN blocks
    ELSE Append(blocks, SubSeq(content, mark + 1, Len(content)))

\* rstrip: trailing blank lines are not code.
CodeEnds ==
    {e \in mark + 1 .. Len(content) :
        /\ content[e] # Blank
        /\ \A i \in e + 1 .. Len(content) : content[i] = Blank}

\* Mutant: blank lines inside the code are squeezed out.
Squeezed ==
    LET text == SubSeq(content, mark + 1, Len(content))
    IN  IF CodeEnds = {} THEN blocks
        ELSE Append(blocks, SelectSeq(text, LAMBDA s : s # Blank))

WithCode ==
    IF CodeEnds = {} THEN blocks
    ELSE LET e == CHOOSE x \in CodeEnds : TRUE
         IN  Append(blocks, SubSeq(content, mark + 1, e))

Line(w) ==
    /\ format = "markdown"
    /\ Read(Symbol("word", w))
    /\ UNCHANGED <<blocks, html, markdown>>

\* Blank lines end a paragraph; inside a fence they are code.
BlankLines ==
    /\ format = "markdown"
    /\ Read(Blank)
    /\ IF fence = "open"
       THEN UNCHANGED <<blocks, mark>>
       ELSE blocks' = WithParagraph /\ mark' = Len(content) + 1
    /\ UNCHANGED <<html, fence>>

\* A fence that a later one closes ends the paragraph before it.
OpenFence ==
    /\ format = "markdown" /\ fence = "none"
    /\ Read(Fence)
    /\ blocks' = WithParagraph
    /\ mark' = Len(content) + 1
    /\ fence' = "open"
    /\ UNCHANGED html

\* One that nothing closes is text: no fence follows it.
LoneFence ==
    /\ format = "markdown" /\ fence = "none"
    /\ Read(Fence)
    /\ fence' = "lone"
    /\ UNCHANGED <<blocks, html, mark>>

\* The closing fence starts a line of its own: directly after the opening
\* line it is code.
CloseFence ==
    /\ format = "markdown" /\ fence = "open"
    /\ Read(Fence)
    /\ IF mark = Len(content)
       THEN UNCHANGED <<blocks, markdown>>
       ELSE blocks' = WithCode /\ mark' = Len(content) + 1 /\ fence' = "none"
    /\ UNCHANGED html

-----------------------------------------------------------------------------
(* chunk_text: the blocks are looked up.                                    *)

\* The content ends.  The parser's feed leaves unfinished html alone; the
\* tail of a markdown text is split like any other.
EndContent ==
    /\ phase = "parse" /\ format # "text" /\ fence # "open"
    /\ phase' = "find"
    /\ blocks' = IF format = "markdown" THEN WithParagraph ELSE blocks
    /\ UNCHANGED <<format, content, html, markdown, finding>>

\* content.find(b, from): the first occurrence of b from an offset on.
Occurs(b, i) ==
    /\ i + Len(b) <= Len(content)
    /\ SubSeq(content, i + 1, i + Len(b)) = b

Found(b, from) ==
    {i \in from .. Len(content) :
        /\ Occurs(b, i)
        /\ \A j \in from .. i - 1 : ~Occurs(b, j)}

\* Mutants: every search starts at the beginning; a span ends one too late.
NotAdvanced(end) == cursor

OneTooFar(b, i) == i + Len(b) + 1

Advanced(end) == end

EndOf(b, i) == i + Len(b)

FoundAt(i) ==
    /\ spans' = Append(spans, <<i, EndOf(blocks[next], i)>>)
    /\ cursor' = Advanced(i + Len(blocks[next]))

\* Markdown tries again from the start of the content.
Occurrence(b) ==
    IF Found(b, cursor) = {} /\ format = "markdown" THEN Found(b, 0)
    ELSE Found(b, cursor)

FindBlock ==
    /\ phase = "find" /\ next <= Len(blocks)
    /\ \E i \in Occurrence(blocks[next]) : FoundAt(i)
    /\ next' = next + 1
    /\ UNCHANGED <<format, phase, content, blocks, html, markdown>>

\* Not found: the block has no chunks.
SkipBlock ==
    /\ phase = "find" /\ next <= Len(blocks)
    /\ Occurrence(blocks[next]) = {}
    /\ next' = next + 1
    /\ UNCHANGED <<format, phase, content, blocks, html, markdown, cursor, spans>>

AllFound ==
    /\ phase = "find" /\ next > Len(blocks)
    /\ phase' = "over"
    /\ UNCHANGED <<format, content, blocks, html, markdown, finding>>

BlocksNext ==
    \/ \E t \in Tag : StartTag(t) \/ EndTag(t)
    \/ \E w \in Word : Data(w) \/ Line(w)
    \/ OtherMarkup
    \/ BlankLines \/ OpenFence \/ LoneFence \/ CloseFence
    \/ EndContent \/ FindBlock \/ SkipBlock \/ AllFound

-----------------------------------------------------------------------------
\* Variables keep their types, and every span lies in the content.
BlocksTypeOK ==
    /\ format \in {"text", "html", "markdown"}
    /\ phase \in {"parse", "find", "over"}
    /\ Len(content) <= MaxSymbols
    /\ stack \in Seq(Tag)
    /\ \A i \in 1 .. Len(blocks) : blocks[i] # <<>>
    /\ mark \in 0 .. Len(content)
    /\ fence \in {"none", "open", "lone"}
    /\ next \in 1 .. Len(blocks) + 1
    /\ cursor \in 0 .. Len(content)
    /\ \A c \in 1 .. Len(spans) :
          0 <= spans[c][1] /\ spans[c][1] < spans[c][2]
          /\ spans[c][2] <= Len(content)

\* Blocks are found in the order of the content and do not overlap: an equal
\* text elsewhere is never taken twice, and markdown's second search never
\* goes back.
SpansInOrder ==
    \A c \in 1 .. Len(spans) - 1 : spans[c][2] <= spans[c + 1][1]

\* Every paragraph and code block of a markdown text is found.
MarkdownComplete ==
    format = "markdown" /\ phase = "over" => Len(spans) = Len(blocks)

\* The elements of a flat html text: an allowed tag, text, its end.
Element ==
    {x \in (1 .. Len(content)) \X (1 .. Len(content)) :
        /\ x[1] < x[2]
        /\ content[x[1]].kind = "open"
        /\ content[x[2]] = Symbol("close", content[x[1]].name)
        /\ \A i \in x[1] + 1 .. x[2] - 1 : content[i].kind = "word"}

Flat ==
    \A i \in 1 .. Len(content) :
        content[i].kind \in {"open", "close"} => \E x \in Element : i \in {x[1], x[2]}

\* When no block element holds another one or markup, the text of each that is
\* not empty is found, whatever the text around it.
HtmlComplete ==
    format = "html" /\ phase = "over" /\ Flat
    => Len(spans) = Cardinality({x \in Element : x[2] > x[1] + 1})
=============================================================================
