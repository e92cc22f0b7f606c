\* Sentences of up to three tokens, a target of four with an overlap of two,
\* and windows of three characters that overlap by two.  Six symbols make two
\* elements, or a paragraph and a code block, beside other text.
CONSTANTS
    Target = 4
    Back = 2
    Window = 3
    Overlap = 2
    MaxTokens = 3
    MaxSentences = 6
    MaxLength = 6
    MaxSpans = 2
    Tag = {"p", "li"}
    Word = {"a", "b"}
    MaxSymbols = 6
SPECIFICATION ChunkTextSpec
\* The chunker stops at the end of the text.
CHECK_DEADLOCK FALSE
INVARIANTS
    TypeOK
    SentencesCovered
    OneParagraph
    SmallEnough
    ContextShared
    WindowsCover
    BlocksTypeOK
    SpansInOrder
    MarkdownComplete
    HtmlComplete
PROPERTIES
    WindowsAdvance
