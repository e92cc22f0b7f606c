----------------------------- MODULE ChunkText ------------------------------
(***************************************************************************)
(* chunk_text (chunking/chunker.py): text goes to the chunker its type     *)
(* names; the blocks of HTML and Markdown are found first, and each block  *)
(* is then a prose text of its own.                                        *)
(***************************************************************************)
EXTENDS Chunks, Blocks

ChunkTextInit ==
    /\ Init /\ BlocksInit
    /\ content_type # "prose" => format = "text"

ChunkTextNext ==
    \/ format = "text" /\ Next /\ UNCHANGED block_vars
    \/ BlocksNext /\ UNCHANGED vars

ChunkTextSpec ==
    ChunkTextInit /\ [][ChunkTextNext]_<<vars, block_vars>>
=============================================================================
