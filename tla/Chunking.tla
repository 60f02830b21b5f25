------------------------------- MODULE Chunking -------------------------------
(***************************************************************************)
(* SemanticChunker.chunk_text (packages/ai/chunking.py).  A text is the     *)
(* lengths of its paragraphs in words, its words are numbered, and the words *)
(* gathered for a chunk are always consecutive: first .. last.              *)
(***************************************************************************)
EXTENDS Integers, Sequences

CONSTANTS
  PER_CHUNK,   \* APPROX_WORDS_PER_CHUNK
  OVERLAP      \* APPROX_WORDS_OVERLAP

ASSUME ChunkAssumption == PER_CHUNK \in Nat \ {0} /\ OVERLAP \in Nat \ {0}

Empty == [first |-> 1, last |-> 0, chunks |-> <<>>]

Gathered(c) == c.last - c.first + 1
Chunk(c) == [first |-> c.first, last |-> c.last]

\* The last OVERLAP of the words gathered, or all when there are fewer.
Kept(c) == IF Gathered(c) > OVERLAP THEN c.last - OVERLAP + 1 ELSE c.first

\* A faulty closing that drops a paragraph's first words when it keeps none.
CloseOnNext(c) == [c EXCEPT !.chunks = Append(@, Chunk(c)), !.first = c.last + 2]
Close(c) == [c EXCEPT !.chunks = Append(@, Chunk(c)), !.first = Kept(c)]

AddParagraph(c, words) ==
  LET before == IF Gathered(c) + words > PER_CHUNK /\ Gathered(c) > 0 THEN Close(c) ELSE c
  IN [before EXCEPT !.last = @ + words]

\* What is left at the end is a chunk too.
chunk_text(paragraphs) ==
  LET after[p \in 0 .. Len(paragraphs)] ==
        IF p = 0 THEN Empty ELSE AddParagraph(after[p - 1], paragraphs[p])
      end == after[Len(paragraphs)]
  IN IF Gathered(end) > 0 THEN Append(end.chunks, Chunk(end)) ELSE end.chunks

=============================================================================
