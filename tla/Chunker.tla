------------------------------- MODULE Chunker -------------------------------
(***************************************************************************)
(* How a source is cut into the chunks that are searched                   *)
(* (indexing/chunker.py).  The code is a pure function of the text; here   *)
(* the text is read line by line, so that every text of at most MaxLines   *)
(* lines is a behaviour.  The code first collects the body of a section    *)
(* and cuts it afterwards, with the same result: nothing in a section      *)
(* depends on what follows the section.                                    *)
(*                                                                         *)
(* A line is a heading, blank, or one sentence: a line break ends a        *)
(* sentence just as a full stop does.  A sentence is the number of its     *)
(* line and its length in characters; every title on a heading path takes  *)
(* TitleChars of the prefix that each chunk of its section gets.           *)
(***************************************************************************)
EXTENDS Integers, Sequences, SequencesExt

CONSTANTS
  TARGET_CHARS, MAX_CHARS, MIN_CHARS,
  TitleChars,    \* length a title adds to the prefix "[a > b] "
  Sizes,         \* lengths of sentences
  MaxLines       \* bound: lines of a text

ASSUME ChunkerAssumption ==
  /\ {TARGET_CHARS, MAX_CHARS, MIN_CHARS, TitleChars, MaxLines} \subseteq Nat
  /\ Sizes \subseteq Nat \ {0}

Levels == 1 .. 3
Title == [level : Levels, at : 1 .. MaxLines]
Sentence == [at : 1 .. MaxLines, size : Sizes]

VARIABLES
  kind,      \* "body", or "speech" for speech_examples
  lines,     \* lines read
  path,      \* heading_path of the open section
  pieces,    \* pieces of the open section
  buffer,    \* sentences of the open paragraph that are in no piece
  chunks,    \* the result
  said,      \* history: every sentence, with the heading path it is under
  done

vars == <<kind, lines, path, pieces, buffer, chunks, said, done>>

Init ==
  /\ kind \in {"body", "speech"}
  /\ lines = 0
  /\ path = <<>> /\ pieces = <<>> /\ buffer = <<>> /\ chunks = <<>> /\ said = <<>>
  /\ done = FALSE

-----------------------------------------------------------------------------
\* Sentences are joined by one character.
Length(text) ==
  LET Add(n, s) == n + s.size IN FoldLeft(Add, Len(text) - 1, text)

Reserve(p) == Len(p) * TitleChars
EffectiveTarget == TARGET_CHARS - Reserve(path)

EffectiveMax == MAX_CHARS - Reserve(path)

NewSentence(size) == [at |-> lines + 1, size |-> size]
Hear(s) == said' = Append(said, [sentence |-> s, path |-> path])

\* A sentence joins the paragraph's buffer, or else starts a new one; a buffer
\* that has reached the target is a piece.
ReadSentence(size) ==
  LET s == NewSentence(size)
      candidate == Append(buffer, s)
      full == buffer # <<>> /\ Length(candidate) > EffectiveMax
  IN
  /\ kind = "body" /\ ~done /\ lines < MaxLines
  /\ lines' = lines + 1
  /\ Hear(s)
  /\ \/ full /\ pieces' = Append(pieces, buffer) /\ buffer' = <<s>>
     \/ /\ ~full /\ Length(candidate) >= EffectiveTarget
        /\ pieces' = Append(pieces, candidate) /\ buffer' = <<>>
     \/ /\ ~full /\ Length(candidate) < EffectiveTarget
        /\ buffer' = candidate /\ UNCHANGED pieces
  /\ UNCHANGED <<kind, path, chunks, done>>

PiecesWithBuffer == IF buffer = <<>> THEN pieces ELSE Append(pieces, buffer)

\* A blank line ends the paragraph.
ReadBlank ==
  /\ kind = "body" /\ ~done /\ lines < MaxLines /\ buffer # <<>>
  /\ lines' = lines + 1
  /\ pieces' = PiecesWithBuffer
  /\ buffer' = <<>>
  /\ UNCHANGED <<kind, path, chunks, said, done>>

\* One turn of the loop of _merge_below_floor.
MergePiece(sofar, piece) ==
  LET candidate == sofar.buffer \o piece
      full == sofar.buffer # <<>> /\ Length(candidate) > EffectiveMax
      merged == IF full THEN Append(sofar.merged, sofar.buffer) ELSE sofar.merged
      rest == IF full THEN piece ELSE candidate
  IN IF Length(rest) >= MIN_CHARS
     THEN [merged |-> Append(merged, rest), buffer |-> <<>>]
     ELSE [merged |-> merged, buffer |-> rest]

\* Mutant: a short last piece stays alone.
MergeBelowFloorButLast(all) ==
  LET end == FoldLeft(MergePiece, [merged |-> <<>>, buffer |-> <<>>], all)
  IN IF end.buffer = <<>> THEN end.merged ELSE Append(end.merged, end.buffer)

\* Pieces below the floor join the next one, a last one the one before it,
\* unless that would go over the maximum.
MergeBelowFloor(all) ==
  LET end == FoldLeft(MergePiece, [merged |-> <<>>, buffer |-> <<>>], all)
      last == Last(end.merged) \o end.buffer
  IN IF end.buffer = <<>> THEN end.merged
     ELSE IF end.merged # <<>> /\ Length(last) <= EffectiveMax
          THEN Append(Front(end.merged), last)
          ELSE Append(end.merged, end.buffer)

SectionChunks ==
  LET texts == MergeBelowFloor(PiecesWithBuffer)
  IN [i \in 1 .. Len(texts) |-> [path |-> path, text |-> texts[i]]]

\* Mutant: the path is changed before the section that ends is cut.
CloseSectionLate ==
  /\ chunks' = chunks \o [i \in 1 .. Len(SectionChunks) |->
                           [SectionChunks[i] EXCEPT !.path = path']]
  /\ pieces' = <<>> /\ buffer' = <<>>

CloseSection ==
  /\ chunks' = chunks \o SectionChunks
  /\ pieces' = <<>> /\ buffer' = <<>>

PathAbove(level) == SubSeq(path, 1, IF level - 1 < Len(path) THEN level - 1 ELSE Len(path))

ReadHeading(level) ==
  /\ kind = "body" /\ ~done /\ lines < MaxLines
  /\ lines' = lines + 1
  /\ path' = Append(PathAbove(level), [level |-> level, at |-> lines + 1])
  /\ CloseSection
  /\ UNCHANGED <<kind, said, done>>

\* _chunk_speech_lines: a line is a chunk, however long or short.
ReadSpeechLine(size) ==
  /\ kind = "speech" /\ ~done /\ lines < MaxLines
  /\ lines' = lines + 1
  /\ Hear(NewSentence(size))
  /\ chunks' = Append(chunks, [path |-> <<>>, text |-> <<NewSentence(size)>>])
  /\ UNCHANGED <<kind, path, pieces, buffer, done>>

EndText ==
  /\ ~done
  /\ done' = TRUE
  /\ UNCHANGED <<kind, lines, path, said>>
  /\ CloseSection

Next ==
  \/ \E size \in Sizes : ReadSentence(size) \/ ReadSpeechLine(size)
  \/ \E level \in Levels : ReadHeading(level)
  \/ ReadBlank \/ EndText

Spec == Init /\ [][Next]_vars

-----------------------------------------------------------------------------
(* Properties.                                                             *)

TypeOK ==
  /\ kind \in {"body", "speech"}
  /\ lines \in 0 .. MaxLines
  /\ path \in Seq(Title) /\ Len(path) <= 3
  /\ pieces \in Seq(Seq(Sentence))
  /\ buffer \in Seq(Sentence)
  /\ chunks \in Seq([path : Seq(Title), text : Seq(Sentence)])
  /\ said \in Seq([sentence : Sentence, path : Seq(Title)])
  /\ done \in BOOLEAN

\* Cutting, merging and closing sections loses no sentence, repeats none, keeps
\* their order, and puts each under the heading it was written under.
NothingLost ==
  LET Said(c) == [i \in 1 .. Len(c.text) |-> [sentence |-> c.text[i], path |-> c.path]]
      open == [path |-> path, text |-> FlattenSeq(PiecesWithBuffer)]
  IN FlattenSeq([i \in 1 .. Len(chunks) |-> Said(chunks[i])]) \o Said(open) = said

SameSection(i, j) ==
  {i, j} \subseteq 1 .. Len(chunks) /\ chunks[i].path = chunks[j].path

\* Would the chunks i and j be within the maximum as one?
CouldJoin(i, j) ==
  Length(chunks[i].text \o chunks[j].text) + Reserve(chunks[i].path) <= MAX_CHARS

\* A chunk, with the prefix it gets, is within the maximum that the embedding
\* model takes, unless it is one sentence that alone is not.  A chunk below the
\* floor is left alone only where it has no neighbour in its section that it
\* could have joined.
ChunkSizes ==
  \A i \in 1 .. Len(chunks) :
    /\ Len(chunks[i].text) > 1 =>
         Length(chunks[i].text) + Reserve(chunks[i].path) <= MAX_CHARS
    /\ kind = "body" /\ Length(chunks[i].text) < MIN_CHARS =>
         /\ SameSection(i, i + 1) => ~CouldJoin(i, i + 1)
         /\ SameSection(i - 1, i) /\ ~SameSection(i, i + 1) => ~CouldJoin(i - 1, i)

-----------------------------------------------------------------------------
\* The comment in _split_by_heading: after the return to a higher level, the
\* titles piled up below it are no longer on the path.
PathDescends ==
  \A i, j \in 1 .. Len(path) : i < j => path[i].level <= path[j].level

=============================================================================
