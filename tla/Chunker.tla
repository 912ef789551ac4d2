------------------------------- MODULE Chunker ------------------------------
(***************************************************************************)
(* The three chunkers of app/chunking/chunker.py, as operators on texts.   *)
(* A text is a sequence of characters; offsets count from 0, as in Python, *)
(* so that text[start:end] is Slice(text, start, end).                     *)
(***************************************************************************)
EXTENDS Integers, Sequences, SequencesExt

CONSTANTS Characters, \* what texts are made of
          Blanks,     \* the characters str.strip() and \s take for white space
          Stops,      \* the characters that end a sentence: [.!?]
          Starters,   \* the characters that may begin one: [A-Z0-9]
          NewLine,    \* "\n"
          Space       \* " "

ASSUME ChunkerAssumption ==
    /\ Blanks \cup Stops \cup Starters \subseteq Characters
    /\ {NewLine, Space} \subseteq Blanks /\ NewLine # Space
    /\ Blanks \cap (Stops \cup Starters) = {} /\ Stops \cap Starters = {} /\ "." \in Stops

Text == Seq(Characters)

\* A loop: what Step(1, .), ..., Step(n, .) make of `base`.
Loop(n, base, Step(_, _)) ==
    LET after[k \in 0..n] == IF k = 0 THEN base ELSE Step(k, after[k - 1])
    IN  after[n]

Slice(t, start, end) == SubSeq(t, start + 1, end)
IsBlank(t) == \A i \in DOMAIN t : t[i] \in Blanks

\* str.strip()
Strip(t) ==
    LET kept == {i \in DOMAIN t : t[i] \notin Blanks}
    IN  IF kept = {} THEN <<>> ELSE SubSeq(t, Min(kept), Max(kept))

\* t.find(part, from), -1 if it does not occur
Find(t, part, from) ==
    LET places == {i \in from..(Len(t) - Len(part)) : Slice(t, i, i + Len(part)) = part}
    IN  IF places = {} THEN -1 ELSE Min(places)

\* t.split(sep): the parts of t from each of its places on, and so from the first
Split(t, sep) ==
    LET parts[from \in 0..Len(t)] ==
            LET i == Find(t, sep, from)
            IN  IF i < 0 THEN <<Slice(t, from, Len(t))>>
                ELSE <<Slice(t, from, i)>> \o parts[i + Len(sep)]
    IN  parts[0]

\* sep.join(parts)
Join(sep, parts) ==
    FlattenSeq([i \in DOMAIN parts |-> IF i = 1 THEN parts[1] ELSE sep \o parts[i]])

\* The parts that are not blank.
Filled(parts) ==
    FlattenSeq([i \in DOMAIN parts |-> IF IsBlank(parts[i]) THEN <<>> ELSE <<parts[i]>>])

\* _build_chunk: the sequence number of a chunk is the number of chunks before it.
Chunk(chunks, content, start, end) ==
    [content |-> content, sequence |-> Len(chunks), start |-> start, end |-> end]

-----------------------------------------------------------------------------
\* FixedCharChunker.chunk: how far apart windows begin, and which is the last one, the
\* first that reaches the end of n characters.
WindowStep(size, overlap) == Max({1, size - overlap})
LastWindow(n, size, step) ==
    CHOOSE k \in 0..n : k * step + size >= n /\ \A j \in 0..(k - 1) : j * step + size < n

\* Window k; a blank one is left out.
Window(text, size, step, k, chunks) ==
    LET start == (k - 1) * step
        end == Min({start + size, Len(text)})
        piece == Slice(text, start, end)
    IN  IF IsBlank(piece) THEN chunks ELSE Append(chunks, Chunk(chunks, piece, start, end))

FixedChunks(text, size, overlap) ==
    LET step == WindowStep(size, overlap)
    IN  IF Len(text) = 0 THEN <<>>
        ELSE Loop(LastWindow(Len(text), size, step) + 1, <<>>,
                  LAMBDA k, chunks : Window(text, size, step, k, chunks))

-----------------------------------------------------------------------------
\* The places where _SENTENCE_SPLIT_RE matches: white space after a stop, which ends at
\* b[1], and before a starter, behind b[2].
Breaks(t) == {b \in (DOMAIN t) \X (DOMAIN t) :
                 /\ b[1] < b[2] /\ b[2] < Len(t)
                 /\ t[b[1]] \in Stops /\ t[b[2] + 1] \in Starters
                 /\ IsBlank(SubSeq(t, b[1] + 1, b[2]))}

\* The first of them behind the first `from` characters.
BreaksAfter(t, from) == {b \in Breaks(t) : from < b[1]}
NextBreak(t, from) ==
    CHOOSE b \in BreaksAfter(t, from) : \A c \in BreaksAfter(t, from) : b[1] <= c[1]

\* _SENTENCE_SPLIT_RE.split(text): the sentences from each place of t on.
SplitSentences(t) ==
    LET sentences[from \in 0..Len(t)] ==
            IF BreaksAfter(t, from) = {} THEN <<Slice(t, from, Len(t))>>
            ELSE <<Slice(t, from, NextBreak(t, from)[1])>> \o sentences[NextBreak(t, from)[2]]
    IN  sentences[0]

\* The length of the sentences i..j, each with the blank that follows it.
Total(sentences, i, j) ==
    Loop(j + 1 - i, 0, LAMBDA k, sum : sum + Len(sentences[i + k - 1]) + 1)

\* Where the chunk that begins with sentence i ends: it takes one sentence, and
\* further ones while they fit.
LastSentence(sentences, i, target) ==
    Max({j \in i..Len(sentences) :
            \A k \in (i + 1)..j : Total(sentences, i, k - 1) + Len(sentences[k]) <= target})

\* A chunk more: it begins with sentence at.next, and the cursor moves on by the length of
\* each chunk, repeated sentences included.
Group(text, sentences, target, overlap, at) ==
    LET i == at.next
        j == LastSentence(sentences, i, target)
        content == Join(<<Space>>, SubSeq(sentences, i, j))
        start == IF at.chunks = <<>> THEN 0 ELSE Last(at.chunks).end
        end == Min({start + Len(content), Len(text)})
    IN  IF i > Len(sentences) THEN at
        ELSE [next |-> Max({j + 1 - overlap, i + 1}),
              chunks |-> Append(at.chunks, Chunk(at.chunks, content, start, end))]

\* SentenceChunker.chunk
GroupSentences(text, sentences, target, overlap) ==
    Loop(Len(sentences), [next |-> 1, chunks |-> <<>>],
         LAMBDA k, at : Group(text, sentences, target, overlap, at)).chunks

SentenceChunks(text, target, overlap) ==
    IF IsBlank(text) THEN <<>>
    ELSE GroupSentences(text, Filled(SplitSentences(text)), target, overlap)

-----------------------------------------------------------------------------
\* Two faults: a full buffer is forgotten; the separator is not counted.
PackForgets(acc, p, sep, size) ==
    LET candidate == IF acc.buf = <<>> THEN p ELSE acc.buf \o sep \o p
    IN  IF Len(candidate) <= size THEN [acc EXCEPT !.buf = candidate] ELSE [acc EXCEPT !.buf = p]
PackTight(acc, p, sep, size) ==
    LET candidate == IF acc.buf = <<>> THEN p ELSE acc.buf \o sep \o p
    IN  IF Len(acc.buf) + Len(p) <= size THEN [acc EXCEPT !.buf = candidate]
        ELSE [out |-> IF acc.buf = <<>> THEN acc.out ELSE Append(acc.out, acc.buf), buf |-> p]

\* One part more: into the buffer if it fits, behind the separator, or else into a
\* new buffer.
Pack(acc, p, sep, size) ==
    LET candidate == IF acc.buf = <<>> THEN p ELSE acc.buf \o sep \o p
    IN  IF Len(candidate) <= size THEN [acc EXCEPT !.buf = candidate]
        ELSE [out |-> IF acc.buf = <<>> THEN acc.out ELSE Append(acc.out, acc.buf), buf |-> p]

\* The pieces packed up, one after the other.
PackAll(pieces, sep, size) ==
    LET packed == Loop(Len(pieces), [out |-> <<>>, buf |-> <<>>],
                       LAMBDA k, acc : Pack(acc, pieces[k], sep, size))
    IN  IF packed.buf = <<>> THEN packed.out ELSE Append(packed.out, packed.buf)

\* _recursive_split of t, of which the separator makes `parts`; Finer does it with the
\* separators that are left.
SplitInto(parts, sep, t, size, Finer(_)) ==
    IF Len(t) <= size THEN <<t>>
    ELSE PackAll(FlattenSeq([i \in DOMAIN parts |-> IF Len(parts[i]) > size THEN Finer(parts[i])
                                                    ELSE <<parts[i]>>]), sep, size)

\* The four separators, from the last, at which a text is taken apart into characters.
SplitWords(t, size) ==
    SplitInto([i \in DOMAIN t |-> <<t[i]>>], <<Space>>, t, size, LAMBDA p : <<p>>)
SplitStops(t, size) ==
    SplitInto(Split(t, <<".", Space>>), <<".", Space>>, t, size, LAMBDA p : SplitWords(p, size))
SplitLines(t, size) ==
    SplitInto(Split(t, <<NewLine>>), <<NewLine>>, t, size, LAMBDA p : SplitStops(p, size))
RecursiveSplit(t, size) ==
    SplitInto(Split(t, <<NewLine, NewLine>>), <<NewLine, NewLine>>, t, size,
              LAMBDA p : SplitLines(p, size))

\* A piece with its place in the text: where it is found next, or, since it may not be
\* text of the document, where the last one ended.
Place(text, piece, chunks) ==
    LET pos == IF chunks = <<>> THEN 0 ELSE Last(chunks).end
        start == Max({Find(text, piece, pos), pos})
    IN  Chunk(chunks, piece, start, Min({start + Len(piece), Len(text)}))

Locate(text, pieces) ==
    Loop(Len(pieces), <<>>, LAMBDA k, chunks : Append(chunks, Place(text, pieces[k], chunks)))

\* _apply_overlap: the end of the chunk before is put in front of each chunk.
ApplyOverlap(chunks, overlap) ==
    [i \in DOMAIN chunks |->
        IF i = 1 THEN chunks[1]
        ELSE LET c == chunks[i]
                 before == chunks[i - 1].content
                 tail == Slice(before, Max({Len(before) - overlap, 0}), Len(before))
             IN  [c EXCEPT !.content = Strip(tail \o <<Space>> \o c.content),
                           !.start = IF @ >= overlap THEN @ - overlap ELSE @]]

\* RecursiveChunker.chunk
RecursiveChunks(text, size, overlap) ==
    IF IsBlank(text) THEN <<>>
    ELSE LET located == Locate(text, Filled(RecursiveSplit(text, size)))
         IN  IF overlap > 0 /\ Len(located) > 1 THEN ApplyOverlap(located, overlap) ELSE located

-----------------------------------------------------------------------------
\* get_chunker(name, ...).chunk(document); `overlap` counts characters, and
\* sentences for the second.
Chunks(name, text, size, overlap) ==
    CASE name = "fixed" -> FixedChunks(text, size, overlap)
      [] name = "sentence" -> SentenceChunks(text, size, overlap)
      [] name = "recursive" -> RecursiveChunks(text, size, overlap)
=============================================================================
