--------------------------------- MODULE Sse ---------------------------------
(***************************************************************************)
(* The SSE parsers of the upstream HTTP clients: parse and find_frame_end  *)
(* of crates/ai-engine-openai/src/stream.rs and the same of                *)
(* crates/ai-engine-anthropic/src/stream.rs, which has no [DONE].          *)
(*                                                                         *)
(* The body of a response arrives in chunks cut anywhere, inside a line or *)
(* a character.  Bytes are abstracted to "n" (a newline), "x" (a byte of a *)
(* JSON value on a data line), "D" ([DONE]; anything around it is bad      *)
(* JSON) and "h" and "l", the two bytes of a character.                    *)
(***************************************************************************)
EXTENDS SequencesExt

CONSTANT Done  \* whether a [DONE] line ends the stream: TRUE for OpenAI

Bytes == {"n", "x", "D", "h", "l"}

\* Where the first two newlines in a row end, 0 if there are none.
find_frame_end(b) ==
  LET ends == {i \in 2 .. Len(b) : b[i - 1] = "n" /\ b[i] = "n"} IN
  IF ends = {} THEN 0 ELSE Min(ends)

\* str::from_utf8: each half of a character has the other.
Utf8(b) ==
  \A i \in DOMAIN b : /\ b[i] = "h" => i < Len(b) /\ b[i + 1] = "l"
                      /\ b[i] = "l" => i > 1 /\ b[i - 1] = "h"

\* A line of a frame: nothing, the end, an event or a value that cannot be read.
Line(data) == IF data = << >> THEN "blank"
              ELSE IF data = << "D" >> /\ Done THEN "done"
              ELSE IF "D" \in Range(data) THEN "bad" ELSE "event"

\* What the parser keeps: the bytes of the frame begun, what it has yielded,
\* and whether it returned.
Start == [buf |-> << >>, out |-> << >>, over |-> FALSE]

Error == << "error" >>

Fail(st) == [st EXCEPT !.out = Append(@, Error), !.over = TRUE]

\* `for line in frame.lines()`, one line.
on_line(st, data) ==
  IF st.over THEN st
  ELSE CASE Line(data) = "blank" -> st
         [] Line(data) = "done"  -> [st EXCEPT !.over = TRUE]
         [] Line(data) = "bad"   -> Fail(st)
         [] Line(data) = "event" -> [st EXCEPT !.out = Append(@, data)]

\* str::lines, for a frame that ends with newlines.
lines(b) ==
  LET nl == SetToSortSeq({i \in DOMAIN b : b[i] = "n"}, LAMBDA i, j : i < j)
  IN  [k \in DOMAIN nl |-> SubSeq(b, IF k = 1 THEN 1 ELSE nl[k - 1] + 1, nl[k] - 1)]

RECURSIVE drain(_)

\* Mutant of drain: one frame per chunk.
drain_one(st) ==
  LET e == find_frame_end(st.buf) IN
  IF st.over \/ e = 0 THEN st
  ELSE LET frame == SubSeq(st.buf, 1, e)
           rest  == [st EXCEPT !.buf = SubSeq(@, e + 1, Len(@))]
       IN  IF Utf8(frame) THEN FoldLeft(on_line, rest, lines(frame)) ELSE Fail(rest)

\* The frames that are complete leave the buffer, one after the other.
drain(st) ==
  LET e == find_frame_end(st.buf) IN
  IF st.over \/ e = 0 THEN st
  ELSE LET frame == SubSeq(st.buf, 1, e)
           rest  == [st EXCEPT !.buf = SubSeq(@, e + 1, Len(@))]
       IN  drain(IF Utf8(frame) THEN FoldLeft(on_line, rest, lines(frame)) ELSE Fail(rest))

\* What arrives in place of a chunk when the connection breaks.
Broken == << "broken" >>

\* A chunk arrives, or the transport's error, which ends the stream; the bytes
\* of the frame begun are dropped.
on_chunk(st, chunk) == IF st.over THEN st
                       ELSE IF chunk = Broken THEN Fail(st)
                       ELSE drain([st EXCEPT !.buf = @ \o chunk])

\* The items of the stream; after the last chunk, what is in the buffer is
\* dropped.
parse(chunks) == FoldLeft(on_chunk, Start, chunks).out

\* What a body says, whatever chunks it comes in: the lines up to the last
\* empty one, in order, until one ends the stream or cannot be read.  Bytes
\* that are not UTF-8 spoil all of the lines up to the empty line before.  A
\* body that is broken off ends with an error, unless it had ended before.
Body(text, broken) ==
  LET n      == Len(text)
      \* the non-empty lines that a blank line follows, by their first byte
      starts == {i \in 1 .. n : /\ text[i] # "n" /\ (i = 1 \/ text[i - 1] = "n")
                                /\ \E j \in i .. n - 1 : text[j] = "n" /\ text[j + 1] = "n"}
      line(i) == SubSeq(text, i, Min({j \in i .. n : text[j] = "n"}) - 1)
      \* nothing but single newlines between lines i and j
      near(i, j) == \A k \in Min({i, j}) .. Max({i, j}) - 1 : ~(text[k] = "n" /\ text[k + 1] = "n")
      spoilt(i) == \E j \in starts : near(i, j) /\ ~Utf8(line(j))
      last(i) == spoilt(i) \/ Line(line(i)) \in {"done", "bad"}
      read   == {i \in starts : \A j \in starts : j < i => ~last(j)}
      item(i) == IF spoilt(i) \/ Line(line(i)) = "bad" THEN << Error >>
                 ELSE IF Line(line(i)) = "done" THEN << >> ELSE << line(i) >>
  IN  FlattenSeq([k \in 1 .. Cardinality(read) |->
                    item(SetToSortSeq(read, LAMBDA i, j : i < j)[k])])
      \o IF broken /\ \A i \in starts : ~last(i) THEN << Error >> ELSE << >>
=============================================================================
