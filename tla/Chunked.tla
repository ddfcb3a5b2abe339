------------------------------ MODULE Chunked ------------------------------
(***************************************************************************)
(* The chunked transfer coding: ngx_http_parse_chunked, and the loop of    *)
(* ngx_http_proxy_chunked_filter that takes the data out of the buffers a  *)
(* response comes in.  A byte is the value of a hexadecimal digit, or one  *)
(* of the constants below.                                                 *)
(***************************************************************************)
EXTENDS Integers, SequencesExt

CONSTANT MaxOff     \* NGX_MAX_OFF_T_VALUE

CR == 16
LF == 17
Blank == 18         \* ';', ' ' or a tab
Other == 19
IsDigit(ch) == ch < 16

\* off_t arithmetic
Wrap(n) == ((n + MaxOff + 1) % (2 * MaxOff + 2)) - (MaxOff + 1)

\* rc is the last answer, length what is still to come at least, data what the
\* filter took out, used the number of bytes it went through.
Start == [state |-> "chunk_start", size |-> 0, length |-> 3, rc |-> "AGAIN",
          data |-> <<>>, used |-> 0]

After(ch, crlf, lf, other) ==
    IF ch = CR THEN crlf ELSE IF ch = LF THEN lf ELSE other

\* sw_chunk_size
SizeByte(c, ch) ==
    IF c.size > MaxOff \div 16 THEN [c EXCEPT !.state = "invalid"]
    ELSE IF IsDigit(ch) THEN [c EXCEPT !.size = Wrap(@ * 16 + ch)]
    ELSE [c EXCEPT !.state =
            IF c.size = 0
            THEN After(ch, "last_chunk_extension_almost_done", "trailer",
                       IF ch = Blank THEN "last_chunk_extension" ELSE "invalid")
            ELSE After(ch, "chunk_extension_almost_done", "chunk_data",
                       IF ch = Blank THEN "chunk_extension" ELSE "invalid")]

\* The state after a byte in the states that only look for the end of a line.
LineByte(state, ch) ==
    CASE state = "chunk_extension" ->
            After(ch, "chunk_extension_almost_done", "chunk_data", state)
      [] state = "chunk_extension_almost_done" -> After(ch, "invalid", "chunk_data", "invalid")
      [] state = "after_data" -> After(ch, "after_data_almost_done", "chunk_start", state)
      [] state = "after_data_almost_done" -> After(ch, "invalid", "chunk_start", "invalid")
      [] state = "last_chunk_extension" ->
            After(ch, "last_chunk_extension_almost_done", "trailer", state)
      [] state = "last_chunk_extension_almost_done" -> After(ch, "invalid", "trailer", "invalid")
      [] state = "trailer" -> After(ch, "trailer_almost_done", "done", "trailer_header")
      [] state = "trailer_almost_done" -> After(ch, "invalid", "done", "invalid")
      [] state = "trailer_header" -> After(ch, "trailer_header_almost_done", "trailer", state)
      [] state = "trailer_header_almost_done" -> After(ch, "invalid", "trailer", "invalid")

Byte(c, ch) ==
    IF c.state = "chunk_start"
    THEN IF IsDigit(ch) THEN [c EXCEPT !.state = "chunk_size", !.size = ch]
         ELSE [c EXCEPT !.state = "invalid"]
    ELSE IF c.state = "chunk_size" THEN SizeByte(c, ch)
    ELSE [c EXCEPT !.state = LineByte(c.state, ch)]

\* ctx->length
Length(state, size) ==
    CASE state = "chunk_start" -> 3
      [] state = "chunk_size" -> 1 + (IF size > 0 THEN size + 4 ELSE 1)
      [] state \in {"chunk_extension", "chunk_extension_almost_done"} -> 1 + size + 4
      [] state = "chunk_data" -> size + 4
      [] state \in {"after_data", "after_data_almost_done"} -> 4
      [] state \in {"last_chunk_extension", "last_chunk_extension_almost_done",
                    "trailer_header", "trailer_header_almost_done"} -> 2
      [] state \in {"trailer", "trailer_almost_done"} -> 1

\* The loop over the buffer, up to data, the end of the body or an error.
RECURSIVE Scan(_, _)
Scan(c, buf) ==
    IF buf = <<>> \/ c.state \in {"chunk_data", "done", "invalid"} THEN <<c, buf>>
    ELSE Scan([Byte(c, Head(buf)) EXCEPT !.used = @ + 1], Tail(buf))

\* The state a call begins in.
Resume(c) == IF c.state = "chunk_data" /\ c.size = 0 THEN [c EXCEPT !.state = "after_data"] ELSE c

\* ngx_http_parse_chunked: the context and the rest of the buffer.
ParseChunked(c, buf) ==
    LET scan == Scan(Resume(c), buf)
        c1 == scan[1]
    IN  IF c1.state = "invalid" \/ (c1.state # "done" /\ c1.size > MaxOff - 5)
        THEN <<[c1 EXCEPT !.state = "invalid", !.rc = "ERROR"], scan[2]>>
        ELSE IF c1.state = "done" THEN <<[c1 EXCEPT !.rc = "DONE"], scan[2]>>
        ELSE <<[c1 EXCEPT !.rc = IF scan[2] = <<>> THEN "AGAIN" ELSE "OK",
                          !.length = Wrap(Length(c1.state, c1.size))], scan[2]>>


\* As much of the chunk as the buffer has.
Take(c, buf) ==
    LET n == Min({c.size, Len(buf)})
    IN  [c EXCEPT !.data = @ \o SubSeq(buf, 1, n), !.size = @ - n, !.used = @ + n]

\* ngx_http_proxy_chunked_filter
RECURSIVE ChunkedFilter(_, _)
ChunkedFilter(c, buf) ==
    LET parsed == ParseChunked(c, buf)
        c1 == parsed[1]
    IN  IF c.rc \in {"DONE", "ERROR"} THEN c
        ELSE IF c1.rc # "OK" THEN c1
        ELSE ChunkedFilter(Take(c1, parsed[2]),
                           SubSeq(parsed[2], Min({c1.size, Len(parsed[2])}) + 1, Len(parsed[2])))

-----------------------------------------------------------------------------
(* Properties of a word, the bytes that have arrived.                      *)

Prefix(word, i) == ChunkedFilter(Start, SubSeq(word, 1, i))

\* Where the buffers end makes no difference: the body cut in two anywhere is
\* parsed as in one piece, to the same data and the same state.
View(c) ==
    IF c.rc = "ERROR" THEN <<c.rc>>
    ELSE IF c.rc = "DONE" THEN <<c.rc, c.data, c.used>>
    ELSE <<c.rc, c.data, c.used, c.size, c.length, Resume(c).state>>
CutsDoNotMatter(word) ==
    \A i \in 0..Len(word) :
        View(ChunkedFilter(Prefix(word, i), SubSeq(word, i + 1, Len(word))))
            = View(ChunkedFilter(Start, word))

\* What the filter asks for (p->length, "minimal amount of data we want to see")
\* is never more than what the response still has, or ngx_event_pipe would wait
\* for a body that is complete.
AsksForNoMore(word) ==
    LET whole == ChunkedFilter(Start, word)
    IN  whole.rc = "DONE" => \A i \in 0..(whole.used - 1) : Prefix(word, i).length <= whole.used - i

\* The size of a chunk is the number that is written, however many digits it
\* has, or it is refused; with what must follow it is still an off_t.
Value(word) == FoldLeft(LAMBDA n, ch : 16 * n + ch, 0, word)
SizeIsWritten(word) ==
    LET c == ChunkedFilter(Start, word)
    IN  word # <<>> /\ (\A i \in DOMAIN word : IsDigit(word[i])) /\ c.rc # "ERROR" =>
            c.size = Value(word) /\ c.size < c.length

=============================================================================
