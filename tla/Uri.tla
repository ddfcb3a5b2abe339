-------------------------------- MODULE Uri --------------------------------
(***************************************************************************)
(* ngx_http_parse_complex_uri: the path of a request is decoded, runs of   *)
(* slashes are merged and "." and ".." are resolved in one pass, before    *)
(* locations are compared with it.  The text is the sequence of characters *)
(* below; 10 + c is the character c written as %XX.                        *)
(***************************************************************************)
EXTENDS Integers, FiniteSets, SequencesExt

Malformed == 0      \* a % without two hexadecimal digits, or %00
Slash == 1
Dot == 2
Usual == 3          \* any character that means nothing to the parser
Question == 4
Hash == 5
Percent == 6        \* appears only as %25

IsQuoted(ch) == ch >= 10
Char(ch) == IF IsQuoted(ch) THEN ch - 10 ELSE ch

Invalid == [path |-> <<>>, ext |-> 0, rc |-> "INVALID"]

-----------------------------------------------------------------------------
(* The parser: state, the text written so far, where the extension begins. *)


\* "/.." is followed by a slash: back to the slash before that one, <<>> when
\* there is none.
Up(path) ==
    LET before == {i \in 1..(Len(path) - 4) : path[i] = Slash}
    IN  IF before = {} THEN <<>> ELSE SubSeq(path, 1, Max(before))

Put(s, state, ch) == [s EXCEPT !.state = state, !.path = Append(@, ch)]

EndSegment(s) == [Put(s, "slash", Slash) EXCEPT !.ext = 0]

\* A slash, as it is or decoded.
SlashIn(s, merge) ==
    CASE s.state = "usual" -> EndSegment(s)
      [] s.state = "slash" -> IF merge THEN s ELSE Put(s, "slash", Slash)
      [] s.state = "dot" -> [s EXCEPT !.state = "slash", !.path = Front(@)]
      [] s.state = "dot_dot" ->
            LET path == Up(s.path)
            IN  [s EXCEPT !.state = IF path = <<>> THEN "invalid" ELSE "slash", !.path = path]

\* A dot, as it is or decoded.
DotIn(s) ==
    CASE s.state = "usual" -> [Put(s, "usual", Dot) EXCEPT !.ext = Len(s.path) + 2]
      [] s.state = "slash" -> Put(s, "dot", Dot)
      [] s.state = "dot" -> Put(s, "dot_dot", Dot)
      [] s.state = "dot_dot" -> Put(s, "usual", Dot)

\* One character; a quoted "?", "#" or "%" is text.
In(s, ch, merge) ==
    IF ch = Malformed THEN [s EXCEPT !.state = "invalid"]
    ELSE IF ch \in {Question, Hash} THEN [s EXCEPT !.state = "done"]
    ELSE IF Char(ch) = Slash THEN SlashIn(s, merge)
    ELSE IF Char(ch) = Dot THEN DotIn(s)
    ELSE Put(s, "usual", Char(ch))

RECURSIVE Parse(_, _, _)
Parse(s, text, merge) ==
    IF text = <<>> \/ s.state \in {"done", "invalid"} THEN s
    ELSE Parse(In(s, Head(text), merge), Tail(text), merge)

\* ngx_http_parse_complex_uri
ComplexUri(text, merge) ==
    LET s == Parse([state |-> "usual", path |-> <<>>, ext |-> 0], text, merge)
    IN  IF s.state = "invalid" THEN Invalid ELSE [path |-> s.path, ext |-> s.ext, rc |-> "OK"]

-----------------------------------------------------------------------------
(* Properties of a text that begins with a slash.                          *)

\* What it should be, in the steps a standard would take: cut at the query or the
\* fragment, decode, split at slashes, then resolve the segments.  The last
\* segment is not a directory and is kept as it is.
PathOf(text) ==
    LET ends == {i \in DOMAIN text : text[i] \in {Question, Hash}}
    IN  IF ends = {} THEN text ELSE SubSeq(text, 1, Min(ends) - 1)
Above == <<<<-1>>>>
Resolve(stack, segment) ==
    IF stack = Above THEN stack
    ELSE IF segment \in {<<>>, <<Dot>>} THEN stack
    ELSE IF segment # <<Dot, Dot>> THEN Append(stack, segment)
    ELSE IF stack = <<>> THEN Above ELSE Front(stack)
Reference(text) ==
    LET raw == PathOf(text)
        path == [i \in DOMAIN raw |-> Char(raw[i])]
        cuts == {i \in DOMAIN path : path[i] = Slash}
        EndOf(i) == Min({j \in cuts : j > i} \cup {Len(path) + 1}) - 1
        segments == [k \in 1..Cardinality(cuts) |->
                        LET i == CHOOSE i \in cuts : Cardinality({j \in cuts : j <= i}) = k
                        IN  SubSeq(path, i + 1, EndOf(i))]
        stack == FoldLeft(Resolve, <<>>, Front(segments))
        whole == Append(stack, Last(segments))
    IN  IF Malformed \in ToSet(raw) \/ stack = Above THEN <<>>
        ELSE FlattenSeq([k \in DOMAIN whole |-> <<Slash>> \o whole[k]])

\* The one pass gives what the separate steps would: however the dots and
\* slashes are written, quoted or not, the path names what it names afterwards,
\* and one that leads above the root is refused.
UriResolved(text) == ComplexUri(text, TRUE).path = Reference(text)

\* The path never grows (it is written to a buffer of the length of the text),
\* and the extension is in its last segment, also without merge_slashes.
UriInBounds(text) ==
    \A merge \in BOOLEAN :
        LET u == ComplexUri(text, merge)
        IN  /\ Len(u.path) <= Len(text)
            /\ u.ext > 0 => /\ u.ext <= Len(u.path) + 1
                            /\ \A i \in u.ext..Len(u.path) : u.path[i] # Slash

=============================================================================
