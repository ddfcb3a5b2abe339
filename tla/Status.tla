------------------------------- MODULE Status -------------------------------
(***************************************************************************)
(* getStatus: the /status server of the template, the access rules and the *)
(* page of nginx, and the parser.  The counts are a sequence in the order  *)
(* the page reads them: accepted, handled, active, requests, reading,      *)
(* writing, waiting.  A line is its first word and its numbers.            *)
(***************************************************************************)
EXTENDS Integers, SequencesExt

Addresses == {"127.0.0.1", "elsewhere"}


\* template.cfg: deny all; allow 127.0.0.1;
StatusRules == << <<"deny", Addresses>>, <<"allow", {"127.0.0.1"}>> >>

\* ngx_http_access_inet: the first rule that matches decides.
Access(rules, addr) ==
    LET matching == {i \in DOMAIN rules : addr \in rules[i][2]}
    IN  IF matching = {} \/ rules[Min(matching)][1] = "allow" THEN "OK" ELSE "FORBIDDEN"

Line(head, numbers) == [head |-> head, numbers |-> numbers]

\* ngx_http_stub_status_handler
StubStatus(n) ==
    << Line("Active connections:", <<n[3]>>),
       Line("server", <<>>),
       Line("", <<n[1], n[2], n[4]>>),
       Line("Reading:", <<n[5], n[6], n[7]>>) >>
ErrorPage == <<Line("<html>", <<>>), Line("<head>", <<>>)>>

HandledLine(result, line) ==
    [result EXCEPT !.accepted = line.numbers[1], !.handled = line.numbers[2],
                   !.handles = line.numbers[3]]

Unset == -1      \* no such key
NoResult == [active |-> Unset, reading |-> Unset, writing |-> Unset, waiting |-> Unset,
             accepted |-> Unset, handled |-> Unset, handles |-> Unset]

\* parseStub, with its three expressions in turn.
ParseLine(result, line) ==
    IF line.head = "Active connections:" /\ Len(line.numbers) >= 1
    THEN [result EXCEPT !.active = line.numbers[1]]
    ELSE IF line.head = "Reading:" /\ Len(line.numbers) >= 3
    THEN [result EXCEPT !.reading = line.numbers[1], !.writing = line.numbers[2],
                        !.waiting = line.numbers[3]]
    ELSE IF line.head = "" /\ Len(line.numbers) >= 3 THEN HandledLine(result, line)
    ELSE result
ParseStub(page) == FoldLeft(ParseLine, NoResult, page)

\* getStatus: <<err, result>>; it asks from the same machine.
GetStatus(configured, n) ==
    IF ~configured THEN <<"Status port not configured", NoResult>>
    ELSE <<"", ParseStub(IF Access(StatusRules, "127.0.0.1") = "OK" THEN StubStatus(n)
                         ELSE ErrorPage)>>

-----------------------------------------------------------------------------
(* Properties of seven counts n.                                           *)

\* Every number of the page arrives under its own name, although the page, the
\* parser and the names each have an order of their own.
StatusNames(n) ==
    ParseStub(StubStatus(n)) =
        [accepted |-> n[1], handled |-> n[2], active |-> n[3], handles |-> n[4],
         reading |-> n[5], writing |-> n[6], waiting |-> n[7]]

=============================================================================
