------------------------------ MODULE Template ------------------------------
(***************************************************************************)
(* src/template.cfg: the nginx configuration that ejs renders from the     *)
(* routing table, and what the nginx of rd/nginx-1.13.0 makes of it.       *)
(*                                                                         *)
(* A rendered text is kept at the level of its directives: for every       *)
(* application block the listen port, the balancing directive and the      *)
(* server lines of its upstream.                                           *)
(***************************************************************************)
EXTENDS Routing, FiniteSetsExt

\* The directive written for a balance; "" when the line stays empty.  The
\* stream branch concatenates whatever is not 'round_robin', null included.
Method(mode, balance) ==
    IF balance = "round_robin" \/ (mode = "http" /\ balance = "null")
    THEN "" ELSE balance

\* Only the stream branch writes the backup parameter.
Server(mode, instance) ==
    [port |-> instance.port, backup |-> mode = "stream" /\ instance.backup]

Block(mode, r) ==
    [listen  |-> r.port,
     method  |-> Method(mode, r.balance),
     servers |-> [i \in DOMAIN r.instances |-> Server(mode, r.instances[i])]]

Servers == [port : Ports, backup : BOOLEAN]
TextBlock == [listen : Ports, method : Balances \cup {""}, servers : Seq(Servers)]
Texts == [Modes -> [Apps -> TextBlock \cup {Undefined}]]

\* A text is not a missing one.
ASSUME TextAssumption == Undefined \notin Texts

Render(conf) ==
    [m \in Modes |-> [a \in Apps |->
        IF conf[m][a] = Undefined THEN Undefined ELSE Block(m, conf[m][a])]]

\* Length of a text in lines: the fixed lines of the template, those of each
\* block and one for each server.  Names and ports of a run have one width.
FixedLines == 12
BlockLines == [http |-> 26, stream |-> 13]

Size(text) ==
    FixedLines +
    MapThenSumSet(LAMBDA s :
        IF text[s[1]][s[2]] = Undefined THEN 0
        ELSE BlockLines[s[1]] + Len(text[s[1]][s[2]].servers), Modes \X Apps)

-----------------------------------------------------------------------------
(* What ngx_init_cycle demands of a complete text: every directive exists  *)
(* in its section, every upstream has a server that is not a backup, no    *)
(* two stream servers listen on one port, and no port is bound by both     *)
(* sections.  Two http servers may share a port.                           *)

Blocks(text, mode) == {a \in Apps : text[mode][a] # Undefined}
Listens(text, mode) == {text[mode][a].listen : a \in Blocks(text, mode)}

KnownMethods == [http |-> {"", "least_conn", "ip_hash"}, stream |-> {"", "least_conn"}]

KnownDirectives(text) ==
    \A m \in Modes : \A a \in Blocks(text, m) :
        text[m][a].method \in KnownMethods[m]

UpstreamsHaveServers(text) ==
    \A m \in Modes : \A a \in Blocks(text, m) :
        \E i \in DOMAIN text[m][a].servers : ~text[m][a].servers[i].backup

StreamListensDiffer(text) ==
    \A a, b \in Blocks(text, "stream") :
        a # b => text["stream"][a].listen # text["stream"][b].listen

SectionsBindApart(text) == Listens(text, "http") \cap Listens(text, "stream") = {}

Valid(text) ==
    /\ KnownDirectives(text)
    /\ UpstreamsHaveServers(text)
    /\ StreamListensDiffer(text)
    /\ SectionsBindApart(text)
=============================================================================
