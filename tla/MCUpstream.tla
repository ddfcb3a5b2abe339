----------------------------- MODULE MCUpstream -----------------------------
(* Upstream blocks and their servers for TLC.                              *)
EXTENDS Upstream, TLC

CONSTANTS peerA, peerB, peerC, r1, r2

Weights == [x \in Peer |-> IF x = peerA THEN 2 ELSE 1]
OneFail == [x \in Peer |-> IF x = peerC THEN 0 ELSE 1]
Conns == [x \in Peer |-> IF x = peerB THEN 1 ELSE 0]

UpstreamBlock(section, balancer, primary, backup) ==
    [section |-> section, balancer |-> balancer, primary |-> primary, backup |-> backup]
BusyBlocks ==
    {UpstreamBlock("http", "round_robin", <<peerA, peerB>>, <<>>),
     UpstreamBlock("stream", "least_conn", <<peerA, peerB>>, <<>>)}
    \cup {UpstreamBlock(s, "round_robin", <<peerA>>, <<peerC>>) : s \in {"http", "stream"}}
\* ip_hash takes no backups and belongs to http.
OtherBlocks ==
    {UpstreamBlock("http", "ip_hash", <<peerA, peerB>>, <<>>),
     UpstreamBlock("http", "least_conn", <<peerA, peerB>>, <<>>),
     UpstreamBlock("http", "round_robin", <<peerA>>, <<>>),
     UpstreamBlock("stream", "round_robin", <<peerA>>, <<peerB>>)}
Localhost == <<127, 0, 0>>
SlotSymmetry == Permutations(Slots)
=============================================================================
