------------------------------- MODULE Rbtree -------------------------------
(***************************************************************************)
(* The red-black tree of ngx_rbtree.c, in which a worker keeps its timers. *)
(* A tree is a record of its root and, for every node, the fields of       *)
(* ngx_rbtree_node_t.  kid[Left] and kid[Right] are the children, so that  *)
(* the two mirror images of the code are one definition here.              *)
(***************************************************************************)
EXTENDS Integers, Sequences, FiniteSets

CONSTANTS
    Node,    \* 1..n
    Width    \* bits of ngx_rbtree_key_t

Nil == 0      \* the sentinel
Null == -1    \* no node: to follow it is an error
Left == 1
Right == 2
Other(side) == 3 - side

Key == 0..2^Width - 1
\* a - b as ngx_rbtree_key_int_t
Diff(a, b) ==
    LET d == (a - b) % 2^Width IN IF d >= 2^(Width - 1) THEN d - 2^Width ELSE d

EmptyTree ==
    LET none == [n \in Node \cup {Nil} |-> Null]
    IN  [root |-> Nil, kid |-> <<none, none>>, up |-> none,
         red |-> [n \in Node \cup {Nil} |-> FALSE],
         key |-> [n \in Node |-> 0]]

RECURSIVE TreeMin(_, _)
TreeMin(t, n) == IF t.kid[Left][n] = Nil THEN n ELSE TreeMin(t, t.kid[Left][n])

\* Puts m where n was below n's parent.
Replant(t, n, m) ==
    IF n = t.root THEN [t EXCEPT !.root = m]
    ELSE LET p == t.up[n]
             side == IF n = t.kid[Left][p] THEN Left ELSE Right
         IN  [t EXCEPT !.kid[side][p] = m]

SetUp(t, n, p) == IF n = Nil THEN t ELSE [t EXCEPT !.up[n] = p]

Rotate(t, side, n) ==
    LET temp == t.kid[Other(side)][n]
        inner == t.kid[side][temp]
        t1 == SetUp([t EXCEPT !.kid[Other(side)][n] = inner], inner, n)
        t2 == Replant([t1 EXCEPT !.up[temp] = t1.up[n]], n, temp)
    IN  [t2 EXCEPT !.kid[side][temp] = n, !.up[n] = temp]

-----------------------------------------------------------------------------
(* ngx_rbtree_insert with ngx_rbtree_insert_timer_value                    *)

Before(a, b) == Diff(a, b) < 0

RECURSIVE InsertValue(_, _, _)
InsertValue(t, temp, n) ==
    LET side == IF Before(t.key[n], t.key[temp]) THEN Left ELSE Right
    IN  IF t.kid[side][temp] # Nil THEN InsertValue(t, t.kid[side][temp], n)
        ELSE [t EXCEPT !.kid[side][temp] = n, !.up[n] = temp,
                       !.kid[Left][n] = Nil, !.kid[Right][n] = Nil, !.red[n] = TRUE]

\* "re-balance tree"
RECURSIVE InsertFixup(_, _)
InsertFixup(t, n) ==
    IF n = t.root \/ ~t.red[t.up[n]] THEN [t EXCEPT !.red[t.root] = FALSE]
    ELSE
    LET p == t.up[n]
        g == t.up[p]
        side == IF p = t.kid[Left][g] THEN Left ELSE Right
        uncle == t.kid[Other(side)][g]
        inner == n = t.kid[Other(side)][p]
        t1 == IF inner THEN Rotate(t, side, p) ELSE t
        m == IF inner THEN p ELSE n
        t2 == [t1 EXCEPT !.red[t1.up[m]] = FALSE, !.red[t1.up[t1.up[m]]] = TRUE]
    IN  IF t.red[uncle]
        THEN InsertFixup([t EXCEPT !.red[p] = FALSE, !.red[uncle] = FALSE, !.red[g] = TRUE], g)
        ELSE InsertFixup(Rotate(t2, Other(side), t2.up[t2.up[m]]), m)

Insert(t, n, key) ==
    LET t1 == [t EXCEPT !.key[n] = key]
    IN  IF t.root = Nil
        THEN [t1 EXCEPT !.root = n, !.up[n] = Null, !.red[n] = FALSE,
                        !.kid[Left][n] = Nil, !.kid[Right][n] = Nil]
        ELSE InsertFixup(InsertValue(t1, t.root, n), n)

-----------------------------------------------------------------------------
(* ngx_rbtree_delete                                                       *)

DeleteRotate(t, side, n, w) ==
    LET p == t.up[n]
        t1 == [t EXCEPT !.red[w] = t.red[p], !.red[p] = FALSE,
                        !.red[t.kid[Other(side)][w]] = FALSE]
    IN  Rotate(t1, side, p)

\* "a delete fixup"
RECURSIVE DeleteFixup(_, _)
DeleteFixup(t, n) ==
    IF n = t.root \/ t.red[n] THEN [t EXCEPT !.red[n] = FALSE]
    ELSE
    LET side == IF n = t.kid[Left][t.up[n]] THEN Left ELSE Right
        far == Other(side)
        w0 == t.kid[far][t.up[n]]
        t1 == IF t.red[w0]
              THEN Rotate([t EXCEPT !.red[w0] = FALSE, !.red[t.up[n]] = TRUE], side, t.up[n])
              ELSE t
        w == t1.kid[far][t1.up[n]]
        t2 == IF t1.red[t1.kid[far][w]] THEN t1
              ELSE Rotate([t1 EXCEPT !.red[t1.kid[side][w]] = FALSE, !.red[w] = TRUE], far, w)
        t3 == DeleteRotate(t2, side, n, t2.kid[far][t2.up[n]])
    IN  IF ~t1.red[t1.kid[Left][w]] /\ ~t1.red[t1.kid[Right][w]]
        THEN DeleteFixup([t1 EXCEPT !.red[w] = TRUE], t1.up[n])
        ELSE DeleteFixup(t3, t3.root)

\* A deleted node has its fields cleared; so have here, where they are not read
\* again, the parents of the sentinel and of the root.
Forget(t, n) ==
    [t EXCEPT !.kid[Left][n] = Null, !.kid[Right][n] = Null, !.up[n] = Null,
              !.red[n] = FALSE, !.key[n] = 0]
Tidy(t) == [t EXCEPT !.up = [@ EXCEPT ![Nil] = Null, ![t.root] = Null]]

\* subst takes the place of node, whose children are both there.
TakePlace(t, n, subst, temp) ==
    LET t1 == [t EXCEPT !.up[temp] = IF t.up[subst] = n THEN subst ELSE t.up[subst]]
        t2 == [t1 EXCEPT !.kid[Left][subst] = t1.kid[Left][n],
                         !.kid[Right][subst] = t1.kid[Right][n],
                         !.up[subst] = t1.up[n], !.red[subst] = t1.red[n]]
        t3 == Replant(t2, n, subst)
    IN  SetUp(SetUp(t3, t3.kid[Left][subst], subst), t3.kid[Right][subst], subst)

Delete(t, n) ==
    LET both == t.kid[Left][n] # Nil /\ t.kid[Right][n] # Nil
        subst == IF both THEN TreeMin(t, t.kid[Right][n]) ELSE n
        temp == IF t.kid[Left][subst] # Nil THEN t.kid[Left][subst] ELSE t.kid[Right][subst]
        t1 == Replant(t, subst, temp)
        t2 == IF both THEN TakePlace(t1, n, subst, temp)
              ELSE [t1 EXCEPT !.up[temp] = t1.up[subst]]
    IN  Tidy(IF subst = t.root THEN Forget([t1 EXCEPT !.red[temp] = FALSE], n)
             ELSE IF t.red[subst] THEN Forget(t2, n)
             ELSE DeleteFixup(Forget(t2, n), temp))

-----------------------------------------------------------------------------
(* ngx_rbtree_next                                                         *)

RECURSIVE Ascend(_, _)
Ascend(t, n) ==
    IF n = t.root THEN Null
    ELSE IF n = t.kid[Left][t.up[n]] THEN t.up[n] ELSE Ascend(t, t.up[n])

NextNode(t, n) == IF t.kid[Right][n] # Nil THEN TreeMin(t, t.kid[Right][n]) ELSE Ascend(t, n)

-----------------------------------------------------------------------------
(* What a red-black tree is.                                               *)

RECURSIVE InOrder(_, _)
InOrder(t, n) ==
    IF n = Nil THEN <<>>
    ELSE InOrder(t, t.kid[Left][n]) \o <<n>> \o InOrder(t, t.kid[Right][n])

\* The black nodes on every way down from n, or -1 when the ways differ or a red
\* node has a red child.
RECURSIVE BlackHeight(_, _)
BlackHeight(t, n) ==
    IF n = Nil THEN 0
    ELSE LET l == BlackHeight(t, t.kid[Left][n])
             r == BlackHeight(t, t.kid[Right][n])
             redred == t.red[n] /\ (t.red[t.kid[Left][n]] \/ t.red[t.kid[Right][n]])
         IN  IF l # r \/ l = -1 \/ redred THEN -1
             ELSE IF t.red[n] THEN l ELSE l + 1

RedBlackTree(t, nodes) ==
    LET seq == InOrder(t, t.root)
    IN  /\ {seq[i] : i \in DOMAIN seq} = nodes /\ Len(seq) = Cardinality(nodes)
        /\ \A i \in 1..Len(seq) - 1 : Diff(t.key[seq[i]], t.key[seq[i + 1]]) <= 0
        /\ ~t.red[t.root] /\ ~t.red[Nil] /\ BlackHeight(t, t.root) # -1
        /\ \A n \in nodes, side \in {Left, Right} :
              t.kid[side][n] # Nil => t.up[t.kid[side][n]] = n

\* ngx_rbtree_next leads from the first node through all of them in order.
WalksInOrder(t) ==
    LET seq == InOrder(t, t.root)
    IN  \A i \in DOMAIN seq :
            NextNode(t, seq[i]) = IF i = Len(seq) THEN Null ELSE seq[i + 1]
=============================================================================
