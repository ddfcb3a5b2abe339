-------------------------------- MODULE Slab --------------------------------
(***************************************************************************)
(* The allocator of a shared memory zone (ngx_slab.c): runs of pages in a  *)
(* doubly linked free list, and pages cut into chunks, one list of pages   *)
(* with free chunks per slot.  The pool's mutex is held throughout.  A     *)
(* bitmap is the set of the chunks taken; it lies in the page itself for   *)
(* small chunks (NGX_SLAB_SMALL), in the page's descriptor otherwise.      *)
(***************************************************************************)
EXTENDS Integers, FiniteSetsExt

CONSTANTS
    Pages,     \* the pages of the pool are 1..Pages
    Chunks,    \* Chunks[s] : the chunks of a page of slot s
    Bitmap,    \* Bitmap[s] : the first of them that hold the bitmap
    MaxRun     \* the longest run of pages that is asked for (bound)

VARIABLES
    pool,    \* the descriptors: next, prev, slab, mark, slot, map; pfree
    live     \* what callers hold: <<page, chunk>>, chunk = -1 for a run of pages

slabVars == <<pool, live>>

Slots == DOMAIN Chunks
NULL == 0
Page == 1..Pages
FreeHead == Pages + 1               \* &pool->free
SlotHead(s) == Pages + 1 + s        \* &slots[s]
Ptr == 1..Pages + 1 + Cardinality(Slots)

\* slab holds the length of a free or of an allocated run, which mark tells apart
\* ("start" for NGX_SLAB_PAGE_START, "busy" for NGX_SLAB_PAGE_BUSY); slot is 0
\* for the type NGX_SLAB_PAGE.
Init ==
    /\ pool = [next |-> [p \in Ptr |-> IF p = FreeHead THEN 1 ELSE IF p = 1 THEN FreeHead
                                       ELSE IF p \in Page THEN NULL ELSE p],
               prev |-> [p \in Ptr |-> IF p = 1 THEN FreeHead ELSE NULL],
               slab |-> [p \in Page |-> IF p = 1 THEN Pages ELSE 0],
               mark |-> [p \in Page |-> "none"],
               slot |-> [p \in Page |-> 0],
               map |-> [p \in Page |-> {}],
               pfree |-> Pages]
    /\ live = {}

Unlink(q, p) ==
    LET q1 == [q EXCEPT !.next[q.prev[p]] = q.next[p]]
    IN  [q1 EXCEPT !.prev[q1.next[p]] = q1.prev[p]]

-----------------------------------------------------------------------------
(* ngx_slab_alloc_pages                                                    *)

RECURSIVE FirstFit(_, _, _)
FirstFit(q, p, n) ==
    IF p = FreeHead THEN NULL
    ELSE IF q.slab[p] >= n THEN p ELSE FirstFit(q, q.next[p], n)

\* The run is cut: the rest takes its place in the list, and its last page
\* points back to where it starts now.
Split(q, p, n) ==
    LET rest == p + n
        q1 == [q EXCEPT !.prev[p + q.slab[p] - 1] = rest]
        q2 == [q1 EXCEPT !.slab[rest] = q1.slab[p] - n,
                         !.next[rest] = q1.next[p], !.prev[rest] = q1.prev[p]]
        q3 == [q2 EXCEPT !.next[q2.prev[p]] = rest]
    IN  [q3 EXCEPT !.prev[q3.next[p]] = rest]

\* Takes n pages from the run that starts with page p.
TakePages(q, p, n) ==
    LET q1 == IF q.slab[p] > n THEN Split(q, p, n) ELSE Unlink(q, p)
        run == p..p + n - 1
    IN  [q1 EXCEPT !.slab = [i \in Page |-> IF i = p THEN n ELSE IF i \in run THEN 0 ELSE @[i]],
                   !.mark = [i \in Page |-> IF i = p THEN "start"
                                            ELSE IF i \in run THEN "busy" ELSE @[i]],
                   !.next = [i \in Ptr |-> IF i \in run THEN NULL ELSE @[i]],
                   !.prev = [i \in Ptr |-> IF i \in run THEN NULL ELSE @[i]],
                   !.pfree = @ - n]

-----------------------------------------------------------------------------
(* ngx_slab_free_pages                                                     *)

\* The pages are a free run of their own, taken off the list of their slot.
Release(q, p, n) ==
    LET run == p..p + n - 1
        q1 == IF q.next[p] # NULL THEN Unlink(q, p) ELSE q
    IN  [q1 EXCEPT !.pfree = @ + n,
                   !.slab = [i \in Page |-> IF i = p THEN n ELSE IF i \in run THEN 0 ELSE @[i]],
                   !.mark = [i \in Page |-> IF i \in run THEN "none" ELSE @[i]],
                   !.slot = [i \in Page |-> IF i \in run THEN 0 ELSE @[i]],
                   !.map = [i \in Page |-> IF i \in run THEN {} ELSE @[i]],
                   !.next = [i \in Ptr |-> IF i \in run \ {p} THEN NULL ELSE @[i]],
                   !.prev = [i \in Ptr |-> IF i \in run \ {p} THEN NULL ELSE @[i]]]

\* A run that another one takes in.
Absorb(q, p) == [q EXCEPT !.slab[p] = 0, !.next[p] = NULL, !.prev[p] = NULL]

JoinNext(q, p) ==
    LET join == p + q.slab[p]
    IN  IF join \in Page /\ q.slot[join] = 0 /\ q.next[join] # NULL
        THEN Absorb(Unlink([q EXCEPT !.slab[p] = @ + q.slab[join]], join), join)
        ELSE q

\* The start of the run that the page before p belongs to.
RunBefore(q, p) ==
    IF q.slab[p - 1] = 0 /\ q.mark[p - 1] = "none" THEN q.prev[p - 1] ELSE p - 1

\* The pool, and the first page of the run that p is part of now.
JoinPrev(q, p) ==
    LET join == RunBefore(q, p)
    IN  IF p > 1 /\ q.slot[p - 1] = 0 /\ q.next[join] # NULL
        THEN <<Absorb(Unlink([q EXCEPT !.slab[join] = @ + q.slab[p]], join), p), join>>
        ELSE <<q, p>>

\* The run becomes the head of the list, and its last page points back to it.
FreePages(q, p, n) ==
    LET joined == JoinPrev(JoinNext(Release(q, p, n), p), p)
        q1 == joined[1]
        run == joined[2]
        last == run + q1.slab[run] - 1
        q2 == IF last # run THEN [q1 EXCEPT !.prev[last] = run] ELSE q1
        q3 == [q2 EXCEPT !.prev[run] = FreeHead, !.next[run] = q2.next[FreeHead]]
    IN  [q3 EXCEPT !.prev[q3.next[run]] = run, !.next[FreeHead] = run]

-----------------------------------------------------------------------------
(* ngx_slab_alloc_locked                                                   *)

AllChunks(s) == 0..Chunks[s] - 1
Reserved(s) == 0..Bitmap[s] - 1

\* The first free chunk of a page; a page that is full now leaves the list.
TakeChunk(q, s, p) ==
    LET q1 == [q EXCEPT !.map[p] = @ \cup {Min(AllChunks(s) \ q.map[p])}]
    IN  IF q1.map[p] # AllChunks(s) THEN q1
        ELSE [Unlink(q1, p) EXCEPT !.next[p] = NULL, !.prev[p] = NULL]

\* Faulty variant: only the bitmap is marked as taken.
CutPageShort(q, s, p) ==
    [q EXCEPT !.map[p] = Reserved(s), !.slot[p] = s, !.slab[p] = 0, !.mark[p] = "none",
              !.next = [@ EXCEPT ![p] = SlotHead(s), ![SlotHead(s)] = p],
              !.prev[p] = SlotHead(s)]

\* A page becomes the only one in the list of its slot, with its bitmap and the
\* chunk that is asked for taken.
CutPage(q, s, p) ==
    [q EXCEPT !.map[p] = 0..Bitmap[s], !.slot[p] = s, !.slab[p] = 0, !.mark[p] = "none",
              !.next = [@ EXCEPT ![p] = SlotHead(s), ![SlotHead(s)] = p],
              !.prev[p] = SlotHead(s)]

AllocPages(n) ==
    LET p == FirstFit(pool, pool.next[FreeHead], n)
    IN  IF p = NULL THEN UNCHANGED slabVars
        ELSE pool' = TakePages(pool, p, n) /\ live' = live \cup {<<p, -1>>}

Alloc(s) ==
    LET page == pool.next[SlotHead(s)]
        p == FirstFit(pool, pool.next[FreeHead], 1)
    IN  IF page # SlotHead(s)
        THEN /\ pool' = TakeChunk(pool, s, page)
             /\ live' = live \cup {<<page, Min(AllChunks(s) \ pool.map[page])>>}
        ELSE IF p = NULL THEN UNCHANGED slabVars
        ELSE /\ pool' = CutPage(TakePages(pool, p, 1), s, p)
             /\ live' = live \cup {<<p, Bitmap[s]>>}

-----------------------------------------------------------------------------
(* ngx_slab_free_locked                                                    *)

\* A page that was full is put at the head of its list again.
Relist(q, s, p) ==
    IF q.next[p] # NULL THEN q
    ELSE LET q1 == [q EXCEPT !.next[p] = q.next[SlotHead(s)], !.prev[p] = SlotHead(s)]
         IN  [q1 EXCEPT !.prev[q1.next[p]] = p, !.next[SlotHead(s)] = p]

FreeChunk(p, chunk) ==
    LET s == pool.slot[p]
        q == [Relist(pool, s, p) EXCEPT !.map[p] = @ \ {chunk}]
    IN  pool' = IF q.map[p] \subseteq Reserved(s) THEN FreePages(q, p, 1) ELSE q

SlabFree(a) ==
    /\ a \in live /\ live' = live \ {a}
    /\ IF a[2] = -1 THEN pool' = FreePages(pool, a[1], pool.slab[a[1]])
       ELSE FreeChunk(a[1], a[2])

Next ==
    \/ \E n \in 1..MaxRun : AllocPages(n)
    \/ \E s \in Slots : Alloc(s)
    \/ \E a \in live : SlabFree(a)

Spec == Init /\ [][Next]_slabVars

-----------------------------------------------------------------------------
(* Properties.                                                             *)

RECURSIVE ListFrom(_, _)
ListFrom(head, p) == IF p = head THEN {} ELSE {p} \cup ListFrom(head, pool.next[p])
Listed(head) == ListFrom(head, pool.next[head])

RunOf(p) == p..p + pool.slab[p] - 1
HeldRuns == {a[1] : a \in {b \in live : b[2] = -1}}
CutPages == {p \in Page : pool.slot[p] # 0}

\* Every page belongs to exactly one thing: a free run, a run that a caller
\* holds, or a page cut into chunks; a chunk is marked as taken exactly when a
\* caller holds it or the bitmap lies there.  So no two callers share memory and
\* none is lost.
NothingShared ==
    LET free == Listed(FreeHead)
    IN  /\ \A p \in Page :
             Cardinality({r \in free \cup HeldRuns : p \in RunOf(r)})
               = IF p \in CutPages THEN 0 ELSE 1
        /\ free \cap HeldRuns = {}
        /\ \A p \in CutPages :
             /\ {a \in live : a[1] = p} = {p} \X (pool.map[p] \ Reserved(pool.slot[p]))
             /\ Reserved(pool.slot[p]) \subseteq pool.map[p]
        /\ pool.pfree = Cardinality({p \in Page : \E r \in free : p \in RunOf(r)})

\* Free runs never lie side by side: what is freed is joined with its
\* neighbours, so a request is refused only when there is no run that long, and
\* when everything has been freed the pool is one run again.
Coalesced == \A r \in Listed(FreeHead) : r + pool.slab[r] \notin Listed(FreeHead)

\* A page is in the list of its slot exactly while it has a free chunk, and goes
\* back to the free pages with its last one.
SlotsListed ==
    \A s \in Slots :
        LET cut == {p \in Page : pool.slot[p] = s}
        IN  /\ Listed(SlotHead(s)) = {p \in cut : pool.map[p] # AllChunks(s)}
            /\ \A p \in cut : pool.map[p] # Reserved(s)

\* The allocator accounts for all memory (ngx_slab_alloc, ngx_slab_free).
MemoryAccounted == NothingShared /\ Coalesced /\ SlotsListed
=============================================================================
