----------------------------- MODULE CycleProofs -----------------------------
(***************************************************************************)
(* Theorems about Cycle, for any finite sets of addresses and zones, any   *)
(* sizes and any number of reloads that succeed or fail anywhere.          *)
(***************************************************************************)
EXTENDS Cycle, Integers, TLAPS, FiniteSetTheorems, WellFoundedInduction,
        NaturalsInduction

Stages == {"idle", "zones", "bind", "commit", "failed"}
CycleState == [ls : [Addr -> Nat], zone : [Zone -> Nat], size : [Zone -> Nat]]
NewState == [ls : [Addr -> Nat], zone : [Zone -> Nat], size : [Zone -> Nat],
             open : SUBSET Addr, left : SUBSET (Addr \cup Zone), tries : Int,
             listen : SUBSET Addr]
KernelState == [socks : SUBSET Nat, maps : SUBSET Nat]

TypeOK ==
    /\ cycle \in CycleState /\ new \in NewState /\ kernel \in KernelState
    /\ stage \in Stages

\* A number other than 0 is given to one address, or to one zone.
OneEach(f) == \A a, b \in DOMAIN f : f[a] = f[b] /\ f[a] # 0 => a = b

\* The master has the sockets of both cycles open; those that only the new one
\* has are the ones that Rollback closes.
SocketInv ==
    /\ OneEach(cycle.ls) /\ OneEach(new.ls)
    /\ kernel.socks = Sockets(cycle) \cup Sockets(new)
    /\ \A a \in Addr : new.ls[a] # 0 =>
            IF a \in new.open THEN new.ls[a] \notin Sockets(cycle)
                              ELSE new.ls[a] = cycle.ls[a]
    /\ stage \in {"idle", "zones"} => new.open = {} /\ \A a \in Addr : new.ls[a] = 0
    /\ stage \in {"bind", "commit"} =>
            /\ new.open = {a \in new.listen : cycle.ls[a] = 0}
            /\ \A a \in Addr : IF a \in new.listen
                                 THEN a \in new.open \/ new.ls[a] = cycle.ls[a]
                                 ELSE new.ls[a] = 0

\* A segment of the new cycle is one of the running cycle, for a zone that keeps
\* its size, or one that the running cycle does not have.
ZoneInv ==
    /\ OneEach(cycle.zone) /\ OneEach(new.zone)
    /\ IsFiniteSet(kernel.maps) /\ 0 \notin kernel.maps
    /\ \A z \in Zone :
        /\ cycle.size[z] = 0 => cycle.zone[z] = 0
        /\ new.size[z] = 0 => new.zone[z] = 0
        /\ new.zone[z] \in Segments(cycle) => new.zone[z] = cycle.zone[z]
        /\ stage = "idle" => new.zone[z] = 0
        /\ stage = "zones" /\ z \in new.left => new.zone[z] = 0 /\ new.size[z] # 0
        /\ \/ stage = "zones" /\ z \notin new.left
           \/ stage \in {"bind", "commit"}
           => (new.size[z] = cycle.size[z] => new.zone[z] = cycle.zone[z])

ReloadInv == TypeOK /\ SocketInv /\ ZoneInv

-----------------------------------------------------------------------------
(* Numbers that the kernel gives out.                                      *)

LEMMA LeastNumber ==
    ASSUME NEW S \in SUBSET Nat, S # {}
    PROVE  \E n \in S : \A k \in S : n <= k
<1>1. IsWellFoundedOn(OpToRel(<, Nat), Nat)
  BY NatLessThanWellFounded, Zenon
<1>2. PICK n \in S : \A k \in S : ~(<<k, n>> \in OpToRel(<, Nat))
  BY <1>1, WFMin, Zenon
<1>3. \A k \in S : ~(k < n)
  BY <1>2 DEF OpToRel
<1> QED
  BY <1>3

LEMMA FreshIsNew ==
    ASSUME NEW used, IsFiniteSet(used)
    PROVE  Fresh(used) \in Nat \ {0} /\ Fresh(used) \notin used
<1> DEFINE n == Cardinality(used) + 1
           S == {k \in 1..n : k \notin used}
<1>0. Cardinality(used) \in Nat
  BY FS_CardinalityType
<1>1. S # {}
  <2>1. SUFFICES ASSUME 1..n \subseteq used PROVE FALSE
    OBVIOUS
  <2>2. Cardinality(1..n) = n
    BY <1>0, FS_Interval
  <2>3. Cardinality(1..n) <= Cardinality(used)
    BY <2>1, FS_Subset
  <2> QED
    BY <1>0, <2>2, <2>3
<1>2. S \in SUBSET Nat
  OBVIOUS
<1>3. \E k \in S : \A j \in S : k <= j
  <2> HIDE DEF S
  <2> QED
    BY <1>1, <1>2, LeastNumber
<1>4. Min(S) \in S
  <2> HIDE DEF S
  <2> QED
    BY <1>3 DEF Min
<1>5. Min(S) \in Nat \ {0} /\ Min(S) \notin used
  BY <1>4
<1> QED
  BY <1>5 DEF Fresh

LEMMA RangeFinite ==
    ASSUME NEW S, IsFiniteSet(S), NEW f
    PROVE  IsFiniteSet({f[x] : x \in S} \ {0})
<1> DEFINE T == {f[x] : x \in S}
           g == [x \in S |-> f[x]]
<1>1. g \in Surjection(S, T)
  BY DEF Surjection
<1>2. IsFiniteSet(T)
  <2> HIDE DEF g, T
  <2> QED
    BY <1>1, FS_Surjection
<1> QED
  BY <1>2, FS_Subset

LEMMA SegmentsFinite ==
    ASSUME IsFiniteSet(Zone), NEW c
    PROVE  IsFiniteSet(Segments(c))
<1> DEFINE f == c.zone
<1>1. IsFiniteSet({f[z] : z \in Zone} \ {0})
  <2> HIDE DEF f
  <2> QED
    BY RangeFinite
<1> QED
  BY <1>1 DEF Segments

LEMMA SocketsFinite ==
    ASSUME IsFiniteSet(Addr), NEW c
    PROVE  IsFiniteSet(Sockets(c))
<1> DEFINE f == c.ls
<1>1. IsFiniteSet({f[a] : a \in Addr} \ {0})
  <2> HIDE DEF f
  <2> QED
    BY RangeFinite
<1> QED
  BY <1>1 DEF Sockets

-----------------------------------------------------------------------------
(* Steps that leave the sockets, or the zones, as they are.                *)

LEMMA SocketsSame ==
    ASSUME SocketInv, cycle' = cycle, kernel'.socks = kernel.socks,
           new'.ls = new.ls, new'.open = new.open,
           stage' \in {"idle", "zones"} => stage \in {"idle", "zones"},
           stage' \in {"bind", "commit"} =>
                stage \in {"bind", "commit"} /\ new'.listen = new.listen
    PROVE  SocketInv'
<1>1. Sockets(cycle)' = Sockets(cycle) /\ Sockets(new)' = Sockets(new)
  BY DEF Sockets
<1>2. OneEach(cycle.ls)' /\ OneEach(new.ls)'
  BY DEF SocketInv, OneEach
<1> QED
  BY <1>1, <1>2 DEF SocketInv

LEMMA ZonesSame ==
    ASSUME ZoneInv, cycle' = cycle, kernel'.maps = kernel.maps,
           new'.zone = new.zone, new'.size = new.size,
           stage' = "idle" => stage = "idle",
           stage' = "zones" => stage = "zones" /\ new'.left = new.left,
           stage' \in {"bind", "commit"} =>
                stage \in {"bind", "commit"} \/ (stage = "zones" /\ new.left = {})
    PROVE  ZoneInv'
<1>1. Segments(cycle)' = Segments(cycle)
  BY DEF Segments
<1>2. OneEach(cycle.zone)' /\ OneEach(new.zone)'
  BY DEF ZoneInv, OneEach
<1> QED
  BY <1>1, <1>2 DEF ZoneInv

-----------------------------------------------------------------------------
(* How the actions change the new cycle.                                   *)

LEMMA NewZone ==
    ASSUME new \in NewState, NEW z \in Zone, NEW v \in Nat,
           new' = [new EXCEPT !.zone[z] = v, !.left = @ \ {z}]
    PROVE  /\ new' \in NewState /\ new'.zone = [new.zone EXCEPT ![z] = v]
           /\ new'.left = new.left \ {z} /\ new'.ls = new.ls /\ new'.size = new.size
           /\ new'.open = new.open /\ new'.listen = new.listen
<1>1. new' = [ls |-> new.ls, zone |-> [new.zone EXCEPT ![z] = v], size |-> new.size,
              open |-> new.open, left |-> new.left \ {z}, tries |-> new.tries,
              listen |-> new.listen]
  BY DEF NewState
<1> QED
  BY <1>1 DEF NewState

LEMMA NewSocket ==
    ASSUME new \in NewState, NEW a \in Addr, NEW v \in Nat,
           new' = [new EXCEPT !.ls[a] = v, !.left = @ \ {a}]
    PROVE  /\ new' \in NewState /\ new'.ls = [new.ls EXCEPT ![a] = v]
           /\ new'.left = new.left \ {a} /\ new'.zone = new.zone /\ new'.size = new.size
           /\ new'.open = new.open /\ new'.listen = new.listen
<1>1. new' = [ls |-> [new.ls EXCEPT ![a] = v], zone |-> new.zone, size |-> new.size,
              open |-> new.open, left |-> new.left \ {a}, tries |-> new.tries,
              listen |-> new.listen]
  BY DEF NewState
<1> QED
  BY <1>1 DEF NewState

LEMMA NewLeft ==
    ASSUME new \in NewState, NEW a, new' = [new EXCEPT !.left = @ \ {a}]
    PROVE  /\ new' \in NewState /\ new'.ls = new.ls
           /\ new'.left = new.left \ {a} /\ new'.zone = new.zone /\ new'.size = new.size
           /\ new'.open = new.open /\ new'.listen = new.listen
<1>1. new' = [ls |-> new.ls, zone |-> new.zone, size |-> new.size, open |-> new.open,
              left |-> new.left \ {a}, tries |-> new.tries, listen |-> new.listen]
  BY DEF NewState
<1> QED
  BY <1>1 DEF NewState

LEMMA NewPass ==
    ASSUME new \in NewState, new' = [new EXCEPT !.tries = @ - 1, !.left = new.listen]
    PROVE  /\ new' \in NewState /\ new'.ls = new.ls
           /\ new'.left = new.listen /\ new'.zone = new.zone /\ new'.size = new.size
           /\ new'.open = new.open /\ new'.listen = new.listen
<1>1. new' = [ls |-> new.ls, zone |-> new.zone, size |-> new.size, open |-> new.open,
              left |-> new.listen, tries |-> new.tries - 1, listen |-> new.listen]
  BY DEF NewState
<1> QED
  BY <1>1 DEF NewState

LEMMA NewInherit ==
    ASSUME new \in NewState, Tries \in Int, NEW f \in [Addr -> Nat], NEW S \in SUBSET Addr,
           new' = [new EXCEPT !.ls = f, !.open = S, !.tries = Tries, !.left = new.listen]
    PROVE  /\ new' \in NewState /\ new'.ls = f /\ new'.open = S
           /\ new'.left = new.listen /\ new'.zone = new.zone /\ new'.size = new.size
           /\ new'.listen = new.listen
<1>1. new' = [ls |-> f, zone |-> new.zone, size |-> new.size, open |-> S,
              left |-> new.listen, tries |-> Tries, listen |-> new.listen]
  BY DEF NewState
<1> QED
  BY <1>1 DEF NewState

LEMMA NewNone ==
    /\ NoNew \in NewState /\ NoNew.open = {} /\ \A a \in Addr : NoNew.ls[a] = 0
    /\ \A z \in Zone : NoNew.zone[z] = 0 /\ NoNew.size[z] = 0
<1>1. NoNew = [ls |-> [a \in Addr |-> 0], zone |-> [z \in Zone |-> 0],
               size |-> [z \in Zone |-> 0], open |-> {}, left |-> {}, tries |-> 0,
               listen |-> {}]
  BY DEF NoNew, EmptyCycle
<1> QED
  BY <1>1 DEF NewState

LEMMA KernelMaps ==
    ASSUME kernel \in KernelState, NEW M \in SUBSET Nat, kernel' = [kernel EXCEPT !.maps = M]
    PROVE  kernel' \in KernelState /\ kernel'.maps = M /\ kernel'.socks = kernel.socks
BY DEF KernelState

LEMMA KernelSocks ==
    ASSUME kernel \in KernelState, NEW M \in SUBSET Nat, kernel' = [kernel EXCEPT !.socks = M]
    PROVE  kernel' \in KernelState /\ kernel'.socks = M /\ kernel'.maps = kernel.maps
BY DEF KernelState

-----------------------------------------------------------------------------
(* The invariant is inductive, action by action.                           *)

LEMMA ReloadInit ==
    Init => ReloadInv
<1> SUFFICES ASSUME Init PROVE ReloadInv
  OBVIOUS
<1>1. /\ cycle = EmptyCycle /\ new = NoNew /\ stage = "idle"
      /\ kernel = [socks |-> {}, maps |-> {}]
  BY DEF Init
<1>2. /\ EmptyCycle \in CycleState
      /\ \A a \in Addr : EmptyCycle.ls[a] = 0
      /\ \A z \in Zone : EmptyCycle.zone[z] = 0
  BY DEF EmptyCycle, CycleState
<1>3. TypeOK
  BY <1>1, <1>2, NewNone DEF TypeOK, Stages, KernelState
<1>4. /\ DOMAIN cycle.ls = Addr /\ DOMAIN new.ls = Addr
      /\ DOMAIN cycle.zone = Zone /\ DOMAIN new.zone = Zone
  BY <1>3 DEF TypeOK, CycleState, NewState
<1>5. Sockets(cycle) = {} /\ Sockets(new) = {} /\ Segments(cycle) = {}
  BY <1>1, <1>2, NewNone DEF Sockets, Segments
<1>6. OneEach(cycle.ls) /\ OneEach(new.ls) /\ OneEach(cycle.zone) /\ OneEach(new.zone)
  BY <1>1, <1>2, <1>4, NewNone DEF OneEach
<1>7. SocketInv
  BY <1>1, <1>5, <1>6, NewNone DEF SocketInv
<1>8. ZoneInv
  BY <1>1, <1>2, <1>5, <1>6, NewNone, FS_EmptySet DEF ZoneInv
<1> QED
  BY <1>3, <1>7, <1>8 DEF ReloadInv

LEMMA ParseStep ==
    ASSUME Size \subseteq Nat \ {0}, ReloadInv, NEW conf \in Confs, Parse(conf)
    PROVE  ReloadInv'
<1> USE DEF ReloadInv
<1> DEFINE left == {z \in Zone : conf.size[z] > 0}
<1>0. /\ new \in NewState /\ stage = "idle" /\ stage' = "zones"
      /\ UNCHANGED <<cycle, kernel>>
      /\ new' = [NoNew EXCEPT !.listen = conf.listen, !.size = conf.size, !.left = left]
  BY DEF TypeOK, Parse
<1>1. conf.listen \in SUBSET Addr /\ conf.size \in [Zone -> Nat]
  <2>1. conf.listen \in SUBSET Addr /\ conf.size \in [Zone -> Size \cup {0}]
    BY DEF Confs
  <2>2. \A n \in Size \cup {0} : n \in Nat
    OBVIOUS
  <2> QED
    BY <2>1, <2>2
<1>2. new' = [ls |-> [a \in Addr |-> 0], zone |-> [z \in Zone |-> 0], size |-> conf.size,
              open |-> {}, left |-> left, tries |-> 0, listen |-> conf.listen]
  BY <1>0 DEF NoNew, EmptyCycle
<1>3. /\ new' \in NewState /\ new'.ls = [a \in Addr |-> 0] /\ new'.zone = [z \in Zone |-> 0]
      /\ new'.size = conf.size /\ new'.left = left /\ new'.open = {}
  <2>1. left \in SUBSET (Addr \cup Zone)
    OBVIOUS
  <2> HIDE DEF left
  <2> QED
    BY <1>1, <1>2, <2>1 DEF NewState
<1>4. new.ls = [a \in Addr |-> 0] /\ new.open = {}
  BY <1>0 DEF SocketInv, NewState
<1>5. SocketInv'
  BY <1>0, <1>3, <1>4, SocketsSame
<1>6. TypeOK'
  BY <1>0, <1>3 DEF TypeOK, Stages
<1>7. ZoneInv'
  <2>1. Segments(cycle)' = Segments(cycle) /\ 0 \notin Segments(cycle)
    BY <1>0 DEF Segments
  <2>2. OneEach(cycle.zone)' /\ OneEach(new.zone)'
    BY <1>0, <1>3 DEF ZoneInv, OneEach
  <2>3. ASSUME NEW z \in Zone PROVE new'.zone[z] = 0 /\ (z \in left => new'.size[z] # 0)
    BY <1>1, <1>3
  <2>4. ASSUME NEW z \in Zone, z \notin left, new'.size[z] = cycle.size[z]
        PROVE  cycle.zone[z] = 0
    <3>1. conf.size[z] = 0
      BY <1>1, <2>4
    <3> QED
      BY <1>3, <2>4, <3>1 DEF ZoneInv
  <2> HIDE DEF left
  <2> QED
    BY <1>0, <1>3, <2>1, <2>2, <2>3, <2>4 DEF ZoneInv
<1> QED
  BY <1>5, <1>6, <1>7

\* The number of a new segment.
LEMMA NextMapIsNew ==
    ASSUME IsFiniteSet(Zone), ReloadInv
    PROVE  /\ NextMap \in Nat \ {0} /\ NextMap \notin kernel.maps
           /\ NextMap \notin Segments(cycle) /\ NextMap \notin Segments(new)
<1> DEFINE used == kernel.maps \cup Segments(cycle) \cup Segments(new)
<1>1. IsFiniteSet(used)
  BY SegmentsFinite, FS_Union DEF ReloadInv, ZoneInv
<1>2. Fresh(used) \in Nat \ {0} /\ Fresh(used) \notin used
  <2> HIDE DEF used
  <2> QED
    BY <1>1, FreshIsNew
<1> QED
  BY <1>2 DEF NextMap

\* The zone z gets the segment v, with the maps that make it the invariant.
LEMMA ZoneGiven ==
    ASSUME ReloadInv, NEW z \in Zone, z \in new.left, stage = "zones", NEW v \in Nat,
           UNCHANGED <<cycle, stage>>,
           new'.zone = [new.zone EXCEPT ![z] = v], new'.left = new.left \ {z},
           new'.size = new.size, IsFiniteSet(kernel'.maps), 0 \notin kernel'.maps,
           \/ v = cycle.zone[z]
           \/ /\ v \notin Segments(cycle) /\ v \notin Segments(new)
              /\ new.size[z] # cycle.size[z]
    PROVE  ZoneInv'
<1> USE DEF ReloadInv
<1>0. /\ cycle.zone \in [Zone -> Nat] /\ new.zone \in [Zone -> Nat]
      /\ DOMAIN new'.zone = Zone
  BY DEF TypeOK, CycleState, NewState
<1>1. /\ new'.zone[z] = v /\ \A y \in Zone : y # z => new'.zone[y] = new.zone[y]
  BY <1>0
<1>2. Segments(cycle)' = Segments(cycle)
  BY DEF Segments
<1>3. ASSUME NEW y \in Zone, y # z, new.zone[y] # 0 PROVE new.zone[y] # v
  <2>1. CASE v = cycle.zone[z]
    <3>1. v # 0 => v \in Segments(cycle)
      BY <2>1 DEF Segments
    <3>2. new.zone[y] = v => new.zone[y] = cycle.zone[y]
      BY <1>3, <3>1 DEF ZoneInv
    <3>3. cycle.zone[y] = cycle.zone[z] => cycle.zone[y] = 0
      BY <1>0, <1>3 DEF ZoneInv, OneEach
    <3> QED
      BY <1>3, <2>1, <3>2, <3>3
  <2>2. CASE v \notin Segments(new)
    BY <1>3, <2>2 DEF Segments
  <2> QED
    BY <2>1, <2>2
<1>4. OneEach(new.zone)'
  BY <1>0, <1>1, <1>3 DEF ZoneInv, OneEach
<1>5. OneEach(cycle.zone)'
  BY DEF ZoneInv, OneEach
<1>6. new.size[z] # 0 /\ (v \in Segments(cycle) => v = cycle.zone[z])
      /\ (new.size[z] = cycle.size[z] => v = cycle.zone[z])
  BY DEF ZoneInv
<1>7. ASSUME NEW y \in Zone
      PROVE  /\ new'.size[y] = 0 => new'.zone[y] = 0
             /\ new'.zone[y] \in Segments(cycle) => new'.zone[y] = cycle.zone[y]
             /\ y \in new'.left => new'.zone[y] = 0 /\ new'.size[y] # 0
             /\ y \notin new'.left =>
                    (new'.size[y] = cycle.size[y] => new'.zone[y] = cycle.zone[y])
  <2>1. CASE y = z
    BY <1>1, <1>6, <2>1
  <2>2. CASE y # z
    BY <1>1, <2>2 DEF ZoneInv
  <2> QED
    BY <2>1, <2>2
<1> QED
  BY <1>2, <1>4, <1>5, <1>7 DEF ZoneInv

LEMMA FreedSound ==
    ASSUME ReloadInv, NEW z
    PROVE  IsFiniteSet(Freed(z)) /\ 0 \notin Freed(z) /\ Freed(z) \in SUBSET Nat
<1>1. IsFiniteSet(kernel.maps) /\ 0 \notin kernel.maps /\ kernel.maps \in SUBSET Nat
  BY DEF ReloadInv, TypeOK, KernelState, ZoneInv
<1>2. Freed(z) \in SUBSET kernel.maps
  BY DEF Freed
<1> QED
  BY <1>1, <1>2, FS_Subset

LEMMA CreateZoneStep ==
    ASSUME IsFiniteSet(Zone), ReloadInv, NEW z \in Zone, CreateZone(z)
    PROVE  ReloadInv'
<1> USE DEF ReloadInv
<1>0. /\ new \in NewState /\ kernel \in KernelState /\ stage = "zones" /\ z \in new.left
      /\ UNCHANGED <<cycle, stage>> /\ cycle.zone[z] \in Nat
  BY DEF TypeOK, CreateZone, CycleState
<1>1. CASE SameZone(z)
  <2>1. new' = [new EXCEPT !.zone[z] = cycle.zone[z], !.left = @ \ {z}] /\ kernel' = kernel
    BY <1>1 DEF CreateZone
  <2>2. /\ new' \in NewState /\ new'.zone = [new.zone EXCEPT ![z] = cycle.zone[z]]
        /\ new'.left = new.left \ {z} /\ new'.ls = new.ls /\ new'.size = new.size
        /\ new'.open = new.open /\ new'.listen = new.listen
    BY <1>0, <2>1, NewZone
  <2>3. IsFiniteSet(kernel'.maps) /\ 0 \notin kernel'.maps
    BY <2>1 DEF ZoneInv
  <2>4. ZoneInv'
    BY <1>0, <2>2, <2>3, ZoneGiven
  <2>5. SocketInv'
    BY <1>0, <2>1, <2>2, SocketsSame
  <2>6. TypeOK'
    BY <1>0, <2>1, <2>2 DEF TypeOK
  <2> QED
    BY <2>4, <2>5, <2>6
<1>2. CASE ~SameZone(z)
  <2>0. /\ NextMap \in Nat \ {0} /\ NextMap \notin Segments(cycle)
        /\ NextMap \notin Segments(new)
    BY NextMapIsNew
  <2>1. /\ new' = [new EXCEPT !.zone[z] = NextMap, !.left = @ \ {z}]
        /\ kernel' = [kernel EXCEPT !.maps = Freed(z) \cup {NextMap}]
    BY <1>2 DEF CreateZone
  <2>2. /\ new' \in NewState /\ new'.zone = [new.zone EXCEPT ![z] = NextMap]
        /\ new'.left = new.left \ {z} /\ new'.ls = new.ls /\ new'.size = new.size
        /\ new'.open = new.open /\ new'.listen = new.listen
    BY <1>0, <2>0, <2>1, NewZone
  <2>3. /\ Freed(z) \cup {NextMap} \in SUBSET Nat /\ IsFiniteSet(Freed(z) \cup {NextMap})
        /\ 0 \notin Freed(z) \cup {NextMap}
    BY <2>0, FreedSound, FS_AddElement
  <2>4. /\ kernel' \in KernelState /\ kernel'.maps = Freed(z) \cup {NextMap}
        /\ kernel'.socks = kernel.socks
    BY <1>0, <2>1, <2>3, KernelMaps
  <2>5. new.size[z] # cycle.size[z]
    BY <1>2 DEF SameZone
  <2>6. ZoneInv'
    BY <1>0, <2>0, <2>2, <2>3, <2>4, <2>5, ZoneGiven
  <2>7. SocketInv'
    BY <1>0, <2>2, <2>4, SocketsSame
  <2>8. TypeOK'
    BY <1>0, <2>2, <2>4 DEF TypeOK
  <2> QED
    BY <2>6, <2>7, <2>8
<1> QED
  BY <1>1, <1>2

LEMMA CreateZoneFailsStep ==
    ASSUME IsFiniteSet(Zone), ReloadInv, NEW z \in Zone, CreateZoneFails(z)
    PROVE  ReloadInv'
<1> USE DEF ReloadInv
<1>0. /\ kernel \in KernelState /\ stage = "zones" /\ stage' = "failed"
      /\ UNCHANGED <<cycle, new>>
  BY DEF TypeOK, CreateZoneFails
<1>1. /\ kernel' \in KernelState /\ kernel'.socks = kernel.socks
      /\ IsFiniteSet(kernel'.maps) /\ 0 \notin kernel'.maps
  <2>0. NextMap \in Nat \ {0}
    BY NextMapIsNew
  <2>1. /\ Freed(z) \cup {NextMap} \in SUBSET Nat /\ IsFiniteSet(Freed(z) \cup {NextMap})
        /\ 0 \notin Freed(z) \cup {NextMap}
    BY <2>0, FreedSound, FS_AddElement
  <2>2. CASE kernel' = kernel
    BY <1>0, <2>2 DEF ZoneInv
  <2>3. CASE kernel' = [kernel EXCEPT !.maps = Freed(z)]
    BY <1>0, <2>3, FreedSound, KernelMaps
  <2>4. CASE kernel' = [kernel EXCEPT !.maps = Freed(z) \cup {NextMap}]
    BY <1>0, <2>1, <2>4, KernelMaps
  <2> QED
    BY <2>2, <2>3, <2>4 DEF CreateZoneFails
<1>2. SocketInv'
  BY <1>0, <1>1, SocketsSame
<1>3. ZoneInv'
  <2>1. Segments(cycle)' = Segments(cycle)
    BY <1>0 DEF Segments
  <2>2. OneEach(cycle.zone)' /\ OneEach(new.zone)'
    BY <1>0 DEF ZoneInv, OneEach
  <2> QED
    BY <1>0, <1>1, <2>1, <2>2 DEF ZoneInv
<1>4. TypeOK'
  BY <1>0, <1>1 DEF TypeOK, Stages
<1> QED
  BY <1>2, <1>3, <1>4

LEMMA InheritStep ==
    ASSUME Tries \in Int, ReloadInv, Inherit
    PROVE  ReloadInv'
<1> USE DEF ReloadInv
<1> DEFINE f == [a \in Addr |-> IF a \in new.listen THEN cycle.ls[a] ELSE 0]
           S == {a \in new.listen : cycle.ls[a] = 0}
<1>0. /\ new \in NewState /\ stage = "zones" /\ new.left = {} /\ stage' = "bind"
      /\ UNCHANGED <<cycle, kernel>> /\ cycle.ls \in [Addr -> Nat] /\ new.listen \subseteq Addr
      /\ new' = [new EXCEPT !.ls = f, !.open = S, !.tries = Tries, !.left = new.listen]
  BY DEF TypeOK, Inherit, CycleState, NewState
<1>1. f \in [Addr -> Nat] /\ S \in SUBSET Addr
  BY <1>0
<1>2. \A a \in Addr : f[a] = IF a \in new.listen THEN cycle.ls[a] ELSE 0
  OBVIOUS
<1> HIDE DEF f
<1>3. /\ new' \in NewState /\ new'.ls = f /\ new'.open = S /\ new'.zone = new.zone
      /\ new'.size = new.size /\ new'.listen = new.listen
  <2> HIDE DEF S
  <2> QED
    BY <1>0, <1>1, NewInherit
<1>4. ZoneInv'
  BY <1>0, <1>3, ZonesSame
<1>5. TypeOK'
  BY <1>0, <1>3 DEF TypeOK, Stages
<1>6. SocketInv'
  <2>1. Sockets(cycle)' = Sockets(cycle)
    BY <1>0 DEF Sockets
  <2>2. kernel.socks = Sockets(cycle)
    <3>1. Sockets(new) = {}
      BY <1>0 DEF SocketInv, Sockets
    <3> QED
      BY <3>1 DEF SocketInv
  <2>3. Sockets(new)' \subseteq Sockets(cycle)
    BY <1>2, <1>3 DEF Sockets
  <2>4. DOMAIN new'.ls = Addr /\ DOMAIN cycle.ls = Addr
    BY <1>0, <1>1, <1>3
  <2>5. OneEach(cycle.ls)' /\ OneEach(new.ls)'
    BY <1>0, <1>2, <1>3, <2>4 DEF SocketInv, OneEach
  <2>6. ASSUME NEW a \in Addr, new'.ls[a] # 0
        PROVE  a \notin new'.open /\ new'.ls[a] = cycle.ls[a]
    BY <1>2, <1>3, <2>6
  <2>7. ASSUME NEW a \in Addr
        PROVE  IF a \in new.listen THEN new'.ls[a] = cycle.ls[a] ELSE new'.ls[a] = 0
    BY <1>2, <1>3
  <2> QED
    BY <1>0, <1>3, <2>1, <2>2, <2>3, <2>5, <2>6, <2>7 DEF SocketInv
<1> QED
  BY <1>4, <1>5, <1>6

LEMMA BindStep ==
    ASSUME IsFiniteSet(Addr), ReloadInv, NEW a \in Addr, Bind(a)
    PROVE  ReloadInv'
<1> USE DEF ReloadInv
<1> DEFINE n == Fresh(kernel.socks)
<1>0. /\ new \in NewState /\ kernel \in KernelState /\ stage = "bind"
      /\ UNCHANGED <<cycle, stage>> /\ cycle.ls \in [Addr -> Nat] /\ new.ls \in [Addr -> Nat]
  BY DEF TypeOK, Bind, CycleState, NewState
<1>1. CASE a \in Unbound \ taken
  <2>0. n \in Nat \ {0} /\ n \notin kernel.socks
    <3>1. IsFiniteSet(kernel.socks)
      <4>1. IsFiniteSet(Sockets(cycle)) /\ IsFiniteSet(Sockets(new))
        BY SocketsFinite
      <4>2. IsFiniteSet(Sockets(cycle) \cup Sockets(new))
        BY <4>1, FS_Union
      <4> QED
        BY <4>2 DEF SocketInv
    <3> QED
      BY <3>1, FreshIsNew
  <2>1. /\ new' = [new EXCEPT !.ls[a] = n, !.left = @ \ {a}]
        /\ kernel' = [kernel EXCEPT !.socks = @ \cup {n}]
    BY <1>1 DEF Bind
  <2> HIDE DEF n
  <2>2. /\ new' \in NewState /\ new'.ls = [new.ls EXCEPT ![a] = n]
        /\ new'.zone = new.zone /\ new'.size = new.size
        /\ new'.open = new.open /\ new'.listen = new.listen
    BY <1>0, <2>0, <2>1, NewSocket
  <2>3. /\ kernel' \in KernelState /\ kernel'.socks = kernel.socks \cup {n}
        /\ kernel'.maps = kernel.maps
    <3>1. kernel.socks \cup {n} \in SUBSET Nat
      BY <1>0, <2>0 DEF KernelState
    <3> QED
      BY <1>0, <2>1, <3>1, KernelSocks
  <2>4. ZoneInv'
    BY <1>0, <2>2, <2>3, ZonesSame
  <2>5. TypeOK'
    BY <1>0, <2>2, <2>3 DEF TypeOK
  <2>6. new'.ls[a] = n /\ \A b \in Addr : b # a => new'.ls[b] = new.ls[b]
    BY <1>0, <2>2
  <2>7. a \in new.open /\ new.ls[a] = 0 /\ a \in new.listen
    <3>1. a \in new.listen /\ new.ls[a] = 0
      BY <1>1 DEF Unbound
    <3> QED
      BY <1>0, <3>1 DEF SocketInv
  <2>8. /\ n \notin Sockets(cycle) /\ n \notin Sockets(new)
    BY <2>0 DEF SocketInv
  <2>9. Sockets(cycle)' = Sockets(cycle) /\ Sockets(new)' = Sockets(new) \cup {n}
    <3>1. Sockets(cycle)' = Sockets(cycle)
      BY <1>0 DEF Sockets
    <3>2. ASSUME NEW x PROVE x \in Sockets(new)' <=> x \in Sockets(new) \/ x = n
      BY <2>0, <2>6, <2>7 DEF Sockets
    <3> QED
      BY <3>1, <3>2
  <2>10. OneEach(cycle.ls)' /\ OneEach(new.ls)'
    <3>1. DOMAIN new'.ls = Addr /\ DOMAIN new.ls = Addr
      BY <1>0, <2>2
    <3>2. \A b \in Addr : new.ls[b] # n
      BY <2>0, <2>8 DEF Sockets
    <3> QED
      BY <1>0, <2>6, <3>1, <3>2 DEF SocketInv, OneEach
  <2>11. SocketInv'
    <3>1. ASSUME NEW b \in Addr, new'.ls[b] # 0
          PROVE  IF b \in new.open THEN new'.ls[b] \notin Sockets(cycle)
                                   ELSE new'.ls[b] = cycle.ls[b]
      BY <2>6, <2>7, <2>8, <3>1 DEF SocketInv
    <3>2. ASSUME NEW b \in Addr
          PROVE  IF b \in new.listen THEN b \in new.open \/ new'.ls[b] = cycle.ls[b]
                                     ELSE new'.ls[b] = 0
      BY <1>0, <2>6, <2>7 DEF SocketInv
    <3>3. kernel'.socks = Sockets(cycle)' \cup Sockets(new)'
      BY <2>3, <2>9 DEF SocketInv
    <3>4. new.open = {b \in new.listen : cycle.ls[b] = 0}
      BY <1>0 DEF SocketInv
    <3> QED
      BY <1>0, <2>2, <2>9, <2>10, <3>1, <3>2, <3>3, <3>4 DEF SocketInv
  <2> QED
    BY <2>4, <2>5, <2>11
<1>2. CASE a \notin Unbound \ taken
  <2>1. new' = [new EXCEPT !.left = @ \ {a}] /\ kernel' = kernel
    BY <1>2 DEF Bind
  <2>2. /\ new' \in NewState /\ new'.ls = new.ls
        /\ new'.zone = new.zone /\ new'.size = new.size
        /\ new'.open = new.open /\ new'.listen = new.listen
    BY <1>0, <2>1, NewLeft
  <2>3. ZoneInv' /\ SocketInv'
    BY <1>0, <2>1, <2>2, ZonesSame, SocketsSame
  <2>4. TypeOK'
    BY <1>0, <2>1, <2>2 DEF TypeOK
  <2> QED
    BY <2>3, <2>4
<1> QED
  BY <1>1, <1>2

LEMMA PassStep ==
    ASSUME ReloadInv, EndPass \/ BindFails \/ (\E a \in Addr : Elsewhere(a)) \/ UNCHANGED vars
    PROVE  ReloadInv'
<1> USE DEF ReloadInv
<1>0. UNCHANGED <<cycle, kernel>>
  BY DEF EndPass, BindFails, Elsewhere, vars
<1>1. CASE EndPass /\ Unbound # {}
  <2>1. /\ new' = [new EXCEPT !.tries = @ - 1, !.left = new.listen]
        /\ stage = "bind" /\ stage' \in {"failed", "bind"}
    BY <1>1 DEF EndPass
  <2>2. /\ new' \in NewState /\ new'.ls = new.ls
        /\ new'.zone = new.zone /\ new'.size = new.size
        /\ new'.open = new.open /\ new'.listen = new.listen
    BY <2>1, NewPass DEF TypeOK
  <2>3. ZoneInv' /\ SocketInv'
    BY <1>0, <2>1, <2>2, ZonesSame, SocketsSame
  <2>4. TypeOK'
    BY <1>0, <2>1, <2>2 DEF TypeOK, Stages
  <2> QED
    BY <2>3, <2>4
<1>2. CASE ~(EndPass /\ Unbound # {})
  <2>1. /\ new' = new
        /\ stage' = stage \/ (stage = "bind" /\ stage' \in {"commit", "failed"})
    BY <1>2 DEF EndPass, BindFails, Elsewhere, vars
  <2>2. ZoneInv' /\ SocketInv'
    BY <1>0, <2>1, ZonesSame, SocketsSame
  <2>3. TypeOK'
    BY <1>0, <2>1 DEF TypeOK, Stages
  <2> QED
    BY <2>2, <2>3
<1> QED
  BY <1>1, <1>2

LEMMA CommitStep ==
    ASSUME ReloadInv, Commit
    PROVE  ReloadInv'
<1> USE DEF ReloadInv
<1>0. /\ new \in NewState /\ cycle \in CycleState /\ kernel \in KernelState
      /\ stage = "commit" /\ stage' = "idle" /\ new' = NoNew
      /\ cycle' = [ls |-> new.ls, zone |-> new.zone, size |-> new.size]
  BY DEF TypeOK, Commit
<1>1. /\ cycle' \in CycleState /\ cycle'.ls = new.ls /\ cycle'.zone = new.zone
      /\ cycle'.size = new.size
  BY <1>0 DEF CycleState, NewState
<1>2. /\ kernel'.socks = kernel.socks \ (Sockets(cycle) \ Sockets(new))
      /\ kernel'.maps = kernel.maps \ {cycle.zone[z] : z \in {y \in Zone : new.size[y] = 0}}
      /\ kernel' = [socks |-> kernel'.socks, maps |-> kernel'.maps]
  BY DEF Commit
<1>3. /\ kernel'.socks \subseteq kernel.socks /\ kernel'.maps \subseteq kernel.maps
      /\ kernel.socks \subseteq Nat /\ kernel.maps \subseteq Nat
  BY <1>0, <1>2 DEF KernelState
<1>4. kernel' \in KernelState
  BY <1>2, <1>3 DEF KernelState
<1>5. TypeOK'
  BY <1>0, <1>1, <1>4, NewNone DEF TypeOK, Stages
<1>6. /\ \A a \in Addr : new'.ls[a] = 0
      /\ \A z \in Zone : new'.zone[z] = 0 /\ new'.size[z] = 0
      /\ new'.open = {} /\ DOMAIN new'.ls = Addr /\ DOMAIN new'.zone = Zone
  BY <1>0, NewNone DEF NewState
<1>7. SocketInv'
  <2>1. Sockets(cycle)' = Sockets(new) /\ Sockets(new)' = {}
    BY <1>1, <1>6 DEF Sockets
  <2>2. kernel'.socks = Sockets(new)
    BY <1>2 DEF SocketInv
  <2>3. OneEach(cycle.ls)' /\ OneEach(new.ls)'
    BY <1>1, <1>6 DEF SocketInv, OneEach
  <2> QED
    BY <1>0, <1>6, <2>1, <2>2, <2>3 DEF SocketInv
<1>8. ZoneInv'
  <2>1. OneEach(cycle.zone)' /\ OneEach(new.zone)'
    BY <1>1, <1>6 DEF ZoneInv, OneEach
  <2>2. IsFiniteSet(kernel'.maps) /\ 0 \notin kernel'.maps
    BY <1>3, FS_Subset DEF ZoneInv
  <2>3. 0 \notin Segments(cycle)'
    BY DEF Segments
  <2>4. \A z \in Zone : cycle'.size[z] = 0 => cycle'.zone[z] = 0
    BY <1>1 DEF ZoneInv
  <2> QED
    BY <1>0, <1>6, <2>1, <2>2, <2>3, <2>4 DEF ZoneInv
<1> QED
  BY <1>5, <1>7, <1>8

\* Rollback closes what was opened for the new cycle and nothing else.
LEMMA RollbackCloses ==
    ASSUME ReloadInv, Rollback
    PROVE  kernel'.socks = Sockets(cycle) /\ kernel'.maps = kernel.maps
           /\ kernel' \in KernelState
<1> USE DEF ReloadInv
<1> DEFINE M == kernel.socks \ {new.ls[a] : a \in new.open}
<1>0. kernel \in KernelState /\ kernel' = [kernel EXCEPT !.socks = M]
      /\ new.open \subseteq Addr
  BY DEF TypeOK, Rollback, NewState
<1>1. M \in SUBSET Nat
  BY <1>0 DEF KernelState
<1>2. M = Sockets(cycle)
  <2>1. ASSUME NEW x \in M PROVE x \in Sockets(cycle)
    <3>1. SUFFICES ASSUME x \in Sockets(new) PROVE x \in Sockets(cycle)
      BY DEF SocketInv
    <3>2. PICK a \in Addr : new.ls[a] = x /\ x # 0
      BY <3>1 DEF Sockets
    <3>3. a \notin new.open
      BY <2>1, <3>2
    <3> QED
      BY <3>2, <3>3 DEF SocketInv, Sockets
  <2>2. ASSUME NEW x \in Sockets(cycle) PROVE x \in M
    <3>1. x # 0 /\ x \in kernel.socks
      BY DEF Sockets, SocketInv
    <3>2. ASSUME NEW a \in new.open PROVE new.ls[a] # x
      BY <1>0, <3>1 DEF SocketInv
    <3> QED
      BY <3>1, <3>2
  <2> QED
    BY <2>1, <2>2
<1> HIDE DEF M
<1> QED
  BY <1>0, <1>1, <1>2, KernelSocks

LEMMA RollbackStep ==
    ASSUME ReloadInv, Rollback
    PROVE  ReloadInv'
<1> USE DEF ReloadInv
<1>0. new' = NoNew /\ stage' = "idle" /\ cycle' = cycle
  BY DEF Rollback
<1>1. kernel'.socks = Sockets(cycle) /\ kernel'.maps = kernel.maps /\ kernel' \in KernelState
  BY RollbackCloses
<1>2. /\ \A a \in Addr : new'.ls[a] = 0
      /\ \A z \in Zone : new'.zone[z] = 0 /\ new'.size[z] = 0
      /\ new'.open = {} /\ DOMAIN new'.ls = Addr /\ DOMAIN new'.zone = Zone
  BY <1>0, NewNone DEF NewState
<1>3. TypeOK'
  BY <1>0, <1>1, NewNone DEF TypeOK, Stages
<1>4. SocketInv'
  <2>1. Sockets(cycle)' = Sockets(cycle) /\ Sockets(new)' = {}
    BY <1>0, <1>2 DEF Sockets
  <2>2. OneEach(cycle.ls)' /\ OneEach(new.ls)'
    BY <1>0, <1>2 DEF SocketInv, OneEach
  <2> QED
    BY <1>0, <1>1, <1>2, <2>1, <2>2 DEF SocketInv
<1>5. ZoneInv'
  <2>1. OneEach(cycle.zone)' /\ OneEach(new.zone)'
    BY <1>0, <1>2 DEF ZoneInv, OneEach
  <2>2. 0 \notin Segments(cycle)'
    BY DEF Segments
  <2> QED
    BY <1>0, <1>1, <1>2, <2>1, <2>2 DEF ZoneInv
<1> QED
  BY <1>3, <1>4, <1>5

LEMMA ReloadStep ==
    ASSUME IsFiniteSet(Addr), IsFiniteSet(Zone), Size \subseteq Nat \ {0}, Tries \in Int,
           ReloadInv, [Next]_vars
    PROVE  ReloadInv'
BY ParseStep, CreateZoneStep, CreateZoneFailsStep, InheritStep, BindStep, PassStep,
   CommitStep, RollbackStep
   DEF Next, Step

-----------------------------------------------------------------------------
(* What a step keeps.                                                      *)

LEMMA Kept ==
    ASSUME ReloadInv, Next
    PROVE  ListensThroughout /\ ZonesKept
<1> USE DEF ReloadInv
<1>0. /\ 0 \notin kernel.socks /\ 0 \notin kernel.maps
  BY DEF SocketInv, ZoneInv, Sockets
<1>1. ASSUME cycle' = cycle, kernel.socks \subseteq kernel'.socks PROVE ListensThroughout
  BY <1>1 DEF ListensThroughout
<1>2. ASSUME cycle' = cycle, kernel.maps \subseteq kernel'.maps PROVE ZonesKept
  BY <1>2 DEF ZonesKept
<1>3. ASSUME \/ kernel' = kernel
             \/ kernel'.maps = kernel.maps /\ kernel.socks \subseteq kernel'.socks,
             cycle' = cycle
      PROVE  ListensThroughout /\ ZonesKept
  BY <1>1, <1>2, <1>3
<1>4. ASSUME NEW conf \in Confs, Parse(conf) PROVE ListensThroughout /\ ZonesKept
  BY <1>3, <1>4 DEF Parse
<1>5. ASSUME NEW z \in Zone, CreateZone(z) \/ CreateZoneFails(z)
      PROVE  ListensThroughout /\ ZonesKept
  <2>1. cycle' = cycle
    BY <1>5 DEF CreateZone, CreateZoneFails
  <2>2. CASE kernel' = kernel
    BY <1>3, <2>1, <2>2
  <2>3. ASSUME NEW M, kernel' = [kernel EXCEPT !.maps = M], Freed(z) \subseteq M, ~SameZone(z)
        PROVE  ListensThroughout /\ ZonesKept
    <3>1. kernel'.maps = M /\ kernel'.socks = kernel.socks
      BY <2>3 DEF TypeOK, KernelState
    <3>2. ASSUME NEW y \in Zone, cycle.zone[y] \in kernel.maps \ kernel'.maps
          PROVE  new.size[y] # cycle.size[y]
      <4>1. cycle.zone[y] = cycle.zone[z] /\ cycle.zone[y] # 0
        BY <1>0, <2>3, <3>1, <3>2 DEF Freed
      <4>2. y = z
        BY <4>1 DEF ZoneInv, OneEach, TypeOK, CycleState
      <4> QED
        BY <2>3, <4>2 DEF SameZone
    <3> QED
      BY <1>1, <2>1, <3>1, <3>2 DEF ZonesKept
  <2> QED
    BY <1>5, <2>2, <2>3 DEF CreateZone, CreateZoneFails
<1>6. ASSUME Inherit \/ EndPass \/ BindFails \/ \E a \in Addr : Elsewhere(a)
      PROVE  ListensThroughout /\ ZonesKept
  BY <1>3, <1>6 DEF Inherit, EndPass, BindFails, Elsewhere
<1>7. ASSUME NEW a \in Addr, Bind(a) PROVE ListensThroughout /\ ZonesKept
  <2>1. cycle' = cycle
    BY <1>7 DEF Bind
  <2>2. kernel' = kernel \/ kernel' = [kernel EXCEPT !.socks = @ \cup {Fresh(kernel.socks)}]
    BY <1>7 DEF Bind
  <2>3. \/ kernel' = kernel
        \/ kernel'.maps = kernel.maps /\ kernel.socks \subseteq kernel'.socks
    BY <2>2 DEF TypeOK, KernelState
  <2> QED
    BY <1>3, <2>1, <2>3
<1>8. ASSUME Rollback PROVE ListensThroughout /\ ZonesKept
  <2>1. cycle' = cycle /\ kernel'.socks = Sockets(cycle) /\ kernel'.maps = kernel.maps
    BY <1>8, RollbackCloses DEF Rollback
  <2>2. ASSUME NEW a \in Addr PROVE cycle.ls[a] \notin kernel.socks \ kernel'.socks
    BY <1>0, <2>1 DEF Sockets
  <2> QED
    BY <1>2, <2>1, <2>2 DEF ListensThroughout
<1>9. ASSUME Commit PROVE ListensThroughout /\ ZonesKept
  <2>1. /\ stage = "commit" /\ cycle'.ls = new.ls /\ cycle'.zone = new.zone
        /\ cycle'.size = new.size
        /\ kernel'.socks = kernel.socks \ (Sockets(cycle) \ Sockets(new))
        /\ kernel'.maps = kernel.maps \ {cycle.zone[z] : z \in {y \in Zone : new.size[y] = 0}}
    BY <1>9 DEF Commit
  <2>2. ASSUME NEW a \in Addr, cycle.ls[a] # 0, new.ls[a] # 0 PROVE new.ls[a] = cycle.ls[a]
    BY <2>1, <2>2 DEF SocketInv
  <2>3. ASSUME NEW a \in Addr, cycle.ls[a] \in kernel.socks \ kernel'.socks
        PROVE  a \notin new.listen
    <3>1. cycle.ls[a] # 0 /\ cycle.ls[a] \notin Sockets(new)
      BY <1>0, <2>1, <2>3
    <3>2. SUFFICES ASSUME a \in new.listen PROVE FALSE
      OBVIOUS
    <3>3. new.ls[a] = cycle.ls[a]
      BY <2>1, <3>1, <3>2 DEF SocketInv
    <3> QED
      BY <3>1, <3>3 DEF Sockets
  <2>4. ASSUME NEW z \in Zone, new.size[z] = cycle.size[z] PROVE new.zone[z] = cycle.zone[z]
    BY <2>1, <2>4 DEF ZoneInv
  <2>5. ASSUME NEW z \in Zone, cycle.zone[z] \in kernel.maps \ kernel'.maps
        PROVE  new.size[z] # cycle.size[z]
    <3>1. PICK y \in Zone : new.size[y] = 0 /\ cycle.zone[z] = cycle.zone[y]
      BY <2>1, <2>5
    <3>2. cycle.zone[z] # 0
      BY <1>0, <2>5
    <3>3. y = z
      BY <3>1, <3>2 DEF ZoneInv, OneEach, TypeOK, CycleState
    <3> QED
      BY <3>1, <3>2, <3>3 DEF ZoneInv
  <2> QED
    BY <2>1, <2>2, <2>3, <2>4, <2>5 DEF ListensThroughout, ZonesKept
<1> QED
  BY <1>4, <1>5, <1>6, <1>7, <1>8, <1>9 DEF Next, Step

LEMMA Owned ==
    ASSUME ReloadInv'
    PROVE  SocketsOwned'
<1>1. ASSUME stage' = "idle" PROVE kernel'.socks = Sockets(cycle)'
  <2>1. Sockets(new)' = {}
    BY <1>1 DEF ReloadInv, SocketInv, Sockets
  <2> QED
    BY <2>1 DEF ReloadInv, SocketInv
<1>2. DOMAIN cycle'.ls = Addr
  BY DEF ReloadInv, TypeOK, CycleState
<1> QED
  BY <1>1, <1>2 DEF ReloadInv, SocketInv, OneEach, SocketsOwned

\* ngx_init_cycle keeps what the running configuration needs, for any finite
\* sets of addresses and zones and any sequence of reloads that succeed or fail
\* at any point: between reloads exactly the sockets of the running cycle are
\* open, an address that stays keeps its socket and a zone that keeps its size
\* its segment, and nothing of the running cycle is given up before the new one
\* is complete but a zone whose size changes.
THEOREM ReloadsKeep ==
    ASSUME IsFiniteSet(Addr), IsFiniteSet(Zone), Size \subseteq Nat \ {0}, Tries \in Int
    PROVE  Spec => ReloadKeeps
<1>1. Init => ReloadInv
  BY ReloadInit
<1>2. ReloadInv /\ [Next]_vars => ReloadInv'
  BY ReloadStep
<1>3. ReloadInv /\ ReloadInv' /\ [Next]_vars => [KeepsRunning]_vars
  BY Kept, Owned DEF KeepsRunning
<1> QED
  BY <1>1, <1>2, <1>3, PTL DEF Spec, ReloadKeeps
==============================================================================
