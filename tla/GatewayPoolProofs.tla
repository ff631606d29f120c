-------------------------- MODULE GatewayPoolProofs --------------------------
(***************************************************************************)
(* Proofs about the Gateway connection pool, for any clients, connections, *)
(* size and points of cancellation.                                        *)
(*                                                                         *)
(* Exclusive leases rest on who holds what: a connection is idle, or held  *)
(* by one client (leased, being closed, or found stale), or neither, when  *)
(* a cancelled client or the shutdown has let go of it.  The bound on the  *)
(* sockets rests on the books of the capacity semaphore: a socket that     *)
(* exists is covered by the pool, by its shutdown or by a client that owes *)
(* a permit, and each of them, as each connect, has taken a permit.  The   *)
(* bound on the slots needs the same of the reservations.                  *)
(***************************************************************************)
EXTENDS GatewayPool, FiniteSetTheorems, SequenceTheorems, TLAPS

-----------------------------------------------------------------------------
\* The inductive invariant.

Distinct(q) == \A i, j \in 1..Len(q) : q[i] = q[j] => i = j

\* What client c has taken out of the hands of the others.
Held(c) == {k \in Conns : conn[c] = k \/ k \in ToSet(stale[c])}

\* Nothing is in two hands.
OneHolder ==
  /\ Distinct(idle) /\ ToSet(idle) \subseteq all
  /\ \A c \in Clients :
       /\ Distinct(stale[c]) /\ conn[c] \notin ToSet(stale[c])
       /\ Held(c) \cap ToSet(idle) = {}
  /\ \A c, d \in Clients : c # d => Held(c) \cap Held(d) = {}

\* A client holds a connection exactly while it uses or closes one, and owes a
\* permit for one that nobody else knows.
HeldInPlace ==
  \A c \in Clients :
    /\ conn[c] # NoConn <=> c \in Busy
    /\ stale[c] # <<>> => pc[c] = "sweeping"
    /\ owes[c] => /\ pc[c] \in {"sweeping", "closing"}
                  /\ conn[c] \notin all /\ conn[c] \notin toClose

\* The connections go from the pool to its shutdown.
Handover ==
  /\ shuttingDown => all = {}
  /\ ~shuttingDown => toClose = {}

\* The connections for which a permit is taken, by whoever is to give it back or by
\* a client that left it taken for good, and the connects that have one.
Owed == {k \in Conns : \E c \in Clients : owes[c] /\ conn[c] = k}
Booked == all \cup toClose \cup Owed
Stranded == {k \in Conns : socket[k] = "stranded"}
Covered == Booked \cup Stranded
Connecting == {c \in Clients : pc[c] = "connecting"}

\* Every socket has its permit.  A permit may be lost, but none comes from nowhere.
PermitBooks ==
  /\ \A k \in Conns : socket[k] # "none" => k \in Covered
  /\ IsFiniteSet(Covered) /\ IsFiniteSet(Connecting)
  /\ capacity + Cardinality(Covered) + Cardinality(Connecting) <= MaxSize

Reserving == {c \in Clients : pc[c] \in Creating}

\* Every connect has its reservation, and the slots are enough for both.
SlotBooks ==
  /\ IsFiniteSet(all) /\ IsFiniteSet(Reserving)
  /\ Cardinality(Reserving) <= reserved
  /\ Cardinality(all) + reserved <= MaxSize

PoolInv ==
  /\ TypeOK
  /\ OneHolder /\ HeldInPlace /\ Handover
  /\ PermitBooks /\ SlotBooks
  /\ NoLostWakeup

\* Without a cancelled reservation: somebody has each of the slots of a full pool
\* that has nothing idle.
Server == {c \in Clients : (pc[c] = "leased" /\ conn[c] \in all) \/ pc[c] \in Creating}

SlotsInUse == idle = <<>> /\ ~Room /\ ~shuttingDown => Server # {}

-----------------------------------------------------------------------------
\* Sequences without repetition.

\* What follows an entry, which is not among it.
LEMMA SuffixElements ==
  ASSUME NEW S, NEW q \in Seq(S), NEW n \in 1..Len(q), Distinct(q)
  PROVE  /\ SubSeq(q, n + 1, Len(q)) \in Seq(S) /\ Distinct(SubSeq(q, n + 1, Len(q)))
         /\ ToSet(SubSeq(q, n + 1, Len(q))) \subseteq ToSet(q)
         /\ q[n] \in S /\ q[n] \in ToSet(q) /\ q[n] \notin ToSet(SubSeq(q, n + 1, Len(q)))
<1> DEFINE w == SubSeq(q, n + 1, Len(q))
<1>1. /\ Len(q) \in Nat /\ DOMAIN q = 1..Len(q)
      /\ \A i \in 1..Len(q) : q[i] \in S
  BY LenProperties, ElementOfSeq
<1>2. /\ w \in Seq(S) /\ Len(w) = Len(q) - n
      /\ \A i \in 1..(Len(q) - n) : w[i] = q[n + i]
  <2>1. n + 1 \in 1..(Len(q) + 1) /\ Len(q) \in (n + 1 - 1)..Len(q)
    BY <1>1
  <2>2. /\ w \in Seq(S) /\ Len(w) = IF n + 1 <= Len(q) THEN Len(q) - (n + 1) + 1 ELSE 0
        /\ \A i \in 1..(Len(q) - (n + 1) + 1) : w[i] = q[(n + 1) + i - 1]
    BY <1>1, <2>1, SubSeqProperties
  <2>3. /\ Len(q) - (n + 1) + 1 = Len(q) - n
        /\ \A i \in 1..(Len(q) - n) : (n + 1) + i - 1 = n + i
    BY <1>1
  <2> HIDE DEF w
  <2>4. Len(w) = Len(q) - n
    <3>1. n \in Int /\ Len(q) \in Int /\ n <= Len(q)
      BY <1>1
    <3>2. n + 1 <= Len(q) \/ n = Len(q)
      BY <3>1
    <3>3. CASE n = Len(q)
      <4>1. ~(n + 1 <= Len(q)) /\ Len(q) - n = 0
        BY <3>1, <3>3
      <4> QED BY <2>2, <4>1
    <3> QED BY <2>2, <2>3, <3>2, <3>3
  <2> QED BY <2>2, <2>3, <2>4
<1>3. DOMAIN w = 1..(Len(q) - n)
  BY <1>2, LenProperties
<1> HIDE DEF w
<1>4. \A i \in 1..(Len(q) - n) : n + i \in 1..Len(q) /\ n + i # n
  BY <1>1
<1>5. Distinct(w)
  <2> SUFFICES ASSUME NEW i \in 1..(Len(q) - n), NEW j \in 1..(Len(q) - n), w[i] = w[j]
               PROVE  i = j
    BY <1>2 DEF Distinct
  <2>1. n + i = n + j
    BY <1>2, <1>4 DEF Distinct
  <2> QED BY <2>1
<1>6. ToSet(w) \subseteq ToSet(q) /\ q[n] \notin ToSet(w) /\ q[n] \in ToSet(q)
  <2>1. /\ ToSet(w) = {w[i] : i \in 1..(Len(q) - n)}
        /\ ToSet(q) = {q[i] : i \in 1..Len(q)}
    BY <1>1, <1>3 DEF ToSet
  <2>2. ASSUME NEW i \in 1..(Len(q) - n) PROVE w[i] \in ToSet(q) /\ w[i] # q[n]
    <3>1. w[i] = q[n + i] /\ n + i \in 1..Len(q) /\ n + i # n
      BY <1>2, <1>4
    <3>2. q[n + i] # q[n]
      BY <3>1 DEF Distinct
    <3> QED BY <2>1, <3>1, <3>2
  <2>3. q[n] \in ToSet(q)
    BY <2>1
  <2> QED BY <2>1, <2>2, <2>3
<1> QED BY <1>1, <1>2, <1>5, <1>6 DEF w

\* The first entry and what follows it.
LEMMA HeadTailElements ==
  ASSUME NEW S, NEW q \in Seq(S), q # <<>>, Distinct(q)
  PROVE  /\ Tail(q) \in Seq(S) /\ Distinct(Tail(q)) /\ ToSet(Tail(q)) \subseteq ToSet(q)
         /\ Head(q) \in S /\ Head(q) \in ToSet(q) /\ Head(q) \notin ToSet(Tail(q))
<1>1. 1 \in 1..Len(q)
  BY EmptySeq, LenProperties
<1> DEFINE w == SubSeq(q, 1 + 1, Len(q))
<1>2. Head(q) = q[1] /\ Tail(q) = w
  BY HeadTailProperties, TailIsSubSeq
<1>3. /\ w \in Seq(S) /\ Distinct(w) /\ ToSet(w) \subseteq ToSet(q)
      /\ q[1] \in S /\ q[1] \in ToSet(q) /\ q[1] \notin ToSet(w)
  BY <1>1, SuffixElements
<1> HIDE DEF w
<1> QED BY <1>2, <1>3

\* An entry that joins at the end.
LEMMA AppendElements ==
  ASSUME NEW S, NEW q \in Seq(S), NEW x \in S, Distinct(q), x \notin ToSet(q)
  PROVE  /\ Append(q, x) \in Seq(S) /\ Distinct(Append(q, x)) /\ Append(q, x) # <<>>
         /\ ToSet(Append(q, x)) = ToSet(q) \cup {x}
<1> DEFINE w == Append(q, x)
<1>1. /\ Len(q) \in Nat /\ DOMAIN q = 1..Len(q)
      /\ w \in Seq(S) /\ w # <<>> /\ Len(w) = Len(q) + 1 /\ DOMAIN w = 1..(Len(q) + 1)
      /\ \A i \in 1..Len(q) : w[i] = q[i]
      /\ w[Len(q) + 1] = x
  BY AppendProperties, LenProperties
<1> HIDE DEF w
<1>2. 1..(Len(q) + 1) = 1..Len(q) \cup {Len(q) + 1}
  BY <1>1
<1>3. ToSet(w) = ToSet(q) \cup {x} /\ \A i \in 1..Len(q) : w[i] # x
  BY <1>1, <1>2 DEF ToSet
<1>4. Distinct(w)
  BY <1>1, <1>2, <1>3 DEF Distinct
<1> QED BY <1>1, <1>3, <1>4 DEF w

\* Nothing is in an empty sequence, and nothing is repeated in it.
LEMMA EmptyElements == ToSet(<<>>) = {} /\ Distinct(<<>>)
<1> QED BY DEF ToSet, Distinct

-----------------------------------------------------------------------------
\* An empty pool satisfies the invariant.

\* The pool starts empty, with every permit free.
LEMMA InitPoolInv == Init => PoolInv
<1> SUFFICES ASSUME Init PROVE PoolInv
  OBVIOUS
<1>1. MaxSize \in Nat
  BY GatewayPoolAssumption
<1>2. TypeOK
  <2>1. capacity \in 0..MaxSize /\ reserved \in Nat
    BY <1>1 DEF Init
  <2>2. idle \in Seq(Conns) /\ \A c \in Clients : stale[c] \in Seq(Conns)
    BY EmptySeq DEF Init
  <2> QED BY <2>1, <2>2 DEF Init, TypeOK, States, SocketStates
<1>3. OneHolder
  BY EmptyElements, GatewayPoolAssumption DEF Init, OneHolder, Held
<1>4. HeldInPlace /\ Handover
  BY DEF Init, HeldInPlace, Busy, Handover
<1>5. Covered = {} /\ Connecting = {} /\ Reserving = {} /\ all = {}
  BY DEF Init, Covered, Booked, Owed, Stranded, Connecting, Reserving, Creating
<1>6. PermitBooks /\ SlotBooks
  BY <1>1, <1>5, FS_EmptySet DEF Init, PermitBooks, SlotBooks
<1>7. NoLostWakeup
  BY DEF Init, NoLostWakeup, Sleepers
<1> QED BY <1>2, <1>3, <1>4, <1>6, <1>7 DEF PoolInv

-----------------------------------------------------------------------------
\* What stays as it is.

\* Nobody takes anything into his hands.
LEMMA HolderFrame ==
  ASSUME OneHolder, UNCHANGED <<idle, all, conn, stale>>
  PROVE  OneHolder'
<1> QED BY DEF OneHolder, Held

\* One client lets go of something.
LEMMA HoldLess ==
  ASSUME OneHolder, NEW c \in Clients, UNCHANGED idle, ToSet(idle) \subseteq all',
         \A d \in Clients \ {c} : conn'[d] = conn[d] /\ stale'[d] = stale[d],
         Held(c)' \subseteq Held(c), Distinct(stale'[c]), conn'[c] \notin ToSet(stale'[c])
  PROVE  OneHolder'
<1>1. \A d \in Clients \ {c} : Held(d)' = Held(d)
  BY DEF Held
<1> QED BY <1>1 DEF OneHolder

\* No permit and no socket changes hands.
LEMMA PermitFrame ==
  ASSUME PermitBooks, UNCHANGED <<capacity, socket>>, Booked' = Booked, Connecting' = Connecting
  PROVE  PermitBooks'
<1>1. Covered' = Covered
  BY DEF Covered, Stranded
<1> QED BY <1>1 DEF PermitBooks

\* A socket is closed, and the permit that its client owes for it goes back.
LEMMA PermitReturned ==
  ASSUME TypeOK, PermitBooks, NEW c \in Clients, conn[c] \in Conns, Closed(c),
         Booked' = IF owes[c] THEN Booked \ {conn[c]} ELSE Booked,
         Connecting' = Connecting
  PROVE  /\ PermitBooks' /\ capacity' \in 0..MaxSize
         /\ socket' \in [Conns -> SocketStates]
<1>1. /\ MaxSize \in Nat /\ capacity \in Nat
      /\ Cardinality(Covered) \in Nat /\ Cardinality(Connecting) \in Nat
  BY GatewayPoolAssumption, FS_CardinalityType DEF TypeOK, PermitBooks
<1>2. Stranded' = Stranded \ {conn[c]}
  BY DEF Stranded, Closed, TypeOK
<1>3. /\ IsFiniteSet(Covered') /\ Cardinality(Covered') \in Nat
      /\ capacity' + Cardinality(Covered') <= capacity + Cardinality(Covered)
      /\ capacity' \in Nat
  <2>1. CASE owes[c]
    <3>1. conn[c] \in Covered /\ Covered' = Covered \ {conn[c]}
      BY <1>2, <2>1 DEF Covered, Booked, Owed
    <3>2. IsFiniteSet(Covered') /\ Cardinality(Covered') = Cardinality(Covered) - 1
      BY <3>1, FS_RemoveElement DEF PermitBooks
    <3>3. capacity' = capacity + 1 /\ Cardinality(Covered') \in Nat
      BY <2>1, <3>2, FS_CardinalityType DEF Closed
    <3> QED BY <1>1, <3>2, <3>3
  <2>2. CASE ~owes[c]
    <3>1. Covered' \in SUBSET Covered /\ capacity' = capacity
      BY <1>2, <2>2 DEF Covered, Closed
    <3>2. IsFiniteSet(Covered') /\ Cardinality(Covered') <= Cardinality(Covered)
      BY <3>1, FS_Subset DEF PermitBooks
    <3>3. Cardinality(Covered') \in Nat
      BY <3>2, FS_CardinalityType
    <3> QED BY <1>1, <3>1, <3>2, <3>3
  <2> QED BY <2>1, <2>2
<1>4. capacity' + Cardinality(Covered') + Cardinality(Connecting') <= MaxSize
  BY <1>1, <1>3 DEF PermitBooks
<1>5. capacity' \in 0..MaxSize
  BY <1>1, <1>3, <1>4
<1>6. socket' \in [Conns -> SocketStates]
  BY DEF Closed, TypeOK, SocketStates
<1>7. \A k \in Conns : socket'[k] # "none" => k \in Covered'
  <2>1. \A k \in Conns : socket'[k] # "none" => k # conn[c] /\ k \in Covered
    BY DEF Closed, TypeOK, PermitBooks
  <2> QED BY <1>2, <2>1 DEF Covered
<1> QED BY <1>3, <1>4, <1>5, <1>6, <1>7 DEF PermitBooks

\* The pool loses a connection, not a slot.
LEMMA SlotFreed ==
  ASSUME TypeOK, SlotBooks, NEW k, all' = all \ {k}, UNCHANGED reserved, Reserving' = Reserving
  PROVE  SlotBooks' /\ (k \in all => Room')
<1>1. /\ IsFiniteSet(all') /\ Cardinality(all) \in Nat /\ Cardinality(all') \in Nat
      /\ Cardinality(all') = IF k \in all THEN Cardinality(all) - 1 ELSE Cardinality(all)
  BY FS_RemoveElement, FS_CardinalityType DEF SlotBooks
<1>2. reserved \in Nat /\ MaxSize \in Nat
  BY GatewayPoolAssumption DEF TypeOK
<1> QED BY <1>1, <1>2 DEF SlotBooks, Room

\* No slot changes hands.
LEMMA SlotFrame ==
  ASSUME SlotBooks, UNCHANGED <<all, reserved>>, Reserving' = Reserving
  PROVE  SlotBooks'
<1> QED BY DEF SlotBooks

\* Whoever sleeps on was asleep before, and there is still nothing to wake up for.
LEMMA WakeupFrame ==
  ASSUME NoLostWakeup, UNCHANGED <<idle, all, reserved, shuttingDown>>,
         Sleepers' \ notified' \subseteq Sleepers \ notified
  PROVE  NoLostWakeup'
<1> QED BY DEF NoLostWakeup, Room

\* A step that wakes up all sleepers.
LEMMA WakeupAll ==
  ASSUME NotifyAll, Sleepers' \subseteq Sleepers
  PROVE  NoLostWakeup'
<1> QED BY DEF NotifyAll, NoLostWakeup

\* A client that looks, waits for a permit or connects holds nothing.
LEMMA EmptyHanded ==
  ASSUME TypeOK, HeldInPlace, NEW c \in Clients, c \notin Busy
  PROVE  conn[c] = NoConn /\ stale[c] = <<>> /\ ~owes[c]
<1> QED BY DEF HeldInPlace, Busy

\* A client that looks is neither busy nor creating.
LEMMA LooksIdle ==
  ASSUME NEW c \in Clients, Looks(c)
  PROVE  /\ pc[c] \in {"out", "again", "waiting"}
         /\ c \notin Busy /\ c \notin Reserving /\ c \notin Connecting
<1> QED BY DEF Looks, Busy, Reserving, Creating, Connecting

-----------------------------------------------------------------------------
\* acquire keeps the invariant.

\* A client that is refused, goes to sleep or gives up.
LEMMA QuietPoolInv ==
  ASSUME PoolInv, NEW c \in Clients, Refused(c) \/ Sleep(c) \/ TimeOut(c)
  PROVE  PoolInv'
<1> USE DEF PoolInv
<1>1. /\ UNCHANGED <<idle, all, active, reserved, capacity, shuttingDown, toClose, socket>>
      /\ UNCHANGED <<conn, stale, owes>>
      /\ notified' = notified \ {c}
      /\ pc[c] \in {"out", "again", "waiting"}
      /\ \/ pc' = [pc EXCEPT ![c] = "out"]
         \/ Sleep(c) /\ pc' = [pc EXCEPT ![c] = "waiting"]
  BY LooksIdle DEF Refused, Sleep, TimeOut, GoTo, Awake, poolVars, shutdownVars
<1>2. TypeOK'
  BY <1>1 DEF TypeOK, States, Acquiring
<1>3. Busy' = Busy /\ Connecting' = Connecting /\ Reserving' = Reserving /\ Booked' = Booked
  BY <1>1 DEF TypeOK, Busy, Connecting, Reserving, Creating, Booked, Owed
<1>4. OneHolder'
  BY <1>1, HolderFrame
<1>5. HeldInPlace' /\ Handover'
  BY <1>1, <1>3 DEF HeldInPlace, Handover, TypeOK
<1>6. PermitBooks' /\ SlotBooks'
  BY <1>1, <1>3, PermitFrame, SlotFrame
<1>7. NoLostWakeup'
  <2>1. CASE pc' = [pc EXCEPT ![c] = "out"]
    <3>1. Sleepers' \ notified' \subseteq Sleepers \ notified
      BY <1>1, <2>1 DEF Sleepers, TypeOK
    <3> QED BY <1>1, <3>1, WakeupFrame
  <2>2. CASE Sleep(c) /\ pc' = [pc EXCEPT ![c] = "waiting"]
    <3>1. idle = <<>> /\ ~Room /\ ~shuttingDown
      BY <2>2 DEF Sleep
    <3>2. idle' = <<>> /\ ~Room' /\ ~shuttingDown'
      BY <1>1, <3>1 DEF Room
    <3> QED BY <3>2 DEF NoLostWakeup
  <2> QED BY <1>1, <2>1, <2>2
<1> QED BY <1>2, <1>4, <1>5, <1>6, <1>7

\* An idle connection is leased: it passes from the pool to one client.
LEMMA LeasePoolInv ==
  ASSUME PoolInv, NEW c \in Clients, Lease(c)
  PROVE  PoolInv'
<1> USE DEF PoolInv
<1>1. PICK n \in 1..Len(idle) :
        /\ active' = active \cup {idle[n]}
        /\ conn' = [conn EXCEPT ![c] = idle[n]]
        /\ idle' = SubSeq(idle, n + 1, Len(idle))
  BY DEF Lease
<1>2. /\ pc' = [pc EXCEPT ![c] = "leased"] /\ notified' = notified \ {c}
      /\ UNCHANGED <<all, reserved, capacity, shuttingDown, toClose, socket, stale, owes>>
      /\ ~shuttingDown
  BY DEF Lease, GoTo, Awake, shutdownVars
<1> DEFINE k == idle[n]
<1>3. /\ idle' \in Seq(Conns) /\ Distinct(idle') /\ ToSet(idle') \subseteq ToSet(idle)
      /\ k \in Conns /\ k \in ToSet(idle) /\ k \notin ToSet(idle') /\ idle # <<>>
  <2>1. idle # <<>>
    BY EmptySeq, <1>1
  <2> QED BY <1>1, <2>1, SuffixElements DEF TypeOK, OneHolder
<1>4. c \notin Busy /\ c \notin Reserving /\ c \notin Connecting
  BY LooksIdle DEF Lease
<1>5. conn[c] = NoConn /\ stale[c] = <<>> /\ ~owes[c] /\ k # NoConn
  BY <1>3, <1>4, EmptyHanded, GatewayPoolAssumption
<1> HIDE DEF k
<1>6. conn' = [conn EXCEPT ![c] = k] /\ active' = active \cup {k}
  BY <1>1 DEF k
<1>7. TypeOK'
  BY <1>2, <1>3, <1>6 DEF TypeOK, States
<1>8. /\ Busy' = Busy \cup {c} /\ Connecting' = Connecting /\ Reserving' = Reserving
      /\ Booked' = Booked
  BY <1>2, <1>4, <1>5, <1>6
  DEF TypeOK, Busy, Connecting, Reserving, Creating, Booked, Owed
<1>9. OneHolder'
  <2>1. Held(c)' = {k} /\ \A d \in Clients \ {c} : Held(d)' = Held(d)
    BY <1>2, <1>3, <1>5, <1>6, EmptyElements DEF Held, TypeOK
  <2>2. ASSUME NEW d \in Clients
        PROVE  /\ Distinct(stale'[d]) /\ conn'[d] \notin ToSet(stale'[d])
               /\ Held(d)' \cap ToSet(idle') = {}
    BY <1>2, <1>3, <1>5, <1>6, <2>1, EmptyElements DEF OneHolder, TypeOK
  <2>3. ASSUME NEW d \in Clients \ {c} PROVE k \notin Held(d)
    BY <1>3 DEF OneHolder
  <2> QED BY <1>2, <1>3, <2>1, <2>2, <2>3 DEF OneHolder
<1>10. HeldInPlace' /\ Handover'
  BY <1>2, <1>5, <1>6, <1>8 DEF HeldInPlace, Handover, TypeOK
<1>11. PermitBooks' /\ SlotBooks'
  BY <1>2, <1>8, PermitFrame, SlotFrame
<1>12. NoLostWakeup'
  BY <1>2, <1>3 DEF NoLostWakeup, Sleepers, TypeOK
<1> QED BY <1>7, <1>9, <1>10, <1>11, <1>12

\* Stale connections pass to one client, which takes the first out of the pool.
LEMMA SweepPoolInv ==
  ASSUME PoolInv, NEW c \in Clients, Sweep(c)
  PROVE  PoolInv'
<1> USE DEF PoolInv
<1> DEFINE h == Head(idle)
           t == Tail(idle)
<1>1. /\ idle # <<>> /\ idle' = <<>>
      /\ all' = all \ {h} /\ active' = active \ {h}
      /\ conn' = [conn EXCEPT ![c] = h] /\ stale' = [stale EXCEPT ![c] = t]
      /\ owes' = [owes EXCEPT ![c] = TRUE]
      /\ pc' = [pc EXCEPT ![c] = "sweeping"]
      /\ notified' = (notified \cup Sleepers) \ {c}
      /\ reserved' = IF Room THEN reserved + 1 ELSE reserved
      /\ UNCHANGED <<capacity, shuttingDown, toClose, socket>>
      /\ ~shuttingDown
  BY DEF Sweep, GoTo, shutdownVars
<1>2. /\ t \in Seq(Conns) /\ Distinct(t) /\ ToSet(t) \subseteq ToSet(idle)
      /\ h \in Conns /\ h \in ToSet(idle) /\ h \notin ToSet(t) /\ h \in all
  BY <1>1, HeadTailElements DEF TypeOK, OneHolder
<1>3. c \notin Busy /\ c \notin Reserving /\ c \notin Connecting
  BY LooksIdle DEF Sweep
<1>4. conn[c] = NoConn /\ stale[c] = <<>> /\ ~owes[c] /\ h # NoConn
  BY <1>2, <1>3, EmptyHanded, GatewayPoolAssumption
<1> HIDE DEF h, t
<1>5. TypeOK'
  <2>1. reserved' \in Nat /\ idle' \in Seq(Conns)
    BY <1>1, EmptySeq DEF TypeOK
  <2> QED BY <1>1, <1>2, <2>1 DEF TypeOK, States, Acquiring, Sleepers
<1>6. /\ Busy' = Busy \cup {c} /\ Connecting' = Connecting /\ Reserving' = Reserving
  BY <1>1, <1>3 DEF TypeOK, Busy, Connecting, Reserving, Creating
<1>7. Booked' = Booked
  <2>1. Owed' = Owed \cup {h}
    BY <1>1, <1>2, <1>4 DEF TypeOK, Owed
  <2> QED BY <1>1, <1>2, <2>1 DEF Booked
<1>8. OneHolder'
  <2>1. /\ Held(c)' \subseteq ToSet(idle) /\ \A d \in Clients \ {c} : Held(d)' = Held(d)
        /\ ToSet(idle') = {} /\ Distinct(idle')
    BY <1>1, <1>2, EmptyElements DEF Held, TypeOK
  <2>2. ASSUME NEW d \in Clients
        PROVE  Distinct(stale'[d]) /\ conn'[d] \notin ToSet(stale'[d])
    BY <1>1, <1>2 DEF OneHolder, TypeOK
  <2>3. ASSUME NEW d \in Clients, NEW e \in Clients, d # e
        PROVE  Held(d)' \cap Held(e)' = {}
    BY <2>1, <2>3 DEF OneHolder
  <2> QED BY <2>1, <2>2, <2>3 DEF OneHolder
<1>9. HeldInPlace' /\ Handover'
  <2>1. toClose = {}
    BY <1>1 DEF Handover
  <2> QED BY <1>1, <1>4, <1>6, <2>1 DEF HeldInPlace, Handover, TypeOK
<1>10. PermitBooks'
  BY <1>1, <1>6, <1>7, PermitFrame
<1>11. SlotBooks'
  <2>1. /\ IsFiniteSet(all') /\ Cardinality(all) \in Nat /\ Cardinality(Reserving) \in Nat
        /\ Cardinality(all') = Cardinality(all) - 1
    BY <1>1, <1>2, FS_RemoveElement, FS_CardinalityType DEF SlotBooks
  <2>2. reserved \in Nat /\ reserved' \in {reserved, reserved + 1} /\ MaxSize \in Nat
    BY <1>1, GatewayPoolAssumption DEF TypeOK
  <2> QED BY <1>6, <2>1, <2>2 DEF SlotBooks
<1>12. NoLostWakeup'
  BY <1>1 DEF NoLostWakeup, Sleepers, TypeOK
<1> QED BY <1>5, <1>8, <1>9, <1>10, <1>11, <1>12

\* What a client that has closed its connection still covers.
LEMMA CoverLost ==
  ASSUME PoolInv, NEW c \in Clients, UNCHANGED <<all, toClose>>,
         conn' = [conn EXCEPT ![c] = NoConn], owes' = [owes EXCEPT ![c] = FALSE]
  PROVE  Booked' = IF owes[c] THEN Booked \ {conn[c]} ELSE Booked
<1> USE DEF PoolInv
<1>1. ASSUME NEW k \in Conns
      PROVE  k \in Owed' <=> \E d \in Clients \ {c} : owes[d] /\ conn[d] = k
  BY DEF Owed, TypeOK
<1>2. CASE owes[c]
  <2>1. conn[c] \in Conns /\ conn[c] \notin all /\ conn[c] \notin toClose
    BY <1>2, GatewayPoolAssumption DEF HeldInPlace, TypeOK, Busy
  <2>2. \A d \in Clients \ {c} : conn[d] # conn[c]
    BY <2>1 DEF OneHolder, Held
  <2>3. Owed' = Owed \ {conn[c]}
    BY <1>1, <1>2, <2>2 DEF Owed
  <2> QED BY <1>2, <2>1, <2>3 DEF Booked
<1>3. CASE ~owes[c]
  <2>1. Owed' = Owed
    BY <1>1, <1>3 DEF Owed
  <2> QED BY <1>3, <2>1 DEF Booked
<1> QED BY <1>2, <1>3

\* The last stale connection, or the one that was discarded, has been closed.
LEMMA LastClosePoolInv ==
  ASSUME PoolInv, NEW c \in Clients,
         FinishClose(c) \/ (SweepNext(c) /\ stale[c] = <<>>)
  PROVE  PoolInv'
<1> USE DEF PoolInv
<1>1. /\ pc[c] \in {"closing", "sweeping"} /\ stale[c] = <<>> /\ Closed(c)
      /\ \E where \in {"out", "again"} : pc' = [pc EXCEPT ![c] = where]
      /\ conn' = [conn EXCEPT ![c] = NoConn] /\ owes' = [owes EXCEPT ![c] = FALSE]
      /\ NotifyAll
      /\ UNCHANGED <<idle, all, active, reserved, shuttingDown, toClose, stale>>
  BY DEF FinishClose, SweepNext, GoTo, shutdownVars, HeldInPlace
<1>2. conn[c] \in Conns
  BY <1>1 DEF HeldInPlace, Busy, TypeOK
<1>3. /\ Busy' = Busy \ {c} /\ Connecting' = Connecting /\ Reserving' = Reserving
      /\ Sleepers' = Sleepers
  BY <1>1 DEF TypeOK, Busy, Connecting, Reserving, Creating, Sleepers
<1>4. Booked' = IF owes[c] THEN Booked \ {conn[c]} ELSE Booked
  BY <1>1, CoverLost
<1>5. PermitBooks' /\ capacity' \in 0..MaxSize /\ socket' \in [Conns -> SocketStates]
  BY <1>1, <1>2, <1>3, <1>4, PermitReturned
<1>6. TypeOK'
  <2>1. owes' \in [Clients -> BOOLEAN] /\ conn' \in [Clients -> Conns \cup {NoConn}]
    BY <1>1 DEF TypeOK
  <2>2. notified' \subseteq Clients /\ pc' \in [Clients -> States]
    BY <1>1 DEF TypeOK, NotifyAll, Sleepers, States, Acquiring
  <2> QED BY <1>1, <1>5, <2>1, <2>2 DEF TypeOK
<1>7. OneHolder'
  <2>1. Held(c)' = {}
    BY <1>1, EmptyElements, GatewayPoolAssumption DEF Held, TypeOK
  <2>2. \A d \in Clients \ {c} : conn'[d] = conn[d] /\ stale'[d] = stale[d]
    BY <1>1 DEF TypeOK
  <2>3. Distinct(stale'[c]) /\ conn'[c] \notin ToSet(stale'[c]) /\ ToSet(idle) \subseteq all'
    BY <1>1, EmptyElements DEF OneHolder
  <2> QED BY <1>1, <2>1, <2>2, <2>3, HoldLess
<1>8. HeldInPlace' /\ Handover'
  BY <1>1, <1>3 DEF HeldInPlace, Handover, TypeOK
<1>9. SlotBooks' /\ NoLostWakeup'
  BY <1>1, <1>3, SlotFrame, WakeupAll
<1> QED BY <1>5, <1>6, <1>7, <1>8, <1>9

\* discard: a client takes one of the connections it holds out of the pool, and
\* owes a permit if it was the first to do so.
LEMMA DropEffect ==
  ASSUME PoolInv, NEW c \in Clients, NEW k \in Held(c), Drop(c, k), UNCHANGED <<idle, toClose>>,
         owes[c] => k # conn[c]
  PROVE  /\ all' \subseteq Conns /\ active' \subseteq Conns /\ ToSet(idle) \subseteq all'
         /\ conn'[c] = k /\ conn' \in [Clients -> Conns \cup {NoConn}]
         /\ \A d \in Clients \ {c} : conn'[d] = conn[d] /\ owes'[d] = owes[d]
         /\ owes' \in [Clients -> BOOLEAN] /\ (owes'[c] => k \notin all' /\ k \notin toClose)
         /\ Booked' = IF owes[c] THEN Booked \ {conn[c]} ELSE Booked
         /\ notified' = notified \cup Sleepers
<1> USE DEF PoolInv
<1>1. /\ all' = all \ {k} /\ active' = active \ {k} /\ conn' = [conn EXCEPT ![c] = k]
      /\ owes' = [owes EXCEPT ![c] = k \in all] /\ notified' = notified \cup Sleepers
  BY DEF Drop, NotifyAll
<1>2. k \in Conns /\ k \notin ToSet(idle) /\ \A d \in Clients \ {c} : conn[d] # k
  BY DEF Held, OneHolder
<1>3. k \in all => toClose = {}
  BY DEF Handover
<1>4. /\ owes' \in [Clients -> BOOLEAN] /\ (owes'[c] <=> k \in all)
      /\ \A d \in Clients \ {c} : owes'[d] = owes[d]
  <2>1. (k \in all) \in BOOLEAN
    OBVIOUS
  <2> QED BY <1>1, <2>1 DEF TypeOK
<1>5. Booked' = IF owes[c] THEN Booked \ {conn[c]} ELSE Booked
  <2> DEFINE Others == {x \in Conns : \E d \in Clients \ {c} : owes[d] /\ conn[d] = x}
  <2>1. Owed' = IF k \in all THEN Others \cup {k} ELSE Others
    <3>1. conn'[c] = k /\ \A d \in Clients \ {c} : conn'[d] = conn[d]
      BY <1>1 DEF TypeOK
    <3> QED BY <1>2, <1>4, <3>1 DEF Owed
  <2>2. CASE owes[c]
    <3>1. conn[c] \in Conns /\ conn[c] \notin all /\ conn[c] \notin toClose /\ conn[c] # k
      BY <2>2, GatewayPoolAssumption DEF HeldInPlace, TypeOK, Busy
    <3>2. Others = Owed \ {conn[c]}
      BY <2>2, <3>1 DEF Owed, OneHolder, Held
    <3> QED BY <1>1, <2>1, <2>2, <3>1, <3>2 DEF Booked
  <2>3. CASE ~owes[c]
    <3>1. Others = Owed
      BY <2>3 DEF Owed
    <3> QED BY <1>1, <2>1, <2>3, <3>1 DEF Booked
  <2> QED BY <2>2, <2>3
<1> QED BY <1>1, <1>2, <1>3, <1>4, <1>5 DEF TypeOK, OneHolder

\* The connection of a lease is discarded.
LEMMA DiscardPoolInv ==
  ASSUME PoolInv, NEW c \in Clients, Discard(c)
  PROVE  PoolInv'
<1> USE DEF PoolInv
<1> DEFINE k == conn[c]
<1>1. /\ pc[c] = "leased" /\ pc' = [pc EXCEPT ![c] = "closing"] /\ Drop(c, k)
      /\ UNCHANGED <<idle, reserved, capacity, shuttingDown, toClose, socket, stale>>
  BY DEF Discard, GoTo, shutdownVars
<1>2. k \in Conns /\ k \in Held(c) /\ ~owes[c] /\ stale[c] = <<>>
  BY <1>1 DEF HeldInPlace, Busy, TypeOK, Held
<1> HIDE DEF k
<1>3. /\ all' \subseteq Conns /\ active' \subseteq Conns /\ ToSet(idle) \subseteq all'
      /\ conn'[c] = k /\ conn' \in [Clients -> Conns \cup {NoConn}]
      /\ \A d \in Clients \ {c} : conn'[d] = conn[d] /\ owes'[d] = owes[d]
      /\ owes' \in [Clients -> BOOLEAN] /\ (owes'[c] => k \notin all' /\ k \notin toClose)
      /\ Booked' = Booked
      /\ notified' = notified \cup Sleepers
  BY <1>1, <1>2, DropEffect
<1>4. /\ Busy' = Busy /\ Connecting' = Connecting /\ Reserving' = Reserving
      /\ Sleepers' = Sleepers
  BY <1>1 DEF TypeOK, Busy, Connecting, Reserving, Creating, Sleepers
<1>5. TypeOK'
  BY <1>1, <1>3 DEF TypeOK, States, Sleepers
<1>6. conn'[c] = conn[c]
  BY <1>3 DEF k
<1>7. OneHolder'
  <2>1. Held(c)' = Held(c)
    BY <1>1, <1>6 DEF Held
  <2> QED BY <1>1, <1>3, <1>6, <2>1, HoldLess DEF OneHolder
<1>8. HeldInPlace' /\ Handover'
  <2>1. all' \subseteq all
    BY <1>1 DEF Drop
  <2> QED BY <1>1, <1>3, <1>4, <1>6, <2>1 DEF HeldInPlace, Handover, TypeOK
<1>9. PermitBooks'
  BY <1>1, <1>3, <1>4, PermitFrame
<1>10. SlotBooks' /\ NoLostWakeup'
  BY <1>1, <1>4, SlotFreed, WakeupAll DEF Drop
<1> QED BY <1>5, <1>7, <1>8, <1>9, <1>10

\* A stale connection is closed and the next one discarded.
LEMMA SweepNextPoolInv ==
  ASSUME PoolInv, NEW c \in Clients, SweepNext(c), stale[c] # <<>>
  PROVE  PoolInv'
<1> USE DEF PoolInv
<1> DEFINE h == Head(stale[c])
           t == Tail(stale[c])
<1>1. /\ pc[c] = "sweeping" /\ Closed(c) /\ Drop(c, h)
      /\ stale' = [stale EXCEPT ![c] = t]
      /\ UNCHANGED <<pc, idle, reserved, shuttingDown, toClose>>
  BY DEF SweepNext, shutdownVars
<1>2. /\ t \in Seq(Conns) /\ Distinct(t) /\ ToSet(t) \subseteq ToSet(stale[c])
      /\ h \in Conns /\ h \in ToSet(stale[c]) /\ h \notin ToSet(t)
  BY HeadTailElements DEF TypeOK, OneHolder
<1>3. conn[c] \in Conns /\ h # conn[c] /\ h \in Held(c)
  BY <1>1, <1>2 DEF HeldInPlace, Busy, TypeOK, OneHolder, Held
<1> HIDE DEF h, t
<1>4. /\ all' \subseteq Conns /\ active' \subseteq Conns /\ ToSet(idle) \subseteq all'
      /\ conn'[c] = h /\ conn' \in [Clients -> Conns \cup {NoConn}]
      /\ \A d \in Clients \ {c} : conn'[d] = conn[d] /\ owes'[d] = owes[d]
      /\ owes' \in [Clients -> BOOLEAN] /\ (owes'[c] => h \notin all' /\ h \notin toClose)
      /\ Booked' = IF owes[c] THEN Booked \ {conn[c]} ELSE Booked
      /\ notified' = notified \cup Sleepers
  BY <1>1, <1>3, DropEffect
<1>5. /\ Busy' = Busy /\ Connecting' = Connecting /\ Reserving' = Reserving
      /\ Sleepers' = Sleepers
  BY <1>1 DEF Busy, Connecting, Reserving, Sleepers
<1>6. PermitBooks' /\ capacity' \in 0..MaxSize /\ socket' \in [Conns -> SocketStates]
  BY <1>1, <1>3, <1>4, <1>5, PermitReturned
<1>7. TypeOK'
  BY <1>1, <1>2, <1>4, <1>6 DEF TypeOK, Sleepers
<1>8. OneHolder'
  <2>1. stale'[c] = t /\ \A d \in Clients \ {c} : conn'[d] = conn[d] /\ stale'[d] = stale[d]
    BY <1>1, <1>4 DEF TypeOK
  <2>2. Held(c)' \subseteq Held(c)
    BY <1>2, <1>4, <2>1 DEF Held
  <2> QED BY <1>1, <1>2, <1>4, <2>1, <2>2, HoldLess
<1>9. HeldInPlace' /\ Handover'
  <2>1. all' \subseteq all /\ h # NoConn
    BY <1>1, <1>2, GatewayPoolAssumption DEF Drop
  <2>2. ASSUME NEW d \in Clients
        PROVE  /\ conn'[d] # NoConn <=> d \in Busy'
               /\ stale'[d] # <<>> => pc'[d] = "sweeping"
               /\ owes'[d] => /\ pc'[d] \in {"sweeping", "closing"}
                              /\ conn'[d] \notin all' /\ conn'[d] \notin toClose'
    BY <1>1, <1>4, <1>5, <2>1 DEF HeldInPlace, Busy, TypeOK
  <2> QED BY <1>1, <2>1, <2>2 DEF HeldInPlace, Handover
<1>10. SlotBooks' /\ NoLostWakeup'
  BY <1>1, <1>5, SlotFreed, WakeupAll DEF Drop
<1> QED BY <1>6, <1>7, <1>8, <1>9, <1>10

\* The connection of a lease goes back to the pool.
LEMMA ReleasePoolInv ==
  ASSUME PoolInv, NEW c \in Clients, Release(c)
  PROVE  PoolInv'
<1> USE DEF PoolInv
<1> DEFINE k == conn[c]
<1>1. /\ pc[c] = "leased" /\ k \in all
      /\ active' = active \ {k} /\ idle' = Append(idle, k)
      /\ conn' = [conn EXCEPT ![c] = NoConn]
      /\ pc' = [pc EXCEPT ![c] = "out"] /\ NotifyAll
      /\ UNCHANGED <<all, reserved, capacity, shuttingDown, toClose, socket, stale, owes>>
  BY DEF Release, GoTo, shutdownVars
<1>2. /\ k \in Conns /\ k \in Held(c) /\ ~owes[c] /\ stale[c] = <<>>
      /\ k \notin ToSet(idle) /\ \A d \in Clients \ {c} : k \notin Held(d)
  BY <1>1 DEF HeldInPlace, Busy, TypeOK, Held, OneHolder
<1>3. idle' \in Seq(Conns) /\ Distinct(idle') /\ ToSet(idle') = ToSet(idle) \cup {k}
  BY <1>1, <1>2, AppendElements DEF TypeOK, OneHolder
<1> HIDE DEF k
<1>4. /\ Busy' = Busy \ {c} /\ Connecting' = Connecting /\ Reserving' = Reserving
      /\ Sleepers' = Sleepers /\ Booked' = Booked
  BY <1>1, <1>2 DEF TypeOK, Busy, Connecting, Reserving, Creating, Sleepers, Booked, Owed
<1>5. TypeOK'
  BY <1>1, <1>2, <1>3 DEF TypeOK, States, Acquiring, NotifyAll, Sleepers
<1>6. OneHolder'
  <2>1. Held(c)' = {} /\ \A d \in Clients \ {c} : Held(d)' = Held(d)
    BY <1>1, <1>2, EmptyElements, GatewayPoolAssumption DEF Held, TypeOK
  <2>2. ASSUME NEW d \in Clients
        PROVE  /\ Distinct(stale'[d]) /\ conn'[d] \notin ToSet(stale'[d])
               /\ Held(d)' \cap ToSet(idle') = {}
    BY <1>1, <1>2, <1>3, <2>1, EmptyElements DEF OneHolder, TypeOK
  <2> QED BY <1>1, <1>3, <2>1, <2>2 DEF OneHolder
<1>7. HeldInPlace' /\ Handover'
  BY <1>1, <1>2, <1>4 DEF HeldInPlace, Handover, TypeOK
<1>8. PermitBooks' /\ SlotBooks' /\ NoLostWakeup'
  BY <1>1, <1>4, PermitFrame, SlotFrame, WakeupAll
<1> QED BY <1>5, <1>6, <1>7, <1>8

-----------------------------------------------------------------------------
\* Connecting keeps the invariant.

\* A free permit is taken by a client that begins to connect.
LEMMA PermitTaken ==
  ASSUME TypeOK, PermitBooks, NEW c \in Clients, c \notin Connecting,
         capacity > 0, capacity' = capacity - 1,
         UNCHANGED socket, Booked' = Booked, Connecting' = Connecting \cup {c}
  PROVE  PermitBooks' /\ capacity' \in 0..MaxSize
<1>1. /\ MaxSize \in Nat /\ capacity \in 0..MaxSize
      /\ Cardinality(Covered) \in Nat /\ Cardinality(Connecting) \in Nat
  BY GatewayPoolAssumption, FS_CardinalityType DEF TypeOK, PermitBooks
<1>2. IsFiniteSet(Connecting') /\ Cardinality(Connecting') = Cardinality(Connecting) + 1
  BY FS_AddElement DEF PermitBooks
<1>3. Covered' = Covered
  BY DEF Covered, Stranded
<1> QED BY <1>1, <1>2, <1>3 DEF PermitBooks

\* A slot is reserved, and perhaps the permit taken.
LEMMA ReservePoolInv ==
  ASSUME PoolInv, NEW c \in Clients, Reserve(c)
  PROVE  PoolInv'
<1> USE DEF PoolInv
<1>1. /\ Room /\ reserved' = reserved + 1 /\ notified' = notified \ {c}
      /\ UNCHANGED <<idle, all, active, shuttingDown, toClose, socket, conn, stale, owes>>
      /\ \/ capacity > 0 /\ pc' = [pc EXCEPT ![c] = "connecting"] /\ capacity' = capacity - 1
         \/ pc' = [pc EXCEPT ![c] = "capacity"] /\ UNCHANGED capacity
  BY DEF Reserve, GoTo, Awake, shutdownVars
<1>2. c \notin Busy /\ c \notin Reserving /\ c \notin Connecting
  BY LooksIdle DEF Reserve
<1>3. /\ Busy' = Busy /\ Reserving' = Reserving \cup {c} /\ Booked' = Booked
      /\ Sleepers' = Sleepers \ {c}
  BY <1>1, <1>2 DEF TypeOK, Busy, Reserving, Creating, Booked, Owed, Sleepers
<1>4. PermitBooks' /\ capacity' \in 0..MaxSize
  <2>1. CASE capacity > 0 /\ pc' = [pc EXCEPT ![c] = "connecting"] /\ capacity' = capacity - 1
    <3>1. Connecting' = Connecting \cup {c}
      BY <2>1 DEF Connecting, TypeOK
    <3> QED BY <1>1, <1>2, <1>3, <2>1, <3>1, PermitTaken
  <2>2. CASE pc' = [pc EXCEPT ![c] = "capacity"] /\ UNCHANGED capacity
    <3>1. Connecting' = Connecting
      BY <1>2, <2>2 DEF Connecting, TypeOK
    <3> QED BY <1>1, <1>3, <2>2, <3>1, PermitFrame DEF TypeOK
  <2> QED BY <1>1, <2>1, <2>2
<1>5. TypeOK'
  <2>1. pc' \in [Clients -> States]
    BY <1>1 DEF TypeOK, States, Acquiring, Creating
  <2>2. reserved' \in Nat
    BY <1>1 DEF TypeOK
  <2> QED BY <1>1, <1>4, <2>1, <2>2 DEF TypeOK
<1>6. OneHolder'
  BY <1>1, HolderFrame
<1>7. HeldInPlace' /\ Handover'
  BY <1>1, <1>2, <1>3 DEF HeldInPlace, Handover, TypeOK, Busy
<1>8. SlotBooks'
  <2>1. IsFiniteSet(Reserving') /\ Cardinality(Reserving') = Cardinality(Reserving) + 1
    BY <1>2, <1>3, FS_AddElement DEF SlotBooks
  <2>2. /\ reserved \in Nat /\ MaxSize \in Nat
        /\ Cardinality(all) \in Nat /\ Cardinality(Reserving) \in Nat
    BY GatewayPoolAssumption, FS_CardinalityType DEF TypeOK, SlotBooks
  <2> QED BY <1>1, <2>1, <2>2 DEF SlotBooks, Room
<1>9. NoLostWakeup'
  BY <1>1, <1>3 DEF NoLostWakeup
<1> QED BY <1>4, <1>5, <1>6, <1>7, <1>8, <1>9

\* The permit is taken later.
LEMMA GetPermitPoolInv ==
  ASSUME PoolInv, NEW c \in Clients, GetPermit(c)
  PROVE  PoolInv'
<1> USE DEF PoolInv
<1>1. /\ pc[c] = "capacity" /\ pc' = [pc EXCEPT ![c] = "connecting"]
      /\ capacity > 0 /\ capacity' = capacity - 1
      /\ UNCHANGED <<idle, all, active, reserved, shuttingDown, toClose, socket, conn, stale, owes>>
      /\ UNCHANGED notified
  BY DEF GetPermit, GoTo, shutdownVars
<1>2. /\ Busy' = Busy /\ Reserving' = Reserving /\ Booked' = Booked
      /\ Sleepers' = Sleepers /\ Connecting' = Connecting \cup {c} /\ c \notin Connecting
  BY <1>1 DEF TypeOK, Busy, Reserving, Creating, Booked, Owed, Sleepers, Connecting
<1>3. PermitBooks' /\ capacity' \in 0..MaxSize
  BY <1>1, <1>2, PermitTaken
<1>4. TypeOK'
  BY <1>1, <1>3 DEF TypeOK, States, Acquiring, Creating
<1>5. OneHolder'
  BY <1>1, HolderFrame
<1>6. HeldInPlace' /\ Handover'
  BY <1>1, <1>2 DEF HeldInPlace, Handover, TypeOK
<1>7. SlotBooks' /\ NoLostWakeup'
  BY <1>1, <1>2, SlotFrame, WakeupFrame
<1> QED BY <1>3, <1>4, <1>5, <1>6, <1>7

\* A client that stops connecting leaves a reservation behind, at least its own.
LEMMA ReservationBack ==
  ASSUME TypeOK, SlotBooks, NEW c \in Reserving, Unreserved, Reserving' = Reserving \ {c}
  PROVE  /\ reserved \in Nat /\ reserved' \in Nat /\ reserved' = reserved - 1
         /\ IsFiniteSet(Reserving') /\ Cardinality(Reserving') <= reserved'
<1>1. /\ reserved \in Nat /\ Cardinality(Reserving) \in Nat
      /\ Cardinality(Reserving') \in Nat /\ IsFiniteSet(Reserving')
      /\ Cardinality(Reserving') = Cardinality(Reserving) - 1
  BY FS_RemoveElement, FS_CardinalityType DEF TypeOK, SlotBooks
<1>2. reserved > 0
  BY <1>1 DEF SlotBooks
<1> QED BY <1>1, <1>2 DEF SlotBooks, Unreserved

\* The connect fails: reservation and permit go back.
LEMMA ConnectFailsPoolInv ==
  ASSUME PoolInv, NEW c \in Clients, ConnectFails(c)
  PROVE  PoolInv'
<1> USE DEF PoolInv
<1>1. /\ pc[c] = "connecting" /\ pc' = [pc EXCEPT ![c] = "out"]
      /\ Unreserved /\ capacity' = capacity + 1 /\ NotifyAll
      /\ UNCHANGED <<idle, all, active, shuttingDown, toClose, socket, conn, stale, owes>>
  BY DEF ConnectFails, GoTo, shutdownVars
<1>2. /\ Busy' = Busy /\ Booked' = Booked /\ Sleepers' = Sleepers
      /\ Reserving' = Reserving \ {c} /\ c \in Reserving
      /\ Connecting' = Connecting \ {c} /\ c \in Connecting
  BY <1>1 DEF TypeOK, Busy, Reserving, Creating, Booked, Owed, Sleepers, Connecting
<1>3. PermitBooks' /\ capacity' \in 0..MaxSize
  <2>1. /\ MaxSize \in Nat /\ capacity \in Nat /\ Cardinality(Covered) \in Nat
        /\ Cardinality(Connecting) \in Nat /\ Cardinality(Connecting') \in Nat
        /\ IsFiniteSet(Connecting') /\ Cardinality(Connecting') = Cardinality(Connecting) - 1
    BY <1>2, GatewayPoolAssumption, FS_RemoveElement, FS_CardinalityType DEF TypeOK, PermitBooks
  <2>2. Covered' = Covered
    BY <1>1, <1>2 DEF Covered, Stranded
  <2> QED BY <1>1, <2>1, <2>2 DEF PermitBooks
<1>4. /\ reserved \in Nat /\ reserved' \in Nat /\ reserved' = reserved - 1
      /\ IsFiniteSet(Reserving') /\ Cardinality(Reserving') <= reserved'
  BY <1>1, <1>2, ReservationBack
<1>5. TypeOK'
  BY <1>1, <1>3, <1>4 DEF TypeOK, States, Acquiring, NotifyAll, Sleepers
<1>6. OneHolder'
  BY <1>1, HolderFrame
<1>7. HeldInPlace' /\ Handover'
  BY <1>1, <1>2 DEF HeldInPlace, Handover, TypeOK
<1>8. SlotBooks'
  <2>1. Cardinality(all) \in Nat /\ MaxSize \in Nat
    BY GatewayPoolAssumption, FS_CardinalityType DEF SlotBooks
  <2> QED BY <1>1, <1>4, <2>1 DEF SlotBooks
<1>9. NoLostWakeup'
  BY <1>1, <1>2, WakeupAll
<1> QED BY <1>3, <1>5, <1>6, <1>7, <1>8, <1>9

\* The connection is up: it comes fresh into the hands of its client.
LEMMA ConnectedPoolInv ==
  ASSUME PoolInv, NEW c \in Clients, Connected(c)
  PROVE  PoolInv'
<1> USE DEF PoolInv
<1>1. PICK k \in Unused :
        /\ socket' = [socket EXCEPT ![k] = "open"] /\ conn' = [conn EXCEPT ![c] = k]
        /\ \/ /\ shuttingDown /\ pc' = [pc EXCEPT ![c] = "closing"]
              /\ owes' = [owes EXCEPT ![c] = TRUE] /\ UNCHANGED <<all, active>>
           \/ /\ ~shuttingDown /\ pc' = [pc EXCEPT ![c] = "leased"] /\ UNCHANGED owes
              /\ all' = all \cup {k} /\ active' = active \cup {k}
  BY DEF Connected, GoTo
<1>2. /\ pc[c] = "connecting" /\ Unreserved /\ NotifyAll
      /\ UNCHANGED <<idle, capacity, shuttingDown, toClose, stale>>
  BY DEF Connected, shutdownVars
<1>3. /\ k \in Conns /\ socket[k] = "none" /\ k \notin all /\ k \notin toClose
      /\ \A d \in Clients : conn[d] # k /\ k \notin Held(d)
      /\ k # NoConn
  BY GatewayPoolAssumption DEF Unused, Held
<1>4. conn[c] = NoConn /\ stale[c] = <<>> /\ ~owes[c] /\ c \notin Busy
  BY <1>2, EmptyHanded DEF Busy
<1>5. /\ Busy' = Busy \cup {c} /\ Sleepers' = Sleepers
      /\ Reserving' = Reserving \ {c} /\ c \in Reserving
      /\ Connecting' = Connecting \ {c} /\ c \in Connecting
  BY <1>1, <1>2 DEF TypeOK, Busy, Reserving, Creating, Sleepers, Connecting
<1>6. Booked' = Booked \cup {k} /\ k \notin Booked
  <2>1. k \notin Owed
    BY <1>3 DEF Owed
  <2>2. CASE owes' = [owes EXCEPT ![c] = TRUE] /\ UNCHANGED <<all, active>>
    <3>1. Owed' = Owed \cup {k}
      BY <1>1, <1>3, <1>4, <2>2 DEF Owed, TypeOK
    <3> QED BY <1>2, <1>3, <2>1, <2>2, <3>1 DEF Booked
  <2>3. CASE UNCHANGED owes /\ all' = all \cup {k}
    <3>1. Owed' = Owed
      BY <1>1, <1>3, <1>4, <2>3 DEF Owed, TypeOK
    <3> QED BY <1>2, <1>3, <2>1, <2>3, <3>1 DEF Booked
  <2> QED BY <1>1, <2>2, <2>3
<1>7. PermitBooks'
  <2>1. /\ MaxSize \in Nat /\ capacity \in Nat /\ Cardinality(Covered) \in Nat
        /\ Cardinality(Connecting) \in Nat
    BY GatewayPoolAssumption, FS_CardinalityType DEF TypeOK, PermitBooks
  <2>2. IsFiniteSet(Connecting') /\ Cardinality(Connecting') = Cardinality(Connecting) - 1
    BY <1>5, FS_RemoveElement DEF PermitBooks
  <2>6. Covered' = Covered \cup {k} /\ k \notin Covered
    <3>1. Stranded' = Stranded /\ k \notin Stranded
      BY <1>1, <1>3 DEF Stranded, TypeOK
    <3> QED BY <1>6, <3>1 DEF Covered
  <2>3. IsFiniteSet(Covered') /\ Cardinality(Covered') = Cardinality(Covered) + 1
    BY <2>6, FS_AddElement DEF PermitBooks
  <2>4. capacity' + Cardinality(Covered') + Cardinality(Connecting') <= MaxSize
    BY <1>2, <2>1, <2>2, <2>3 DEF PermitBooks
  <2>5. \A x \in Conns : socket'[x] # "none" => x \in Covered'
    BY <1>1, <2>6 DEF PermitBooks, TypeOK
  <2> QED BY <2>2, <2>3, <2>4, <2>5 DEF PermitBooks
<1>8. /\ reserved \in Nat /\ reserved' \in Nat /\ reserved' = reserved - 1
      /\ IsFiniteSet(Reserving') /\ Cardinality(Reserving') <= reserved'
  BY <1>2, <1>5, ReservationBack
<1>9. TypeOK'
  <2>1. owes' \in [Clients -> BOOLEAN]
    BY <1>1 DEF TypeOK
  <2>2. all' \subseteq Conns /\ active' \subseteq Conns /\ pc' \in [Clients -> States]
    BY <1>1, <1>3 DEF TypeOK, States
  <2>3. /\ socket' \in [Conns -> SocketStates]
        /\ conn' \in [Clients -> Conns \cup {NoConn}] /\ notified' \subseteq Clients
    BY <1>1, <1>2, <1>3 DEF TypeOK, SocketStates, NotifyAll, Sleepers
  <2> QED BY <1>2, <1>8, <2>1, <2>2, <2>3 DEF TypeOK
<1>10. OneHolder'
  <2>1. Held(c)' = {k} /\ \A d \in Clients \ {c} : Held(d)' = Held(d)
    BY <1>1, <1>2, <1>3, <1>4, EmptyElements DEF Held, TypeOK
  <2>2. k \notin ToSet(idle) /\ ToSet(idle) \subseteq all'
    BY <1>1, <1>3 DEF OneHolder
  <2>3. ASSUME NEW d \in Clients
        PROVE  /\ Distinct(stale'[d]) /\ conn'[d] \notin ToSet(stale'[d])
               /\ Held(d)' \cap ToSet(idle') = {}
    BY <1>1, <1>2, <1>4, <2>1, <2>2, EmptyElements DEF OneHolder, TypeOK
  <2> QED BY <1>2, <1>3, <2>1, <2>2, <2>3 DEF OneHolder
<1>11. HeldInPlace' /\ Handover'
  <2>1. Handover'
    BY <1>1, <1>2 DEF Handover
  <2>2. \A d \in Clients : conn[d] \notin all => conn[d] \notin all'
    BY <1>1, <1>3
  <2>3. ASSUME NEW d \in Clients
        PROVE  /\ conn'[d] # NoConn <=> d \in Busy'
               /\ stale'[d] # <<>> => pc'[d] = "sweeping"
               /\ owes'[d] => /\ pc'[d] \in {"sweeping", "closing"}
                              /\ conn'[d] \notin all' /\ conn'[d] \notin toClose'
    <3>1. CASE d = c
      BY <1>1, <1>2, <1>3, <1>4, <1>5, <3>1 DEF TypeOK
    <3>2. CASE d # c
      BY <1>1, <1>2, <1>5, <2>2, <3>2 DEF HeldInPlace, TypeOK
    <3> QED BY <3>1, <3>2
  <2> QED BY <2>1, <2>3 DEF HeldInPlace
<1>12. SlotBooks'
  <2>1. /\ IsFiniteSet(all') /\ Cardinality(all) \in Nat /\ Cardinality(all') \in Nat
        /\ Cardinality(all') <= Cardinality(all) + 1
    <3>1. all' = all \/ all' = all \cup {k}
      BY <1>1
    <3>2. IsFiniteSet(all) /\ Cardinality(all) \in Nat
      BY FS_CardinalityType DEF SlotBooks
    <3>3. IsFiniteSet(all \cup {k}) /\ Cardinality(all \cup {k}) = Cardinality(all) + 1
      BY <1>3, <3>2, FS_AddElement
    <3> QED BY <3>1, <3>2, <3>3
  <2>2. MaxSize \in Nat
    BY GatewayPoolAssumption
  <2> QED BY <1>8, <2>1, <2>2 DEF SlotBooks
<1>13. NoLostWakeup'
  BY <1>2, <1>5, WakeupAll
<1> QED BY <1>7, <1>9, <1>10, <1>11, <1>12, <1>13

-----------------------------------------------------------------------------
\* Cancellation, the peer and the shutdown keep the invariant.

\* What becomes of the sockets when client c is cancelled: none is left that the
\* books do not cover, unless c was connecting, which had a permit.
LEMMA StrandedCovered ==
  ASSUME PoolInv, NEW c \in Clients, StrandedOrGone(c),
         Booked' = IF owes[c] THEN Booked \ {conn[c]} ELSE Booked,
         Connecting' = Connecting \ {c}, UNCHANGED capacity
  PROVE  PermitBooks' /\ socket' \in [Conns -> SocketStates]
<1> USE DEF PoolInv
<1>1. /\ MaxSize \in Nat /\ capacity \in Nat
      /\ Cardinality(Covered) \in Nat /\ Cardinality(Connecting) \in Nat
  BY GatewayPoolAssumption, FS_CardinalityType DEF TypeOK, PermitBooks
<1>2. IsFiniteSet(Connecting') /\ Cardinality(Connecting') <= Cardinality(Connecting)
  BY FS_Subset DEF PermitBooks
<1>3. CASE \E left \in {"none", "stranded"} :
             socket' = [k \in Conns |-> IF k # conn[c] THEN socket[k]
                                       ELSE IF socket[k] = "open" THEN left ELSE "none"]
  <2>1. socket' \in [Conns -> SocketStates]
    BY <1>3 DEF TypeOK, SocketStates
  <2>2. Covered' \in SUBSET Covered
    <3>1. \A k \in Stranded' : k \in Stranded \/ (k \in Conns /\ socket[k] = "open")
      BY <1>3 DEF Stranded
    <3>2. \A k \in Stranded' : k \in Covered
      BY <3>1 DEF Covered, PermitBooks
    <3> QED BY <3>2 DEF Covered
  <2>3. \A k \in Conns : socket'[k] # "none" => k \in Covered'
    <3>1. \A k \in Conns \ {conn[c]} : socket'[k] = socket[k]
      BY <1>3
    <3>2. \A k \in Conns \ {conn[c]} : k \in Covered => k \in Covered'
      BY <3>1 DEF Covered, Stranded
    <3>3. \A k \in Conns : k = conn[c] /\ socket'[k] # "none" => k \in Stranded'
      BY <1>3 DEF Stranded
    <3> QED BY <3>1, <3>2, <3>3 DEF PermitBooks, Covered
  <2>4. /\ IsFiniteSet(Covered') /\ Cardinality(Covered') <= Cardinality(Covered)
    BY <2>2, FS_Subset DEF PermitBooks
  <2>5. Cardinality(Covered') \in Nat /\ Cardinality(Connecting') \in Nat
    BY <1>2, <2>4, FS_CardinalityType
  <2>6. capacity' + Cardinality(Covered') + Cardinality(Connecting') <= MaxSize
    BY <1>1, <1>2, <2>4, <2>5 DEF PermitBooks
  <2> QED BY <1>2, <2>1, <2>3, <2>4, <2>6 DEF PermitBooks
<1>4. CASE \E k \in Unused : pc[c] = "connecting" /\ socket' = [socket EXCEPT ![k] = "stranded"]
  <2>1. PICK k \in Unused : pc[c] = "connecting" /\ socket' = [socket EXCEPT ![k] = "stranded"]
    BY <1>4
  <2>2. k \in Conns /\ c \in Connecting /\ ~owes[c]
    BY <2>1 DEF Unused, Connecting, HeldInPlace
  <2>3. socket' \in [Conns -> SocketStates] /\ Stranded' = Stranded \cup {k}
    BY <2>1, <2>2 DEF TypeOK, SocketStates, Stranded
  <2>4. Covered' = Covered \cup {k}
    BY <2>2, <2>3 DEF Covered
  <2>5. IsFiniteSet(Covered') /\ Cardinality(Covered') <= Cardinality(Covered) + 1
    <3>1. IsFiniteSet(Covered)
      BY DEF PermitBooks
    <3>2. /\ IsFiniteSet(Covered \cup {k})
          /\ \/ Cardinality(Covered \cup {k}) = Cardinality(Covered)
             \/ Cardinality(Covered \cup {k}) = Cardinality(Covered) + 1
      BY <3>1, FS_AddElement
    <3> QED BY <1>1, <2>4, <3>2
  <2>6. Cardinality(Connecting') = Cardinality(Connecting) - 1
    BY <2>2, FS_RemoveElement DEF PermitBooks
  <2>7. Cardinality(Covered') \in Nat /\ Cardinality(Connecting') \in Nat
    BY <1>2, <2>5, FS_CardinalityType
  <2>8. capacity' + Cardinality(Covered') + Cardinality(Connecting') <= MaxSize
    BY <1>1, <2>5, <2>6, <2>7 DEF PermitBooks
  <2>9. \A x \in Conns : socket'[x] # "none" => x \in Covered'
    BY <2>1, <2>2, <2>4 DEF PermitBooks, TypeOK
  <2> QED BY <1>2, <2>3, <2>5, <2>8, <2>9 DEF PermitBooks
<1> QED BY <1>3, <1>4 DEF StrandedOrGone

\* A cancelled client lets go of everything.  What it owed and reserved is lost.
LEMMA CancelledPoolInv ==
  ASSUME PoolInv, NEW c \in Clients, Cancelled(c)
  PROVE  PoolInv'
<1> USE DEF PoolInv
<1>1. /\ StrandedOrGone(c)
      /\ conn' = [conn EXCEPT ![c] = NoConn] /\ owes' = [owes EXCEPT ![c] = FALSE]
      /\ stale' = [stale EXCEPT ![c] = <<>>]
      /\ pc[c] # "leased" /\ pc' = [pc EXCEPT ![c] = "out"] /\ notified' = notified \ {c}
      /\ UNCHANGED <<idle, all, active, reserved, capacity, shuttingDown, toClose>>
  BY GatewayPoolAssumption DEF Cancelled, GoTo, Awake, poolVars, shutdownVars
<1>2. /\ Busy' = Busy \ {c} /\ Connecting' = Connecting \ {c} /\ Reserving' = Reserving \ {c}
      /\ Sleepers' = Sleepers \ {c}
  BY <1>1 DEF TypeOK, Busy, Connecting, Reserving, Creating, Sleepers
<1>3. PermitBooks' /\ socket' \in [Conns -> SocketStates]
  <2>1. Booked' = IF owes[c] THEN Booked \ {conn[c]} ELSE Booked
    BY <1>1, CoverLost
  <2> QED BY <1>1, <1>2, <2>1, StrandedCovered
<1>4. TypeOK'
  <2>1. owes' \in [Clients -> BOOLEAN] /\ stale' \in [Clients -> Seq(Conns)]
    BY <1>1, EmptySeq DEF TypeOK
  <2> QED BY <1>1, <1>3, <2>1 DEF TypeOK, States, Acquiring
<1>5. OneHolder'
  <2>1. Held(c)' = {} /\ stale'[c] = <<>> /\ conn'[c] = NoConn
    BY <1>1, EmptyElements, GatewayPoolAssumption DEF Held, TypeOK
  <2>2. \A d \in Clients \ {c} : conn'[d] = conn[d] /\ stale'[d] = stale[d]
    BY <1>1 DEF TypeOK
  <2>3. Distinct(stale'[c]) /\ conn'[c] \notin ToSet(stale'[c]) /\ ToSet(idle) \subseteq all'
    BY <1>1, <2>1, EmptyElements DEF OneHolder
  <2> QED BY <1>1, <2>1, <2>2, <2>3, HoldLess
<1>6. HeldInPlace' /\ Handover'
  BY <1>1, <1>2 DEF HeldInPlace, Handover, TypeOK
<1>7. SlotBooks'
  <2>1. Reserving' \in SUBSET Reserving
    BY <1>2
  <2>2. IsFiniteSet(Reserving') /\ Cardinality(Reserving') <= Cardinality(Reserving)
    BY <2>1, FS_Subset DEF SlotBooks
  <2>3. /\ Cardinality(Reserving) \in Nat /\ Cardinality(Reserving') \in Nat /\ reserved \in Nat
    BY <2>2, FS_CardinalityType DEF SlotBooks, TypeOK
  <2> QED BY <1>1, <2>2, <2>3 DEF SlotBooks
<1>8. NoLostWakeup'
  BY <1>1, <1>2, WakeupFrame
<1> QED BY <1>3, <1>4, <1>5, <1>6, <1>7, <1>8

\* The peer breaks a socket that was open.
LEMMA PeerClosesPoolInv ==
  ASSUME PoolInv, NEW k \in Conns, PeerCloses(k)
  PROVE  PoolInv'
<1> USE DEF PoolInv
<1>1. /\ socket[k] = "open" /\ socket' = [socket EXCEPT ![k] = "broken"]
      /\ UNCHANGED <<idle, all, active, reserved, capacity, shuttingDown, toClose>>
      /\ UNCHANGED <<pc, conn, stale, owes, notified>>
  BY DEF PeerCloses, poolVars, shutdownVars, clientVars
<1>2. /\ Busy' = Busy /\ Connecting' = Connecting /\ Reserving' = Reserving
      /\ Sleepers' = Sleepers /\ Booked' = Booked
  BY <1>1 DEF Busy, Connecting, Reserving, Sleepers, Booked, Owed
<1>3. /\ TypeOK' /\ Covered' = Covered
      /\ \A x \in Conns : socket'[x] # "none" => x \in Covered
  BY <1>1, <1>2 DEF TypeOK, SocketStates, PermitBooks, Covered, Stranded
<1>4. OneHolder' /\ HeldInPlace' /\ Handover'
  BY <1>1, <1>2, HolderFrame DEF HeldInPlace, Handover
<1>5. PermitBooks' /\ SlotBooks' /\ NoLostWakeup'
  BY <1>1, <1>2, <1>3, SlotFrame, WakeupFrame DEF PermitBooks
<1> QED BY <1>3, <1>4, <1>5

\* The shutdown takes all connections over.
LEMMA ShutdownPoolInv ==
  ASSUME PoolInv, Shutdown
  PROVE  PoolInv'
<1> USE DEF PoolInv
<1>1. /\ ~shuttingDown /\ shuttingDown' = TRUE /\ toClose' = all
      /\ idle' = <<>> /\ active' = {} /\ all' = {} /\ NotifyAll
      /\ UNCHANGED <<reserved, capacity, socket, pc, conn, stale, owes>>
  BY DEF Shutdown, clientVars
<1>2. /\ Busy' = Busy /\ Connecting' = Connecting /\ Reserving' = Reserving
      /\ Sleepers' = Sleepers
  BY <1>1 DEF Busy, Connecting, Reserving, Sleepers
<1>3. Booked' = Booked
  <2>1. Owed' = Owed /\ toClose = {}
    BY <1>1 DEF Owed, Handover
  <2> QED BY <1>1, <2>1 DEF Booked
<1>4. TypeOK'
  <2>1. shuttingDown' \in BOOLEAN /\ idle' \in Seq(Conns)
    BY <1>1, EmptySeq
  <2> QED BY <1>1, <2>1 DEF TypeOK, NotifyAll, Sleepers
<1>5. OneHolder'
  <2>1. \A d \in Clients : Held(d)' = Held(d)
    BY <1>1 DEF Held
  <2> QED BY <1>1, <2>1, EmptyElements DEF OneHolder
<1>6. HeldInPlace' /\ Handover'
  BY <1>1, <1>2 DEF HeldInPlace, Handover
<1>7. PermitBooks'
  BY <1>1, <1>2, <1>3, PermitFrame
<1>8. SlotBooks'
  <2>1. /\ Cardinality(all) \in Nat /\ reserved \in Nat /\ MaxSize \in Nat
    BY GatewayPoolAssumption, FS_CardinalityType DEF SlotBooks, TypeOK
  <2>2. IsFiniteSet(all') /\ Cardinality(all') = 0
    BY <1>1, FS_EmptySet
  <2> QED BY <1>1, <1>2, <2>1, <2>2 DEF SlotBooks
<1>9. NoLostWakeup'
  BY <1>1, <1>2, WakeupAll
<1> QED BY <1>4, <1>5, <1>6, <1>7, <1>8, <1>9

\* The shutdown closes one of them.
LEMMA ShutdownClosePoolInv ==
  ASSUME PoolInv, NEW k \in Conns, ShutdownClose(k)
  PROVE  PoolInv'
<1> USE DEF PoolInv
<1>1. /\ k \in toClose /\ toClose' = toClose \ {k}
      /\ socket' = [socket EXCEPT ![k] = "none"]
      /\ capacity' = IF capacity < MaxSize THEN capacity + 1 ELSE capacity
      /\ UNCHANGED <<idle, all, active, reserved, shuttingDown, pc, conn, stale, owes, notified>>
  BY DEF ShutdownClose, clientVars
<1>2. /\ Busy' = Busy /\ Connecting' = Connecting /\ Reserving' = Reserving
      /\ Sleepers' = Sleepers
  BY <1>1 DEF Busy, Connecting, Reserving, Sleepers
<1>3. k \in Covered /\ Covered' = Covered \ {k}
  <2>1. Owed' = Owed /\ k \notin Owed
    BY <1>1 DEF Owed, HeldInPlace
  <2>2. k \notin all
    BY <1>1 DEF Handover
  <2>3. Stranded' = Stranded \ {k}
    BY <1>1 DEF Stranded, TypeOK
  <2> QED BY <1>1, <2>1, <2>2, <2>3 DEF Covered, Booked
<1>4. PermitBooks' /\ capacity' \in 0..MaxSize
  <2>1. /\ MaxSize \in Nat /\ capacity \in 0..MaxSize /\ Cardinality(Covered) \in Nat
        /\ Cardinality(Connecting) \in Nat /\ Cardinality(Covered') \in Nat
        /\ IsFiniteSet(Covered') /\ Cardinality(Covered') = Cardinality(Covered) - 1
    BY <1>3, GatewayPoolAssumption, FS_RemoveElement, FS_CardinalityType DEF TypeOK, PermitBooks
  <2>2. \A x \in Conns : socket'[x] # "none" => x \in Covered'
    BY <1>1, <1>3 DEF PermitBooks, TypeOK
  <2>3. capacity' \in 0..MaxSize /\ capacity' <= capacity + 1
    BY <1>1, <2>1
  <2>4. capacity' + Cardinality(Covered') + Cardinality(Connecting') <= MaxSize
    BY <1>2, <2>1, <2>3 DEF PermitBooks
  <2> QED BY <1>2, <2>1, <2>2, <2>3, <2>4 DEF PermitBooks
<1>5. TypeOK'
  BY <1>1, <1>4 DEF TypeOK, SocketStates
<1>6. OneHolder' /\ HeldInPlace' /\ Handover'
  BY <1>1, <1>2, HolderFrame DEF HeldInPlace, Handover
<1>7. SlotBooks' /\ NoLostWakeup'
  BY <1>1, <1>2, SlotFrame, WakeupFrame
<1> QED BY <1>4, <1>5, <1>6, <1>7

\* Every step keeps the invariant.
LEMMA NextPoolInv == PoolInv /\ [Next]_vars => PoolInv'
<1> SUFFICES ASSUME PoolInv, [Next]_vars PROVE PoolInv'
  OBVIOUS
<1>1. CASE UNCHANGED vars
  BY <1>1 DEF vars, poolVars, shutdownVars, clientVars, PoolInv, TypeOK, OneHolder, Held,
     HeldInPlace, Busy, Handover, PermitBooks, Covered, Stranded, Booked, Owed, Connecting,
     SlotBooks, Reserving, NoLostWakeup, Sleepers, Room
<1>2. ASSUME NEW c \in Clients, Look(c) \/ TimeOut(c) PROVE PoolInv'
  BY <1>2, QuietPoolInv, LeasePoolInv, SweepPoolInv, ReservePoolInv DEF Look
<1>3. ASSUME NEW c \in Clients, SweepNext(c) PROVE PoolInv'
  BY <1>3, LastClosePoolInv, SweepNextPoolInv
<1>4. ASSUME NEW c \in Clients,
             \/ GetPermit(c) \/ Connect(c) \/ Release(c)
             \/ Discard(c) \/ FinishClose(c) \/ Cancelled(c)
      PROVE  PoolInv'
  BY <1>4, GetPermitPoolInv, ConnectFailsPoolInv, ConnectedPoolInv, ReleasePoolInv,
     DiscardPoolInv, LastClosePoolInv, CancelledPoolInv DEF Connect
<1>5. ASSUME NEW k \in Conns, PeerCloses(k) \/ ShutdownClose(k) PROVE PoolInv'
  BY <1>5, PeerClosesPoolInv, ShutdownClosePoolInv
<1>6. CASE Shutdown
  BY <1>6, ShutdownPoolInv
<1> QED BY <1>1, <1>2, <1>3, <1>4, <1>5, <1>6 DEF Next

\* The inductive invariant holds in every reachable state.
THEOREM PoolInvariant == Spec => []PoolInv
<1> QED BY InitPoolInv, NextPoolInv, PTL DEF Spec

-----------------------------------------------------------------------------
\* The properties that the runs check.

\* The pool's queue, sets, counters and clients have the values they are meant to have.
THEOREM PoolTypeCorrect == Spec => []TypeOK
<1>1. PoolInv => TypeOK
  BY DEF PoolInv
<1> QED BY <1>1, PoolInvariant, PTL

\* acquire, release, discard: one stream_chat call has a connection at a time, it is
\* not idle meanwhile, and no client closes the connection of another.
THEOREM LeasesAreExclusive == Spec => []ExclusiveLease
<1>1. PoolInv => ExclusiveLease
  <2> SUFFICES ASSUME PoolInv PROVE ExclusiveLease
    OBVIOUS
  <2>1. \A c \in Busy : c \in Clients /\ conn[c] \in Conns /\ conn[c] \in Held(c)
    BY DEF PoolInv, TypeOK, HeldInPlace, Busy, Held
  <2>2. \A c, d \in Busy : c # d => conn[c] # conn[d]
    BY <2>1 DEF PoolInv, OneHolder
  <2>3. \A c \in Busy : conn[c] \notin ToSet(idle)
    BY <2>1 DEF PoolInv, OneHolder
  <2> QED BY <2>2, <2>3 DEF PoolInv, OneHolder, Distinct, ExclusiveLease
<1> QED BY <1>1, PoolInvariant, PTL

\* gateway_pool_max_size bounds the slots in the books and the sockets in the world,
\* whatever is cancelled and whenever the shutdown comes.
THEOREM PoolStaysWithinSize == Spec => []WithinSize
<1>1. PoolInv => WithinSize
  <2> SUFFICES ASSUME PoolInv PROVE WithinSize
    OBVIOUS
  <2> DEFINE Existing == {k \in Conns : socket[k] # "none"}
  <2>1. Existing \in SUBSET Covered /\ IsFiniteSet(Covered)
    BY DEF PoolInv, PermitBooks
  <2>2. /\ Cardinality(Existing) <= Cardinality(Covered)
        /\ Cardinality(Existing) \in Nat /\ Cardinality(Covered) \in Nat
    BY <2>1, FS_Subset, FS_CardinalityType
  <2>3. Cardinality(Connecting) \in Nat /\ capacity \in Nat /\ MaxSize \in Nat
    BY GatewayPoolAssumption, FS_CardinalityType DEF PoolInv, PermitBooks, TypeOK
  <2> HIDE DEF Existing
  <2>4. capacity + Cardinality(Covered) + Cardinality(Connecting) <= MaxSize
    BY DEF PoolInv, PermitBooks
  <2>5. Cardinality(Existing) + Cardinality(Connecting) <= MaxSize - capacity
    BY <2>2, <2>3, <2>4
  <2> QED BY <2>5 DEF PoolInv, SlotBooks, WithinSize, Existing, Connecting
<1> QED BY <1>1, PoolInvariant, PTL

\* Whoever sleeps on the condition has nothing to wake up for: no release, discard,
\* failed connect or shutdown goes by without a notify_all for it.
THEOREM NobodySleepsOnWork == Spec => []NoLostWakeup
<1>1. PoolInv => NoLostWakeup
  BY DEF PoolInv
<1> QED BY <1>1, PoolInvariant, PTL

\* shutdown: no socket outlives the shutdown and the clients, but one whose client
\* was cancelled while it opened or closed it.
THEOREM ShutdownLeavesNoSocket == Spec => []ShutdownClosesAll
<1>1. PoolInv => ShutdownClosesAll
  <2> SUFFICES ASSUME PoolInv, shuttingDown, toClose = {}, \A c \in Clients : pc[c] = "out"
               PROVE  \A k \in Conns : socket[k] \in {"none", "stranded"}
    BY DEF ShutdownClosesAll
  <2>1. Owed = {}
    BY DEF PoolInv, HeldInPlace, Owed
  <2>2. Covered = Stranded
    BY <2>1 DEF PoolInv, Handover, Covered, Booked
  <2> QED BY <2>2 DEF PoolInv, PermitBooks, Stranded
<1> QED BY <1>1, PoolInvariant, PTL

-----------------------------------------------------------------------------
\* A pool that nobody uses serves again, if no cancellation loses a reservation.

\* What each slot is used by does not change.
LEMMA ServerStays ==
  ASSUME SlotsInUse, UNCHANGED <<all, reserved, shuttingDown>>, idle' = <<>> => idle = <<>>,
         Server \subseteq Server'
  PROVE  SlotsInUse'
<1> QED BY DEF SlotsInUse, Room

\* A client that takes something is what the slots are used by.
LEMMA Served ==
  ASSUME NEW c \in Clients,
         (pc'[c] = "leased" /\ conn'[c] \in all') \/ pc'[c] \in Creating
  PROVE  SlotsInUse'
<1> QED BY DEF SlotsInUse, Server

\* A client that leaves the server set alone and is not of it.
LEMMA OthersServe ==
  ASSUME TypeOK, NEW c \in Clients, c \notin Server, all' = all,
         \A d \in Clients \ {c} : pc'[d] = pc[d] /\ conn'[d] = conn[d]
  PROVE  Server \subseteq Server'
<1> QED BY DEF Server, Creating

\* Where no reservation is lost, a slot that is in use is used by somebody.
LEMMA LookKeepsSlots ==
  ASSUME PoolInv, SlotsInUse, NEW c \in Clients, Look(c) \/ TimeOut(c)
  PROVE  SlotsInUse'
<1> USE DEF PoolInv
<1>1. CASE Refused(c) \/ Sleep(c) \/ TimeOut(c)
  <2>1. /\ pc[c] \in {"out", "again", "waiting"}
        /\ UNCHANGED <<idle, all, reserved, shuttingDown, conn>>
        /\ \E where \in {"out", "waiting"} : pc' = [pc EXCEPT ![c] = where]
    BY <1>1, LooksIdle DEF Refused, Sleep, TimeOut, GoTo, poolVars, shutdownVars
  <2>2. c \notin Server /\ \A d \in Clients \ {c} : pc'[d] = pc[d] /\ conn'[d] = conn[d]
    BY <2>1 DEF Server, Creating, TypeOK
  <2> QED BY <2>1, <2>2, OthersServe, ServerStays
<1>2. CASE Lease(c)
  <2>1. PICK n \in 1..Len(idle) : conn' = [conn EXCEPT ![c] = idle[n]]
    BY <1>2 DEF Lease
  <2>2. idle[n] \in ToSet(idle)
    BY <2>1, SuffixElements DEF TypeOK, OneHolder
  <2>3. pc'[c] = "leased" /\ conn'[c] \in all'
    BY <1>2, <2>1, <2>2 DEF Lease, GoTo, OneHolder, TypeOK
  <2> QED BY <2>3, Served
<1>3. CASE Sweep(c)
  <2>1. /\ Head(idle) \in all /\ all' = all \ {Head(idle)}
        /\ reserved' = IF Room THEN reserved + 1 ELSE reserved
    BY <1>3, HeadTailElements DEF Sweep, TypeOK, OneHolder
  <2>2. Cardinality(all) \in Nat /\ Cardinality(all') = Cardinality(all) - 1
    BY <2>1, FS_RemoveElement, FS_CardinalityType DEF SlotBooks
  <2>3. reserved \in Nat /\ MaxSize \in Nat /\ Cardinality(all) + reserved <= MaxSize
    BY GatewayPoolAssumption DEF TypeOK, SlotBooks
  <2>4. Room'
    BY <2>1, <2>2, <2>3 DEF Room
  <2> QED BY <2>4 DEF SlotsInUse
<1>4. CASE Reserve(c)
  <2>1. pc'[c] \in Creating
    BY <1>4 DEF Reserve, GoTo, Creating, TypeOK
  <2> QED BY <2>1, Served
<1> QED BY <1>1, <1>2, <1>3, <1>4 DEF Look

\* A connection that leaves the pool leaves a free slot.
LEMMA DropKeepsSlots ==
  ASSUME PoolInv, SlotsInUse, NEW c \in Clients, NEW k, Drop(c, k), Reserving' = Reserving,
         UNCHANGED <<idle, reserved, shuttingDown>>, c \in Server => k \in all,
         \A d \in Clients \ {c} : pc'[d] = pc[d]
  PROVE  SlotsInUse'
<1> USE DEF PoolInv
<1>1. all' = all \ {k} /\ conn' = [conn EXCEPT ![c] = k]
  BY DEF Drop
<1>2. CASE k \in all
  <2>1. Room'
    BY <1>1, <1>2, SlotFreed
  <2> QED BY <2>1 DEF SlotsInUse
<1>3. CASE k \notin all
  <2>1. all' = all /\ c \notin Server /\ \A d \in Clients \ {c} : conn'[d] = conn[d]
    BY <1>1, <1>3 DEF TypeOK
  <2> QED BY <2>1, OthersServe, ServerStays
<1> QED BY <1>2, <1>3

\* The actions that close connections leave the slots in somebody's hands.
LEMMA CloseKeepsSlots ==
  ASSUME PoolInv, SlotsInUse, NEW c \in Clients, SweepNext(c) \/ Discard(c) \/ FinishClose(c)
  PROVE  SlotsInUse'
<1> USE DEF PoolInv
<1>1. CASE FinishClose(c) \/ (SweepNext(c) /\ stale[c] = <<>>)
  <2>1. /\ pc[c] \in {"closing", "sweeping"} /\ conn' = [conn EXCEPT ![c] = NoConn]
        /\ UNCHANGED <<idle, all, reserved, shuttingDown>>
        /\ \E where \in {"out", "again"} : pc' = [pc EXCEPT ![c] = where]
    BY <1>1 DEF FinishClose, SweepNext, GoTo, shutdownVars
  <2>2. /\ c \notin Server
        /\ \A d \in Clients \ {c} : pc'[d] = pc[d] /\ conn'[d] = conn[d]
    BY <2>1 DEF Server, Creating, TypeOK
  <2> QED BY <2>1, <2>2, OthersServe, ServerStays
<1>2. CASE SweepNext(c) /\ stale[c] # <<>>
  <2>1. /\ pc[c] = "sweeping" /\ Drop(c, Head(stale[c]))
        /\ UNCHANGED <<idle, reserved, shuttingDown, pc>>
    BY <1>2 DEF SweepNext, shutdownVars
  <2>2. c \notin Server /\ Reserving' = Reserving
    BY <2>1 DEF Server, Reserving, Creating
  <2> QED BY <2>1, <2>2, DropKeepsSlots
<1>3. CASE Discard(c)
  <2>1. /\ pc[c] = "leased" /\ Drop(c, conn[c]) /\ pc' = [pc EXCEPT ![c] = "closing"]
        /\ UNCHANGED <<idle, reserved, shuttingDown>>
    BY <1>3 DEF Discard, GoTo, shutdownVars
  <2>2. /\ c \in Server => conn[c] \in all
        /\ Reserving' = Reserving /\ \A d \in Clients \ {c} : pc'[d] = pc[d]
    BY <2>1 DEF Server, Reserving, Creating, TypeOK
  <2> QED BY <2>1, <2>2, DropKeepsSlots
<1> QED BY <1>1, <1>2, <1>3

\* So do the actions that open connections or give them back.
LEMMA ConnectKeepsSlots ==
  ASSUME PoolInv, SlotsInUse, NEW c \in Clients, GetPermit(c) \/ Connect(c) \/ Release(c)
  PROVE  SlotsInUse'
<1> USE DEF PoolInv
<1>1. CASE GetPermit(c)
  <2>1. pc'[c] \in Creating
    BY <1>1 DEF GetPermit, GoTo, Creating, TypeOK
  <2> QED BY <2>1, Served
<1>2. CASE ConnectFails(c)
  <2>1. /\ pc[c] = "connecting" /\ pc' = [pc EXCEPT ![c] = "out"] /\ Unreserved /\ all' = all
    BY <1>2 DEF ConnectFails, GoTo
  <2>2. c \in Reserving /\ Reserving' = Reserving \ {c}
    BY <2>1 DEF Reserving, Creating, TypeOK
  <2>3. reserved \in Nat /\ reserved' = reserved - 1
    BY <2>1, <2>2, ReservationBack
  <2>4. Cardinality(all) \in Nat /\ MaxSize \in Nat /\ Cardinality(all) + reserved <= MaxSize
    BY GatewayPoolAssumption, FS_CardinalityType DEF SlotBooks
  <2>5. Room'
    BY <2>1, <2>3, <2>4 DEF Room
  <2> QED BY <2>5 DEF SlotsInUse
<1>3. CASE Connected(c)
  <2>1. CASE shuttingDown
    BY <1>3, <2>1 DEF Connected, SlotsInUse, shutdownVars
  <2>2. CASE ~shuttingDown
    <3>1. pc'[c] = "leased" /\ conn'[c] \in all'
      BY <1>3, <2>2 DEF Connected, GoTo, TypeOK
    <3> QED BY <3>1, Served
  <2> QED BY <2>1, <2>2
<1>4. CASE Release(c)
  <2>1. idle' = Append(idle, conn[c]) /\ c \in Busy
    BY <1>4 DEF Release, Busy
  <2>2. conn[c] \in Conns /\ idle \in Seq(Conns)
    BY <2>1 DEF HeldInPlace, TypeOK
  <2>3. idle' # <<>>
    BY <2>1, <2>2, AppendProperties
  <2> QED BY <2>3 DEF SlotsInUse
<1> QED BY <1>1, <1>2, <1>3, <1>4 DEF Connect

\* A client that is cancelled while it sleeps, sweeps or closes has no reservation.
LEMMA CancelledKeepsSlots ==
  ASSUME PoolInv, SlotsInUse, NEW c \in Clients, Cancelled(c),
         CancelPoints \cap Creating = {}
  PROVE  SlotsInUse'
<1> USE DEF PoolInv
<1>1. /\ pc[c] \notin Creating /\ pc[c] # "leased"
      /\ conn' = [conn EXCEPT ![c] = NoConn] /\ pc' = [pc EXCEPT ![c] = "out"]
      /\ UNCHANGED <<idle, all, reserved, shuttingDown>>
  BY GatewayPoolAssumption DEF Cancelled, GoTo, poolVars, shutdownVars
<1>2. c \notin Server /\ \A d \in Clients \ {c} : pc'[d] = pc[d] /\ conn'[d] = conn[d]
  BY <1>1 DEF Server, TypeOK
<1> QED BY <1>1, <1>2, OthersServe, ServerStays

\* If no client is cancelled while it has a reservation (as in the configuration of
\* the run that checks it): whatever failed before, a pool that nobody uses has
\* something idle or room to connect.
THEOREM QuietPoolCanServe ==
  ASSUME CancelPoints \cap Creating = {}
  PROVE  Spec => []QuietPoolServes
<1>1. Init => SlotsInUse
  <2> SUFFICES ASSUME Init PROVE Room
    BY DEF SlotsInUse
  <2>1. Cardinality(all) = 0 /\ reserved = 0
    BY FS_EmptySet DEF Init
  <2> QED BY <2>1, GatewayPoolAssumption DEF Room
<1>2. PoolInv /\ SlotsInUse /\ [Next]_vars => SlotsInUse'
  <2> SUFFICES ASSUME PoolInv, SlotsInUse, [Next]_vars PROVE SlotsInUse'
    OBVIOUS
  <2>1. CASE UNCHANGED vars
    BY <2>1 DEF vars, poolVars, shutdownVars, clientVars, SlotsInUse, Room, Server
  <2>2. ASSUME NEW c \in Clients, Look(c) \/ TimeOut(c) PROVE SlotsInUse'
    BY <2>2, LookKeepsSlots
  <2>3. ASSUME NEW c \in Clients, SweepNext(c) \/ Discard(c) \/ FinishClose(c)
        PROVE  SlotsInUse'
    BY <2>3, CloseKeepsSlots
  <2>4. ASSUME NEW c \in Clients, GetPermit(c) \/ Connect(c) \/ Release(c) PROVE SlotsInUse'
    BY <2>4, ConnectKeepsSlots
  <2>5. ASSUME NEW c \in Clients, Cancelled(c) PROVE SlotsInUse'
    BY <2>5, CancelledKeepsSlots
  <2>6. ASSUME NEW k \in Conns, PeerCloses(k) PROVE SlotsInUse'
    <3>1. UNCHANGED <<idle, all, reserved, shuttingDown, pc, conn>>
      BY <2>6 DEF PeerCloses, poolVars, shutdownVars, clientVars
    <3> QED BY <3>1 DEF SlotsInUse, Room, Server
  <2>7. ASSUME NEW k \in Conns, ShutdownClose(k) PROVE SlotsInUse'
    <3>1. shuttingDown /\ UNCHANGED shuttingDown
      BY <2>7 DEF ShutdownClose, PoolInv, Handover
    <3> QED BY <3>1 DEF SlotsInUse
  <2>8. CASE Shutdown
    BY <2>8 DEF Shutdown, SlotsInUse
  <2> QED BY <2>1, <2>2, <2>3, <2>4, <2>5, <2>6, <2>7, <2>8 DEF Next
<1>3. SlotsInUse => QuietPoolServes
  BY DEF SlotsInUse, QuietPoolServes, Server, Creating
<1> QED BY <1>1, <1>2, <1>3, PoolInvariant, PTL DEF Spec

=============================================================================
