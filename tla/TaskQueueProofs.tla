-------------------------- MODULE TaskQueueProofs ---------------------------
(***************************************************************************)
(* Proofs about the task queue, for any runs, limits and arguments.  The   *)
(* inductive invariant adds three facts to the properties of the module:   *)
(* a task stands in at most one FIFO, once, and only while it waits for a  *)
(* permit it does not own, and only such a one was woken; a task that has  *)
(* not begun or is over owns no permit; and one that executes owns its     *)
(* whole chain.  The first half is about one semaphore at a time: what     *)
(* each of its operations does to its permits and to those who wait.       *)
(***************************************************************************)
EXTENDS TaskQueue, FiniteSetTheorems, SequenceTheorems, TLAPS

-----------------------------------------------------------------------------
\* Sequences without repetition.

Distinct(q) == \A i, j \in 1..Len(q) : q[i] = q[j] => i = j

\* A nonempty set of numbers has a least one: of the waiters of a semaphore, one is first.
LEMMA LeastIndex ==
  ASSUME NEW S \in SUBSET Nat, S # {}
  PROVE  \E i \in S : \A j \in S : i <= j
<1>1. PICK i \in S : \A j \in S : ~(<<j, i>> \in OpToRel(<, Nat))
  BY NatLessThanWellFounded, WFMin
<1>2. \A j \in S : j < i => <<j, i>> \in OpToRel(<, Nat)
  BY DEF OpToRel
<1>3. \A j \in S : ~(j < i)
  BY <1>1, <1>2
<1> QED BY <1>3

\* What is left in a FIFO, and where, when one entry is taken out.
LEMMA RemoveAtProperties ==
  ASSUME NEW S, NEW q \in Seq(S), NEW i \in 1..Len(q)
  PROVE  /\ RemoveAt(q, i) \in Seq(S)
         /\ Len(RemoveAt(q, i)) = Len(q) - 1
         /\ \A j \in 1..(Len(q) - 1) :
              RemoveAt(q, i)[j] = IF j < i THEN q[j] ELSE q[j + 1]
<1> DEFINE front == SubSeq(q, 1, i - 1)
           back == SubSeq(q, i + 1, Len(q))
<1>1. Len(q) \in Nat /\ \A j \in 1..Len(q) : q[j] \in S
  BY LenProperties, ElementOfSeq
<1>2. /\ front \in Seq(S) /\ Len(front) = i - 1
      /\ \A j \in 1..(i - 1) : front[j] = q[j]
  BY <1>1, SubSeqProperties
<1>3. /\ back \in Seq(S) /\ Len(back) = Len(q) - i
      /\ \A j \in 1..(Len(q) - i) : back[j] = q[i + j]
  BY <1>1, SubSeqProperties
<1> HIDE DEF front, back
<1>4. /\ front \o back \in Seq(S)
      /\ Len(front \o back) = Len(front) + Len(back)
      /\ \A j \in 1..(Len(front) + Len(back)) :
           (front \o back)[j] = IF j <= Len(front) THEN front[j] ELSE back[j - Len(front)]
  BY <1>2, <1>3, ConcatProperties
<1>5. ASSUME NEW j \in 1..(Len(q) - 1)
      PROVE  (front \o back)[j] = IF j < i THEN q[j] ELSE q[j + 1]
  <2>1. CASE j < i
    BY <1>1, <1>2, <1>3, <1>4, <2>1
  <2>2. CASE ~(j < i)
    <3>1. j - Len(front) \in 1..(Len(q) - i) /\ i + (j - Len(front)) = j + 1
      BY <1>1, <1>2, <2>2
    <3>2. (front \o back)[j] = back[j - Len(front)]
      BY <1>1, <1>2, <1>3, <1>4, <2>2
    <3> QED BY <1>3, <2>2, <3>1, <3>2
  <2> QED BY <2>1, <2>2
<1>6. RemoveAt(q, i) = front \o back
  BY DEF RemoveAt, front, back
<1>7. Len(front \o back) = Len(q) - 1
  BY <1>1, <1>2, <1>3, <1>4
<1> QED BY <1>4, <1>5, <1>6, <1>7

\* Taking an entry out of a FIFO takes its task out, and no other.
LEMMA RemoveAtElements ==
  ASSUME NEW S, NEW q \in Seq(S), NEW k \in 1..Len(q), Distinct(q)
  PROVE  /\ RemoveAt(q, k) \in Seq(S)
         /\ ToSet(RemoveAt(q, k)) = ToSet(q) \ {q[k]}
         /\ Distinct(RemoveAt(q, k))
<1> DEFINE w == RemoveAt(q, k)
           old(j) == IF j < k THEN j ELSE j + 1
<1>1. /\ Len(q) \in Nat /\ DOMAIN q = 1..Len(q)
      /\ w \in Seq(S) /\ Len(w) = Len(q) - 1 /\ DOMAIN w = 1..(Len(q) - 1)
      /\ \A j \in 1..(Len(q) - 1) : w[j] = IF j < k THEN q[j] ELSE q[j + 1]
  BY RemoveAtProperties, LenProperties
<1> HIDE DEF w
<1>2. \A j \in 1..(Len(q) - 1) :
        old(j) \in 1..Len(q) /\ old(j) # k /\ w[j] = q[old(j)]
  BY <1>1
<1>3. \A i \in 1..Len(q) : i # k => \E j \in 1..(Len(q) - 1) : old(j) = i
  <2> TAKE i \in 1..Len(q)
  <2> HAVE i # k
  <2>1. CASE i < k
    <3>1. i \in 1..(Len(q) - 1) /\ old(i) = i
      BY <1>1, <2>1
    <3> QED BY <3>1
  <2>2. CASE ~(i < k)
    <3>1. i - 1 \in 1..(Len(q) - 1) /\ old(i - 1) = i
      BY <1>1, <2>2
    <3> QED BY <3>1
  <2> QED BY <2>1, <2>2
<1>4. \A i, j \in 1..(Len(q) - 1) : old(i) = old(j) => i = j
  BY <1>1
<1> HIDE DEF old
<1>5. ToSet(w) = ToSet(q) \ {q[k]}
  <2>1. ToSet(w) \subseteq ToSet(q) \ {q[k]}
    BY <1>1, <1>2 DEF ToSet, Distinct
  <2>2. ASSUME NEW x \in ToSet(q) \ {q[k]}
        PROVE  x \in ToSet(w)
    <3>1. PICK i \in 1..Len(q) : q[i] = x
      BY <1>1 DEF ToSet
    <3>2. PICK j \in 1..(Len(q) - 1) : old(j) = i
      BY <1>3, <3>1
    <3>3. w[j] = x
      BY <1>2, <3>1, <3>2
    <3> QED BY <1>1, <3>3 DEF ToSet
  <2> QED BY <2>1, <2>2
<1>6. Distinct(w)
  BY <1>1, <1>2, <1>4 DEF Distinct
<1> QED BY <1>1, <1>5, <1>6 DEF w

\* A task that was in no FIFO stands last in the one it joins.
LEMMA AppendElements ==
  ASSUME NEW S, NEW q \in Seq(S), NEW x \in S, Distinct(q), x \notin ToSet(q)
  PROVE  /\ Append(q, x) \in Seq(S)
         /\ ToSet(Append(q, x)) = ToSet(q) \cup {x}
         /\ Distinct(Append(q, x))
<1> DEFINE w == Append(q, x)
<1>1. /\ Len(q) \in Nat /\ DOMAIN q = 1..Len(q)
      /\ w \in Seq(S) /\ Len(w) = Len(q) + 1 /\ DOMAIN w = 1..(Len(q) + 1)
      /\ \A j \in 1..Len(q) : w[j] = q[j]
      /\ w[Len(q) + 1] = x
  BY AppendProperties, LenProperties
<1> HIDE DEF w
<1>2. \A j \in 1..(Len(q) + 1) : j \in 1..Len(q) \/ j = Len(q) + 1
  BY <1>1
<1>3. \A j \in 1..Len(q) : j \in 1..(Len(q) + 1)
  BY <1>1
<1>4. Len(q) + 1 \in 1..(Len(q) + 1)
  BY <1>1
<1>5. ToSet(w) = ToSet(q) \cup {x}
  BY <1>1, <1>2, <1>3, <1>4 DEF ToSet
<1>6. \A j \in 1..Len(q) : w[j] # x
  BY <1>1 DEF ToSet
<1>7. Distinct(w)
  BY <1>1, <1>2, <1>6 DEF Distinct
<1> QED BY <1>1, <1>5, <1>7 DEF w

-----------------------------------------------------------------------------
\* One semaphore.

\* Only waiters are woken, and no task stands in the FIFO twice.
Sound(m) ==
  /\ m \in [value: Nat, fifo: Seq(Runs), woken: SUBSET Runs]
  /\ Distinct(m.fifo)
  /\ m.woken \subseteq ToSet(m.fifo)

\* Its permits that no task owns: the free ones and those of its woken waiters.
Unowned(m) == m.value + Cardinality(m.woken)

\* What NoIdlePermit says of it.
Vigilant(m) == m.value > 0 /\ Pending(m) # {} => m.woken # {}

\* Every set of runs is finite.
LEMMA RunSets ==
  ASSUME NEW S \in SUBSET Runs
  PROVE  IsFiniteSet(S) /\ Cardinality(S) \in Nat
<1> QED BY TaskQueueAssumption, FS_Subset, FS_CardinalityType

\* The tasks of a FIFO are runs, and each has a place of its own.
LEMMA PlaceFacts ==
  ASSUME NEW q \in Seq(Runs)
  PROVE  /\ DOMAIN q = 1..Len(q) /\ Len(q) \in Nat /\ ToSet(q) \subseteq Runs
         /\ \A r \in ToSet(q) : IndexOf(q, r) \in 1..Len(q) /\ q[IndexOf(q, r)] = r
<1>1. DOMAIN q = 1..Len(q) /\ Len(q) \in Nat
  BY LenProperties
<1>2. ToSet(q) \subseteq Runs
  BY <1>1, ElementOfSeq DEF ToSet
<1>3. \A r \in ToSet(q) : \E i \in 1..Len(q) : q[i] = r
  BY <1>1 DEF ToSet
<1>4. \A r \in ToSet(q) : IndexOf(q, r) \in 1..Len(q) /\ q[IndexOf(q, r)] = r
  BY <1>3 DEF IndexOf
<1> QED BY <1>1, <1>2, <1>4

\* Of some waiters, one stands before and one behind all others.
LEMMA Ends ==
  ASSUME NEW q \in Seq(Runs), NEW S \in SUBSET ToSet(q), S # {}
  PROVE  /\ \E p \in S : \A x \in S : IndexOf(q, p) <= IndexOf(q, x)
         /\ \E p \in S : \A x \in S : IndexOf(q, x) <= IndexOf(q, p)
<1> DEFINE at(x) == IndexOf(q, x)
           fromEnd(x) == Len(q) - IndexOf(q, x)
<1>1. \A x \in S : at(x) \in Nat /\ fromEnd(x) \in Nat /\ fromEnd(x) = Len(q) - at(x)
  BY PlaceFacts
<1>2. Len(q) \in Nat
  BY PlaceFacts
<1> HIDE DEF at, fromEnd
<1>3. \E p \in S : \A x \in S : at(p) <= at(x)
  <2>1. {at(x) : x \in S} \in SUBSET Nat /\ {at(x) : x \in S} # {}
    BY <1>1
  <2>2. PICK i \in {at(x) : x \in S} : \A j \in {at(x) : x \in S} : i <= j
    BY <2>1, LeastIndex
  <2> QED BY <2>2
<1>4. \E p \in S : \A x \in S : fromEnd(p) <= fromEnd(x)
  <2>1. {fromEnd(x) : x \in S} \in SUBSET Nat /\ {fromEnd(x) : x \in S} # {}
    BY <1>1
  <2>2. PICK i \in {fromEnd(x) : x \in S} : \A j \in {fromEnd(x) : x \in S} : i <= j
    BY <2>1, LeastIndex
  <2> QED BY <2>2
<1>5. \E p \in S : \A x \in S : at(x) <= at(p)
  <2>1. PICK p \in S : \A x \in S : fromEnd(p) <= fromEnd(x)
    BY <1>4
  <2>2. ASSUME NEW x \in S PROVE at(x) <= at(p)
    <3>1. fromEnd(p) <= fromEnd(x)
      BY <2>1
    <3>2. /\ at(x) \in Nat /\ at(p) \in Nat
          /\ fromEnd(x) = Len(q) - at(x) /\ fromEnd(p) = Len(q) - at(p)
      BY <1>1
    <3> QED BY <1>2, <3>1, <3>2
  <2> QED BY <2>2
<1> QED BY <1>3, <1>5 DEF at

\* The first k waiters are k, or all that are pending if those are fewer.
LEMMA FirstFacts ==
  ASSUME NEW m, Sound(m), NEW k \in Nat
  PROVE  /\ First(m, k) \subseteq Pending(m) /\ Pending(m) \subseteq ToSet(m.fifo)
         /\ ToSet(m.fifo) \subseteq Runs
         /\ Cardinality(First(m, k)) \in Nat /\ Cardinality(First(m, k)) <= k
         /\ Cardinality(First(m, k)) = k \/ First(m, k) = Pending(m)
<1> DEFINE P == Pending(m)
           F == First(m, k)
           Before(q) == {p \in P : IndexOf(m.fifo, p) < IndexOf(m.fifo, q)}
<1>1. m.fifo \in Seq(Runs)
  BY DEF Sound
<1>2. ToSet(m.fifo) \subseteq Runs /\ P \subseteq ToSet(m.fifo)
  BY <1>1, PlaceFacts DEF Pending
<1>3. F = {q \in P : Cardinality(Before(q)) < k}
  BY DEF First
<1>4. \A x, y \in P : IndexOf(m.fifo, x) \in Nat /\ (IndexOf(m.fifo, x) = IndexOf(m.fifo, y) => x = y)
  BY <1>1, <1>2, PlaceFacts
<1>5. \A q : Before(q) \subseteq P
  OBVIOUS
<1> HIDE DEF F, P
<1>6. F \subseteq P /\ F \in SUBSET Runs /\ P \in SUBSET Runs
  BY <1>2, <1>3
<1>7. IsFiniteSet(F) /\ Cardinality(F) \in Nat
  BY <1>6, RunSets
<1>8. Cardinality(F) <= k
  <2>1. CASE F = {}
    BY <2>1, FS_EmptySet
  <2>2. CASE F # {}
    <3>1. PICK last \in F : \A x \in F : IndexOf(m.fifo, x) <= IndexOf(m.fifo, last)
      BY <1>1, <1>2, <1>6, <2>2, Ends
    <3>2. F \ {last} \subseteq Before(last)
      <4>1. \A x \in F \ {last} : /\ IndexOf(m.fifo, x) <= IndexOf(m.fifo, last)
                                  /\ IndexOf(m.fifo, x) # IndexOf(m.fifo, last)
                                  /\ IndexOf(m.fifo, x) \in Nat
                                  /\ IndexOf(m.fifo, last) \in Nat
        BY <1>4, <1>6, <3>1
      <4> QED BY <1>6, <4>1
    <3>3. Before(last) \in SUBSET Runs
      BY <1>6
    <3>4. Cardinality(F \ {last}) = Cardinality(F) - 1
      BY <1>7, FS_RemoveElement
    <3>5. /\ Cardinality(F \ {last}) <= Cardinality(Before(last))
          /\ Cardinality(Before(last)) \in Nat
      BY <3>2, <3>3, RunSets, FS_Subset
    <3>6. Cardinality(Before(last)) < k
      BY <1>3
    <3> QED BY <1>7, <3>4, <3>5, <3>6
  <2> QED BY <2>1, <2>2
<1>9. ASSUME F # P PROVE k <= Cardinality(F)
  <2>1. P \ F # {} /\ P \ F \in SUBSET ToSet(m.fifo)
    BY <1>2, <1>6, <1>9
  <2>2. PICK next \in P \ F : \A x \in P \ F : IndexOf(m.fifo, next) <= IndexOf(m.fifo, x)
    BY <1>1, <2>1, Ends
  <2>3. Before(next) \subseteq F
    <3>1. \A x \in Before(next) : /\ IndexOf(m.fifo, x) < IndexOf(m.fifo, next)
                                  /\ IndexOf(m.fifo, x) \in Nat
                                  /\ IndexOf(m.fifo, next) \in Nat
      BY <1>4, <2>2
    <3> QED BY <2>2, <3>1
  <2>4. Before(next) \in SUBSET Runs
    BY <1>6
  <2>5. Cardinality(Before(next)) <= Cardinality(F) /\ Cardinality(Before(next)) \in Nat
    BY <1>7, <2>3, <2>4, RunSets, FS_Subset
  <2>6. ~(Cardinality(Before(next)) < k)
    BY <1>3, <2>2
  <2> QED BY <1>7, <2>5, <2>6
<1> QED BY <1>2, <1>6, <1>7, <1>8, <1>9 DEF F, P

\* Waking moves free permits to waiters that had none: no permit is lost, nobody
\* leaves the FIFO, and a waiter is left over only if nothing is free or another
\* was woken.
LEMMA WakeUpFacts ==
  ASSUME NEW m, Sound(m), NEW k \in Nat, k <= m.value
  PROVE  /\ Sound(WakeUp(m, k))
         /\ WakeUp(m, k).fifo = m.fifo
         /\ Unowned(WakeUp(m, k)) = Unowned(m)
         /\ k = m.value \/ k > 0 => Vigilant(WakeUp(m, k))
<1> DEFINE F == First(m, k)
           w == WakeUp(m, k)
<1>1. /\ F \subseteq Pending(m) /\ F \subseteq ToSet(m.fifo) /\ F \in SUBSET Runs
      /\ Cardinality(F) \in Nat /\ Cardinality(F) <= k
      /\ Cardinality(F) = k \/ F = Pending(m)
  BY FirstFacts
<1>2. m.value \in Nat /\ m.fifo \in Seq(Runs) /\ m.woken \in SUBSET Runs
  BY DEF Sound
<1>3. w = [m EXCEPT !.value = @ - Cardinality(F), !.woken = @ \cup F]
  BY DEF WakeUp
<1>4. F \cap m.woken = {}
  BY <1>1 DEF Pending
<1> HIDE DEF F, w
<1>5. /\ w.value = m.value - Cardinality(F) /\ w.value \in Nat
      /\ w.fifo = m.fifo /\ w.woken = m.woken \cup F
      /\ w \in [value: Nat, fifo: Seq(Runs), woken: SUBSET Runs]
  <2>1. m \in [value: Nat, fifo: Seq(Runs), woken: SUBSET Runs]
    BY DEF Sound
  <2>2. /\ w.value = m.value - Cardinality(F)
        /\ w.fifo = m.fifo /\ w.woken = m.woken \cup F
        /\ DOMAIN w = {"value", "fifo", "woken"}
        /\ w = [x \in {"value", "fifo", "woken"} |-> w[x]]
    BY <1>3, <2>1
  <2>3. m.value - Cardinality(F) \in Nat
    BY <1>1, <1>2
  <2> QED BY <1>1, <1>2, <2>2, <2>3
<1>6. Sound(w)
  BY <1>1, <1>2, <1>5 DEF Sound
<1>7. Unowned(w) = Unowned(m)
  <2>1. Cardinality(m.woken \cup F) =
          Cardinality(m.woken) + Cardinality(F) - Cardinality(m.woken \cap F)
    BY <1>1, <1>2, RunSets, FS_Union
  <2>2. Cardinality(m.woken \cap F) = 0
    BY <1>4, FS_EmptySet
  <2>3. Cardinality(m.woken) \in Nat
    BY <1>2, RunSets
  <2> QED BY <1>1, <1>2, <1>5, <2>1, <2>2, <2>3 DEF Unowned
<1>8. ASSUME k = m.value \/ k > 0, w.value > 0, Pending(w) # {}
      PROVE  w.woken # {}
  <2>1. CASE F = Pending(m)
    <3>1. Pending(w) = {}
      BY <1>5, <2>1 DEF Pending
    <3> QED BY <1>8, <3>1
  <2>2. CASE Cardinality(F) = k
    <3>1. k > 0
      BY <1>2, <1>5, <1>8, <2>2
    <3>2. F # {}
      BY <2>2, <3>1, FS_EmptySet
    <3> QED BY <1>5, <3>2
  <2> QED BY <1>1, <2>1, <2>2
<1>9. k = m.value \/ k > 0 => Vigilant(w)
  BY <1>8 DEF Vigilant
<1> QED BY <1>5, <1>6, <1>7, <1>9 DEF w

\* release() makes one permit more.
LEMMA ReleaseFacts ==
  ASSUME NEW m, Sound(m)
  PROVE  /\ Sound(Release(m)) /\ Release(m).fifo = m.fifo
         /\ Unowned(Release(m)) = Unowned(m) + 1
         /\ Vigilant(Release(m))
<1> DEFINE more == [m EXCEPT !.value = @ + 1]
<1>1. /\ m.value \in Nat /\ Cardinality(m.woken) \in Nat
      /\ more.value = m.value + 1 /\ more.fifo = m.fifo /\ more.woken = m.woken
      /\ more \in [value: Nat, fifo: Seq(Runs), woken: SUBSET Runs]
  BY RunSets DEF Sound
<1> HIDE DEF more
<1>2. Sound(more) /\ Unowned(more) = Unowned(m) + 1
  BY <1>1 DEF Sound, Unowned
<1>3. 1 \in Nat /\ 1 <= more.value /\ 1 > 0
  BY <1>1
<1>4. Release(m) = WakeUp(more, 1)
  BY DEF Release, more
<1> QED BY <1>1, <1>2, <1>3, <1>4, WakeUpFacts

\* A task takes a permit at once only if nobody waits.
LEMMA TakenFacts ==
  ASSUME NEW m, Sound(m), ~Locked(m)
  PROVE  /\ Sound(Taken(m)) /\ Taken(m).fifo = m.fifo
         /\ Unowned(Taken(m)) = Unowned(m) - 1
         /\ Vigilant(Taken(m))
<1>1. /\ m.value \in Nat /\ m.value # 0 /\ Cardinality(m.woken) \in Nat
      /\ Taken(m) = [value |-> m.value - 1, fifo |-> m.fifo, woken |-> m.woken]
  BY RunSets DEF Sound, Locked, Taken
<1>2. Sound(Taken(m)) /\ Unowned(Taken(m)) = Unowned(m) - 1
  BY <1>1 DEF Sound, Unowned
<1>3. Pending(Taken(m)) = {}
  BY <1>1 DEF Pending, Locked
<1> QED BY <1>1, <1>2, <1>3 DEF Vigilant

\* A task joins the FIFO only if nothing is free or somebody is still to run.
LEMMA JoinedFacts ==
  ASSUME NEW m, Sound(m), Locked(m), Vigilant(m), NEW r \in Runs, r \notin ToSet(m.fifo)
  PROVE  /\ Sound(Joined(m, r)) /\ ToSet(Joined(m, r).fifo) = ToSet(m.fifo) \cup {r}
         /\ Unowned(Joined(m, r)) = Unowned(m)
         /\ Vigilant(Joined(m, r))
<1>1. /\ m.value \in Nat /\ m.fifo \in Seq(Runs) /\ Distinct(m.fifo)
      /\ m.woken \in SUBSET Runs /\ m.woken \subseteq ToSet(m.fifo)
  BY DEF Sound
<1>2. /\ Append(m.fifo, r) \in Seq(Runs) /\ Distinct(Append(m.fifo, r))
      /\ ToSet(Append(m.fifo, r)) = ToSet(m.fifo) \cup {r}
  BY <1>1, AppendElements
<1>3. /\ Joined(m, r).value = m.value /\ Joined(m, r).woken = m.woken
      /\ Joined(m, r).fifo = Append(m.fifo, r)
      /\ Joined(m, r) \in [value: Nat, fifo: Seq(Runs), woken: SUBSET Runs]
  <2>1. m \in [value: Nat, fifo: Seq(Runs), woken: SUBSET Runs]
    BY DEF Sound
  <2> DEFINE f == Append(m.fifo, r)
  <2>2. Joined(m, r) = [m EXCEPT !.fifo = f] /\ f \in Seq(Runs)
    BY <1>2 DEF Joined
  <2> HIDE DEF f
  <2>3. /\ Joined(m, r).value = m.value /\ Joined(m, r).woken = m.woken
        /\ Joined(m, r).fifo = f
        /\ Joined(m, r) \in [value: Nat, fifo: Seq(Runs), woken: SUBSET Runs]
    BY <2>1, <2>2
  <2> QED BY <2>3 DEF f
<1>4. Sound(Joined(m, r))
  BY <1>1, <1>2, <1>3 DEF Sound
<1>5. ASSUME m.value > 0 PROVE m.woken # {}
  <2>1. PICK q \in ToSet(m.fifo) : q \in m.woken \/ ~cancelReq[q]
    BY <1>1, <1>5 DEF Locked
  <2> QED BY <1>5, <2>1 DEF Vigilant, Pending
<1>6. Vigilant(Joined(m, r))
  BY <1>3, <1>5 DEF Vigilant
<1> QED BY <1>2, <1>3, <1>4, <1>6 DEF Unowned

\* A waiter that runs again takes the permit it was woken with along, or leaves
\* all of them there if it is cancelled; nobody who can be woken is left asleep.
LEMMA DepartedFacts ==
  ASSUME NEW m, Sound(m), NEW r \in ToSet(m.fifo)
  PROVE  /\ Sound(Departed(m, r)) /\ ToSet(Departed(m, r).fifo) = ToSet(m.fifo) \ {r}
         /\ Unowned(Departed(m, r)) =
              IF r \in m.woken /\ ~cancelReq[r] THEN Unowned(m) - 1 ELSE Unowned(m)
         /\ Vigilant(Departed(m, r))
<1>1. /\ m.value \in Nat /\ m.fifo \in Seq(Runs) /\ Distinct(m.fifo)
      /\ m.woken \in SUBSET Runs /\ m.woken \subseteq ToSet(m.fifo)
  BY DEF Sound
<1>2. /\ RemoveAt(m.fifo, IndexOf(m.fifo, r)) \in Seq(Runs)
      /\ ToSet(RemoveAt(m.fifo, IndexOf(m.fifo, r))) = ToSet(m.fifo) \ {r}
      /\ Distinct(RemoveAt(m.fifo, IndexOf(m.fifo, r)))
  <2>1. IndexOf(m.fifo, r) \in 1..Len(m.fifo) /\ m.fifo[IndexOf(m.fifo, r)] = r
    BY <1>1, PlaceFacts
  <2> QED BY <1>1, <2>1, RemoveAtElements
<1>3. /\ Left(m, r).value = IF r \in m.woken /\ cancelReq[r] THEN m.value + 1 ELSE m.value
      /\ Left(m, r).fifo = RemoveAt(m.fifo, IndexOf(m.fifo, r))
      /\ Left(m, r).woken = m.woken \ {r}
      /\ Left(m, r).value \in Nat
      /\ Left(m, r) \in [value: Nat, fifo: Seq(Runs), woken: SUBSET Runs]
  BY <1>1, <1>2 DEF Left
<1>4. Sound(Left(m, r))
  BY <1>1, <1>2, <1>3 DEF Sound
<1>5. Unowned(Left(m, r)) = IF r \in m.woken /\ ~cancelReq[r] THEN Unowned(m) - 1 ELSE Unowned(m)
  <2>1. IsFiniteSet(m.woken) /\ Cardinality(m.woken) \in Nat
    BY <1>1, RunSets
  <2>2. CASE r \in m.woken
    <3>1. Cardinality(m.woken \ {r}) = Cardinality(m.woken) - 1
      BY <2>1, <2>2, FS_RemoveElement
    <3>2. /\ Unowned(m) = m.value + Cardinality(m.woken)
          /\ Unowned(Left(m, r)) = Left(m, r).value + Cardinality(m.woken) - 1
      BY <1>1, <1>3, <2>1, <3>1 DEF Unowned
    <3>3. CASE cancelReq[r]
      <4>1. Left(m, r).value = m.value + 1
        BY <1>3, <2>2, <3>3
      <4> QED BY <1>1, <2>1, <3>2, <3>3, <4>1
    <3>4. CASE ~cancelReq[r]
      <4>1. Left(m, r).value = m.value
        BY <1>3, <2>2, <3>4
      <4> QED BY <1>1, <2>1, <2>2, <3>2, <3>4, <4>1
    <3> QED BY <3>3, <3>4
  <2>3. CASE r \notin m.woken
    <3>1. m.woken \ {r} = m.woken
      BY <2>3
    <3> QED BY <1>3, <2>3, <3>1 DEF Unowned
  <2> QED BY <2>2, <2>3
<1>6. Left(m, r).value <= Left(m, r).value
  BY <1>3
<1>7. /\ Sound(Departed(m, r)) /\ Departed(m, r).fifo = Left(m, r).fifo
      /\ Unowned(Departed(m, r)) = Unowned(Left(m, r))
      /\ Vigilant(Departed(m, r))
  BY <1>3, <1>4, <1>6, WakeUpFacts DEF Departed
<1> QED BY <1>2, <1>3, <1>5, <1>7

-----------------------------------------------------------------------------
\* The inductive invariant.

\* A task in a FIFO waits there for a permit it does not own.
WaitersWait ==
  \A s \in Semaphores : \A q \in ToSet(sem[s].fifo) : pc[q] = "waiting" /\ s \notin permits[q]

\* A task waits for one permit at a time.
OneQueue ==
  \A s, t \in Semaphores : \A q \in Runs :
    q \in ToSet(sem[s].fifo) /\ q \in ToSet(sem[t].fifo) => s = t

\* Who owns permits: nobody who has not begun or is over, and who executes, all.
OwnersAreBusy ==
  \A r \in Runs :
    /\ pc[r] \in {"idle", "created", "done"} => permits[r] = {}
    /\ pc[r] = "running" => Chain(r) \subseteq permits[r]

NothingAfterStop == phase = "stopped" => \A r \in Runs : pc[r] \in {"idle", "done"}

\* What the semaphores and the tasks' program counters have to do with each other.
PermitInv ==
  /\ pc \in [Runs -> Live \cup {"idle", "done"}]
  /\ permits \in [Runs -> SUBSET Semaphores]
  /\ sem \in [Semaphores -> [value: Nat, fifo: Seq(Runs), woken: SUBSET Runs]]
  /\ \A s \in Semaphores : Sound(sem[s])
  /\ WaitersWait
  /\ OneQueue
  /\ OwnersAreBusy
  /\ PermitsConserved

QueueInv == TypeOK /\ PermitInv /\ NoIdlePermit /\ Reachable /\ NothingAfterStop

-----------------------------------------------------------------------------
\* Facts about the constants and about single states.

\* Every run needs at least a conversation's permit and the process's, and every
\* semaphore has at least one.
LEMMA SemaphoreFacts ==
  /\ Global \in Semaphores
  /\ \A r \in Runs : Chain(r) \subseteq Semaphores /\ Global \in Chain(r)
  /\ \A s \in Semaphores : Limit(s) \in Nat \ {0}
<1>1. Global \in Semaphores
  BY DEF Semaphores, Global
<1>2. ASSUME NEW r \in Runs
      PROVE  Chain(r) \subseteq Semaphores /\ Global \in Chain(r)
  <2>1. <<"conversation", ConversationOf[r]>> \in Semaphores
    BY TaskQueueAssumption DEF Semaphores
  <2>2. \A a \in {AgentOf[r]} \ {None} : <<"agent", a>> \in Semaphores
    BY TaskQueueAssumption DEF Semaphores
  <2>3. \A u \in {UserOf[r]} \ {None} : <<"user", u>> \in Semaphores
    BY TaskQueueAssumption DEF Semaphores
  <2> QED BY <1>1, <2>1, <2>2, <2>3 DEF Chain
<1>3. ASSUME NEW s \in Semaphores
      PROVE  Limit(s) \in Nat \ {0}
  <2>1. PerConversation \in Int /\ PerAgent \in Int /\ PerUser \in Int /\ GlobalChat \in Int
    BY TaskQueueAssumption
  <2>2. \A n \in Int : AtLeastOne(n) \in Nat \ {0}
    BY DEF AtLeastOne
  <2>3. Limit(s) \in {AtLeastOne(PerConversation), AtLeastOne(PerAgent),
                      AtLeastOne(PerUser), AtLeastOne(GlobalChat)}
    BY DEF Limit
  <2> QED BY <2>1, <2>2, <2>3
<1> QED BY <1>1, <1>2, <1>3

\* Who stands in a FIFO is a run, waits, and does not own the permit.
LEMMA StandFacts ==
  ASSUME PermitInv, NEW s \in Semaphores, NEW q \in ToSet(sem[s].fifo)
  PROVE  q \in Runs /\ pc[q] = "waiting" /\ s \notin permits[q]
<1>1. sem[s].fifo \in Seq(Runs)
  BY DEF PermitInv, Sound
<1>2. q \in Runs
  BY <1>1, PlaceFacts
<1> QED BY <1>2 DEF PermitInv, WaitersWait

\* A task that goes on stands only where it was woken.
LEMMA WokenFacts ==
  ASSUME PermitInv, NEW r \in Runs
  PROVE  /\ Woken(r) \subseteq StandsIn(r)
         /\ pc[r] # "waiting" => StandsIn(r) = {}
         /\ Woken(r) # {} => StandsIn(r) = Woken(r)
<1>1. Woken(r) \subseteq StandsIn(r)
  BY DEF Woken, StandsIn, PermitInv, Sound
<1>2. pc[r] # "waiting" => StandsIn(r) = {}
  BY StandFacts DEF StandsIn
<1>3. \A s, t \in StandsIn(r) : s = t
  BY DEF StandsIn, PermitInv, OneQueue
<1> QED BY <1>1, <1>2, <1>3

-----------------------------------------------------------------------------
\* Steps of one task.

\* The permits the task gains or gives back are those its semaphores lose or gain.
LEMMA MoveConserves ==
  ASSUME PermitInv, NEW r \in Runs, NEW X \in SUBSET Semaphores,
         permits' = [permits EXCEPT ![r] = X],
         \A s \in Semaphores : Sound(sem'[s]),
         \A s \in Semaphores :
           Unowned(sem'[s]) = CASE s \in permits[r] \ X -> Unowned(sem[s]) + 1
                                [] s \in X \ permits[r] -> Unowned(sem[s]) - 1
                                [] OTHER -> Unowned(sem[s])
  PROVE  PermitsConserved'
<1> SUFFICES ASSUME NEW s \in Semaphores
             PROVE  sem'[s].value + Cardinality(Holders(s)') + Cardinality(sem'[s].woken) = Limit(s)
  BY DEF PermitsConserved
<1> DEFINE H == {q \in Runs : s \in permits[q]}
           G == {q \in Runs : s \in permits'[q]}
<1>1. H = Holders(s) /\ G = Holders(s)' /\ permits \in [Runs -> SUBSET Semaphores]
  BY DEF Holders, PermitInv
<1>2. /\ IsFiniteSet(H) /\ Cardinality(H) \in Nat
      /\ IsFiniteSet(G) /\ Cardinality(G) \in Nat
  BY RunSets
<1>3. /\ sem[s].value \in Nat /\ Cardinality(sem[s].woken) \in Nat
      /\ sem'[s].value \in Nat /\ Cardinality(sem'[s].woken) \in Nat
  BY RunSets DEF PermitInv, Sound
<1>4. Limit(s) \in Nat /\ Unowned(sem[s]) + Cardinality(H) = Limit(s)
  <2>1. sem[s].value + Cardinality(H) + Cardinality(sem[s].woken) = Limit(s)
    BY <1>1 DEF PermitInv, PermitsConserved
  <2> QED BY <1>2, <1>3, <2>1 DEF Unowned
<1>5. Unowned(sem'[s]) + Cardinality(G) = Limit(s)
  <2>1. CASE s \in permits[r] \ X
    <3>1. r \in H /\ G = H \ {r}
      BY <1>1, <2>1
    <3>2. Cardinality(G) = Cardinality(H) - 1
      BY <1>2, <3>1, FS_RemoveElement
    <3>3. Unowned(sem'[s]) = Unowned(sem[s]) + 1
      BY <2>1
    <3>4. Unowned(sem[s]) \in Nat
      BY <1>3 DEF Unowned
    <3> QED BY <1>2, <1>4, <3>2, <3>3, <3>4
  <2>2. CASE s \in X \ permits[r]
    <3>1. r \notin H /\ G = H \cup {r}
      BY <1>1, <2>2
    <3>2. Cardinality(G) = Cardinality(H) + 1
      BY <1>2, <3>1, FS_AddElement
    <3>3. Unowned(sem'[s]) = Unowned(sem[s]) - 1
      BY <2>2
    <3>4. Unowned(sem[s]) \in Nat
      BY <1>3 DEF Unowned
    <3> QED BY <1>2, <1>4, <3>2, <3>3, <3>4
  <2>3. CASE s \in X <=> s \in permits[r]
    <3>1. G = H
      BY <1>1, <2>3
    <3>2. Unowned(sem'[s]) = Unowned(sem[s])
      BY <2>3
    <3> QED BY <1>4, <3>1, <3>2
  <2> QED BY <2>1, <2>2, <2>3
<1> HIDE DEF H, G
<1>6. sem'[s].value + Cardinality(G) + Cardinality(sem'[s].woken) = Limit(s)
  BY <1>2, <1>3, <1>5 DEF Unowned
<1> QED BY <1>1, <1>6

\* A step of one task that keeps every semaphore in order, and leaves the task where
\* it may be, keeps PermitInv.
LEMMA MoveInv ==
  ASSUME PermitInv, NEW r \in Runs, NEW p \in Live \cup {"idle", "done"},
         NEW X \in SUBSET Semaphores, UNCHANGED cancelReq,
         pc' = [pc EXCEPT ![r] = p],
         permits' = [permits EXCEPT ![r] = X],
         sem' = [s \in Semaphores |-> sem'[s]],
         PermitsConserved',
         \A s \in Semaphores :
           /\ Sound(sem'[s]) /\ Vigilant(sem'[s])
           /\ ToSet(sem'[s].fifo) \ {r} \subseteq ToSet(sem[s].fifo)
           /\ r \in ToSet(sem'[s].fifo) => p = "waiting" /\ s \notin X,
         \A s, t \in Semaphores :
           r \in ToSet(sem'[s].fifo) /\ r \in ToSet(sem'[t].fifo) => s = t,
         p \in {"idle", "created", "done"} => X = {},
         p = "running" => Chain(r) \subseteq X
  PROVE  PermitInv' /\ NoIdlePermit'
<1>1. /\ pc \in [Runs -> Live \cup {"idle", "done"}]
      /\ permits \in [Runs -> SUBSET Semaphores]
  BY DEF PermitInv
<1>2. pc' \in [Runs -> Live \cup {"idle", "done"}] /\ permits' \in [Runs -> SUBSET Semaphores]
  BY <1>1
<1>3. sem' \in [Semaphores -> [value: Nat, fifo: Seq(Runs), woken: SUBSET Runs]]
  <2>1. \A s \in Semaphores : sem'[s] \in [value: Nat, fifo: Seq(Runs), woken: SUBSET Runs]
    BY DEF Sound
  <2> QED BY <2>1
<1>4. WaitersWait'
  <2> SUFFICES ASSUME NEW s \in Semaphores, NEW q \in ToSet(sem'[s].fifo)
               PROVE  pc'[q] = "waiting" /\ s \notin permits'[q]
    BY DEF WaitersWait
  <2>1. CASE q = r
    BY <1>1, <2>1
  <2>2. CASE q # r
    <3>1. q \in ToSet(sem[s].fifo)
      BY <2>2
    <3>2. q \in Runs /\ pc[q] = "waiting" /\ s \notin permits[q]
      BY <3>1, StandFacts
    <3> QED BY <1>1, <2>2, <3>2
  <2> QED BY <2>1, <2>2
<1>5. OneQueue'
  <2> SUFFICES ASSUME NEW s \in Semaphores, NEW t \in Semaphores, NEW q \in Runs,
                      q \in ToSet(sem'[s].fifo), q \in ToSet(sem'[t].fifo)
               PROVE  s = t
    BY DEF OneQueue
  <2>1. CASE q = r
    BY <2>1
  <2>2. CASE q # r
    <3>1. q \in ToSet(sem[s].fifo) /\ q \in ToSet(sem[t].fifo)
      BY <2>2
    <3> QED BY <3>1 DEF PermitInv, OneQueue
  <2> QED BY <2>1, <2>2
<1>6. OwnersAreBusy'
  <2> SUFFICES ASSUME NEW q \in Runs
               PROVE  /\ pc'[q] \in {"idle", "created", "done"} => permits'[q] = {}
                      /\ pc'[q] = "running" => Chain(q) \subseteq permits'[q]
    BY DEF OwnersAreBusy, Chain
  <2>1. CASE q = r
    BY <1>1, <2>1
  <2>2. CASE q # r
    <3>1. pc'[q] = pc[q] /\ permits'[q] = permits[q]
      BY <1>1, <2>2
    <3> QED BY <3>1 DEF PermitInv, OwnersAreBusy
  <2> QED BY <2>1, <2>2
<1>7. NoIdlePermit'
  <2> SUFFICES ASSUME NEW s \in Semaphores, sem'[s].value > 0, Pending(sem[s])' # {}
               PROVE  sem'[s].woken # {}
    BY DEF NoIdlePermit
  <2>1. Pending(sem[s])' = Pending(sem'[s])
    BY DEF Pending
  <2> QED BY <2>1 DEF Vigilant
<1>8. \A s \in Semaphores : Sound(sem[s])'
  BY DEF Sound, Distinct
<1> QED BY <1>2, <1>3, <1>4, <1>5, <1>6, <1>7, <1>8 DEF PermitInv, Live, Queued

\* A task that goes on owns the permits it was woken with and those it takes, and
\* waits in the FIFO it joins, if any.
LEMMA AcquireInv ==
  ASSUME PermitInv, NoIdlePermit, NEW r \in Runs,
         pc[r] = "created" \/ Woken(r) # {}, ~cancelReq[r], UNCHANGED cancelReq,
         NEW S \in SUBSET Missing(r), \A s \in S : ~Locked(sem[s]),
         NEW J \in SUBSET (Missing(r) \ S), \A s \in J : Locked(sem[s]),
         \A s, t \in J : s = t,
         Acquire(r, S, J),
         NEW p \in {"running", "waiting"}, pc' = [pc EXCEPT ![r] = p],
         p = "running" => J = {} /\ S = Missing(r)
  PROVE  PermitInv' /\ NoIdlePermit'
<1> DEFINE X == permits[r] \cup Woken(r) \cup S
<1>1. /\ permits \in [Runs -> SUBSET Semaphores]
      /\ Woken(r) \subseteq Semaphores /\ Missing(r) \subseteq Semaphores
      /\ S \subseteq Semaphores /\ J \subseteq Semaphores
  BY SemaphoreFacts DEF PermitInv, Woken, Missing
<1>2. StandsIn(r) = Woken(r)
  BY WokenFacts
<1>3. \A s \in Semaphores : r \in ToSet(sem[s].fifo) <=> s \in Woken(r)
  BY <1>2 DEF StandsIn
<1>4. /\ \A s \in Woken(r) : s \notin permits[r] /\ s \notin S /\ s \notin J
      /\ \A s \in S : s \notin permits[r] /\ s \notin J
      /\ \A s \in J : s \notin permits[r]
  <2>1. \A s \in Woken(r) : s \notin permits[r]
    BY <1>1, <1>3, StandFacts
  <2> QED BY <2>1 DEF Missing
<1>5. permits' = [permits EXCEPT ![r] = X] /\ X \in SUBSET Semaphores
  BY <1>1 DEF Acquire
<1>6. sem' = [s \in Semaphores |-> sem'[s]]
  BY DEF Acquire
<1>7. \A s \in Semaphores :
        /\ s \in Woken(r) => sem'[s] = Departed(sem[s], r)
        /\ s \in S => sem'[s] = Taken(sem[s])
        /\ s \in J => sem'[s] = Joined(sem[s], r)
        /\ s \notin Woken(r) \cup S \cup J => sem'[s] = sem[s]
  <2>1. sem' = [s \in Semaphores |->
                  CASE s \in Woken(r) -> Departed(sem[s], r)
                    [] s \in S -> Taken(sem[s])
                    [] s \in J -> Joined(sem[s], r)
                    [] OTHER -> sem[s]]
    BY DEF Acquire
  <2> QED BY <1>4, <2>1
<1>8. \A s \in Semaphores : Sound(sem[s]) /\ Vigilant(sem[s])
  BY DEF PermitInv, NoIdlePermit, Vigilant
<1>9. ASSUME NEW s \in Semaphores
      PROVE  /\ Sound(sem'[s]) /\ Vigilant(sem'[s])
             /\ ToSet(sem'[s].fifo) \ {r} \subseteq ToSet(sem[s].fifo)
             /\ r \in ToSet(sem'[s].fifo) => s \in J
             /\ Unowned(sem'[s]) = IF s \in X \ permits[r] THEN Unowned(sem[s]) - 1
                                   ELSE Unowned(sem[s])
  <2>1. CASE s \in Woken(r)
    <3>1. r \in ToSet(sem[s].fifo) /\ r \in sem[s].woken
      BY <1>3, <2>1 DEF Woken
    <3>2. /\ Sound(sem'[s]) /\ ToSet(sem'[s].fifo) = ToSet(sem[s].fifo) \ {r}
          /\ Unowned(sem'[s]) = Unowned(sem[s]) - 1
          /\ Vigilant(sem'[s])
      BY <1>7, <1>8, <2>1, <3>1, DepartedFacts
    <3> QED BY <1>4, <2>1, <3>2
  <2>2. CASE s \in S
    <3>1. /\ Sound(sem'[s]) /\ sem'[s].fifo = sem[s].fifo
          /\ Unowned(sem'[s]) = Unowned(sem[s]) - 1
          /\ Vigilant(sem'[s])
      BY <1>7, <1>8, <2>2, TakenFacts
    <3>2. r \notin ToSet(sem[s].fifo)
      BY <1>3, <1>4, <2>2
    <3> QED BY <1>4, <2>2, <3>1, <3>2
  <2>3. CASE s \in J
    <3>1. r \notin ToSet(sem[s].fifo)
      BY <1>3, <1>4, <2>3
    <3>2. /\ Sound(sem'[s]) /\ ToSet(sem'[s].fifo) = ToSet(sem[s].fifo) \cup {r}
          /\ Unowned(sem'[s]) = Unowned(sem[s])
          /\ Vigilant(sem'[s])
      BY <1>7, <1>8, <2>3, <3>1, JoinedFacts
    <3>3. s \notin X
      BY <1>4, <2>3
    <3> QED BY <2>3, <3>2, <3>3
  <2>4. CASE s \notin Woken(r) \cup S \cup J
    <3>1. sem'[s] = sem[s] /\ r \notin ToSet(sem[s].fifo) /\ s \notin X \ permits[r]
      BY <1>3, <1>7, <2>4
    <3> QED BY <1>8, <3>1
  <2> QED BY <2>1, <2>2, <2>3, <2>4
<1>10. \A s \in J : s \notin X
  BY <1>4
<1>11. permits[r] \subseteq X
  OBVIOUS
<1>12. p = "running" => Chain(r) \subseteq X
  BY DEF Missing
<1> HIDE DEF X
<1>13. \A s \in Semaphores :
         Unowned(sem'[s]) = CASE s \in permits[r] \ X -> Unowned(sem[s]) + 1
                              [] s \in X \ permits[r] -> Unowned(sem[s]) - 1
                              [] OTHER -> Unowned(sem[s])
  BY <1>9, <1>11
<1>14. PermitsConserved'
  BY <1>5, <1>9, <1>13, MoveConserves
<1>15. \A s \in J : p = "waiting"
  OBVIOUS
<1>16. p \in Live \cup {"idle", "done"} /\ p \notin {"idle", "created", "done"}
  BY DEF Live, Queued
<1>17. \A s \in Semaphores :
         /\ Sound(sem'[s]) /\ Vigilant(sem'[s])
         /\ ToSet(sem'[s].fifo) \ {r} \subseteq ToSet(sem[s].fifo)
         /\ r \in ToSet(sem'[s].fifo) => p = "waiting" /\ s \notin X
  BY <1>9, <1>10, <1>15
<1>18. \A s, t \in Semaphores :
         r \in ToSet(sem'[s].fifo) /\ r \in ToSet(sem'[t].fifo) => s = t
  BY <1>9
<1> QED BY <1>5, <1>6, <1>12, <1>14, <1>16, <1>17, <1>18, MoveInv

\* A task that leaves gives back what it owns, also what it was just woken with.
LEMMA LeaveInv ==
  ASSUME PermitInv, NoIdlePermit, NEW r \in Runs, Leave(r), UNCHANGED cancelReq,
         pc[r] # "waiting" \/ Woken(r) # {} \/ cancelReq[r]
  PROVE  PermitInv' /\ NoIdlePermit'
<1>1. permits \in [Runs -> SUBSET Semaphores]
  BY DEF PermitInv
<1>2. \A s \in Semaphores : r \in ToSet(sem[s].fifo) <=> s \in StandsIn(r)
  BY DEF StandsIn
<1>3. \A s \in StandsIn(r) : s \in Semaphores /\ s \notin permits[r]
  BY StandFacts DEF StandsIn
<1>4. \A s \in StandsIn(r) : ~cancelReq[r] => r \in sem[s].woken
  BY WokenFacts DEF Woken
<1>5. /\ pc' = [pc EXCEPT ![r] = "done"] /\ permits' = [permits EXCEPT ![r] = {}]
      /\ sem' = [s \in Semaphores |-> sem'[s]]
  BY DEF Leave
<1>6. \A s \in Semaphores :
        /\ s \in permits[r] => sem'[s] = Release(sem[s])
        /\ s \in StandsIn(r) /\ cancelReq[r] => sem'[s] = Departed(sem[s], r)
        /\ s \in StandsIn(r) /\ ~cancelReq[r] => sem'[s] = Release(Departed(sem[s], r))
        /\ s \notin permits[r] \cup StandsIn(r) => sem'[s] = sem[s]
  <2>1. sem' = [s \in Semaphores |->
                  CASE s \in permits[r] -> Release(sem[s])
                    [] s \in StandsIn(r) /\ cancelReq[r] -> Departed(sem[s], r)
                    [] s \in StandsIn(r) /\ ~cancelReq[r] -> Release(Departed(sem[s], r))
                    [] OTHER -> sem[s]]
    BY DEF Leave
  <2> QED BY <1>3, <2>1
<1>7. \A s \in Semaphores : Sound(sem[s]) /\ Vigilant(sem[s])
  BY DEF PermitInv, NoIdlePermit, Vigilant
<1>8. ASSUME NEW s \in Semaphores
      PROVE  /\ Sound(sem'[s]) /\ Vigilant(sem'[s])
             /\ ToSet(sem'[s].fifo) \subseteq ToSet(sem[s].fifo) \ {r}
             /\ Unowned(sem'[s]) = IF s \in permits[r] THEN Unowned(sem[s]) + 1
                                   ELSE Unowned(sem[s])
  <2>1. CASE s \in permits[r]
    <3>1. /\ Sound(sem'[s]) /\ sem'[s].fifo = sem[s].fifo
          /\ Unowned(sem'[s]) = Unowned(sem[s]) + 1
          /\ Vigilant(sem'[s])
      BY <1>6, <1>7, <2>1, ReleaseFacts
    <3> QED BY <1>2, <1>3, <2>1, <3>1
  <2>2. CASE s \in StandsIn(r)
    <3> DEFINE d == Departed(sem[s], r)
    <3>1. /\ Sound(d) /\ ToSet(d.fifo) = ToSet(sem[s].fifo) \ {r} /\ Vigilant(d)
          /\ Unowned(d) = IF r \in sem[s].woken /\ ~cancelReq[r] THEN Unowned(sem[s]) - 1
                          ELSE Unowned(sem[s])
      BY <1>2, <1>7, <2>2, DepartedFacts
    <3>2. s \notin permits[r]
      BY <1>3, <2>2
    <3>3. CASE cancelReq[r]
      <4>1. sem'[s] = d
        BY <1>6, <2>2, <3>3
      <4> QED BY <3>1, <3>2, <3>3, <4>1
    <3>4. CASE ~cancelReq[r]
      <4>1. sem'[s] = Release(d)
        BY <1>6, <2>2, <3>4
      <4>2. Unowned(d) = Unowned(sem[s]) - 1
        BY <1>4, <2>2, <3>1, <3>4
      <4> HIDE DEF d
      <4>3. /\ Sound(sem'[s]) /\ sem'[s].fifo = d.fifo
            /\ Unowned(sem'[s]) = Unowned(d) + 1
            /\ Vigilant(sem'[s])
        BY <3>1, <4>1, ReleaseFacts
      <4>4. Unowned(sem[s]) \in Nat
        BY <1>7, RunSets DEF Sound, Unowned
      <4> QED BY <3>1, <3>2, <4>2, <4>3, <4>4
    <3> QED BY <3>3, <3>4
  <2>3. CASE s \notin permits[r] \cup StandsIn(r)
    <3>1. sem'[s] = sem[s] /\ r \notin ToSet(sem[s].fifo)
      BY <1>2, <1>6, <2>3
    <3> QED BY <1>7, <2>3, <3>1
  <2> QED BY <2>1, <2>2, <2>3
<1>9. \A s \in Semaphores :
        Unowned(sem'[s]) = CASE s \in permits[r] \ {} -> Unowned(sem[s]) + 1
                             [] s \in {} \ permits[r] -> Unowned(sem[s]) - 1
                             [] OTHER -> Unowned(sem[s])
  BY <1>8
<1>10. {} \in SUBSET Semaphores /\ "done" \in Live \cup {"idle", "done"} /\ "done" # "running"
  OBVIOUS
<1>11. PermitsConserved'
  BY <1>5, <1>8, <1>9, <1>10, MoveConserves
<1> QED BY <1>5, <1>8, <1>10, <1>11, MoveInv

\* There is a first semaphore of the chain that is locked, and all before it are not.
LEMMA FirstBlockedFacts ==
  ASSUME NEW r \in Runs, Blocked(r) # {}
  PROVE  /\ FirstBlocked(r) \in Blocked(r)
         /\ \A s \in Missing(r) : Rank(s) < Rank(FirstBlocked(r)) => ~Locked(sem[s])
<1>1. \A s \in Semaphores : Rank(s) \in {1, 2, 3, 4}
  BY DEF Rank
<1>2. Blocked(r) \subseteq Missing(r) /\ Missing(r) \subseteq Semaphores
  BY SemaphoreFacts DEF Blocked, Missing
<1>3. {Rank(s) : s \in Blocked(r)} \in SUBSET Nat /\ {Rank(s) : s \in Blocked(r)} # {}
  BY <1>1, <1>2
<1>4. \E s \in Blocked(r) : \A t \in Blocked(r) : Rank(s) <= Rank(t)
  <2>1. PICK i \in {Rank(s) : s \in Blocked(r)} : \A j \in {Rank(s) : s \in Blocked(r)} : i <= j
    BY <1>3, LeastIndex
  <2>2. PICK s \in Blocked(r) : i = Rank(s)
    BY <2>1
  <2> QED BY <2>1, <2>2
<1>5. /\ FirstBlocked(r) \in Blocked(r)
      /\ \A t \in Blocked(r) : Rank(FirstBlocked(r)) <= Rank(t)
  BY <1>4 DEF FirstBlocked
<1>6. ASSUME NEW s \in Missing(r), Rank(s) < Rank(FirstBlocked(r))
      PROVE  ~Locked(sem[s])
  <2>1. Rank(s) \in Int /\ Rank(FirstBlocked(r)) \in Int
    BY <1>1, <1>2, <1>5
  <2>2. s \notin Blocked(r)
    BY <1>5, <1>6, <2>1
  <2> QED BY <2>2 DEF Blocked
<1> QED BY <1>5, <1>6

\* A task that takes its last permits and starts keeps PermitInv and NoIdlePermit.
LEMMA EnterInv ==
  ASSUME PermitInv, NoIdlePermit, NEW r \in Runs, pc[r] = "created" \/ Woken(r) # {},
         ~cancelReq[r], Enter(r), UNCHANGED cancelReq
  PROVE  PermitInv' /\ NoIdlePermit'
<1>1. /\ pc' = [pc EXCEPT ![r] = "running"] /\ Acquire(r, Missing(r), {})
      /\ \A s \in Missing(r) : ~Locked(sem[s])
  BY DEF Enter, Blocked
<1> QED BY <1>1, AcquireInv

\* A task that joins the FIFO of the first locked semaphore keeps them too.
LEMMA QueueUpInv ==
  ASSUME PermitInv, NoIdlePermit, NEW r \in Runs, pc[r] = "created" \/ Woken(r) # {},
         ~cancelReq[r], QueueUp(r), UNCHANGED cancelReq
  PROVE  PermitInv' /\ NoIdlePermit'
<1> DEFINE b == FirstBlocked(r)
           S == {s \in Missing(r) : Rank(s) < Rank(b)}
<1>1. /\ b \in Blocked(r) /\ S \in SUBSET Missing(r) /\ \A s \in S : ~Locked(sem[s])
  BY FirstBlockedFacts DEF QueueUp
<1>2. b \in Missing(r) /\ Locked(sem[b]) /\ b \notin S
  <2>1. Rank(b) \in {1, 2, 3, 4}
    BY DEF Rank
  <2> QED BY <1>1, <2>1 DEF Blocked
<1>3. Acquire(r, S, {b}) /\ pc' = [pc EXCEPT ![r] = "waiting"]
  BY DEF QueueUp
<1> HIDE DEF b, S
<1>4. {b} \in SUBSET (Missing(r) \ S) /\ \A s \in {b} : Locked(sem[s])
  BY <1>2
<1>5. \A s, t \in {b} : s = t
  OBVIOUS
<1> QED BY <1>1, <1>3, <1>4, <1>5, AcquireInv

-----------------------------------------------------------------------------
\* The invariant holds at the start and is kept by every action.

\* The queue starts in the inductive invariant: all permits free, nobody registered.
LEMMA InitQueueInv == Init => QueueInv
<1> SUFFICES ASSUME Init PROVE QueueInv
  OBVIOUS
<1> USE DEF Init
<1>1. TypeOK
  BY SemaphoreFacts DEF TypeOK, Untouched, Live, Queued
<1>2. ASSUME NEW s \in Semaphores
      PROVE  /\ sem[s].value = Limit(s) /\ sem[s].woken = {} /\ Limit(s) \in Nat
             /\ ToSet(sem[s].fifo) = {} /\ Len(sem[s].fifo) = 0
  BY SemaphoreFacts DEF Untouched, ToSet
<1>3. \A s \in Semaphores : Sound(sem[s])
  BY <1>1, <1>2 DEF Sound, Distinct, TypeOK
<1>4. WaitersWait /\ OneQueue
  BY <1>2 DEF WaitersWait, OneQueue
<1>5. OwnersAreBusy
  BY DEF OwnersAreBusy
<1>6. PermitsConserved
  <2> SUFFICES ASSUME NEW s \in Semaphores
               PROVE  sem[s].value + Cardinality(Holders(s)) + Cardinality(sem[s].woken) = Limit(s)
    BY DEF PermitsConserved
  <2>1. Holders(s) = {}
    BY DEF Holders
  <2>2. /\ Cardinality(Holders(s)) = 0 /\ Cardinality(sem[s].woken) = 0
        /\ sem[s].value = Limit(s) /\ Limit(s) \in Nat
    BY <1>2, <2>1, FS_EmptySet
  <2> HIDE DEF Init
  <2> QED BY <2>2
<1>7. NoIdlePermit
  BY <1>2 DEF NoIdlePermit, Pending
<1>8. Reachable /\ NothingAfterStop
  BY TaskQueueAssumption DEF Reachable, NothingAfterStop, Live, Queued
<1> QED BY <1>1, <1>3, <1>4, <1>5, <1>6, <1>7, <1>8 DEF QueueInv, PermitInv, TypeOK

\* What a step that only moves one task, and no request, does to the rest.
LEMMA TaskStepInv ==
  ASSUME QueueInv, NEW r \in Runs, pc[r] \in Live, PermitInv', NoIdlePermit',
         \A q \in Runs : pc'[q] \in Live => pc[q] \in Live,
         UNCHANGED <<cancelEvent, cancelReq, stopping, registryVars, phase>>
  PROVE  QueueInv'
<1>1. TypeOK'
  BY DEF QueueInv, PermitInv, TypeOK, registryVars
<1>2. Reachable'
  BY DEF QueueInv, Reachable, registryVars
<1>3. NothingAfterStop'
  BY DEF QueueInv, NothingAfterStop, Live, Queued
<1> QED BY <1>1, <1>2, <1>3 DEF QueueInv

\* Every step that ends a task through the finally clauses keeps QueueInv.
LEMMA LeaveStepInv ==
  ASSUME QueueInv, NEW r \in Runs, pc[r] \in Live, Leave(r),
         pc[r] # "waiting" \/ Woken(r) # {} \/ cancelReq[r],
         UNCHANGED <<cancelEvent, cancelReq, stopping, registryVars, phase>>
  PROVE  QueueInv'
<1>1. PermitInv' /\ NoIdlePermit'
  BY LeaveInv DEF QueueInv
<1>2. \A q \in Runs : pc'[q] \in Live => pc[q] \in Live
  BY DEF Leave, QueueInv, TypeOK
<1> QED BY <1>1, <1>2, TaskStepInv

\* The step of a task that is scheduled keeps QueueInv, in each of its four outcomes.
LEMMA AdvanceInv ==
  ASSUME QueueInv, NEW r \in Runs, Advance(r)
  PROVE  QueueInv'
<1>1. /\ pc[r] = "created" \/ Woken(r) # {}
      /\ ~cancelReq[r]
      /\ UNCHANGED <<cancelEvent, cancelReq, stopping, registryVars, phase>>
  BY DEF Advance
<1>2. pc[r] \in Live
  <2>1. pc[r] = "created" \/ pc[r] = "waiting"
    BY <1>1, WokenFacts DEF QueueInv
  <2> QED BY <2>1 DEF Live, Queued
<1>3. CASE ReturnAtOnce(r)
  BY <1>1, <1>2, <1>3, LeaveStepInv DEF ReturnAtOnce
<1>4. CASE Enter(r)
  <2>1. PermitInv' /\ NoIdlePermit'
    BY <1>1, <1>4, EnterInv DEF QueueInv
  <2>2. \A q \in Runs : pc'[q] \in Live => pc[q] \in Live
    BY <1>2, <1>4 DEF Enter, QueueInv, TypeOK
  <2> QED BY <1>1, <1>2, <2>1, <2>2, TaskStepInv
<1>5. CASE LeaveUnused(r)
  <2>1. Leave(r) /\ Woken(r) # {}
    BY <1>1, <1>5 DEF LeaveUnused
  <2> QED BY <1>1, <1>2, <2>1, LeaveStepInv
<1>6. CASE QueueUp(r)
  <2>1. PermitInv' /\ NoIdlePermit'
    BY <1>1, <1>6, QueueUpInv DEF QueueInv
  <2>2. \A q \in Runs : pc'[q] \in Live => pc[q] \in Live
    BY <1>2, <1>6 DEF QueueUp, QueueInv, TypeOK
  <2> QED BY <1>1, <1>2, <2>1, <2>2, TaskStepInv
<1> QED BY <1>3, <1>4, <1>5, <1>6 DEF Advance

\* Steps that leave tasks and semaphores alone; a cancellation makes fewer waiters count.
LEMMA SignalInv ==
  ASSUME QueueInv, UNCHANGED <<pc, semVars>>,
         \A q \in Runs : cancelReq[q] => cancelReq'[q]
  PROVE  PermitInv' /\ NoIdlePermit'
<1>1. pc' = pc /\ permits' = permits /\ sem' = sem
  BY DEF semVars
<1>2. PermitInv'
  <2>1. PermitInv
    BY DEF QueueInv
  <2> QED BY <1>1, <2>1 DEF PermitInv, Sound, WaitersWait, OneQueue, Distinct, OwnersAreBusy,
                           PermitsConserved, Holders, Chain, Live, Queued
<1>3. NoIdlePermit'
  <2> SUFFICES ASSUME NEW s \in Semaphores, sem[s].value > 0, Pending(sem[s])' # {}
               PROVE  sem[s].woken # {}
    BY <1>1 DEF NoIdlePermit
  <2>1. PICK q \in ToSet(sem[s].fifo) \ sem[s].woken : ~cancelReq'[q]
    BY <1>1 DEF Pending
  <2>2. q \in Runs
    BY <2>1, StandFacts DEF QueueInv
  <2>3. q \in Pending(sem[s])
    BY <2>1, <2>2 DEF Pending
  <2> QED BY <2>3 DEF QueueInv, NoIdlePermit
<1> QED BY <1>2, <1>3

\* enqueue_conversation_task keeps QueueInv: the new task is registered at once.
LEMMA EnqueueInv ==
  ASSUME QueueInv, NEW r \in Runs, Enqueue(r)
  PROVE  QueueInv'
<1>1. /\ pc[r] = "idle" /\ phase = "up" /\ phase' = "up"
      /\ pc' = [pc EXCEPT ![r] = "created"]
      /\ byRun' = byRun \cup {r}
      /\ byConversation' = [byConversation EXCEPT ![ConversationOf[r]] = @ \cup {r}]
      /\ UNCHANGED <<permits, sem, cancelEvent, cancelReq, stopping>>
  BY DEF Enqueue, semVars
<1>2. TypeOK'
  BY <1>1, TaskQueueAssumption DEF QueueInv, TypeOK, Live, Queued
<1>3. WaitersWait'
  <2> SUFFICES ASSUME NEW s \in Semaphores, NEW q \in ToSet(sem[s].fifo)
               PROVE  pc'[q] = "waiting" /\ s \notin permits[q]
    BY <1>1 DEF WaitersWait
  <2>1. pc[q] = "waiting" /\ s \notin permits[q] /\ q \in Runs
    BY StandFacts DEF QueueInv
  <2> QED BY <1>1, <2>1 DEF QueueInv, TypeOK
<1>4. OneQueue' /\ \A s \in Semaphores : Sound(sem[s])'
  BY <1>1 DEF QueueInv, PermitInv, OneQueue, Sound, Distinct
<1>5. OwnersAreBusy'
  BY <1>1 DEF QueueInv, PermitInv, TypeOK, OwnersAreBusy, Chain
<1>6. PermitsConserved'
  BY <1>1 DEF QueueInv, PermitInv, PermitsConserved, Holders
<1>7. NoIdlePermit'
  BY <1>1 DEF QueueInv, NoIdlePermit, Pending
<1>8. Reachable'
  BY <1>1, TaskQueueAssumption DEF QueueInv, TypeOK, Reachable, Live, Queued
<1>9. NothingAfterStop'
  BY <1>1 DEF NothingAfterStop
<1> QED BY <1>2, <1>3, <1>4, <1>5, <1>6, <1>7, <1>8, <1>9
        DEF QueueInv, PermitInv, TypeOK

\* The done callback keeps QueueInv: it forgets only a task that is done.
LEMMA CleanupInv ==
  ASSUME QueueInv, NEW r \in Runs, Cleanup(r)
  PROVE  QueueInv'
<1>1. PermitInv' /\ NoIdlePermit'
  BY SignalInv DEF Cleanup
<1>2. TypeOK'
  BY DEF QueueInv, TypeOK, Cleanup, semVars
<1>3. Reachable'
  BY TaskQueueAssumption DEF QueueInv, TypeOK, Reachable, Cleanup, Live, Queued
<1>4. NothingAfterStop'
  BY DEF QueueInv, NothingAfterStop, Cleanup
<1> QED BY <1>1, <1>2, <1>3, <1>4 DEF QueueInv

\* Setting the event of a run keeps QueueInv.
LEMMA BeginCancelInv ==
  ASSUME QueueInv, NEW r \in Runs, BeginCancel(r)
  PROVE  QueueInv'
<1>1. PermitInv' /\ NoIdlePermit'
  BY SignalInv DEF BeginCancel
<1>2. TypeOK'
  BY DEF QueueInv, TypeOK, BeginCancel, semVars, registryVars
<1>3. Reachable' /\ NothingAfterStop'
  BY DEF QueueInv, Reachable, NothingAfterStop, BeginCancel, registryVars
<1> QED BY <1>1, <1>2, <1>3 DEF QueueInv

\* task.cancel() keeps QueueInv: a cancelled waiter no longer counts as waiting.
LEMMA EndCancelInv ==
  ASSUME QueueInv, NEW r \in Runs, EndCancel(r)
  PROVE  QueueInv'
<1>1. \A q \in Runs : cancelReq[q] => cancelReq'[q]
  BY DEF QueueInv, TypeOK, EndCancel
<1>2. PermitInv' /\ NoIdlePermit'
  BY <1>1, SignalInv DEF EndCancel
<1>3. TypeOK'
  <2>1. (cancelReq[r] \/ pc[r] # "done") \in BOOLEAN
    OBVIOUS
  <2> QED BY <2>1 DEF QueueInv, TypeOK, EndCancel, semVars, registryVars
<1>4. Reachable' /\ NothingAfterStop'
  BY DEF QueueInv, Reachable, NothingAfterStop, EndCancel, registryVars
<1> QED BY <1>2, <1>3, <1>4 DEF QueueInv

\* The first half of the shutdown keeps QueueInv.
LEMMA BeginShutdownInv ==
  ASSUME QueueInv, BeginShutdown
  PROVE  QueueInv'
<1>1. \A q \in Runs : cancelReq[q] => cancelReq'[q]
  BY DEF BeginShutdown
<1>2. PermitInv' /\ NoIdlePermit'
  BY <1>1, SignalInv DEF BeginShutdown
<1>3. TypeOK'
  BY DEF QueueInv, TypeOK, BeginShutdown, semVars, registryVars
<1>4. Reachable' /\ NothingAfterStop'
  BY DEF QueueInv, Reachable, NothingAfterStop, BeginShutdown, registryVars
<1> QED BY <1>2, <1>3, <1>4 DEF QueueInv

\* At the end of the shutdown no task is left, so no permit is taken and nobody waits.
LEMMA DrainedFacts ==
  ASSUME QueueInv, \A r \in Runs : pc[r] \in {"idle", "done"}
  PROVE  \A s \in Semaphores : sem[s] = Untouched(s) /\ Holders(s) = {}
<1> SUFFICES ASSUME NEW s \in Semaphores
             PROVE  sem[s] = Untouched(s) /\ Holders(s) = {}
  OBVIOUS
<1>1. Holders(s) = {}
  BY DEF QueueInv, PermitInv, OwnersAreBusy, Holders
<1>2. ToSet(sem[s].fifo) = {}
  BY StandFacts DEF QueueInv
<1>3. /\ sem[s] \in [value: Nat, fifo: Seq(Runs), woken: SUBSET Runs]
      /\ sem[s].woken = {}
  BY <1>2 DEF QueueInv, PermitInv, Sound
<1>4. sem[s].fifo = <<>>
  <2> SUFFICES ASSUME sem[s].fifo # <<>> PROVE FALSE
    OBVIOUS
  <2>1. 1 \in 1..Len(sem[s].fifo) /\ DOMAIN sem[s].fifo = 1..Len(sem[s].fifo)
    BY <1>3, EmptySeq, LenProperties
  <2> QED BY <1>2, <2>1 DEF ToSet
<1>5. sem[s].value = Limit(s)
  <2>1. Cardinality(Holders(s)) = 0 /\ Cardinality(sem[s].woken) = 0
    BY <1>1, <1>3, FS_EmptySet
  <2>2. sem[s].value + Cardinality(Holders(s)) + Cardinality(sem[s].woken) = Limit(s)
    BY DEF QueueInv, PermitInv, PermitsConserved
  <2>3. sem[s].value \in Nat
    BY <1>3
  <2> QED BY <2>1, <2>2, <2>3
<1>6. sem[s] = [value |-> sem[s].value, fifo |-> sem[s].fifo, woken |-> sem[s].woken]
  BY <1>3
<1> QED BY <1>1, <1>3, <1>4, <1>5, <1>6 DEF Untouched

\* The second half of the shutdown keeps QueueInv: all it resets is unused.
LEMMA EndShutdownInv ==
  ASSUME QueueInv, EndShutdown
  PROVE  QueueInv'
<1>1. \A r \in Runs : pc[r] \in {"idle", "done"}
  BY DEF QueueInv, TypeOK, Reachable, EndShutdown
<1>2. /\ UNCHANGED <<pc, permits, cancelEvent, cancelReq, stopping>>
      /\ phase' = "stopped" /\ byRun' = {}
      /\ byConversation' = [c \in Conversations |-> {}]
  BY DEF EndShutdown
<1>3. sem' = sem
  <2>1. \A s \in Semaphores : sem[s] = Untouched(s)
    BY <1>1, DrainedFacts
  <2>2. sem' = [s \in Semaphores |-> sem[s]]
    BY <2>1 DEF EndShutdown
  <2> QED BY <2>2 DEF QueueInv, TypeOK
<1>4. PermitInv' /\ NoIdlePermit'
  BY <1>2, <1>3, SignalInv DEF semVars
<1>5. TypeOK'
  BY <1>2, <1>3 DEF QueueInv, TypeOK
<1>6. Reachable' /\ NothingAfterStop'
  BY <1>1, <1>2, TaskQueueAssumption DEF Reachable, NothingAfterStop, Live, Queued
<1> QED BY <1>4, <1>5, <1>6 DEF QueueInv

\* QueueInv is inductive: every step of the specification keeps it.
LEMMA NextQueueInv == QueueInv /\ [Next]_vars => QueueInv'
<1> SUFFICES ASSUME QueueInv, [Next]_vars
             PROVE  QueueInv'
  OBVIOUS
<1>1. ASSUME NEW r \in Runs, Enqueue(r) PROVE QueueInv'
  BY <1>1, EnqueueInv
<1>2. ASSUME NEW r \in Runs, Advance(r) PROVE QueueInv'
  BY <1>2, AdvanceInv
<1>3. ASSUME NEW r \in Runs, Unwind(r) PROVE QueueInv'
  BY <1>3, LeaveStepInv DEF Unwind, Live
<1>4. ASSUME NEW r \in Runs, Finish(r) PROVE QueueInv'
  BY <1>4, LeaveStepInv DEF Finish, Live
<1>5. ASSUME NEW r \in Runs, Cleanup(r) PROVE QueueInv'
  BY <1>5, CleanupInv
<1>6. ASSUME NEW r \in Runs, BeginCancel(r) PROVE QueueInv'
  BY <1>6, BeginCancelInv
<1>7. ASSUME NEW r \in Runs, EndCancel(r) PROVE QueueInv'
  BY <1>7, EndCancelInv
<1>8. CASE BeginShutdown
  BY <1>8, BeginShutdownInv
<1>9. CASE EndShutdown
  BY <1>9, EndShutdownInv
<1>10. CASE UNCHANGED vars
  <2>1. PermitInv' /\ NoIdlePermit'
    BY <1>10, SignalInv DEF vars, semVars
  <2> QED BY <1>10, <2>1 DEF vars, QueueInv, TypeOK, Reachable, NothingAfterStop
<1> QED BY <1>1, <1>2, <1>3, <1>4, <1>5, <1>6, <1>7, <1>8, <1>9, <1>10 DEF Next

-----------------------------------------------------------------------------
\* The theorems.

\* The inductive invariant holds in every reachable state.
THEOREM QueueInvariant == Spec => []QueueInv
<1> QED BY InitQueueInv, NextQueueInv, PTL DEF Spec

\* Every variable of the queue keeps its type, for any runs and limits.
THEOREM TypeCorrect == Spec => []TypeOK
<1>1. QueueInv => TypeOK
  BY DEF QueueInv
<1> QED BY <1>1, QueueInvariant, PTL

\* No permit is lost or made up, whatever is cancelled when: a cancellation that
\* comes after a waiter was woken and before it runs never shrinks a limit.
THEOREM NoPermitLost == Spec => []PermitsConserved
<1>1. QueueInv => PermitsConserved
  BY DEF QueueInv, PermitInv
<1> QED BY <1>1, QueueInvariant, PTL

\* At most Limit(s) task functions execute that share a conversation, an agent,
\* a user or the process: each owns a permit of each semaphore of its chain.
THEOREM LimitsAlwaysKept == Spec => []LimitsKept
<1>1. ASSUME QueueInv PROVE LimitsKept
  <2> SUFFICES ASSUME NEW s \in Semaphores
               PROVE  Cardinality(RunningIn(s)) <= Limit(s)
    BY DEF LimitsKept
  <2>1. RunningIn(s) \subseteq Holders(s)
    BY <1>1 DEF QueueInv, PermitInv, OwnersAreBusy, RunningIn, Holders
  <2>2. IsFiniteSet(Holders(s))
    BY TaskQueueAssumption, FS_Subset DEF Holders
  <2>3. /\ Cardinality(RunningIn(s)) <= Cardinality(Holders(s))
        /\ Cardinality(RunningIn(s)) \in Nat /\ Cardinality(Holders(s)) \in Nat
    BY <2>1, <2>2, FS_Subset, FS_CardinalityType
  <2>4. /\ sem[s].value \in Nat /\ Cardinality(sem[s].woken) \in Nat
        /\ sem[s].value + Cardinality(Holders(s)) + Cardinality(sem[s].woken) = Limit(s)
    BY <1>1, RunSets DEF QueueInv, PermitInv, PermitsConserved, Sound
  <2> QED BY <2>3, <2>4
<1> QED BY <1>1, QueueInvariant, PTL

\* No lost wakeup, for any limits: a free permit lies beside a task that waits for it
\* only while another waiter was woken and has not run; as that one runs, cancelled or
\* not, it wakes one waiter for every permit that is still free (DepartedFacts).
THEOREM NoLostWakeup == Spec => []NoIdlePermit
<1>1. QueueInv => NoIdlePermit
  BY DEF QueueInv
<1> QED BY <1>1, QueueInvariant, PTL

\* The registry can reach every task that is not done, under both keys.
THEOREM EveryTaskReachable == Spec => []Reachable
<1>1. QueueInv => Reachable
  BY DEF QueueInv
<1> QED BY <1>1, QueueInvariant, PTL

\* When the shutdown has returned, no task is left and no permit is taken.
THEOREM ShutdownAlwaysDrains == Spec => []ShutdownDrains
<1>1. ASSUME QueueInv PROVE ShutdownDrains
  <2> SUFFICES ASSUME phase = "stopped"
               PROVE  /\ \A r \in Runs : pc[r] \notin Live /\ permits[r] = {}
                      /\ sem[Global] = Untouched(Global)
    BY DEF ShutdownDrains
  <2>1. \A r \in Runs : pc[r] \in {"idle", "done"}
    BY <1>1 DEF QueueInv, NothingAfterStop
  <2>2. \A r \in Runs : pc[r] \notin Live /\ permits[r] = {}
    BY <1>1, <2>1 DEF QueueInv, PermitInv, OwnersAreBusy, Live, Queued
  <2> QED BY <1>1, <2>1, <2>2, DrainedFacts, SemaphoreFacts
<1> QED BY <1>1, QueueInvariant, PTL

-----------------------------------------------------------------------------
\* The queue implements the safety part of its contract.

\* Nobody is cancelled without an event that says so, and the registry knows only
\* tasks that were created.
StopInv ==
  \A r \in Runs :
    /\ cancelReq[r] \/ r \in stopping => cancelEvent[r]
    /\ r \in byRun => pc[r] # "idle"

\* A stop request belongs to a run that was submitted, and stays so.
LEMMA NextStopInv == QueueInv /\ StopInv /\ [Next]_vars => StopInv'
<1> SUFFICES ASSUME QueueInv, StopInv, [Next]_vars
             PROVE  StopInv'
  OBVIOUS
<1> USE DEF StopInv, QueueInv, TypeOK
<1>1. ASSUME NEW r \in Runs, Leave(r),
             UNCHANGED <<cancelEvent, cancelReq, stopping, registryVars, phase>>
      PROVE  StopInv'
  BY <1>1 DEF Leave, registryVars
<1>2. ASSUME NEW r \in Runs, Enqueue(r) PROVE StopInv'
  BY <1>2 DEF Enqueue
<1>3. ASSUME NEW r \in Runs, Advance(r) PROVE StopInv'
  <2>1. CASE Leave(r)
    BY <1>1, <1>3, <2>1 DEF Advance
  <2>2. CASE Enter(r) \/ QueueUp(r)
    BY <1>3, <2>2 DEF Advance, Enter, QueueUp, registryVars
  <2> QED BY <1>3, <2>1, <2>2 DEF Advance, ReturnAtOnce, LeaveUnused
<1>4. ASSUME NEW r \in Runs, Unwind(r) \/ Finish(r) PROVE StopInv'
  BY <1>1, <1>4 DEF Unwind, Finish
<1>5. ASSUME NEW r \in Runs, Cleanup(r) PROVE StopInv'
  BY <1>5 DEF Cleanup
<1>6. ASSUME NEW r \in Runs, BeginCancel(r) PROVE StopInv'
  BY <1>6 DEF BeginCancel, registryVars
<1>7. ASSUME NEW r \in Runs, EndCancel(r) PROVE StopInv'
  BY <1>7 DEF EndCancel, registryVars
<1>8. CASE BeginShutdown
  BY <1>8 DEF BeginShutdown, registryVars
<1>9. CASE EndShutdown
  BY <1>9 DEF EndShutdown
<1>10. CASE UNCHANGED vars
  BY <1>10 DEF vars
<1> QED BY <1>2, <1>3, <1>4, <1>5, <1>6, <1>7, <1>8, <1>9, <1>10 DEF Next

Stages == [r \in Runs |-> StageOf(r)]

\* A task that leaves is over for the contract.
LEMMA LeaveStages ==
  ASSUME QueueInv, NEW r \in Runs, Leave(r)
  PROVE  Stages' = [Stages EXCEPT ![r] = "over"]
<1>1. pc' = [pc EXCEPT ![r] = "done"] /\ DOMAIN pc = Runs
  BY DEF Leave, QueueInv, TypeOK
<1>2. \A q \in Runs \ {r} : StageOf(q)' = StageOf(q)
  BY <1>1 DEF StageOf, Queued
<1>3. StageOf(r)' = "over"
  BY <1>1 DEF StageOf, Queued
<1> QED BY <1>2, <1>3 DEF Stages

\* A run is let in only while another may still execute beside those that do.
LEMMA EnterHasRoom ==
  ASSUME QueueInv, NEW r \in Runs, pc[r] \in Queued, Enter(r), PermitInv'
  PROVE  Cardinality({q \in Runs : pc[q] = "running"}) < Limit(Global)
<1> DEFINE E == {q \in Runs : pc[q] = "running"}
           H == Holders(Global)'
<1>1. r \notin E /\ E \cup {r} \subseteq H
  BY SemaphoreFacts
     DEF QueueInv, TypeOK, PermitInv, OwnersAreBusy, Holders, Enter, Chain, Queued
<1>2. IsFiniteSet(H) /\ IsFiniteSet(E)
  BY TaskQueueAssumption, FS_Subset DEF Holders
<1>3. Cardinality(H) <= Limit(Global) /\ Limit(Global) \in Nat
  <2>1. /\ sem'[Global].value \in Nat /\ Cardinality(sem'[Global].woken) \in Nat
        /\ sem'[Global].value + Cardinality(H) + Cardinality(sem'[Global].woken) = Limit(Global)
    BY SemaphoreFacts, RunSets DEF PermitInv, PermitsConserved, Sound, Limit
  <2> QED BY <1>2, <2>1, FS_CardinalityType, SemaphoreFacts
<1> HIDE DEF E, H
<1>4. Cardinality(E \cup {r}) = Cardinality(E) + 1
  BY <1>1, <1>2, FS_AddElement
<1>5. Cardinality(E \cup {r}) <= Cardinality(H) /\ Cardinality(H) \in Nat /\ Cardinality(E) \in Nat
  BY <1>1, <1>2, FS_Subset, FS_CardinalityType
<1> QED BY <1>3, <1>4, <1>5 DEF E

\* Every step of the queue is a step of the contract or changes nothing it sees.
LEMMA StepImplementsContract ==
  QueueInv /\ QueueInv' /\ StopInv /\ [Next]_vars => [Contract!Next]_(Contract!dispatchVars)
<1> SUFFICES ASSUME QueueInv, QueueInv', StopInv, [Next]_vars
             PROVE  Contract!Next \/ (Stages' = Stages /\ cancelEvent' = cancelEvent)
  BY DEF Contract!dispatchVars, Stages
<1>1. ASSUME NEW r \in Runs, Leave(r), cancelEvent' = cancelEvent,
             pc[r] = "running" \/ (pc[r] \in Queued /\ cancelEvent[r])
      PROVE  Contract!Next
  <2>1. Stages' = [Stages EXCEPT ![r] = "over"]
    BY <1>1, LeaveStages
  <2>2. CASE pc[r] = "running"
    <3>1. Stages[r] = "executing"
      BY <2>2 DEF Stages, StageOf, Queued
    <3>2. Contract!Complete(r)
      BY <1>1, <2>1, <3>1 DEF Contract!Complete, Stages
    <3> QED BY <3>2 DEF Contract!Next
  <2>3. CASE pc[r] \in Queued /\ cancelEvent[r]
    <3>1. Stages[r] = "queued"
      BY <2>3 DEF Stages, StageOf, Queued
    <3>2. Contract!Drop(r)
      BY <1>1, <2>1, <2>3, <3>1 DEF Contract!Drop, Stages
    <3> QED BY <3>2 DEF Contract!Next
  <2> QED BY <1>1, <2>2, <2>3
<1>2. ASSUME pc' = pc PROVE Stages' = Stages
  BY <1>2 DEF Stages, StageOf
<1>3. ASSUME NEW r \in Runs, Enqueue(r) PROVE Contract!Next
  <2>1. Stages[r] = "idle" /\ Stages' = [Stages EXCEPT ![r] = "queued"]
    BY <1>3 DEF Enqueue, Stages, StageOf, Queued, QueueInv, TypeOK
  <2>2. Contract!Submit(r)
    BY <1>3, <2>1 DEF Enqueue, Contract!Submit, Stages
  <2> QED BY <2>2 DEF Contract!Next
<1>4. ASSUME NEW r \in Runs, Advance(r)
      PROVE  Contract!Next \/ (Stages' = Stages /\ cancelEvent' = cancelEvent)
  <2>1. pc[r] \in Queued /\ cancelEvent' = cancelEvent
    <3>1. pc[r] = "created" \/ pc[r] = "waiting"
      BY <1>4, WokenFacts DEF Advance, QueueInv
    <3> QED BY <1>4, <3>1 DEF Advance, Queued
  <2>2. CASE ReturnAtOnce(r) \/ LeaveUnused(r)
    BY <1>1, <2>1, <2>2 DEF ReturnAtOnce, LeaveUnused
  <2>3. CASE Enter(r)
    <3>1. Stages[r] = "queued" /\ Stages' = [Stages EXCEPT ![r] = "executing"]
      BY <2>1, <2>3 DEF Enter, Stages, StageOf, Queued, QueueInv, TypeOK
    <3>2. Cardinality({q \in Runs : pc[q] = "running"}) < Limit(Global)
      BY <2>1, <2>3, EnterHasRoom DEF QueueInv
    <3>3. {q \in Runs : pc[q] = "running"} = {q \in Runs : Stages[q] = "executing"}
      BY DEF Stages, StageOf, Queued
    <3>4. Contract!Cardinality(Contract!Executing) < Limit(Global)
      BY <3>2, <3>3 DEF Contract!Cardinality, Cardinality, Contract!Executing, Stages
    <3>5. Contract!Execute(r)
      BY <2>1, <2>3, <3>1, <3>4 DEF Enter, Contract!Execute, Stages
    <3> QED BY <3>5 DEF Contract!Next
  <2>4. CASE QueueUp(r)
    <3>1. \A q \in Runs : StageOf(q)' = StageOf(q)
      BY <2>1, <2>4 DEF QueueUp, StageOf, Queued, QueueInv, TypeOK
    <3> QED BY <2>1, <3>1 DEF Stages
  <2> QED BY <1>4, <2>2, <2>3, <2>4 DEF Advance
<1>5. ASSUME NEW r \in Runs, Unwind(r) PROVE Contract!Next
  BY <1>1, <1>5 DEF Unwind, StopInv
<1>6. ASSUME NEW r \in Runs, Finish(r) PROVE Contract!Next
  BY <1>1, <1>6 DEF Finish
<1>7. ASSUME NEW r \in Runs, Cleanup(r) \/ EndCancel(r)
      PROVE  Stages' = Stages /\ cancelEvent' = cancelEvent
  BY <1>2, <1>7 DEF Cleanup, EndCancel
<1>8. ASSUME NEW T \in SUBSET byRun, pc' = pc,
             cancelEvent' = [q \in Runs |-> cancelEvent[q] \/ q \in T]
      PROVE  Contract!Next
  <2>1. T \in SUBSET {q \in Runs : Stages[q] # "idle"}
    BY DEF QueueInv, TypeOK, StopInv, Stages, StageOf, Queued, Live
  <2>2. Contract!RequestStop
    BY <1>2, <1>8, <2>1 DEF Contract!RequestStop, Stages
  <2> QED BY <2>2 DEF Contract!Next
<1>9. ASSUME NEW r \in Runs, BeginCancel(r) PROVE Contract!Next
  <2>1. cancelEvent' = [q \in Runs |-> cancelEvent[q] \/ q \in {r}]
    BY <1>9 DEF BeginCancel, QueueInv, TypeOK
  <2> QED BY <1>8, <1>9, <2>1 DEF BeginCancel
<1>10. CASE BeginShutdown
  BY <1>8, <1>10 DEF BeginShutdown
<1>11. CASE EndShutdown
  BY <1>2, <1>11 DEF EndShutdown
<1>12. CASE UNCHANGED vars
  BY <1>2, <1>12 DEF vars
<1> QED BY <1>3, <1>4, <1>5, <1>6, <1>7, <1>9, <1>10, <1>11, <1>12 DEF Next

\* Without its semaphores, dispatchers and tasks the queue is module Dispatch: a run
\* is executed once at most, within the process-wide limit and never after a stop
\* request, and is dropped unexecuted only because of one.
THEOREM QueueImplementsContract == Spec => Contract!Safety
<1>1. Init => Contract!Init
  BY DEF Init, Contract!Init, StageOf, Queued
<1>2. Init => StopInv
  BY DEF Init, StopInv
<1> QED BY <1>1, <1>2, NextStopInv, NextQueueInv, QueueInvariant, StepImplementsContract, PTL
        DEF Spec, Contract!Safety

=============================================================================
