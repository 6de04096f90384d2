------------------------ MODULE UliLockTotalProofs -------------------------
(***************************************************************************)
(* No increment under the lock is lost: what main prints is the number of  *)
(* cpus times the number of rounds.                                        *)
(***************************************************************************)
EXTENDS UliLockProofs, FiniteSetTheorems

USE CpusAssumption, ItersAssumption

\* the rounds whose increment is in count, each with the cpu that made it
Increments == {p \in Cpus \X (1..Iters) : p[2] <= done[p[1]]}

CountInv ==
  /\ done \in [Cpus -> 0..Iters]
  /\ IsFiniteSet(Increments) /\ count = Cardinality(Increments)
  /\ TotalIsExact

\* at first nobody has incremented count
LEMMA CountInit == Counter!Init => CountInv
<1> SUFFICES ASSUME Counter!Init PROVE CountInv
  OBVIOUS
<1>1. done = [c \in Cpus |-> 0] /\ count = 0 /\ printed = None
  BY DEF Counter!Init, done
<1>2. Increments = {}
  BY <1>1 DEF Increments
<1>3. done \in [Cpus -> 0..Iters]
  BY <1>1
<1> QED BY <1>1, <1>2, <1>3, FS_EmptySet DEF CountInv, TotalIsExact

\* an increment of the atomic counter adds one pair
LEMMA CountIncrement ==
  ASSUME CountInv, NEW c \in Cpus, Counter!Increment(c)
  PROVE  CountInv'
<1>1. /\ done[c] < Iters /\ done' = [done EXCEPT ![c] = done[c] + 1]
      /\ count' = count + 1 /\ printed' = printed
  BY DEF Counter!Increment, done
<1>2. done \in [Cpus -> 0..Iters] /\ IsFiniteSet(Increments) /\ count = Cardinality(Increments)
  BY DEF CountInv
<1>3. done[c] \in 0..Iters
  BY <1>2
<1>4. PICK x : x = <<c, done[c] + 1>>
  BY Zenon
<1>5. x \in Cpus \X (1..Iters) /\ x[1] = c /\ x[2] = done[c] + 1
  BY <1>1, <1>3, <1>4
<1>6. done' \in [Cpus -> 0..Iters]
  BY <1>1, <1>2, <1>3
<1>7. /\ done'[c] = done[c] + 1
      /\ \A d \in Cpus \ {c} : done'[d] = done[d]
  BY <1>1, <1>2
<1>8. Increments' = Increments \cup {x}
  <2>1. ASSUME NEW p \in Cpus \X (1..Iters)
        PROVE  p[2] <= done'[p[1]] <=> p[2] <= done[p[1]] \/ p = x
    <3>1. p[1] \in Cpus /\ p[2] \in 1..Iters /\ p = <<p[1], p[2]>>
      OBVIOUS
    <3>2. CASE p[1] # c
      BY <3>1, <3>2, <1>7, <1>5
    <3>3. CASE p[1] = c
      <4>1. p = x <=> p[2] = done[c] + 1
        BY <3>1, <3>3, <1>4, <1>5
      <4> QED BY <3>1, <3>3, <4>1, <1>3, <1>7
    <3> QED BY <3>2, <3>3
  <2>2. Increments' = {p \in Cpus \X (1..Iters) : p[2] <= done'[p[1]]}
    BY DEF Increments
  <2> QED BY <1>5, <2>1, <2>2 DEF Increments
<1>9. x \notin Increments
  BY <1>3, <1>5 DEF Increments
<1>10. IsFiniteSet(Increments') /\ Cardinality(Increments') = Cardinality(Increments) + 1
  BY <1>2, <1>8, <1>9, FS_AddElement
<1>11. TotalIsExact'
  BY <1>1 DEF CountInv, TotalIsExact
<1> QED BY <1>1, <1>2, <1>6, <1>10, <1>11 DEF CountInv

\* when all are through, every pair is there
LEMMA CountPrint ==
  ASSUME CountInv, Counter!PrintTotal
  PROVE  CountInv'
<1>1. /\ \A c \in Cpus : done[c] = Iters
      /\ printed' = count /\ count' = count /\ done' = done
  BY DEF Counter!PrintTotal, done
<1>2. Increments = Cpus \X (1..Iters)
  BY <1>1 DEF Increments
<1>3. IsFiniteSet(1..Iters) /\ Cardinality(1..Iters) = Iters
  BY FS_Interval
<1>4. Cardinality(Increments) = Cardinality(Cpus) * Iters
  <2>1. Cardinality(Cpus \X (1..Iters)) = Cardinality(Cpus) * Cardinality(1..Iters)
    BY <1>3, FS_Product, Zenon
  <2> QED BY <1>2, <1>3, <2>1, Zenon
<1>5. count = Cardinality(Increments)
  BY DEF CountInv
<1>6. TotalIsExact'
  BY <1>1, <1>4, <1>5 DEF TotalIsExact
<1>7. Increments' = Increments
  BY <1>1 DEF Increments
<1> QED BY <1>1, <1>6, <1>7 DEF CountInv

(***************************************************************************)
(* What main prints is the number of cpus times the number of rounds, for  *)
(* every number of both: no count++ under the lock is lost.  It follows    *)
(* from the atomic counter alone.                                          *)
(***************************************************************************)
THEOREM TotalExactCorrect == Spec => []TotalIsExact
<1>1. CountInv /\ [Counter!Next]_<<count, done, printed>> => CountInv'
  <2> SUFFICES ASSUME CountInv, [Counter!Next]_<<count, done, printed>>
               PROVE  CountInv'
    OBVIOUS
  <2>1. CASE UNCHANGED <<count, done, printed>>
    BY <2>1 DEF CountInv, Increments, TotalIsExact
  <2> QED BY <2>1, CountIncrement, CountPrint DEF Counter!Next
<1>2. CountInv => TotalIsExact
  BY DEF CountInv
<1> QED
  BY Refinement, CountInit, <1>1, <1>2, PTL DEF ImplementsAtomicCounter, Counter!Spec, done

=============================================================================
