------------------------- MODULE SharedBufferProofs -------------------------
(***************************************************************************)
(* The shared buffer is a bounded FIFO buffer for any number of pthreads,  *)
(* slots and tasks, and the exit tasks are made when nobody runs a task.   *)
(***************************************************************************)
EXTENDS SharedBuffer, FiniteSetTheorems, SequenceTheorems, TLAPS

(***************************************************************************)
(* The inductive invariant of the buffer                                   *)
(***************************************************************************)

\* between the compare-and-swap of trialRear and its reset, and of trialFront
RearHeld == {"full56", "free57", "store65", "count70", "free71"}
FrontHeld == {"empty118", "free119", "item124", "count131", "free132"}

\* in sbuf_insert
Inserting == RearHeld \cup {"full50", "read50", "lock54"}

Points ==
  RearHeld \cup FrontHeld \cup
    {"run", "full50", "read50", "lock54", "empty89", "read89", "lock90", "idle91",
     "unlock100", "idle104", "empty107", "idle110", "lock116", "exited"}

\* the slot the k-th item ever inserted goes through
Slot(k) == k % n

Types ==
  /\ buf \in [0..(n - 1) -> Items \cup {NULL}]
  /\ front \in Nat /\ rear \in Nat /\ inserted \in Nat /\ removed \in Nat
  /\ pc \in [Pthreads -> Points]
  /\ item \in [Pthreads -> Items \cup {NULL}]
  /\ exits \in [Pthreads -> Nat]
  /\ hand \in [Pthreads -> SUBSET Tasks] /\ created \in Tasks

\* One pthread at a time is at either end of the buffer.
EndsInv ==
  \A p \in Pthreads :
    /\ pc[p] \in RearHeld <=> trialRear = p
    /\ pc[p] \in FrontHeld <=> trialFront = p

\* rear runs ahead of inserted, and front of removed, by the item that is
\* being moved.
MovedInv ==
  /\ (\A p \in Pthreads : pc[p] # "count70") => rear = inserted
  /\ (\A p \in Pthreads : pc[p] # "count131") => front = removed
  /\ \A p \in Pthreads : pc[p] = "count70" =>
       rear = inserted + 1 /\ buf[Slot(inserted + 1)] = item[p]
  /\ \A p \in Pthreads : pc[p] = "count131" =>
       front = removed + 1 /\ buf[Slot(removed + 1)] = item[p]

\* What the second tests of lines 56 and 118 establish stays true while the
\* other end of the buffer is at work.
SpaceInv ==
  /\ removed <= inserted /\ inserted <= removed + n
  /\ \A p \in Pthreads :
       /\ pc[p] \in {"store65", "count70"} => inserted < removed + n
       /\ pc[p] \in {"item124", "count131"} => removed < inserted

\* There are items where items are expected.
ItemsInv ==
  /\ \A k \in (removed + 1)..inserted : buf[Slot(k)] \in Items
  /\ \A p \in Pthreads : pc[p] \in Inserting \cup {"free132"} => item[p] \in Items

BufInv == Types /\ EndsInv /\ MovedInv /\ SpaceInv /\ ItemsInv

(***************************************************************************)
(* The inductive invariant of the idle pthreads                            *)
(***************************************************************************)

\* counted in idlep_count
Idling == {p \in Pthreads : pc[p] \in {"empty107", "idle110"}}

\* in sbuf_remove
Removing == FrontHeld \cup
  {"empty89", "read89", "lock90", "idle91", "unlock100", "idle104", "empty107",
   "idle110", "lock116"}

IdleInv ==
  /\ idlep_count = Cardinality(Idling)
  /\ \A p \in Pthreads :
       /\ pc[p] \in Removing => hand[p] = {} /\ exits[p] = 0
       /\ pc[p] = "run" => exits[p] = 0
       /\ exits[p] # 0 => hand[p] = {} /\ item[p] = exit_task

(***************************************************************************)
(* Lemmas                                                                  *)
(***************************************************************************)

\* facts about the constants
LEMMA ConstantFacts ==
  /\ n \in Nat \ {0}
  /\ NULL \notin Pthreads /\ NULL \notin Items
  /\ exit_task \in Items /\ exit_task \notin Tasks
  /\ 1 \in Tasks
  /\ \A x \in Tasks : x \in Items /\ x \in Nat
BY BufferAssumption DEF Pthreads, Items, Tasks

\* a slot is an index of buf
LEMMA SlotRange == \A k \in Int : Slot(k) \in 0..(n - 1)
BY BufferAssumption DEF Slot

\* Fewer than n insertions apart, two items do not share a slot.
LEMMA SlotsDiffer ==
  \A j, k \in Int : j < k /\ k - j < n => Slot(j) # Slot(k)
<1> USE BufferAssumption DEF Slot
<1> SUFFICES ASSUME NEW j \in Int, NEW k \in Int, j < k, k - j < n, j % n = k % n
             PROVE  FALSE
  OBVIOUS
<1> DEFINE a == j \div n
           b == k \div n
<1>1. a \in Int /\ b \in Int
  OBVIOUS
<1>2. j = n * a + (j % n) /\ k = n * b + (k % n)
  OBVIOUS
<1>3. k - j = n * b - n * a
  BY <1>1, <1>2
<1> HIDE DEF a, b
<1>4. CASE b <= a
  <2>1. n * b <= n * a
    BY <1>1, <1>4
  <2> QED BY <1>1, <1>3, <2>1
<1>5. CASE b > a
  <2>1. PICK d \in Nat : b = a + 1 + d
    BY <1>1, <1>5
  <2>2. n * b = n * a + n + n * d /\ n * d >= 0
    BY <1>1, <2>1
  <2> QED BY <1>1, <1>3, <2>1, <2>2
<1> QED BY <1>1, <1>4, <1>5

\* the next item does not go where one is that has still to be removed
LEMMA FreeSlot ==
  ASSUME inserted \in Nat, removed \in Nat, inserted < removed + n
  PROVE  \A k \in (removed + 1)..inserted :
           Slot(k) # Slot(inserted + 1) /\ Slot(k) \in 0..(n - 1)
<1> SUFFICES ASSUME NEW k \in (removed + 1)..inserted
             PROVE  Slot(k) # Slot(inserted + 1) /\ Slot(k) \in 0..(n - 1)
  OBVIOUS
<1>1. k \in Int /\ inserted + 1 \in Int /\ k < inserted + 1 /\ inserted + 1 - k < n
  BY ConstantFacts
<1>2. Slot(k) # Slot(inserted + 1)
  BY <1>1, SlotsDiffer
<1>3. Slot(k) \in 0..(n - 1)
  BY <1>1, SlotRange
<1> QED BY <1>2, <1>3

\* a step of a pthread that is at neither end of the buffer before or after
LEMMA OutsideKeeps ==
  ASSUME BufInv, Types', UNCHANGED sbuf, NEW p \in Pthreads,
         pc[p] \notin RearHeld \cup FrontHeld, pc'[p] \notin RearHeld \cup FrontHeld,
         \A q \in Pthreads \ {p} : pc'[q] = pc[q] /\ item'[q] = item[q],
         pc'[p] \in Inserting => item'[p] \in Items
  PROVE  BufInv'
<1> USE DEF BufInv, sbuf, RearHeld, FrontHeld
<1>1. EndsInv'
  BY DEF EndsInv
<1>2. MovedInv'
  BY DEF MovedInv
<1>3. SpaceInv'
  BY DEF SpaceInv
<1>4. ItemsInv'
  BY DEF ItemsInv, Inserting
<1> QED BY <1>1, <1>2, <1>3, <1>4

\* the invariant holds when the buffer has been made
LEMMA InitBuf == Init => BufInv
<1> SUFFICES ASSUME Init PROVE BufInv
  OBVIOUS
<1> USE ConstantFacts DEF Init
<1>1. Slot(1) \in 0..(n - 1)
  BY SlotRange
<1>2. Types
  BY DEF Types, Points
<1>3. EndsInv /\ MovedInv /\ SpaceInv
  BY DEF EndsInv, MovedInv, SpaceInv, RearHeld, FrontHeld
<1>4. ItemsInv
  BY <1>1 DEF ItemsInv, Inserting, RearHeld, Slot
<1> QED BY <1>2, <1>3, <1>4 DEF BufInv

\* the steps of a pthread away from the ends of the buffer
LEMMA OutsideBuf ==
  ASSUME BufInv, NEW p \in Pthreads,
         \/ Create(p) \/ Finish(p)
         \/ ReadOne(p, "full50", "read50") \/ FirstFullTest(p)
         \/ ReadOne(p, "empty89", "read89") \/ EmptyTest(p)
         \/ LockIdle(p) \/ signal_exit_task(p) \/ UnlockIdle(p)
         \/ BecomeIdle(p) \/ AwaitItem(p) \/ StopIdling(p)
  PROVE  BufInv'
<1> USE ConstantFacts DEF Goto
<1>0. Types /\ (pc[p] \in Inserting => item[p] \in Items)
  BY DEF BufInv, ItemsInv
<1>1. ASSUME Create(p) PROVE BufInv'
  <2>1. Types'
    <3>1. created' \in Tasks /\ created' \in Items
      BY <1>0, <1>1, BufferAssumption DEF Create, Types, Tasks, Items
    <3>2. item' \in [Pthreads -> Items \cup {NULL}] /\ pc' \in [Pthreads -> Points]
      BY <1>0, <1>1, <3>1 DEF Create, Types, Points
    <3> QED BY <1>0, <1>1, <3>1, <3>2 DEF Create, Types, sbuf
  <2> QED BY <1>0, <1>1, <2>1, OutsideKeeps DEF Create, Types, Inserting, RearHeld, FrontHeld, Tasks
<1>2. ASSUME Finish(p) PROVE BufInv'
  <2>1. Types'
    BY <1>0, <1>2 DEF Finish, Types, Points, locals, sbuf
  <2> QED BY <1>0, <1>2, <2>1, OutsideKeeps DEF Finish, Types, Inserting, RearHeld, FrontHeld, locals
<1>3. ASSUME ReadOne(p, "full50", "read50") \/ ReadOne(p, "empty89", "read89") PROVE BufInv'
  <2>1. Types'
    BY <1>0, <1>3 DEF ReadOne, Types, Points, sbuf, tasks
  <2> QED BY <1>0, <1>3, <2>1, OutsideKeeps DEF ReadOne, Types, Inserting, RearHeld, FrontHeld
<1>4. ASSUME FirstFullTest(p) PROVE BufInv'
  <2>1. Types'
    <3>1. pc[p] = "read50" /\ pc' \in [Pthreads -> Points]
      BY <1>0, <1>4 DEF FirstFullTest, RunAtOnce, Types, Points
    <3>2. item[p] \in Items
      BY <1>0, <3>1 DEF Inserting
    <3>3. hand' \in [Pthreads -> SUBSET Tasks]
      BY <1>0, <1>4, <3>2 DEF FirstFullTest, RunAtOnce, Types, Items
    <3> QED BY <1>0, <1>4, <3>1, <3>3 DEF FirstFullTest, Types, sbuf
  <2>2. /\ UNCHANGED <<sbuf, item>> /\ pc[p] = "read50" /\ pc'[p] \in {"lock54", "run", "exited"}
        /\ \A q \in Pthreads \ {p} : pc'[q] = pc[q]
    BY <1>0, <1>4 DEF FirstFullTest, RunAtOnce, Types
  <2> QED BY <1>0, <2>1, <2>2, OutsideKeeps DEF Inserting, RearHeld, FrontHeld
<1>5. ASSUME EmptyTest(p) PROVE BufInv'
  <2>1. Types'
    BY <1>0, <1>5 DEF EmptyTest, Types, Points, sbuf, tasks
  <2>2. /\ UNCHANGED <<sbuf, item>> /\ pc[p] = "read89" /\ pc'[p] \in {"lock90", "idle104"}
        /\ \A q \in Pthreads \ {p} : pc'[q] = pc[q]
    BY <1>0, <1>5 DEF EmptyTest, Types
  <2> QED BY <1>0, <2>1, <2>2, OutsideKeeps DEF Inserting, RearHeld, FrontHeld
<1>6. ASSUME LockIdle(p) \/ UnlockIdle(p) PROVE BufInv'
  <2>1. Types'
    BY <1>0, <1>6 DEF LockIdle, UnlockIdle, Types, Points, sbuf, locals, tasks
  <2> QED BY <1>0, <1>6, <2>1, OutsideKeeps
          DEF LockIdle, UnlockIdle, Types, Inserting, RearHeld, FrontHeld, locals
<1>7. ASSUME signal_exit_task(p) PROVE BufInv'
  <2>1. /\ UNCHANGED <<sbuf, tasks>> /\ pc[p] = "idle91"
        /\ \/ /\ pc' = [pc EXCEPT ![p] = "full50"]
              /\ item' = [item EXCEPT ![p] = exit_task]
              /\ exits' = [exits EXCEPT ![p] = num_pthreads]
           \/ pc' = [pc EXCEPT ![p] = "unlock100"] /\ UNCHANGED <<item, exits>>
    <3>1. CASE idlep_count = num_pthreads - 1 /\ num_pthreads > 0
      BY <1>7, <3>1, Zenon DEF signal_exit_task, SignalWhen
    <3>2. CASE ~(idlep_count = num_pthreads - 1 /\ num_pthreads > 0)
      BY <1>7, <3>2, Zenon DEF signal_exit_task, SignalWhen
    <3> QED BY <3>1, <3>2
  <2>2. Types'
    <3>1. num_pthreads \in Nat
      BY BufferAssumption
    <3>2. pc' \in [Pthreads -> Points]
      BY <1>0, <2>1 DEF Types, Points
    <3>3. item' \in [Pthreads -> Items \cup {NULL}]
      BY <1>0, <2>1 DEF Types
    <3>4. exits' \in [Pthreads -> Nat]
      BY <1>0, <2>1, <3>1 DEF Types
    <3> QED BY <1>0, <2>1, <3>2, <3>3, <3>4 DEF Types, sbuf, tasks
  <2>3. /\ pc'[p] \in {"full50", "unlock100"} /\ (pc'[p] = "full50" => item'[p] \in Items)
        /\ \A q \in Pthreads \ {p} : pc'[q] = pc[q] /\ item'[q] = item[q]
    BY <1>0, <2>1 DEF Types
  <2> QED BY <2>1, <2>2, <2>3, OutsideKeeps DEF Inserting, RearHeld, FrontHeld
<1>8. ASSUME BecomeIdle(p) \/ AwaitItem(p) \/ StopIdling(p) PROVE BufInv'
  <2>1. Types'
    BY <1>0, <1>8 DEF BecomeIdle, AwaitItem, StopIdling, CountIdle, Types, Points, sbuf, locals, tasks
  <2> QED BY <1>0, <1>8, <2>1, OutsideKeeps
          DEF BecomeIdle, AwaitItem, StopIdling, CountIdle, Types, Inserting, RearHeld, FrontHeld, locals
<1> QED BY <1>1, <1>2, <1>3, <1>4, <1>5, <1>6, <1>7, <1>8

(***************************************************************************)
(* The rear of the buffer                                                  *)
(***************************************************************************)

\* trialRear is taken by one pthread
LEMMA TakeRearBuf ==
  ASSUME BufInv, NEW p \in Pthreads, TakeRear(p)
  PROVE  BufInv'
<1> USE ConstantFacts DEF TakeRear, Goto, BufInv, locals, tasks
<1>1. Types'
  BY DEF Types, Points, RearHeld
<1>2. EndsInv'
  BY DEF EndsInv, Types, RearHeld, FrontHeld
<1>3. MovedInv' /\ SpaceInv'
  BY DEF MovedInv, SpaceInv, Types
<1>4. ItemsInv'
  BY DEF ItemsInv, Types, Inserting, RearHeld
<1> QED BY <1>1, <1>2, <1>3, <1>4

\* the test is made where nobody else inserts
LEMMA SecondFullTestBuf ==
  ASSUME BufInv, NEW p \in Pthreads, SecondFullTest(p)
  PROVE  BufInv'
<1> USE ConstantFacts DEF SecondFullTest, Goto, BufInv, sbuf, locals, tasks
<1>1. Types'
  BY DEF Types, Points, RearHeld
<1>2. EndsInv'
  BY DEF EndsInv, Types, RearHeld, FrontHeld
<1>3. MovedInv'
  BY DEF MovedInv, Types
<1>4. SpaceInv'
  BY DEF SpaceInv, Types
<1>5. ItemsInv'
  BY DEF ItemsInv, Types, Inserting, RearHeld
<1> QED BY <1>1, <1>2, <1>3, <1>4, <1>5

\* the end of an insertion, without or with success
LEMMA FreeRearBuf ==
  ASSUME BufInv, NEW p \in Pthreads, GiveUpRear(p) \/ FreeRear(p)
  PROVE  BufInv'
<1> USE ConstantFacts DEF BufInv
<1>1. /\ pc[p] \in {"free57", "free71"} /\ item[p] \in Items
      /\ trialRear' = NULL
      /\ UNCHANGED <<buf, front, rear, inserted, removed, trialFront, item, created>>
      /\ pc' \in [Pthreads -> Points]
      /\ pc'[p] \in {"run", "exited", "unlock100", "full50"}
      /\ \A q \in Pthreads \ {p} : pc'[q] = pc[q]
  BY DEF GiveUpRear, FreeRear, RunAtOnce, Goto, Types, Points, ItemsInv, Inserting, RearHeld, locals, tasks
<1>2. Types'
  <2>1. hand' \in [Pthreads -> SUBSET Tasks]
    BY <1>1 DEF GiveUpRear, FreeRear, RunAtOnce, Types, Items, tasks
  <2>2. exits' \in [Pthreads -> Nat]
    BY DEF GiveUpRear, FreeRear, Types, locals
  <2> QED BY <1>1, <2>1, <2>2 DEF Types
<1>3. EndsInv'
  BY <1>1 DEF EndsInv, Types, RearHeld, FrontHeld
<1>4. MovedInv'
  BY <1>1 DEF MovedInv, Types
<1>5. SpaceInv'
  BY <1>1 DEF SpaceInv, Types
<1>6. ItemsInv'
  BY <1>1 DEF ItemsInv, Types, Inserting, RearHeld
<1> QED BY <1>2, <1>3, <1>4, <1>5, <1>6

\* The item is stored in the slot after the last one, which holds no item
\* that has still to be removed.
LEMMA StoreItemBuf ==
  ASSUME BufInv, NEW p \in Pthreads, StoreItem(p)
  PROVE  BufInv'
<1> USE ConstantFacts DEF StoreItem, Goto, BufInv, locals, tasks
<1>1. pc[p] = "store65" /\ item[p] \in Items /\ inserted < removed + n /\ removed <= inserted
      /\ inserted \in Nat /\ removed \in Nat
  BY DEF SpaceInv, ItemsInv, Inserting, RearHeld, Types
<1>2. \A q \in Pthreads : pc[q] # "count70"
  BY <1>1 DEF EndsInv, RearHeld
<1>3. rear = inserted
  BY <1>2 DEF MovedInv
<1>4. buf' = [buf EXCEPT ![Slot(inserted + 1)] = item[p]]
  BY <1>3 DEF Slot
<1>5. Slot(inserted + 1) \in 0..(n - 1)
  BY <1>1, SlotRange
<1>6. buf'[Slot(inserted + 1)] = item[p]
  BY <1>4, <1>5 DEF Types
<1>7. \A k \in (removed + 1)..inserted : buf'[Slot(k)] = buf[Slot(k)]
  <2>1. \A k \in (removed + 1)..inserted : Slot(k) # Slot(inserted + 1) /\ Slot(k) \in 0..(n - 1)
    BY <1>1, FreeSlot
  <2> QED BY <1>4, <1>5, <2>1 DEF Types
<1>8. Types'
  <2>1. buf' \in [0..(n - 1) -> Items \cup {NULL}]
    BY <1>1, <1>4, <1>5 DEF Types
  <2>2. pc' \in [Pthreads -> Points]
    BY DEF Types, Points, RearHeld
  <2> QED BY <1>3, <2>1, <2>2 DEF Types
<1>9. EndsInv'
  BY DEF EndsInv, Types, RearHeld, FrontHeld
<1>10. MovedInv'
  <2>1. \A q \in Pthreads : pc'[q] = "count70" => q = p
    BY <1>2 DEF Types
  <2>2. rear' = inserted + 1
    BY <1>3
  <2>3. \A q \in Pthreads : pc'[q] = "count131" <=> pc[q] = "count131"
    BY <1>1 DEF Types
  <2>4. \A q \in Pthreads : pc[q] = "count131" =>
          front = removed + 1 /\ buf'[Slot(removed + 1)] = item[q]
    BY <1>1, <1>7 DEF MovedInv, SpaceInv
  <2>5. pc'[p] = "count70"
    BY DEF Types
  <2> QED BY <1>6, <2>1, <2>2, <2>3, <2>4, <2>5 DEF MovedInv
<1>11. SpaceInv'
  BY <1>1 DEF SpaceInv, Types
<1>12. ItemsInv'
  <2>1. \A k \in (removed + 1)..inserted : buf'[Slot(k)] \in Items
    BY <1>7 DEF ItemsInv
  <2>2. \A q \in Pthreads : pc'[q] \in Inserting \cup {"free132"} => item[q] \in Items
    BY <1>1 DEF ItemsInv, Types, Inserting, RearHeld
  <2> QED BY <2>1, <2>2 DEF ItemsInv
<1> QED BY <1>8, <1>9, <1>10, <1>11, <1>12

\* The store to inserted puts the item into the buffer.
LEMMA CountInsertedBuf ==
  ASSUME BufInv, NEW p \in Pthreads, CountInserted(p)
  PROVE  BufInv'
<1> USE ConstantFacts DEF CountInserted, Goto, BufInv, locals, tasks
<1>1. /\ pc[p] = "count70" /\ item[p] \in Items /\ inserted < removed + n /\ removed <= inserted
      /\ inserted \in Nat /\ removed \in Nat
      /\ rear = inserted + 1 /\ buf[Slot(inserted + 1)] = item[p]
  BY DEF SpaceInv, ItemsInv, MovedInv, Inserting, RearHeld, Types
<1>2. \A q \in Pthreads : pc[q] \in {"store65", "count70"} => q = p
  BY <1>1 DEF EndsInv, RearHeld
<1>3. Types'
  BY DEF Types, Points, RearHeld
<1>4. EndsInv'
  BY DEF EndsInv, Types, RearHeld, FrontHeld
<1>5. MovedInv'
  BY <1>1, <1>2 DEF MovedInv, Types
<1>6. SpaceInv'
  BY <1>1, <1>2 DEF SpaceInv, Types
<1>7. ItemsInv'
  <2>1. \A k \in (removed + 1)..(inserted + 1) : k \in (removed + 1)..inserted \/ k = inserted + 1
    BY <1>1
  <2>2. \A k \in (removed + 1)..(inserted + 1) : buf[Slot(k)] \in Items
    BY <1>1, <2>1 DEF ItemsInv
  <2>3. \A q \in Pthreads : pc'[q] \in Inserting \cup {"free132"} => item[q] \in Items
    BY <1>1 DEF ItemsInv, Types, Inserting, RearHeld
  <2> QED BY <2>2, <2>3 DEF ItemsInv
<1> QED BY <1>3, <1>4, <1>5, <1>6, <1>7

(***************************************************************************)
(* The front of the buffer                                                 *)
(***************************************************************************)

\* trialFront is taken by one pthread
LEMMA TakeFrontBuf ==
  ASSUME BufInv, NEW p \in Pthreads, TakeFront(p)
  PROVE  BufInv'
<1> USE ConstantFacts DEF TakeFront, Goto, BufInv, locals, tasks
<1>1. Types'
  BY DEF Types, Points, FrontHeld
<1>2. EndsInv'
  BY DEF EndsInv, Types, RearHeld, FrontHeld
<1>3. MovedInv' /\ SpaceInv'
  BY DEF MovedInv, SpaceInv, Types
<1>4. ItemsInv'
  BY DEF ItemsInv, Types, Inserting, RearHeld
<1> QED BY <1>1, <1>2, <1>3, <1>4

\* the test is made where nobody else removes
LEMMA SecondEmptyTestBuf ==
  ASSUME BufInv, NEW p \in Pthreads, SecondEmptyTest(p)
  PROVE  BufInv'
<1> USE ConstantFacts DEF SecondEmptyTest, Goto, BufInv, sbuf, locals, tasks
<1>1. Types'
  BY DEF Types, Points, FrontHeld
<1>2. EndsInv'
  BY DEF EndsInv, Types, RearHeld, FrontHeld
<1>3. MovedInv'
  BY DEF MovedInv, Types
<1>4. SpaceInv'
  BY DEF SpaceInv, Types
<1>5. ItemsInv'
  BY DEF ItemsInv, Types, Inserting, RearHeld
<1> QED BY <1>1, <1>2, <1>3, <1>4, <1>5

\* the end of a removal, without or with success
LEMMA FreeFrontBuf ==
  ASSUME BufInv, NEW p \in Pthreads, GiveUpFront(p) \/ FreeFront(p)
  PROVE  BufInv'
<1> USE ConstantFacts DEF BufInv
<1>1. /\ pc[p] \in {"free119", "free132"}
      /\ pc[p] = "free132" => item[p] \in Items
      /\ trialFront' = NULL
      /\ UNCHANGED <<buf, front, rear, inserted, removed, trialRear, item, exits, created>>
      /\ pc' \in [Pthreads -> Points]
      /\ pc'[p] \in {"run", "exited", "empty89"}
      /\ \A q \in Pthreads \ {p} : pc'[q] = pc[q]
  BY DEF GiveUpFront, FreeFront, Goto, Types, Points, ItemsInv, locals, tasks
<1>2. Types'
  <2>1. hand' \in [Pthreads -> SUBSET Tasks]
    <3>1. CASE GiveUpFront(p)
      BY <3>1 DEF GiveUpFront, Types, tasks
    <3>2. CASE FreeFront(p)
      <4>1. pc[p] = "free132" /\ item[p] \in Items
        BY <1>1, <3>2 DEF FreeFront, Goto
      <4>2. hand' = hand \/ (item[p] # exit_task /\ hand' = [hand EXCEPT ![p] = {item[p]}])
        BY <3>2 DEF FreeFront
      <4>3. item[p] # exit_task => item[p] \in Tasks
        BY <4>1 DEF Items
      <4> QED BY <4>2, <4>3 DEF Types
    <3> QED BY <3>1, <3>2
  <2> QED BY <1>1, <2>1 DEF Types
<1>3. EndsInv'
  BY <1>1 DEF EndsInv, Types, RearHeld, FrontHeld
<1>4. MovedInv'
  BY <1>1 DEF MovedInv, Types
<1>5. SpaceInv'
  BY <1>1 DEF SpaceInv, Types
<1>6. ItemsInv'
  BY <1>1 DEF ItemsInv, Types, Inserting, RearHeld
<1> QED BY <1>2, <1>3, <1>4, <1>5, <1>6

\* The item is read from the first slot.
LEMMA GetItemBuf ==
  ASSUME BufInv, NEW p \in Pthreads, GetItem(p)
  PROVE  BufInv'
<1> USE ConstantFacts DEF GetItem, Goto, BufInv, tasks
<1>1. pc[p] = "item124" /\ removed < inserted /\ inserted \in Nat /\ removed \in Nat
  BY DEF SpaceInv, Types
<1>2. \A q \in Pthreads : pc[q] # "count131"
  BY <1>1 DEF EndsInv, FrontHeld
<1>3. front = removed
  BY <1>2 DEF MovedInv
<1>4. item' = [item EXCEPT ![p] = buf[Slot(removed + 1)]]
  <2>1. 1 + front = removed + 1
    BY <1>1, <1>3
  <2> QED BY <2>1 DEF Slot
<1>5. buf[Slot(removed + 1)] \in Items
  BY <1>1 DEF ItemsInv
<1>6. Types'
  BY <1>3, <1>4, <1>5 DEF Types, Points, FrontHeld
<1>7. /\ pc'[p] = "count131" /\ item'[p] = buf[Slot(removed + 1)]
      /\ \A q \in Pthreads \ {p} : pc'[q] = pc[q] /\ item'[q] = item[q]
  BY <1>4 DEF Types
<1>8. EndsInv'
  BY DEF EndsInv, Types, RearHeld, FrontHeld
<1>9. MovedInv'
  BY <1>1, <1>2, <1>3, <1>7 DEF MovedInv
<1>10. SpaceInv'
  BY <1>1, <1>7 DEF SpaceInv
<1>11. ItemsInv'
  BY <1>1, <1>7 DEF ItemsInv, Inserting, RearHeld
<1> QED BY <1>6, <1>8, <1>9, <1>10, <1>11

\* The store to removed takes the item out of the buffer.
LEMMA CountRemovedBuf ==
  ASSUME BufInv, NEW p \in Pthreads, CountRemoved(p)
  PROVE  BufInv'
<1> USE ConstantFacts DEF CountRemoved, Goto, BufInv, locals, tasks
<1>1. /\ pc[p] = "count131" /\ removed < inserted /\ inserted \in Nat /\ removed \in Nat
      /\ front = removed + 1 /\ item[p] = buf[Slot(removed + 1)]
  BY DEF SpaceInv, MovedInv, Types
<1>2. \A q \in Pthreads : pc[q] \in {"item124", "count131"} => q = p
  BY <1>1 DEF EndsInv, FrontHeld
<1>3. item[p] \in Items
  BY <1>1 DEF ItemsInv
<1>4. Types'
  BY DEF Types, Points, FrontHeld
<1>5. EndsInv'
  BY DEF EndsInv, Types, RearHeld, FrontHeld
<1>6. MovedInv'
  BY <1>1, <1>2 DEF MovedInv, Types
<1>7. SpaceInv'
  BY <1>1, <1>2 DEF SpaceInv, Types
<1>8. ItemsInv'
  <2>1. \A k \in (removed + 1 + 1)..inserted : k \in (removed + 1)..inserted
    BY <1>1
  <2>2. \A k \in (removed + 1 + 1)..inserted : buf[Slot(k)] \in Items
    BY <2>1 DEF ItemsInv
  <2>3. \A q \in Pthreads : pc'[q] \in Inserting \cup {"free132"} => item[q] \in Items
    BY <1>1, <1>3 DEF ItemsInv, Types, Inserting, RearHeld
  <2> QED BY <2>2, <2>3 DEF ItemsInv
<1> QED BY <1>4, <1>5, <1>6, <1>7, <1>8

\* Every reachable state satisfies the invariant of the buffer.
THEOREM BufferInvariant == Spec => []BufInv
<1>1. BufInv /\ [Next]_vars => BufInv'
  <2> SUFFICES ASSUME BufInv, [Next]_vars PROVE BufInv'
    OBVIOUS
  <2>1. ASSUME NEW p \in Pthreads, Create(p) \/ Finish(p) PROVE BufInv'
    BY <2>1, OutsideBuf
  <2>2. ASSUME NEW p \in Pthreads, sbuf_insert(p) PROVE BufInv'
    BY <2>2, OutsideBuf, TakeRearBuf, SecondFullTestBuf, FreeRearBuf, StoreItemBuf, CountInsertedBuf
       DEF sbuf_insert
  <2>3. ASSUME NEW p \in Pthreads, sbuf_remove(p) PROVE BufInv'
    BY <2>3, OutsideBuf, TakeFrontBuf, SecondEmptyTestBuf, FreeFrontBuf, GetItemBuf, CountRemovedBuf
       DEF sbuf_remove
  <2>4. CASE UNCHANGED vars
    BY <2>4 DEF vars, sbuf, locals, tasks, BufInv, Types, EndsInv, MovedInv, SpaceInv, ItemsInv
  <2> QED BY <2>1, <2>2, <2>3, <2>4 DEF Next, Step
<1> QED BY InitBuf, <1>1, PTL DEF Spec

(***************************************************************************)
(* The buffer is a FIFO                                                    *)
(***************************************************************************)

\* what Abstract!contents and Abstract!hand stand for
Contents == [i \in 1..(inserted - removed) |-> buf[(removed + i) % n]]
Hand == [p \in Pthreads |-> IF pc[p] = "free132" THEN item[p] ELSE NULL]

\* the contents are a sequence of items, as long as the counts say
LEMMA ContentsAreItems ==
  ASSUME BufInv
  PROVE  /\ inserted - removed \in Nat /\ Contents \in Seq(Items)
         /\ Len(Contents) = inserted - removed
<1>1. inserted \in Nat /\ removed \in Nat /\ inserted - removed \in Nat
  BY DEF BufInv, SpaceInv, Types
<1>2. \A i \in 1..(inserted - removed) : buf[(removed + i) % n] \in Items
  <2> SUFFICES ASSUME NEW i \in 1..(inserted - removed) PROVE buf[(removed + i) % n] \in Items
    OBVIOUS
  <2>1. removed + i \in (removed + 1)..inserted
    BY <1>1
  <2>2. buf[Slot(removed + i)] \in Items
    BY <2>1 DEF BufInv, ItemsInv
  <2> QED BY <2>2 DEF Slot
<1>3. Contents \in Seq(Items)
  BY <1>1, <1>2 DEF Contents
<1> QED BY <1>1, <1>3 DEF Contents

\* a step that moves no item
LEMMA NothingMoved ==
  ASSUME Types, buf' = buf, inserted' = inserted, removed' = removed,
         \A p \in Pthreads :
           /\ pc'[p] = "free132" <=> pc[p] = "free132"
           /\ pc[p] = "free132" => item'[p] = item[p]
  PROVE  UNCHANGED <<Contents, Hand>>
<1>1. Contents' = Contents
  BY DEF Contents
<1>2. Hand' = Hand
  BY DEF Hand
<1> QED BY <1>1, <1>2

\* the store into a free slot does not show
LEMMA StoreIsHidden ==
  ASSUME BufInv, NEW p \in Pthreads, StoreItem(p)
  PROVE  UNCHANGED <<Contents, Hand>>
<1>1. /\ inserted \in Nat /\ removed \in Nat /\ inserted < removed + n /\ removed <= inserted
      /\ rear = inserted
  <2>1. pc[p] = "store65" /\ trialRear = p
    BY DEF StoreItem, Goto, BufInv, EndsInv, RearHeld
  <2>2. \A q \in Pthreads : pc[q] # "count70"
    BY <2>1 DEF BufInv, EndsInv, RearHeld
  <2> QED BY <2>1, <2>2 DEF BufInv, MovedInv, SpaceInv, Types
<1>2. buf' = [buf EXCEPT ![Slot(inserted + 1)] = item[p]]
      /\ inserted' = inserted /\ removed' = removed
  BY <1>1 DEF StoreItem, Slot
<1>3. \A k \in (removed + 1)..inserted : buf'[Slot(k)] = buf[Slot(k)]
  <2>1. \A k \in (removed + 1)..inserted : Slot(k) # Slot(inserted + 1) /\ Slot(k) \in 0..(n - 1)
    BY <1>1, FreeSlot
  <2> QED BY <1>2, <2>1 DEF BufInv, Types
<1>4. \A i \in 1..(inserted - removed) : buf'[(removed + i) % n] = buf[(removed + i) % n]
  <2> SUFFICES ASSUME NEW i \in 1..(inserted - removed)
               PROVE  buf'[(removed + i) % n] = buf[(removed + i) % n]
    OBVIOUS
  <2>1. removed + i \in (removed + 1)..inserted
    BY <1>1
  <2>2. buf'[Slot(removed + i)] = buf[Slot(removed + i)]
    BY <1>3, <2>1
  <2> QED BY <2>2 DEF Slot
<1>5. Contents' = Contents
  BY <1>2, <1>4 DEF Contents
<1>6. Hand' = Hand
  BY DEF Hand, StoreItem, Goto, BufInv, Types, locals
<1> QED BY <1>5, <1>6

\* the store to inserted appends the item
LEMMA CountInsertedInserts ==
  ASSUME BufInv, NEW p \in Pthreads, CountInserted(p)
  PROVE  \E x \in Items : Abstract!Insert(x)
<1>1. /\ inserted \in Nat /\ removed \in Nat /\ inserted < removed + n /\ removed <= inserted
      /\ buf[Slot(inserted + 1)] = item[p] /\ item[p] \in Items
  BY DEF CountInserted, Goto, BufInv, MovedInv, SpaceInv, ItemsInv, Types, Inserting, RearHeld
<1>2. inserted' = inserted + 1 /\ removed' = removed /\ buf' = buf /\ n \in Nat
  BY ConstantFacts DEF CountInserted
<1>3. Contents \in Seq(Items) /\ Len(Contents) = inserted - removed
  BY ContentsAreItems
<1>4. Contents' = Append(Contents, item[p])
  <2>1. Contents' = [i \in 1..(inserted - removed + 1) |-> buf[(removed + i) % n]]
    <3>1. inserted' - removed' = inserted - removed + 1
      BY <1>1, <1>2
    <3> QED BY <1>2, <3>1 DEF Contents
  <2>2. \A i \in 1..(inserted - removed) : Contents[i] = buf[(removed + i) % n]
    BY DEF Contents
  <2>3. buf[(removed + (inserted - removed + 1)) % n] = item[p]
    <3>1. removed + (inserted - removed + 1) = inserted + 1
      BY <1>1
    <3> QED BY <1>1, <3>1 DEF Slot
  <2> QED BY <1>1, <1>3, <2>1, <2>2, <2>3
<1>5. Hand' = Hand
  BY DEF Hand, CountInserted, Goto, BufInv, Types, locals
<1>6. Len(Contents) < n
  BY <1>1, <1>2, <1>3
<1> QED BY <1>1, <1>4, <1>5, <1>6 DEF Abstract!Insert, Contents, Hand

\* the store to removed takes the first item
LEMMA CountRemovedRemoves ==
  ASSUME BufInv, NEW p \in Pthreads, CountRemoved(p)
  PROVE  Abstract!Remove(p)
<1>1. /\ inserted \in Nat /\ removed \in Nat /\ removed < inserted
      /\ item[p] = buf[Slot(removed + 1)] /\ pc[p] = "count131"
  BY DEF CountRemoved, Goto, BufInv, MovedInv, SpaceInv, Types
<1>2. inserted' = inserted /\ removed' = removed + 1 /\ buf' = buf
  BY DEF CountRemoved
<1>3. Contents \in Seq(Items) /\ Len(Contents) = inserted - removed
  BY ContentsAreItems
<1>4. Contents # <<>> /\ Head(Contents) = item[p]
  <2>1. Contents[1] = buf[(removed + 1) % n]
    BY <1>1 DEF Contents
  <2> QED BY <1>1, <1>3, <2>1 DEF Slot
<1>5. Contents' = Tail(Contents)
  <2>1. Contents' = [i \in 1..(inserted - removed - 1) |-> buf[(removed + (i + 1)) % n]]
    <3>1. inserted' - removed' = inserted - removed - 1
      BY <1>1, <1>2
    <3>2. \A i \in 1..(inserted - removed - 1) : removed' + i = removed + (i + 1)
      BY <1>1, <1>2
    <3> QED BY <1>2, <3>1, <3>2 DEF Contents
  <2>2. \A i \in 1..(inserted - removed) : Contents[i] = buf[(removed + i) % n]
    BY DEF Contents
  <2>3. \A i \in 1..(inserted - removed - 1) : Contents[i + 1] = buf[(removed + (i + 1)) % n]
    BY <1>1, <2>2
  <2>4. /\ Tail(Contents) \in Seq(Items) /\ Len(Tail(Contents)) = inserted - removed - 1
        /\ \A i \in 1..(inserted - removed - 1) : Tail(Contents)[i] = Contents[i + 1]
    BY <1>3, <1>4, HeadTailProperties
  <2>5. \A i \in 1..(inserted - removed - 1) : Contents[i + 1] \in Items
    BY <1>1, <1>3
  <2>6. Contents' \in Seq(Items) /\ Len(Contents') = inserted - removed - 1
    <3>1. \A i \in 1..(inserted - removed - 1) : buf[(removed + (i + 1)) % n] \in Items
      BY <2>3, <2>5
    <3>2. Contents' \in [1..(inserted - removed - 1) -> Items]
      BY <2>1, <3>1
    <3>3. inserted - removed - 1 \in Nat
      BY <1>1
    <3> QED BY <3>2, <3>3
  <2>7. \A i \in 1..Len(Contents') : Contents'[i] = Tail(Contents)[i]
    BY <2>1, <2>3, <2>4, <2>6
  <2> QED BY <2>4, <2>6, <2>7, SeqEqual
<1>6. Hand[p] = NULL /\ Hand' = [Hand EXCEPT ![p] = item[p]]
  BY <1>1 DEF Hand, CountRemoved, Goto, BufInv, Types, locals
<1> QED BY <1>4, <1>5, <1>6 DEF Abstract!Remove, Contents, Hand

\* the reset of trialFront returns the item
LEMMA FreeFrontReturns ==
  ASSUME BufInv, NEW p \in Pthreads, FreeFront(p)
  PROVE  Abstract!Return(p)
<1>1. pc[p] = "free132" /\ item[p] \in Items /\ UNCHANGED <<buf, inserted, removed, item>>
  BY DEF FreeFront, Goto, BufInv, ItemsInv, locals
<1>2. Contents' = Contents
  BY <1>1 DEF Contents
<1>3. Hand[p] # NULL
  BY <1>1, ConstantFacts DEF Hand
<1>4. Hand' = [Hand EXCEPT ![p] = NULL]
  <2>1. pc'[p] # "free132" /\ \A q \in Pthreads \ {p} : pc'[q] = pc[q]
    BY DEF FreeFront, Goto, BufInv, Types
  <2> QED BY <1>1, <2>1 DEF Hand
<1> QED BY <1>2, <1>3, <1>4 DEF Abstract!Return, Contents, Hand

\* the other steps of sbuf_insert and sbuf_remove
LEMMA OtherStepsMoveNothing ==
  ASSUME BufInv, NEW p \in Pthreads,
         \/ Create(p) \/ Finish(p)
         \/ ReadOne(p, "full50", "read50") \/ FirstFullTest(p)
         \/ TakeRear(p) \/ SecondFullTest(p) \/ GiveUpRear(p) \/ FreeRear(p)
         \/ ReadOne(p, "empty89", "read89") \/ EmptyTest(p)
         \/ LockIdle(p) \/ UnlockIdle(p)
         \/ BecomeIdle(p) \/ AwaitItem(p) \/ StopIdling(p)
         \/ TakeFront(p) \/ SecondEmptyTest(p) \/ GiveUpFront(p) \/ GetItem(p)
  PROVE  UNCHANGED <<Contents, Hand>>
<1> USE DEF Goto, sbuf, locals
<1>1. Types
  BY DEF BufInv
<1>2. ASSUME Create(p) \/ Finish(p) PROVE UNCHANGED <<Contents, Hand>>
  BY <1>1, <1>2, NothingMoved DEF Create, Finish, Types
<1>3. ASSUME \/ ReadOne(p, "full50", "read50") \/ ReadOne(p, "empty89", "read89")
             \/ FirstFullTest(p) \/ EmptyTest(p)
      PROVE  UNCHANGED <<Contents, Hand>>
  BY <1>1, <1>3, NothingMoved DEF ReadOne, FirstFullTest, EmptyTest, RunAtOnce, Types
<1>4. ASSUME TakeRear(p) \/ SecondFullTest(p) \/ GiveUpRear(p) \/ FreeRear(p)
      PROVE  UNCHANGED <<Contents, Hand>>
  BY <1>1, <1>4, NothingMoved DEF TakeRear, SecondFullTest, GiveUpRear, FreeRear, RunAtOnce, Types
<1>5. ASSUME LockIdle(p) \/ UnlockIdle(p) \/ BecomeIdle(p) \/ AwaitItem(p) \/ StopIdling(p)
      PROVE  UNCHANGED <<Contents, Hand>>
  BY <1>1, <1>5, NothingMoved DEF LockIdle, UnlockIdle, BecomeIdle, AwaitItem, StopIdling, CountIdle, Types
<1>6. ASSUME TakeFront(p) \/ SecondEmptyTest(p) \/ GiveUpFront(p) \/ GetItem(p)
      PROVE  UNCHANGED <<Contents, Hand>>
  BY <1>1, <1>6, NothingMoved DEF TakeFront, SecondEmptyTest, GiveUpFront, GetItem, Types
<1> QED BY <1>2, <1>3, <1>4, <1>5, <1>6

\* making the exit tasks begins with no item moved
LEMMA SignalMovesNothing ==
  ASSUME BufInv, NEW p \in Pthreads, signal_exit_task(p)
  PROVE  UNCHANGED <<Contents, Hand>>
<1>1. Types
  BY DEF BufInv
<1>2. /\ UNCHANGED sbuf /\ pc[p] = "idle91"
      /\ \/ /\ pc' = [pc EXCEPT ![p] = "full50"]
            /\ item' = [item EXCEPT ![p] = exit_task]
         \/ pc' = [pc EXCEPT ![p] = "unlock100"] /\ UNCHANGED item
  <2> USE DEF signal_exit_task, SignalWhen, Goto
  <2>1. CASE idlep_count = num_pthreads - 1 /\ num_pthreads > 0
    BY <2>1, Zenon
  <2>2. CASE ~(idlep_count = num_pthreads - 1 /\ num_pthreads > 0)
    BY <2>2, Zenon
  <2> QED BY <2>1, <2>2
<1> QED BY <1>1, <1>2, NothingMoved DEF Types, sbuf

\* sbuf_insert and sbuf_remove implement a bounded FIFO buffer for any number
\* of pthreads and slots: the compare-and-swaps on trialRear and trialFront
\* and the counts inserted and removed are enough.
THEOREM BufferIsFifo == Spec => ImplementsBuffer
<1>1. Init => Abstract!Init
  <2> SUFFICES ASSUME Init PROVE Abstract!Init
    OBVIOUS
  <2>1. Slot(1) \in 0..(n - 1)
    BY SlotRange
  <2>2. buf[1 % n] = 1 /\ inserted = 1 /\ removed = 0
    BY <2>1 DEF Init, Slot
  <2>3. Contents = <<1>>
    <3>1. inserted - removed = 1 /\ 1..1 = {1} /\ removed + 1 = 1
      BY <2>2
    <3>2. Contents = [i \in {1} |-> buf[(removed + i) % n]]
      BY <3>1 DEF Contents
    <3>3. buf[(removed + 1) % n] = 1
      BY <2>2, <3>1
    <3>4. Contents = [i \in {1} |-> 1]
      BY <3>2, <3>3
    <3> QED BY <3>4
  <2>4. Hand = [c \in Pthreads |-> NULL]
    BY DEF Init, Hand
  <2> QED BY <2>3, <2>4 DEF Abstract!Init, Contents, Hand
<1>2. BufInv /\ [Next]_vars => [Abstract!Next]_<<Contents, Hand>>
  <2> SUFFICES ASSUME BufInv, [Next]_vars PROVE Abstract!Next \/ UNCHANGED <<Contents, Hand>>
    OBVIOUS
  <2>1. ASSUME NEW p \in Pthreads, Create(p) \/ Finish(p) PROVE UNCHANGED <<Contents, Hand>>
    BY <2>1, OtherStepsMoveNothing
  <2>2. ASSUME NEW p \in Pthreads, sbuf_insert(p)
        PROVE  Abstract!Next \/ UNCHANGED <<Contents, Hand>>
    <3>1. CASE CountInserted(p)
      BY <2>2, <3>1, CountInsertedInserts DEF Abstract!Next
    <3>2. CASE StoreItem(p)
      BY <3>2, StoreIsHidden
    <3> QED BY <2>2, <3>1, <3>2, OtherStepsMoveNothing DEF sbuf_insert
  <2>3. ASSUME NEW p \in Pthreads, sbuf_remove(p)
        PROVE  Abstract!Next \/ UNCHANGED <<Contents, Hand>>
    <3>1. CASE CountRemoved(p)
      BY <3>1, CountRemovedRemoves DEF Abstract!Next
    <3>2. CASE FreeFront(p)
      BY <3>2, FreeFrontReturns DEF Abstract!Next
    <3>3. CASE signal_exit_task(p)
      BY <3>3, SignalMovesNothing
    <3> QED BY <2>3, <3>1, <3>2, <3>3, OtherStepsMoveNothing DEF sbuf_remove
  <2>4. CASE UNCHANGED vars
    BY <2>4 DEF vars, sbuf, locals, Contents, Hand
  <2> QED BY <2>1, <2>2, <2>3, <2>4 DEF Next, Step
<1> QED BY BufferInvariant, <1>1, <1>2, PTL
        DEF Spec, ImplementsBuffer, Abstract!Spec, Contents, Hand

(***************************************************************************)
(* Nobody runs a task when the exit tasks are made                         *)
(***************************************************************************)

\* the idle pthreads are finitely many
LEMMA IdlingFacts ==
  /\ IsFiniteSet(Pthreads) /\ Cardinality(Pthreads) = num_pthreads
  /\ IsFiniteSet(Idling) /\ Cardinality(Idling) \in Nat
<1>1. num_pthreads \in Nat \ {0}
  BY BufferAssumption
<1>2. IsFiniteSet(Pthreads) /\ Cardinality(Pthreads) = num_pthreads
  BY <1>1, FS_Interval DEF Pthreads
<1>3. Idling \in SUBSET Pthreads
  BY DEF Idling
<1>4. IsFiniteSet(Idling)
  BY <1>2, <1>3, FS_Subset
<1> QED BY <1>2, <1>4, FS_CardinalityType

\* nobody is idle at the start
LEMMA InitIdle == Init => IdleInv
<1> SUFFICES ASSUME Init PROVE IdleInv
  OBVIOUS
<1>1. Idling = {}
  BY DEF Init, Idling
<1>2. idlep_count = Cardinality(Idling)
  BY <1>1, FS_EmptySet DEF Init
<1>3. \A p \in Pthreads : pc[p] = "empty89" /\ hand[p] = {} /\ exits[p] = 0
  BY DEF Init
<1> QED BY <1>2, <1>3 DEF IdleInv

\* a step of a pthread that is not idle before or after
LEMMA BusyKeeps ==
  ASSUME IdleInv, NEW p \in Pthreads, idlep_count' = idlep_count,
         pc[p] \notin {"empty107", "idle110"}, pc'[p] \notin {"empty107", "idle110"},
         \A q \in Pthreads \ {p} :
           pc'[q] = pc[q] /\ hand'[q] = hand[q] /\ exits'[q] = exits[q] /\ item'[q] = item[q],
         pc'[p] \in Removing => hand'[p] = {} /\ exits'[p] = 0,
         pc'[p] = "run" => exits'[p] = 0,
         exits'[p] # 0 => hand'[p] = {} /\ item'[p] = exit_task
  PROVE  IdleInv'
<1>1. Idling' = Idling
  BY DEF Idling
<1> QED BY <1>1 DEF IdleInv

\* what the invariant says of one pthread
LEMMA IdleAt ==
  ASSUME Types, IdleInv, NEW p \in Pthreads
  PROVE  /\ pc[p] \in Removing => hand[p] = {} /\ exits[p] = 0
         /\ pc[p] = "run" => exits[p] = 0
         /\ exits[p] # 0 => hand[p] = {} /\ item[p] = exit_task
         /\ exits[p] \in Nat
BY DEF IdleInv, Types

\* a task that runs has no exit tasks to make
LEMMA CreateIdle ==
  ASSUME Types, IdleInv, NEW p \in Pthreads, Create(p) \/ Finish(p)
  PROVE  IdleInv'
<1>1. /\ UNCHANGED <<idlep_count, exits>> /\ pc[p] = "run" /\ pc'[p] \in {"full50", "empty89"}
      /\ pc'[p] = "empty89" => hand'[p] = {}
      /\ \A q \in Pthreads \ {p} : pc'[q] = pc[q] /\ hand'[q] = hand[q] /\ item'[q] = item[q]
  BY DEF Create, Finish, Goto, idle, locals, Types
<1>2. exits[p] = 0 /\ exits'[p] = 0 /\ (pc'[p] \in Removing => hand'[p] = {})
  BY IdleAt, <1>1 DEF Removing, FrontHeld
<1> QED BY <1>1, <1>2, BusyKeeps

\* steps that change nothing the invariant is about
LEMMA QuietIdle ==
  ASSUME Types, IdleInv, NEW p \in Pthreads,
         \/ ReadOne(p, "full50", "read50") \/ ReadOne(p, "empty89", "read89")
         \/ EmptyTest(p) \/ TakeRear(p) \/ SecondFullTest(p)
         \/ StoreItem(p) \/ CountInserted(p) \/ LockIdle(p) \/ UnlockIdle(p)
         \/ TakeFront(p) \/ SecondEmptyTest(p) \/ GiveUpFront(p) \/ CountRemoved(p)
  PROVE  IdleInv'
<1> DEFINE Quiet ==
      /\ UNCHANGED <<idlep_count, hand, exits, item>>
      /\ pc[p] \notin {"empty107", "idle110"} /\ pc'[p] \notin {"empty107", "idle110", "run"}
      /\ pc'[p] \in Removing => pc[p] \in Removing
      /\ \A q \in Pthreads \ {p} : pc'[q] = pc[q]
<1>0. /\ pc[p] \in Removing => hand[p] = {} /\ exits[p] = 0
      /\ exits[p] # 0 => hand[p] = {} /\ item[p] = exit_task
  BY IdleAt
<1>5. Quiet => IdleInv'
  BY <1>0, BusyKeeps
<1> USE DEF Goto, idle, locals, tasks, Types, Removing, FrontHeld
<1>1. CASE ReadOne(p, "full50", "read50") \/ ReadOne(p, "empty89", "read89")
  <2>1. Quiet
    BY <1>1 DEF ReadOne
  <2> QED BY <1>5, <2>1
<1>2. CASE EmptyTest(p) \/ LockIdle(p) \/ UnlockIdle(p)
  <2>1. Quiet
    BY <1>2 DEF EmptyTest, LockIdle, UnlockIdle
  <2> QED BY <1>5, <2>1
<1>3. CASE TakeRear(p) \/ SecondFullTest(p) \/ StoreItem(p) \/ CountInserted(p)
  <2>1. Quiet
    BY <1>3 DEF TakeRear, SecondFullTest, StoreItem, CountInserted
  <2> QED BY <1>5, <2>1
<1>4. CASE TakeFront(p) \/ SecondEmptyTest(p) \/ GiveUpFront(p) \/ CountRemoved(p)
  <2>1. Quiet
    BY <1>4 DEF TakeFront, SecondEmptyTest, GiveUpFront, CountRemoved
  <2> QED BY <1>5, <2>1
<1> QED BY <1>1, <1>2, <1>3, <1>4

\* an exit task that does not fit ends the pthread, and any other one runs
LEMMA RefusedIdle ==
  ASSUME Types, IdleInv, NEW p \in Pthreads, FirstFullTest(p) \/ GiveUpRear(p)
  PROVE  IdleInv'
<1> DEFINE Refused ==
      /\ UNCHANGED <<idlep_count, exits, item>>
      /\ pc[p] \in {"read50", "free57"} /\ pc'[p] \in {"run", "exited", "lock54"}
      /\ \A q \in Pthreads \ {p} : pc'[q] = pc[q] /\ hand'[q] = hand[q]
      /\ pc'[p] = "run" => item[p] # exit_task
      /\ item[p] = exit_task => hand'[p] = hand[p]
<1>1. ASSUME FirstFullTest(p) PROVE Refused
  BY <1>1 DEF FirstFullTest, RunAtOnce, Goto, idle, Types
<1>2. ASSUME GiveUpRear(p) PROVE Refused
  BY <1>2 DEF GiveUpRear, RunAtOnce, Goto, idle, locals, Types
<1>3. Refused
  BY <1>1, <1>2
<1>4. pc'[p] = "run" => exits'[p] = 0
  BY IdleAt, <1>3
<1>5. exits'[p] # 0 => hand'[p] = {} /\ item'[p] = exit_task
  BY IdleAt, <1>3
<1>6. pc'[p] \notin Removing
  BY <1>3 DEF Removing, FrontHeld
<1> QED BY <1>3, <1>4, <1>5, <1>6, BusyKeeps

\* after the last exit task the pthread is back in sbuf_remove, without a task
LEMMA FreeRearIdle ==
  ASSUME Types, IdleInv, NEW p \in Pthreads, FreeRear(p)
  PROVE  IdleInv'
<1>1. /\ UNCHANGED <<idlep_count, hand, item>> /\ pc[p] = "free71"
      /\ \A q \in Pthreads \ {p} : pc'[q] = pc[q] /\ exits'[q] = exits[q]
  BY DEF FreeRear, Goto, idle, tasks, Types
<1>2. \/ exits[p] = 0 /\ pc'[p] = "run" /\ exits'[p] = 0
      \/ exits[p] # 0 /\ pc'[p] = "unlock100" /\ exits'[p] = 0
      \/ exits[p] # 0 /\ pc'[p] = "full50"
  BY DEF FreeRear, Goto, Types
<1>3. pc'[p] \in Removing => exits[p] # 0 /\ exits'[p] = 0
  BY <1>2 DEF Removing, FrontHeld
<1>4. exits'[p] # 0 => exits[p] # 0
  BY <1>2
<1> QED BY IdleAt, <1>1, <1>2, <1>3, <1>4, BusyKeeps

\* exit tasks are made by a pthread without a task
LEMMA SignalIdle ==
  ASSUME Types, IdleInv, NEW p \in Pthreads, signal_exit_task(p)
  PROVE  IdleInv'
<1>1. /\ UNCHANGED <<idlep_count, hand>> /\ pc[p] = "idle91"
      /\ \/ /\ pc' = [pc EXCEPT ![p] = "full50"]
            /\ item' = [item EXCEPT ![p] = exit_task]
            /\ exits' = [exits EXCEPT ![p] = num_pthreads]
         \/ pc' = [pc EXCEPT ![p] = "unlock100"] /\ UNCHANGED <<item, exits>>
  <2> USE DEF signal_exit_task, SignalWhen, Goto, tasks
  <2>1. CASE idlep_count = num_pthreads - 1 /\ num_pthreads > 0
    BY <2>1, Zenon
  <2>2. CASE ~(idlep_count = num_pthreads - 1 /\ num_pthreads > 0)
    BY <2>2, Zenon
  <2> QED BY <2>1, <2>2
<1>2. /\ \A q \in Pthreads \ {p} : pc'[q] = pc[q] /\ exits'[q] = exits[q] /\ item'[q] = item[q]
      /\ \/ pc'[p] = "full50" /\ item'[p] = exit_task
         \/ pc'[p] = "unlock100" /\ item'[p] = item[p] /\ exits'[p] = exits[p]
  BY <1>1 DEF Types
<1>3. hand[p] = {} /\ exits[p] = 0
  BY IdleAt, <1>1 DEF Removing
<1>4. pc'[p] \in Removing => pc'[p] = "unlock100"
  BY <1>2 DEF Removing, FrontHeld
<1> QED BY <1>1, <1>2, <1>3, <1>4, BusyKeeps

\* the item is not run yet
LEMMA GetItemIdle ==
  ASSUME Types, IdleInv, NEW p \in Pthreads, GetItem(p)
  PROVE  IdleInv'
<1>1. /\ UNCHANGED <<idlep_count, hand, exits>> /\ pc[p] = "item124" /\ pc'[p] = "count131"
      /\ \A q \in Pthreads \ {p} : pc'[q] = pc[q] /\ item'[q] = item[q]
  BY DEF GetItem, Goto, idle, tasks, Types
<1>2. hand[p] = {} /\ exits[p] = 0
  BY IdleAt, <1>1 DEF Removing, FrontHeld
<1> QED BY <1>1, <1>2, BusyKeeps

\* the item is run
LEMMA FreeFrontIdle ==
  ASSUME Types, IdleInv, NEW p \in Pthreads, FreeFront(p)
  PROVE  IdleInv'
<1>1. /\ UNCHANGED <<idlep_count, item, exits>> /\ pc[p] = "free132"
      /\ pc'[p] \in {"run", "exited"}
      /\ \A q \in Pthreads \ {p} : pc'[q] = pc[q] /\ hand'[q] = hand[q]
  BY DEF FreeFront, Goto, idle, locals, Types
<1>2. exits[p] = 0 /\ pc'[p] \notin Removing
  BY IdleAt, <1>1 DEF Removing, FrontHeld
<1> QED BY <1>1, <1>2, BusyKeeps

\* the counter of idle pthreads goes up and down with them
LEMMA CountIdleIdle ==
  ASSUME Types, IdleInv, NEW p \in Pthreads, BecomeIdle(p) \/ AwaitItem(p) \/ StopIdling(p)
  PROVE  IdleInv'
<1> USE DEF Goto, locals, tasks, idle
<1>1. /\ UNCHANGED <<hand, exits, item>>
      /\ pc[p] \in Removing /\ pc'[p] \in Removing
      /\ \A q \in Pthreads \ {p} : pc'[q] = pc[q]
  BY DEF BecomeIdle, AwaitItem, StopIdling, CountIdle, Types, Removing
<1>2. \A q \in Pthreads :
        /\ pc'[q] \in Removing => hand'[q] = {} /\ exits'[q] = 0
        /\ pc'[q] = "run" => exits'[q] = 0
        /\ exits'[q] # 0 => hand'[q] = {} /\ item'[q] = exit_task
  BY <1>1 DEF IdleInv, Removing, FrontHeld
<1>3. idlep_count' = Cardinality(Idling)'
  <2>1. CASE BecomeIdle(p)
    <3>1. Idling' = Idling \cup {p} /\ p \notin Idling
      BY <2>1 DEF BecomeIdle, CountIdle, Idling, Types
    <3>2. Cardinality(Idling') = Cardinality(Idling) + 1
      BY <3>1, IdlingFacts, FS_AddElement
    <3> QED BY <2>1, <3>2 DEF BecomeIdle, CountIdle, IdleInv
  <2>2. CASE AwaitItem(p)
    <3>1. Idling' = Idling
      BY <2>2 DEF AwaitItem, Idling, Types
    <3> QED BY <2>2, <3>1 DEF AwaitItem, IdleInv
  <2>3. CASE StopIdling(p)
    <3>1. Idling' = Idling \ {p} /\ p \in Idling
      BY <2>3 DEF StopIdling, CountIdle, Idling, Types
    <3>2. Cardinality(Idling') = Cardinality(Idling) - 1 /\ Cardinality(Idling) \in Nat
      BY <3>1, IdlingFacts, FS_RemoveElement
    <3> QED BY <2>3, <3>2 DEF StopIdling, CountIdle, IdleInv
  <2> QED BY <2>1, <2>2, <2>3
<1> QED BY <1>2, <1>3 DEF IdleInv

\* idlep_count is the number of pthreads that wait at lines 107-110, and a
\* pthread in sbuf_remove has no task.
THEOREM IdleInvariant == Spec => []IdleInv
<1>1. Types /\ IdleInv /\ [Next]_vars => IdleInv'
  <2> SUFFICES ASSUME Types, IdleInv, [Next]_vars PROVE IdleInv'
    OBVIOUS
  <2>1. ASSUME NEW p \in Pthreads, Create(p) \/ Finish(p) \/ sbuf_insert(p) PROVE IdleInv'
    BY <2>1, CreateIdle, QuietIdle, RefusedIdle, FreeRearIdle DEF sbuf_insert
  <2>2. ASSUME NEW p \in Pthreads, sbuf_remove(p) PROVE IdleInv'
    BY <2>2, QuietIdle, SignalIdle, CountIdleIdle, GetItemIdle, FreeFrontIdle DEF sbuf_remove
  <2>3. CASE UNCHANGED vars
    <3>1. UNCHANGED <<idlep_count, pc, hand, exits, item>> /\ Idling' = Idling
      BY <2>3 DEF vars, idle, locals, tasks, Idling
    <3> QED BY <3>1 DEF IdleInv
  <2> QED BY <2>1, <2>2, <2>3 DEF Next, Step
<1>2. BufInv => Types
  BY DEF BufInv
<1> QED BY BufferInvariant, InitIdle, <1>1, <1>2, PTL DEF Spec

\* done_creating_threads is set in one place
LEMMA OnlySignalSetsFlag ==
  ASSUME [Next]_vars, done_creating_threads' # done_creating_threads
  PROVE  \E p \in Pthreads : signal_exit_task(p)
BY DEF Next, Step, Create, Finish, sbuf_insert, sbuf_remove, ReadOne, FirstFullTest, TakeRear,
       SecondFullTest, GiveUpRear, StoreItem, CountInserted, FreeRear, EmptyTest, LockIdle,
       UnlockIdle, BecomeIdle, AwaitItem, StopIdling, CountIdle, TakeFront, SecondEmptyTest,
       GiveUpFront, GetItem, CountRemoved, FreeFront, idle, vars

\* and it is a flag
LEMMA FlagIsBoolean == Spec => [](done_creating_threads \in BOOLEAN)
<1>1. Init => done_creating_threads \in BOOLEAN
  BY Zenon DEF Init
<1>2. done_creating_threads \in BOOLEAN /\ [Next]_vars => (done_creating_threads \in BOOLEAN)'
  <2> SUFFICES ASSUME done_creating_threads \in BOOLEAN, [Next]_vars
               PROVE  done_creating_threads' \in BOOLEAN
    OBVIOUS
  <2>1. CASE done_creating_threads' = done_creating_threads
    BY <2>1
  <2>2. CASE done_creating_threads' # done_creating_threads
    <3>1. PICK p \in Pthreads : signal_exit_task(p)
      BY <2>2, OnlySignalSetsFlag
    <3> QED BY <3>1, Zenon DEF signal_exit_task, SignalWhen
  <2> QED BY <2>1, <2>2
<1> QED BY <1>1, <1>2, PTL DEF Spec

\* When a pthread makes the exit tasks, all the others wait for an item and
\* none of them runs a task or has removed one: what is left of lines 92-93
\* for any number of pthreads.
THEOREM NobodyRuns == Spec => NobodyRunsAtExit
<1>1. Types /\ IdleInv /\ done_creating_threads \in BOOLEAN /\ [Next]_vars =>
        (done_creating_threads' # done_creating_threads =>
           \A p \in Pthreads : hand[p] = {} /\ pc[p] # "free132")
  <2> SUFFICES ASSUME Types, IdleInv, done_creating_threads \in BOOLEAN, [Next]_vars,
                      done_creating_threads' # done_creating_threads
               PROVE  \A p \in Pthreads : hand[p] = {} /\ pc[p] # "free132"
    OBVIOUS
  <2>1. PICK p \in Pthreads : signal_exit_task(p)
    BY OnlySignalSetsFlag
  <2>2. pc[p] = "idle91"
    BY <2>1, Zenon DEF signal_exit_task, SignalWhen, Goto
  <2>3. idlep_count = num_pthreads - 1
    <3> SUFFICES ASSUME ~(idlep_count = num_pthreads - 1) PROVE FALSE
      OBVIOUS
    <3> QED BY <2>1, Zenon DEF signal_exit_task, SignalWhen
  <2>4. Idling \in SUBSET (Pthreads \ {p})
    BY <2>2 DEF Idling
  <2>5. IsFiniteSet(Pthreads \ {p}) /\ Cardinality(Pthreads \ {p}) = num_pthreads - 1
    BY IdlingFacts, FS_RemoveElement
  <2>6. Idling = Pthreads \ {p}
    BY <2>3, <2>4, <2>5, FS_Subset DEF IdleInv
  <2> QED BY <2>2, <2>6 DEF Idling, IdleInv, Removing
<1>2. BufInv => Types
  BY DEF BufInv
<1> QED BY BufferInvariant, IdleInvariant, FlagIsBoolean, <1>1, <1>2, PTL DEF Spec, NobodyRunsAtExit
=============================================================================
