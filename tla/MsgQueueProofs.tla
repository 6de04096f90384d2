--------------------------- MODULE MsgQueueProofs ---------------------------
(***************************************************************************)
(* For any cpus, any finite set of nodes and any number of messages: the   *)
(* list of a message queue is whole whenever its lock is free, dequeue     *)
(* finds a node, and the queue implements a FIFO.                          *)
(***************************************************************************)
EXTENDS MsgQueue, SequenceTheorems, FiniteSetTheorems, TLAPS

USE QueueAssumption

-----------------------------------------------------------------------------
(***************************************************************************)
(* The inductive invariant                                                 *)
(***************************************************************************)

\* between spinlock_lock and spinlock_unlock
Locked ==
  {"msg77", "empty80", "empty81", "link83", "link84", "link85", "link86", "unlock88",
   "tail18", "empty19", "full19", "delete26", "delete34", "msg56", "free57", "unlock58"}
LockInv ==
  \A c \in Cpus : pc[c] \in Locked =>
    state /\ \A d \in Cpus : pc[d] \in Locked => d = c

\* only the owner is in i_handler, which has a message after line 56, and finds
\* one after line 19
Handling ==
  {"tail18", "empty19", "full19", "lock49", "delete26", "delete34", "msg56", "free57",
   "unlock58", "handle"}
OwnerInv ==
  /\ \A c \in Cpus : pc[c] \in Handling => c = Owner
  /\ pc[Owner] \in {"full19", "lock49", "delete26"} => head # NULL
  /\ hand # NULL <=> pc[Owner] \in {"free57", "unlock58", "handle"}

\* a node that is not in the list belongs to one cpu
Apart ==
  {"lock75", "msg77", "empty80", "link83", "link84", "link85", "link86",
   "delete34", "msg56", "free57"}
Sending ==
  {"lock75", "msg77", "empty80", "empty81", "link83", "link84", "link85", "link86", "unlock88"}
NodeInv ==
  \A c \in Cpus :
    /\ pc[c] \in Apart => n[c] \in allocated
    /\ \A d \in Cpus : pc[c] \in Apart /\ pc[d] \in Apart /\ n[c] = n[d] => c = d
    /\ pc[c] \in Sending => sent[c] # 0
    /\ pc[c] \in Apart \ {"lock75", "msg77", "free57"} => msg[n[c]] \in Messages

\* how far enqueue and queue_delete have got
EndsInv ==
  /\ (\A c \in Cpus : pc[c] # "delete34") => (tail = NULL <=> head = NULL)
  /\ (\A c \in Cpus : pc[c] \notin {"delete34", "empty81"}) =>
       (head # NULL => prev[head] = NULL)
  /\ (\A c \in Cpus : pc[c] \notin {"empty81", "link84", "link85", "link86"}) =>
       (head # NULL => next[tail] = NULL)
  /\ \A c \in Cpus :
       /\ pc[c] = "empty80" => head = NULL
       /\ pc[c] = "empty81" => head = n[c] /\ tail = n[c]
       /\ pc[c] \in {"empty81", "link83", "link84", "link85", "link86"} => head # NULL
       /\ pc[c] \in {"link84", "link85", "link86"} => next[tail] = n[c]
       /\ pc[c] \in {"link85", "link86"} => prev[n[c]] = tail
       /\ pc[c] = "link86" => next[n[c]] = NULL
       /\ pc[c] = "delete34" =>
            /\ prev[n[c]] = NULL /\ next[n[c]] = head
            /\ IF head = NULL THEN tail = n[c] ELSE prev[head] = n[c]

\* s is the list, linked both ways, of nodes that belong to nobody else
ListInv(s) ==
  /\ IsList(s)
  /\ \A i \in 1..(Len(s) - 1) : prev[s[i + 1]] = s[i]
  /\ \A i \in DOMAIN s :
       /\ s[i] \in allocated /\ msg[s[i]] \in Messages
       /\ \A c \in Cpus : pc[c] \in Apart => n[c] # s[i]

Inv ==
  /\ TypeOK /\ LockInv /\ OwnerInv /\ NodeInv /\ EndsInv
  /\ \E s \in Lists : ListInv(s)

-----------------------------------------------------------------------------
(* Lists *)

(***************************************************************************)
(* A nonempty set of numbers has a least element.                          *)
(***************************************************************************)
LEMMA Least ==
  ASSUME NEW T \in SUBSET Nat, T # {}
  PROVE  \E m \in T : \A k \in T : m <= k
<1> DEFINE U == {1..k : k \in T}
<1>1. U \subseteq FiniteSubsetsOf(Nat) /\ U # {}
  <2>1. \A k \in T : 1..k \in SUBSET Nat
    OBVIOUS
  <2>2. \A k \in T : IsFiniteSet(1..k)
    BY FS_Interval
  <2> QED BY <2>1, <2>2 DEF FiniteSubsetsOf
<1>2. PICK u \in U : \A v \in U : ~ <<v, u>> \in StrictSubsetOrdering(Nat)
  BY <1>1, FS_StrictSubsetOrderingWellFounded, WFMin
<1>3. PICK m \in T : u = 1..m
  OBVIOUS
<1>4. ASSUME NEW k \in T, ~ (m <= k)
      PROVE  FALSE
  <2>1. 1..k \subseteq 1..m /\ 1..k # 1..m
    <3>1. m \in 1..m /\ m \notin 1..k
      BY <1>4
    <3> QED BY <1>4, <3>1
  <2>2. <<1..k, 1..m>> \in StrictSubsetOrdering(Nat)
    BY <2>1 DEF StrictSubsetOrdering
  <2> QED BY <1>2, <1>3, <2>2
<1> QED BY <1>4

(***************************************************************************)
(* A sequence of different nodes is no longer than there are nodes.        *)
(***************************************************************************)
LEMMA DifferentNodes ==
  ASSUME NEW s \in Seq(Nodes), \A i, j \in DOMAIN s : s[i] = s[j] => i = j
  PROVE  s \in Lists
<1>1. s \in Injection(1..Len(s), Nodes)
  BY DEF Injection, IsInjective
<1>2. Cardinality(1..Len(s)) <= Cardinality(Nodes)
  BY <1>1, FS_Injection
<1>3. Cardinality(1..Len(s)) = Len(s)
  <2>1. Len(s) \in Nat
    OBVIOUS
  <2>2. Cardinality(1..Len(s)) = IF 1 > Len(s) THEN 0 ELSE Len(s) - 1 + 1
    BY <2>1, FS_Interval
  <2> QED BY <2>1, <2>2
<1>4. Cardinality(Nodes) \in Nat
  BY FS_CardinalityType
<1>5. Len(s) \in 0..Cardinality(Nodes)
  BY <1>2, <1>3, <1>4
<1> QED BY <1>5 DEF Lists

\* The lists of nodes are sequences.
LEMMA ListsAreSequences == ASSUME NEW s \in Lists PROVE s \in Seq(Nodes)
<1>1. PICK k \in 0..Cardinality(Nodes) : s \in [1..k -> Nodes]
  BY DEF Lists
<1>2. k \in Nat
  BY FS_CardinalityType
<1> QED BY <1>1, <1>2, SeqDef

(***************************************************************************)
(* head and next determine the list: there is only one.                    *)
(***************************************************************************)
LEMMA OneList ==
  ASSUME NEW s \in Lists, NEW t \in Lists, IsList(s), IsList(t)
  PROVE  s = t
<1>1. s \in Seq(Nodes) /\ t \in Seq(Nodes)
  BY ListsAreSequences
<1>2. CASE head = NULL
  BY <1>2 DEF IsList
<1>3. CASE head # NULL
  <2>1. /\ s # <<>> /\ t # <<>> /\ s[1] = t[1]
        /\ Len(s) \in Nat \ {0} /\ Len(t) \in Nat \ {0}
    BY <1>1, <1>3 DEF IsList
  <2> DEFINE Differ == {i \in Nat : i \in 1..Len(s) /\ i \in 1..Len(t) /\ s[i] # t[i]}
  <2>2. Differ = {}
    <3>1. SUFFICES ASSUME Differ # {} PROVE FALSE
      OBVIOUS
    <3>2. PICK i \in Differ : \A k \in Differ : i <= k
      BY <3>1, Least
    <3>3. i # 1
      BY <2>1
    <3>4. i - 1 \in Nat /\ i - 1 \in 1..(Len(s) - 1) /\ i - 1 \in 1..(Len(t) - 1)
      BY <2>1, <3>3
    <3>5. s[i - 1] = t[i - 1]
      BY <2>1, <3>2, <3>4
    <3>6. s[i] = next[s[i - 1]] /\ t[i] = next[t[i - 1]]
      BY <3>4 DEF IsList
    <3> QED BY <3>5, <3>6
  <2>3. \A i \in 1..Len(s) : i \in 1..Len(t) => s[i] = t[i]
    BY <2>1, <2>2
  <2>4. Len(s) = Len(t)
    <3>1. s[Len(s)] = tail /\ t[Len(t)] = tail
      BY <2>1 DEF IsList
    <3>2. CASE Len(s) < Len(t)
      <4>1. t[Len(s)] = t[Len(t)]
        BY <2>1, <2>3, <3>1, <3>2
      <4> QED BY <1>1, <2>1, <3>2, <4>1 DEF IsList
    <3>3. CASE Len(t) < Len(s)
      <4>1. s[Len(t)] = s[Len(s)]
        BY <2>1, <2>3, <3>1, <3>3
      <4> QED BY <1>1, <2>1, <3>3, <4>1 DEF IsList
    <3> QED BY <2>1, <3>2, <3>3
  <2> QED BY <1>1, <2>3, <2>4, SeqEqual
<1> QED BY <1>2, <1>3

\* and it is the one List chooses.
LEMMA TheList == \A s \in Lists : IsList(s) => List = s
BY OneList DEF List

-----------------------------------------------------------------------------
(* The invariant is inductive *)

\* The empty sequence is a list.
LEMMA EmptyList == <<>> \in Lists /\ Len(<<>>) = 0 /\ DOMAIN <<>> = {}
<1>1. <<>> \in Seq(Nodes) /\ Len(<<>>) = 0
  BY EmptySeq
<1>2. DOMAIN <<>> = 1..0
  BY <1>1, LenProperties
<1>3. DOMAIN <<>> = {}
  BY <1>2
<1>4. <<>> \in Lists
  BY <1>1, <1>3, DifferentNodes
<1> QED BY <1>1, <1>3, <1>4

\* init_queue establishes the invariant.
LEMMA InitInv == Init => Inv
<1> SUFFICES ASSUME Init PROVE Inv
  OBVIOUS
<1>1. TypeOK
  <2>1. state \in BOOLEAN /\ allocated \in SUBSET Nodes
    BY Zenon DEF Init
  <2>2. next \in [Nodes -> Nodes \cup {NULL}] /\ prev \in [Nodes -> Nodes \cup {NULL}]
    BY DEF Init
  <2>3. msg \in [Nodes -> Messages \cup {NULL}]
    BY DEF Init
  <2>4. pc \in [Cpus -> Points] /\ n \in [Cpus -> Nodes \cup {NULL}] /\ sent \in [Cpus -> 0..PerCpu]
    BY DEF Init, Points
  <2> QED BY <2>1, <2>2, <2>3, <2>4 DEF Init, TypeOK
<1>2. LockInv /\ OwnerInv
  <2>1. \A c \in Cpus : pc[c] = "idle"
    BY DEF Init
  <2>2. LockInv
    BY <2>1 DEF LockInv, Locked
  <2>3. OwnerInv
    BY <2>1 DEF OwnerInv, Handling, Init
  <2> QED BY <2>2, <2>3
<1>3. NodeInv
  BY DEF Init, NodeInv, Apart, Sending
<1>4. EndsInv
  BY DEF Init, EndsInv
<1>5. ListInv(<<>>)
  BY EmptyList DEF ListInv, IsList, Init
<1> QED BY <1>1, <1>2, <1>3, <1>4, <1>5, EmptyList DEF Inv

\* Every step of sendI and i_handler keeps the types,
LEMMA StepType ==
  ASSUME TypeOK, NodeInv, NEW c \in Cpus, SendI(c) \/ IHandler(c)
  PROVE  TypeOK'
<1>0. /\ pc[c] \in Apart => n[c] \in Nodes
      /\ pc[c] \in Sending => sent[c] \in 1..PerCpu
  BY DEF NodeInv, TypeOK
<1> USE DEF TypeOK, Points, Goto, nodeVars, spinlock_lock, spinlock_unlock
<1>1. CASE Malloc(c)
  BY <1>1 DEF Malloc
<1>2. CASE EnqueueLock(c) \/ EnqueueUnlock(c) \/ IsEmptyLock(c) \/ IsEmptyUnlock(c)
             \/ DequeueLock(c) \/ DequeueUnlock(c)
  BY <1>2 DEF EnqueueLock, EnqueueUnlock, IsEmptyLock, IsEmptyUnlock, DequeueLock,
              DequeueUnlock
<1>3. CASE SetMsg(c)
  BY <1>0, <1>3 DEF SetMsg, Messages, Sending
<1>4. CASE FirstNode(c) \/ FirstLinks(c)
  BY <1>4 DEF FirstNode, FirstLinks
<1>5. CASE LinkNext(c) \/ LinkPrev(c) \/ LinkEnd(c) \/ NewTail(c)
  BY <1>5 DEF LinkNext, LinkPrev, LinkEnd, NewTail
<1>6. CASE IsEmptyRead(c) \/ Handle(c)
  BY <1>6 DEF IsEmptyRead, Handle
<1>7. CASE DeleteFront(c)
  BY <1>7 DEF DeleteFront
<1>8. CASE DeleteBack(c)
  BY <1>0, <1>8 DEF DeleteBack, Apart
<1>9. CASE GetMsg(c) \/ Free(c)
  BY <1>0, <1>9 DEF GetMsg, Free, Apart
<1> QED BY <1>1, <1>2, <1>3, <1>4, <1>5, <1>6, <1>7, <1>8, <1>9 DEF SendI, IHandler

\* one cpu at a time between spinlock_lock and spinlock_unlock,
LEMMA StepLock ==
  ASSUME TypeOK, LockInv, NEW c \in Cpus, SendI(c) \/ IHandler(c)
  PROVE  LockInv'
<1> USE DEF LockInv, TypeOK, Locked, Goto, spinlock_lock, spinlock_unlock
<1>1. CASE EnqueueLock(c) \/ IsEmptyLock(c) \/ DequeueLock(c)
  BY <1>1 DEF EnqueueLock, IsEmptyLock, DequeueLock
<1>2. CASE EnqueueUnlock(c) \/ IsEmptyUnlock(c) \/ DequeueUnlock(c)
  BY <1>2 DEF EnqueueUnlock, IsEmptyUnlock, DequeueUnlock
<1>3. CASE Malloc(c) \/ Handle(c)
  BY <1>3 DEF Malloc, Handle
<1>4. CASE SetMsg(c) \/ FirstNode(c) \/ FirstLinks(c)
  BY <1>4 DEF SetMsg, FirstNode, FirstLinks
<1>5. CASE LinkNext(c) \/ LinkPrev(c) \/ LinkEnd(c) \/ NewTail(c)
  BY <1>5 DEF LinkNext, LinkPrev, LinkEnd, NewTail
<1>6. CASE IsEmptyRead(c) \/ DeleteFront(c) \/ DeleteBack(c) \/ GetMsg(c) \/ Free(c)
  BY <1>6 DEF IsEmptyRead, DeleteFront, DeleteBack, GetMsg, Free
<1> QED BY <1>1, <1>2, <1>3, <1>4, <1>5, <1>6 DEF SendI, IHandler

\* what the owner knows in i_handler,
LEMMA StepOwner ==
  ASSUME TypeOK, LockInv, OwnerInv, NodeInv, EndsInv, NEW c \in Cpus, SendI(c) \/ IHandler(c)
  PROVE  OwnerInv'
<1> USE DEF OwnerInv, TypeOK, Handling, Goto, nodeVars
<1>1. CASE EnqueueLock(c) \/ IsEmptyLock(c) \/ DequeueLock(c)
  BY <1>1 DEF EnqueueLock, IsEmptyLock, DequeueLock, spinlock_lock
<1>2. CASE EnqueueUnlock(c) \/ IsEmptyUnlock(c) \/ DequeueUnlock(c)
  BY <1>2 DEF EnqueueUnlock, IsEmptyUnlock, DequeueUnlock, spinlock_unlock
<1>3. CASE Malloc(c) \/ Handle(c)
  BY <1>3 DEF Malloc, Handle
<1>4. CASE SetMsg(c) \/ FirstNode(c) \/ FirstLinks(c)
  <2>1. pc[c] = "empty80" => n[c] \in Nodes
    BY DEF NodeInv, Apart
  <2> QED BY <1>4, <2>1 DEF SetMsg, FirstNode, FirstLinks
<1>5. CASE LinkNext(c) \/ LinkPrev(c) \/ LinkEnd(c) \/ NewTail(c)
  BY <1>5 DEF LinkNext, LinkPrev, LinkEnd, NewTail
<1>6. CASE IsEmptyRead(c)
  <2>1. pc[c] = "tail18" => (tail = NULL <=> head = NULL)
    BY DEF EndsInv, LockInv, Locked
  <2> QED BY <1>6, <2>1 DEF IsEmptyRead
<1>7. CASE DeleteFront(c) \/ DeleteBack(c) \/ Free(c)
  BY <1>7 DEF DeleteFront, DeleteBack, Free
<1>8. CASE GetMsg(c)
  <2>1. pc[c] = "msg56" => msg[n[c]] \in Messages
    BY DEF NodeInv, Apart
  <2> QED BY <1>8, <2>1 DEF GetMsg
<1> QED BY <1>1, <1>2, <1>3, <1>4, <1>5, <1>6, <1>7, <1>8 DEF SendI, IHandler

\* and the nodes outside the list with one cpu each.
LEMMA StepNode ==
  ASSUME TypeOK, NodeInv, EndsInv, NEW s \in Lists, ListInv(s),
         NEW c \in Cpus, SendI(c) \/ IHandler(c)
  PROVE  NodeInv'
<1> USE DEF NodeInv, TypeOK, Apart, Sending, Goto, nodeVars
<1>1. CASE EnqueueLock(c) \/ IsEmptyLock(c) \/ DequeueLock(c)
  BY <1>1 DEF EnqueueLock, IsEmptyLock, DequeueLock, spinlock_lock
<1>2. CASE EnqueueUnlock(c) \/ IsEmptyUnlock(c) \/ DequeueUnlock(c)
  BY <1>2 DEF EnqueueUnlock, IsEmptyUnlock, DequeueUnlock, spinlock_unlock
<1>3. CASE Malloc(c)
  BY <1>3 DEF Malloc
<1>4. CASE SetMsg(c)
  <2>1. <<c, sent[c]>> \in Messages
    BY <1>4 DEF SetMsg, Messages
  <2> QED BY <1>4, <2>1 DEF SetMsg
<1>5. CASE FirstNode(c) \/ FirstLinks(c) \/ NewTail(c)
  BY <1>5 DEF FirstNode, FirstLinks, NewTail
<1>6. CASE LinkNext(c) \/ LinkPrev(c) \/ LinkEnd(c)
  BY <1>6 DEF LinkNext, LinkPrev, LinkEnd
<1>7. CASE IsEmptyRead(c) \/ DeleteBack(c) \/ GetMsg(c) \/ Handle(c)
  BY <1>7 DEF IsEmptyRead, DeleteBack, GetMsg, Handle
<1>8. CASE DeleteFront(c)
  <2>1. s \in Seq(Nodes) /\ head # NULL
    BY <1>8, ListsAreSequences DEF DeleteFront
  <2>2. 1 \in DOMAIN s /\ head = s[1]
    BY <2>1 DEF ListInv, IsList
  <2>3. /\ head \in allocated /\ msg[head] \in Messages
        /\ \A d \in Cpus : pc[d] \in Apart => n[d] # head
    BY <2>2 DEF ListInv
  <2> QED BY <1>8, <2>3 DEF DeleteFront
<1>9. CASE Free(c)
  BY <1>9 DEF Free
<1> QED BY <1>1, <1>2, <1>3, <1>4, <1>5, <1>6, <1>7, <1>8, <1>9 DEF SendI, IHandler

(***************************************************************************)
(* The ends of the list are as far as the only cpu in the queue has got.   *)
(***************************************************************************)
LEMMA StepEnds ==
  ASSUME TypeOK, LockInv, OwnerInv, NodeInv, EndsInv, NEW s \in Lists, ListInv(s),
         NEW c \in Cpus, SendI(c) \/ IHandler(c)
  PROVE  EndsInv'
<1> USE DEF EndsInv, TypeOK, Goto, nodeVars
<1>0. pc[c] \in Locked => \A d \in Cpus \ {c} : pc[d] \notin Locked
  BY DEF LockInv
<1>a. pc[c] \in Apart => n[c] \in Nodes
  BY DEF NodeInv
<1>b. s \in Seq(Nodes)
  BY ListsAreSequences
<1>c. head # NULL => /\ 1 \in DOMAIN s /\ s[1] = head
                     /\ Len(s) \in DOMAIN s /\ s[Len(s)] = tail /\ tail \in Nodes
  BY <1>b DEF ListInv, IsList
<1>d. pc[c] \in Apart /\ head # NULL => n[c] # head /\ n[c] # tail
  BY <1>c DEF ListInv
<1> USE DEF Locked
<1>1. CASE EnqueueLock(c) \/ IsEmptyLock(c) \/ DequeueLock(c)
  BY <1>1 DEF EnqueueLock, IsEmptyLock, DequeueLock, spinlock_lock
<1>2. CASE EnqueueUnlock(c) \/ IsEmptyUnlock(c) \/ DequeueUnlock(c)
  BY <1>2 DEF EnqueueUnlock, IsEmptyUnlock, DequeueUnlock, spinlock_unlock
<1>3. CASE Malloc(c) \/ Handle(c)
  BY <1>3 DEF Malloc, Handle
<1>4. CASE SetMsg(c)
  BY <1>0, <1>4 DEF SetMsg
<1>5. CASE FirstNode(c)
  BY <1>0, <1>a, <1>5 DEF FirstNode, Apart
<1>6. CASE FirstLinks(c)
  BY <1>0, <1>6 DEF FirstLinks
<1>7. CASE LinkNext(c)
  BY <1>0, <1>a, <1>d, <1>7 DEF LinkNext, Apart
<1>8. CASE LinkPrev(c)
  BY <1>0, <1>a, <1>d, <1>8 DEF LinkPrev, Apart
<1>9. CASE LinkEnd(c)
  BY <1>0, <1>a, <1>d, <1>9 DEF LinkEnd, Apart
<1>10. CASE NewTail(c)
  BY <1>0, <1>a, <1>d, <1>10 DEF NewTail, Apart
<1>11. CASE IsEmptyRead(c)
  BY <1>0, <1>11 DEF IsEmptyRead
<1>12. CASE DeleteFront(c)
  <2>1. /\ pc[c] = "delete26" /\ pc' = [pc EXCEPT ![c] = "delete34"]
        /\ head # NULL /\ prev[head] = NULL /\ next[tail] = NULL /\ tail # NULL
    BY <1>0, <1>12 DEF DeleteFront
  <2>2. /\ n' = [n EXCEPT ![c] = head] /\ head' = next[head]
        /\ next' = next /\ prev' = prev /\ tail' = tail
    BY <1>12, <2>1 DEF DeleteFront
  <2>3. IF next[head] = NULL THEN tail = head ELSE prev[next[head]] = head
    <3>1. CASE Len(s) = 1
      <4>1. tail = head
        BY <1>c, <2>1, <3>1
      <4> QED BY <2>1, <4>1
    <3>2. CASE Len(s) # 1
      <4>1. 1 \in 1..(Len(s) - 1) /\ 2 \in DOMAIN s
        <5>1. Len(s) \in Nat /\ DOMAIN s = 1..Len(s) /\ Len(s) \in DOMAIN s
          BY <1>b, <1>c, <2>1, LenProperties
        <5> QED BY <3>2, <5>1
      <4>2. s[2] = next[head] /\ prev[s[2]] = head /\ s[2] # NULL
        BY <1>b, <1>c, <2>1, <4>1 DEF ListInv, IsList
      <4> QED BY <4>2
    <3> QED BY <3>1, <3>2
  <2> QED BY <1>0, <2>1, <2>2, <2>3
<1>13. CASE DeleteBack(c)
  <2>1. /\ pc[c] = "delete34" /\ pc' = [pc EXCEPT ![c] = "msg56"]
        /\ head' = head /\ next' = next /\ n' = n
        /\ prev[n[c]] = NULL /\ next[n[c]] = head
        /\ IF head = NULL THEN tail = n[c] ELSE prev[head] = n[c]
        /\ \A d \in Cpus \ {c} : pc[d] \notin Locked
    BY <1>0, <1>13 DEF DeleteBack
  <2>2. CASE head # NULL
    <3>1. tail' = tail /\ prev' = [prev EXCEPT ![head] = NULL]
      BY <1>13, <2>1, <2>2 DEF DeleteBack
    <3>2. tail # NULL /\ next[tail] = NULL /\ prev'[head] = NULL
      BY <1>c, <2>1, <2>2, <3>1
    <3> QED BY <2>1, <2>2, <3>1, <3>2
  <2>3. CASE head = NULL
    <3>1. tail' = NULL
      BY <1>13, <2>1, <2>3 DEF DeleteBack
    <3> QED BY <2>1, <2>3, <3>1
  <2> QED BY <2>2, <2>3
<1>14. CASE GetMsg(c)
  BY <1>0, <1>14 DEF GetMsg
<1>15. CASE Free(c)
  BY <1>0, <1>15 DEF Free
<1> QED BY <1>1, <1>2, <1>3, <1>4, <1>5, <1>6, <1>7, <1>8, <1>9, <1>10, <1>11, <1>12, <1>13,
           <1>14, <1>15 DEF SendI, IHandler

(***************************************************************************)
(* A step that leaves the links alone, and takes no node of the list, or   *)
(* writes only to a node that is not in it.                                *)
(***************************************************************************)
LEMMA SameList ==
  ASSUME NEW s \in Lists, ListInv(s), head' = head, tail' = tail,
         \A i \in 1..(Len(s) - 1) : next'[s[i]] = next[s[i]] /\ prev'[s[i + 1]] = prev[s[i + 1]],
         \A i \in DOMAIN s :
           /\ s[i] \in allocated' /\ msg'[s[i]] = msg[s[i]]
           /\ \A c \in Cpus : pc'[c] \in Apart => n'[c] # s[i]
  PROVE  ListInv(s)'
<1>1. IsList(s)'
  BY DEF ListInv, IsList
<1>2. \A i \in 1..(Len(s) - 1) : prev'[s[i + 1]] = s[i]
  BY DEF ListInv
<1>3. \A i \in DOMAIN s : msg'[s[i]] \in Messages
  BY DEF ListInv
<1> QED BY <1>1, <1>2, <1>3 DEF ListInv

\* What the provers need to know of a list: its ends and its inner links.
LEMMA ListFacts ==
  ASSUME NEW s \in Lists, ListInv(s)
  PROVE  /\ s \in Seq(Nodes) /\ DOMAIN s = 1..Len(s) /\ Len(s) \in Nat
         /\ head = NULL => s = <<>>
         /\ head # NULL => /\ 1 \in DOMAIN s /\ s[1] = head
                           /\ Len(s) \in DOMAIN s /\ s[Len(s)] = tail /\ tail \in Nodes
         /\ \A i \in 1..(Len(s) - 1) :
              i \in DOMAIN s /\ i + 1 \in DOMAIN s /\ s[i] # tail /\ s[i + 1] # head
<1>1. s \in Seq(Nodes) /\ DOMAIN s = 1..Len(s) /\ Len(s) \in Nat
  BY ListsAreSequences, LenProperties
<1>2. CASE s = <<>>
  BY <1>1, <1>2, EmptyList DEF ListInv, IsList
<1>3. CASE s # <<>>
  <2>1. Len(s) # 0 /\ head # NULL /\ s[1] = head /\ s[Len(s)] = tail
    BY <1>1, <1>3 DEF ListInv, IsList
  <2>2. 1 \in DOMAIN s /\ Len(s) \in DOMAIN s /\ tail \in Nodes
    BY <1>1, <2>1
  <2>3. ASSUME NEW i \in 1..(Len(s) - 1)
        PROVE  i \in DOMAIN s /\ i + 1 \in DOMAIN s /\ s[i] # tail /\ s[i + 1] # head
    <3>1. /\ i \in 1..Len(s) /\ i + 1 \in 1..Len(s) /\ i # Len(s) /\ i + 1 # 1
      <4>1. Len(s) \in Nat
        BY <1>1
      <4> QED BY <4>1
    <3>2. i \in DOMAIN s /\ i + 1 \in DOMAIN s /\ i # Len(s) /\ i + 1 # 1
      BY <1>1, <3>1
    <3> QED BY <2>1, <2>2, <3>2 DEF ListInv, IsList
  <2> QED BY <1>1, <1>3, <2>1, <2>2, <2>3
<1> QED BY <1>2, <1>3

\* all steps but the three that move an end of the list
KeepsList(c) ==
  \/ Malloc(c) \/ EnqueueLock(c) \/ SetMsg(c) \/ FirstLinks(c) \/ LinkNext(c)
  \/ LinkPrev(c) \/ LinkEnd(c) \/ EnqueueUnlock(c) \/ IsEmptyLock(c) \/ IsEmptyRead(c)
  \/ IsEmptyUnlock(c) \/ DequeueLock(c) \/ DeleteBack(c) \/ GetMsg(c) \/ Free(c)
  \/ DequeueUnlock(c) \/ Handle(c)

\* Those steps leave the list as it is.
LEMMA ListKept ==
  ASSUME TypeOK, LockInv, OwnerInv, NodeInv, EndsInv, NEW s \in Lists, ListInv(s),
         NEW c \in Cpus, KeepsList(c)
  PROVE  ListInv(s)'
<1> USE DEF TypeOK, Goto, nodeVars
<1>a. s \in Seq(Nodes) /\ DOMAIN s = 1..Len(s) /\ Len(s) \in Nat
  BY ListFacts
<1>b. \A i \in DOMAIN s :
        /\ s[i] \in Nodes /\ s[i] \in allocated
        /\ \A d \in Cpus : pc[d] \in Apart => n[d] # s[i]
  BY <1>a DEF ListInv
<1>c. /\ head = NULL => s = <<>>
      /\ head # NULL => /\ 1 \in DOMAIN s /\ s[1] = head
                        /\ Len(s) \in DOMAIN s /\ s[Len(s)] = tail /\ tail \in Nodes
  BY ListFacts
<1>d. \A i \in 1..(Len(s) - 1) :
        i \in DOMAIN s /\ i + 1 \in DOMAIN s /\ s[i] # tail /\ s[i + 1] # head
  BY ListFacts
<1>e. pc[c] \in Apart => n[c] \in Nodes /\ n[c] \in allocated
  BY DEF NodeInv
<1> USE DEF Apart
<1>1. CASE EnqueueLock(c) \/ IsEmptyLock(c) \/ DequeueLock(c)
  <2>1. /\ head' = head /\ tail' = tail /\ next' = next /\ prev' = prev
        /\ msg' = msg /\ allocated' = allocated
    BY <1>1 DEF EnqueueLock, IsEmptyLock, DequeueLock, spinlock_lock
  <2>2. \A d \in Cpus : pc'[d] \in Apart => pc[d] \in Apart /\ n'[d] = n[d]
    BY <1>1 DEF EnqueueLock, IsEmptyLock, DequeueLock, spinlock_lock
  <2> QED BY <1>b, <2>1, <2>2, SameList
<1>2. CASE EnqueueUnlock(c) \/ IsEmptyUnlock(c) \/ DequeueUnlock(c)
  <2>1. /\ head' = head /\ tail' = tail /\ next' = next /\ prev' = prev
        /\ msg' = msg /\ allocated' = allocated
    BY <1>2 DEF EnqueueUnlock, IsEmptyUnlock, DequeueUnlock, spinlock_unlock
  <2>2. \A d \in Cpus : pc'[d] \in Apart => pc[d] \in Apart /\ n'[d] = n[d]
    BY <1>2 DEF EnqueueUnlock, IsEmptyUnlock, DequeueUnlock, spinlock_unlock
  <2> QED BY <1>b, <2>1, <2>2, SameList
<1>3. CASE Malloc(c)
  <2>1. PICK x \in Nodes \ allocated :
          n' = [n EXCEPT ![c] = x] /\ allocated' = allocated \cup {x}
    BY <1>3 DEF Malloc
  <2>2. /\ head' = head /\ tail' = tail /\ next' = next /\ prev' = prev /\ msg' = msg
        /\ pc' = [pc EXCEPT ![c] = "lock75"]
    BY <1>3 DEF Malloc
  <2>3. \A i \in DOMAIN s : /\ s[i] \in allocated'
                            /\ \A d \in Cpus : pc'[d] \in Apart => n'[d] # s[i]
    BY <1>b, <2>1, <2>2
  <2> QED BY <2>2, <2>3, SameList
<1>4. CASE SetMsg(c)
  BY <1>b, <1>e, <1>4, SameList DEF SetMsg
<1>5. CASE LinkNext(c)
  <2>1. \A i \in 1..(Len(s) - 1) : next'[s[i]] = next[s[i]]
    BY <1>b, <1>d, <1>5 DEF LinkNext
  <2>2. \A i \in 1..(Len(s) - 1) : next'[s[i]] = next[s[i]] /\ prev'[s[i + 1]] = prev[s[i + 1]]
    BY <1>5, <2>1 DEF LinkNext
  <2>3. \A i \in DOMAIN s : /\ s[i] \in allocated' /\ msg'[s[i]] = msg[s[i]]
                            /\ \A d \in Cpus : pc'[d] \in Apart => n'[d] # s[i]
    BY <1>b, <1>5 DEF LinkNext
  <2> QED BY <1>5, <2>2, <2>3, SameList DEF LinkNext
<1>6. CASE LinkPrev(c)
  <2>1. \A i \in 1..(Len(s) - 1) : prev'[s[i + 1]] = prev[s[i + 1]]
    BY <1>b, <1>d, <1>6 DEF LinkPrev
  <2>2. \A i \in 1..(Len(s) - 1) : next'[s[i]] = next[s[i]] /\ prev'[s[i + 1]] = prev[s[i + 1]]
    BY <1>6, <2>1 DEF LinkPrev
  <2>3. \A i \in DOMAIN s : /\ s[i] \in allocated' /\ msg'[s[i]] = msg[s[i]]
                            /\ \A d \in Cpus : pc'[d] \in Apart => n'[d] # s[i]
    BY <1>b, <1>6 DEF LinkPrev
  <2> QED BY <1>6, <2>2, <2>3, SameList DEF LinkPrev
<1>7. CASE LinkEnd(c)
  <2>1. \A i \in 1..(Len(s) - 1) : next'[s[i]] = next[s[i]]
    BY <1>b, <1>d, <1>7 DEF LinkEnd
  <2>2. \A i \in 1..(Len(s) - 1) : next'[s[i]] = next[s[i]] /\ prev'[s[i + 1]] = prev[s[i + 1]]
    BY <1>7, <2>1 DEF LinkEnd
  <2>3. \A i \in DOMAIN s : /\ s[i] \in allocated' /\ msg'[s[i]] = msg[s[i]]
                            /\ \A d \in Cpus : pc'[d] \in Apart => n'[d] # s[i]
    BY <1>b, <1>7 DEF LinkEnd
  <2> QED BY <1>7, <2>2, <2>3, SameList DEF LinkEnd
<1>8. CASE IsEmptyRead(c) \/ GetMsg(c) \/ Handle(c)
  <2>1. /\ head' = head /\ tail' = tail /\ next' = next /\ prev' = prev
        /\ msg' = msg /\ allocated' = allocated
    BY <1>8 DEF IsEmptyRead, GetMsg, Handle
  <2>2. \A d \in Cpus : pc'[d] \in Apart => pc[d] \in Apart /\ n'[d] = n[d]
    BY <1>8 DEF IsEmptyRead, GetMsg, Handle
  <2> QED BY <1>b, <2>1, <2>2, SameList
<1>9. CASE Free(c)
  BY <1>b, <1>9, SameList DEF Free
<1>10. CASE FirstLinks(c)
  <2>1. head = n[c] /\ tail = n[c] /\ n[c] \in Nodes
    BY <1>10 DEF FirstLinks, EndsInv
  <2>2. Len(s) = 1
    <3>1. s[1] = s[Len(s)] /\ 1 \in DOMAIN s /\ Len(s) \in DOMAIN s
      BY <1>c, <2>1
    <3> QED BY <3>1 DEF ListInv, IsList
  <2>3. 1..(Len(s) - 1) = {}
    BY <2>2
  <2>4. \A i \in DOMAIN s : /\ s[i] \in allocated' /\ msg'[s[i]] = msg[s[i]]
                            /\ \A d \in Cpus : pc'[d] \in Apart => n'[d] # s[i]
    BY <1>b, <1>10 DEF FirstLinks
  <2> QED BY <1>10, <2>3, <2>4, SameList DEF FirstLinks
<1>11. CASE DeleteBack(c)
  <2>1. next[n[c]] = head /\ n[c] \in Nodes
    BY <1>e, <1>11 DEF DeleteBack, EndsInv
  <2>2. \A i \in DOMAIN s : /\ s[i] \in allocated' /\ msg'[s[i]] = msg[s[i]]
                            /\ \A d \in Cpus : pc'[d] \in Apart => n'[d] # s[i]
    BY <1>b, <1>11 DEF DeleteBack
  <2>3. CASE head # NULL
    <3>1. \A i \in 1..(Len(s) - 1) : next'[s[i]] = next[s[i]] /\ prev'[s[i + 1]] = prev[s[i + 1]]
      <4>1. next' = next /\ prev' = [prev EXCEPT ![head] = prev[n[c]]]
        BY <1>11, <2>1, <2>3 DEF DeleteBack
      <4>2. \A i \in 1..(Len(s) - 1) : s[i + 1] \in Nodes /\ s[i + 1] # head
        BY <1>b, <1>d
      <4> QED BY <4>1, <4>2
    <3> QED BY <1>11, <2>1, <2>2, <2>3, <3>1, SameList DEF DeleteBack
  <2>4. CASE head = NULL
    <3>1. s = <<>> /\ head' = NULL
      BY <1>c, <1>11, <2>4 DEF DeleteBack
    <3>2. ListInv(s)'
      BY <3>1, EmptyList DEF ListInv, IsList
    <3> QED BY <3>2
  <2> QED BY <2>3, <2>4
<1> QED BY <1>1, <1>2, <1>3, <1>4, <1>5, <1>6, <1>7, <1>8, <1>9, <1>10, <1>11 DEF KeepsList

\* enqueue appends its node to the list, by line 80 or line 86.
LEMMA ListGrows ==
  ASSUME TypeOK, LockInv, OwnerInv, NodeInv, EndsInv, NEW s \in Lists, ListInv(s),
         NEW c \in Cpus, FirstNode(c) \/ NewTail(c)
  PROVE  \E t \in Lists : ListInv(t)' /\ t = Append(s, n[c])
<1> USE DEF TypeOK, Goto, nodeVars
<1>a. s \in Seq(Nodes) /\ DOMAIN s = 1..Len(s) /\ Len(s) \in Nat
  BY ListFacts
<1>b. \A i \in DOMAIN s :
        /\ s[i] \in Nodes /\ s[i] \in allocated
        /\ \A d \in Cpus : pc[d] \in Apart => n[d] # s[i]
  BY <1>a DEF ListInv
<1>c. /\ head = NULL => s = <<>>
      /\ head # NULL => /\ 1 \in DOMAIN s /\ s[1] = head
                        /\ Len(s) \in DOMAIN s /\ s[Len(s)] = tail /\ tail \in Nodes
  BY ListFacts
<1>d. \A i \in 1..(Len(s) - 1) :
        i \in DOMAIN s /\ i + 1 \in DOMAIN s /\ s[i] # tail /\ s[i + 1] # head
  BY ListFacts
<1>e. pc[c] \in Apart => n[c] \in Nodes /\ n[c] \in allocated
  BY DEF NodeInv
<1> USE DEF Apart
<1>1. CASE FirstNode(c)
  <2>1. s = <<>> /\ n[c] \in Nodes /\ n[c] \in allocated /\ msg[n[c]] \in Messages
    BY <1>c, <1>e, <1>1 DEF FirstNode, EndsInv, NodeInv
  <2>2. PICK t : t = <<n[c]>>
    OBVIOUS
  <2>3. /\ t \in Seq(Nodes) /\ Len(t) = 1 /\ DOMAIN t = {1} /\ t[1] = n[c] /\ t # <<>>
    BY <2>1, <2>2
  <2>4. \A d \in Cpus : pc'[d] \in Apart => n'[d] # n[c]
    BY <1>1 DEF FirstNode, NodeInv
  <2>5. ListInv(t)'
    <3>1. head' = n[c] /\ tail' = n[c] /\ n[c] # NULL /\ allocated' = allocated /\ msg' = msg
      BY <1>1, <2>1 DEF FirstNode
    <3>2. 1..(Len(t) - 1) = {}
      BY <2>3
    <3>3. IsList(t)'
      BY <2>3, <3>1, <3>2 DEF IsList
    <3> QED BY <2>1, <2>3, <2>4, <3>1, <3>2, <3>3 DEF ListInv
  <2>6. t \in Lists
    BY <2>3, DifferentNodes
  <2>7. t = Append(s, n[c])
    BY <2>1, <2>2
  <2> QED BY <2>5, <2>6, <2>7
<1>2. CASE NewTail(c)
  <2>1. /\ n[c] \in Nodes /\ n[c] \in allocated /\ msg[n[c]] \in Messages
        /\ next[tail] = n[c] /\ prev[n[c]] = tail /\ head # NULL
    BY <1>e, <1>2 DEF NewTail, EndsInv, NodeInv
  <2>2. PICK t : t = Append(s, n[c])
    OBVIOUS
  <2>3. /\ t \in Seq(Nodes) /\ Len(t) = Len(s) + 1
        /\ \A i \in 1..Len(s) : t[i] = s[i]
        /\ t[Len(s) + 1] = n[c] /\ t # <<>>
    <3>1. /\ t \in Seq(Nodes) /\ t # <<>> /\ Len(t) = Len(s) + 1
          /\ \A i \in 1..Len(s) : Append(s, n[c])[i] = s[i]
          /\ Append(s, n[c])[Len(s) + 1] = n[c]
      BY <1>a, <2>1, <2>2, AppendProperties
    <3> QED BY <2>2, <3>1
  <2>4. DOMAIN t = 1..(Len(s) + 1)
    BY <2>3
  <2>5. \A i, j \in DOMAIN t : t[i] = t[j] => i = j
    <3>1. \A i \in DOMAIN t : (i \in DOMAIN s /\ t[i] = s[i]) \/ (i = Len(s) + 1 /\ t[i] = n[c])
      <4>1. Len(s) \in Nat /\ DOMAIN s = 1..Len(s)
        BY <1>a
      <4>2. \A i \in 1..(Len(s) + 1) : i \in 1..Len(s) \/ i = Len(s) + 1
        BY <4>1
      <4>3. t[Len(s) + 1] = n[c] /\ \A i \in 1..Len(s) : t[i] = s[i]
        BY <2>3
      <4> QED BY <2>4, <4>1, <4>2, <4>3
    <3>2. \A i \in DOMAIN s : s[i] # n[c]
      BY <1>b, <1>2 DEF NewTail
    <3>3. \A i, j \in DOMAIN s : s[i] = s[j] => i = j
      BY DEF ListInv, IsList
    <3> QED BY <3>1, <3>2, <3>3
  <2>6. ASSUME NEW i \in 1..(Len(t) - 1)
        PROVE  t[i + 1] = next'[t[i]] /\ prev'[t[i + 1]] = t[i]
    <3>1. next' = next /\ prev' = prev
      BY <1>2 DEF NewTail
    <3>2. i \in 1..Len(s) /\ t[i] = s[i]
      BY <1>a, <2>3
    <3>3. CASE i = Len(s)
      BY <1>c, <2>1, <2>3, <3>1, <3>2, <3>3
    <3>4. CASE i # Len(s)
      <4>1. i \in 1..(Len(s) - 1) /\ i + 1 \in 1..Len(s)
        <5>1. Len(s) \in Nat /\ i \in 1..Len(s) /\ i # Len(s)
          BY <1>a, <3>2, <3>4
        <5> QED BY <5>1
      <4>2. s[i + 1] = next[s[i]] /\ prev[s[i + 1]] = s[i]
        BY <4>1 DEF ListInv, IsList
      <4> QED BY <2>3, <3>1, <3>2, <4>1, <4>2
    <3> QED BY <3>3, <3>4
  <2>7. ASSUME NEW i \in DOMAIN t
        PROVE  /\ t[i] \in allocated' /\ msg'[t[i]] \in Messages
               /\ \A d \in Cpus : pc'[d] \in Apart => n'[d] # t[i]
    <3>1. allocated' = allocated /\ msg' = msg /\ n' = n /\ pc' = [pc EXCEPT ![c] = "unlock88"]
      BY <1>2 DEF NewTail
    <3>2. CASE i = Len(s) + 1
      <4>1. t[i] = n[c] /\ pc[c] = "link86"
        BY <1>2, <2>3, <3>2 DEF NewTail
      <4>2. \A d \in Cpus : pc'[d] \in Apart => pc[d] \in Apart /\ d # c
        BY <3>1
      <4>3. \A d \in Cpus : pc[d] \in Apart /\ d # c => n[d] # n[c]
        BY <4>1 DEF NodeInv
      <4> QED BY <2>1, <3>1, <4>1, <4>2, <4>3
    <3>3. CASE i # Len(s) + 1
      <4>1. i \in DOMAIN s /\ t[i] = s[i]
        BY <1>a, <2>3, <2>4, <3>3
      <4> QED BY <3>1, <4>1 DEF ListInv
    <3> QED BY <3>2, <3>3
  <2>8. ListInv(t)'
    <3>1. head' = head /\ tail' = n[c]
      BY <1>2 DEF NewTail
    <3>2. t[1] = head /\ t[Len(t)] = n[c]
      BY <1>a, <1>c, <2>1, <2>3
    <3> QED BY <2>1, <2>3, <2>5, <2>6, <2>7, <3>1, <3>2 DEF ListInv, IsList
  <2>9. t \in Lists
    BY <2>3, <2>5, DifferentNodes
  <2> QED BY <2>2, <2>8, <2>9
<1> QED BY <1>1, <1>2

\* queue_delete takes the first node off the list, by line 29.
LEMMA ListShrinks ==
  ASSUME TypeOK, LockInv, OwnerInv, NodeInv, EndsInv, NEW s \in Lists, ListInv(s),
         NEW c \in Cpus, DeleteFront(c)
  PROVE  \E t \in Lists : ListInv(t)' /\ t = Tail(s) /\ s # <<>>
<1>a. s \in Seq(Nodes) /\ DOMAIN s = 1..Len(s) /\ Len(s) \in Nat
  BY ListFacts
<1>b. \A i \in DOMAIN s :
        /\ s[i] \in Nodes /\ s[i] \in allocated
        /\ \A d \in Cpus : pc[d] \in Apart => n[d] # s[i]
  BY <1>a DEF ListInv
<1>c. /\ head = NULL => s = <<>>
      /\ head # NULL => /\ 1 \in DOMAIN s /\ s[1] = head
                        /\ Len(s) \in DOMAIN s /\ s[Len(s)] = tail /\ tail \in Nodes
  BY ListFacts
<1>1. /\ pc[c] = "delete26" /\ pc' = [pc EXCEPT ![c] = "delete34"]
      /\ head # NULL /\ prev[head] = NULL /\ next[tail] = NULL
  BY DEF DeleteFront, EndsInv, LockInv, Locked, TypeOK, Goto
<1>2. /\ n' = [n EXCEPT ![c] = head] /\ head' = next[head] /\ tail' = tail
      /\ next' = next /\ prev' = prev /\ allocated' = allocated /\ msg' = msg
  BY <1>1 DEF DeleteFront, TypeOK
<1>3. PICK t : t = Tail(s)
  OBVIOUS
<1>4. s # <<>> /\ Len(s) # 0
  BY <1>a, <1>c, <1>1
<1>5. /\ t \in Seq(Nodes) /\ Len(t) = Len(s) - 1
      /\ \A i \in 1..Len(t) : t[i] = s[i + 1]
  BY <1>a, <1>3, <1>4, HeadTailProperties
<1>6. DOMAIN t = 1..Len(t)
  BY <1>5
<1>7. \A i \in DOMAIN t : i + 1 \in DOMAIN s /\ t[i] = s[i + 1] /\ i + 1 # 1
  BY <1>a, <1>5, <1>6
<1>8. \A i, j \in DOMAIN t : t[i] = t[j] => i = j
  <2>1. \A i, j \in DOMAIN t : t[i] = t[j] => i + 1 = j + 1
    BY <1>7 DEF ListInv, IsList
  <2> QED BY <1>5, <1>6, <2>1
<1>9. ASSUME NEW i \in 1..(Len(t) - 1)
      PROVE  t[i + 1] = next'[t[i]] /\ prev'[t[i + 1]] = t[i]
  <2>1. i \in DOMAIN t /\ i + 1 \in DOMAIN t /\ i + 1 \in 1..(Len(s) - 1)
    <3>1. Len(s) \in Nat /\ Len(t) = Len(s) - 1
      BY <1>a, <1>5
    <3>2. i \in 1..Len(t) /\ i + 1 \in 1..Len(t) /\ i + 1 \in 1..(Len(s) - 1)
      BY <3>1
    <3> QED BY <1>6, <3>2
  <2>2. s[(i + 1) + 1] = next[s[i + 1]] /\ prev[s[(i + 1) + 1]] = s[i + 1]
    BY <2>1 DEF ListInv, IsList
  <2> QED BY <1>2, <1>7, <2>1, <2>2
<1>10. ASSUME NEW i \in DOMAIN t
       PROVE  /\ t[i] \in allocated' /\ msg'[t[i]] \in Messages
              /\ \A d \in Cpus : pc'[d] \in Apart => n'[d] # t[i]
  <2>1. t[i] \in allocated /\ msg[t[i]] \in Messages /\ t[i] # head
    <3>1. i + 1 \in DOMAIN s /\ t[i] = s[i + 1] /\ i + 1 # 1 /\ 1 \in DOMAIN s /\ s[1] = head
      BY <1>c, <1>1, <1>7
    <3> QED BY <3>1 DEF ListInv, IsList
  <2>2. \A d \in Cpus : pc[d] \in Apart => n[d] # t[i]
    BY <1>b, <1>7
  <2> QED BY <1>1, <1>2, <2>1, <2>2 DEF TypeOK, Apart
<1>11. ListInv(t)'
  <2>1. CASE Len(s) = 1
    <3>1. t = <<>> /\ DOMAIN t = {} /\ 1..(Len(t) - 1) = {}
      BY <1>5, <1>6, <2>1
    <3>2. head' = NULL
      BY <1>c, <1>1, <1>2, <2>1
    <3> QED BY <3>1, <3>2 DEF ListInv, IsList
  <2>2. CASE Len(s) # 1
    <3>1. /\ 1 \in 1..(Len(s) - 1) /\ 1 \in DOMAIN t /\ Len(t) \in DOMAIN t
          /\ Len(t) + 1 = Len(s) /\ t # <<>>
      BY <1>a, <1>4, <1>5, <1>6, <2>2
    <3>2. t[1] = next[head] /\ t[1] # NULL /\ t[Len(t)] = tail
      <4>1. t[1] = s[1 + 1] /\ t[1] \in Nodes /\ t[Len(t)] = s[Len(s)]
        BY <1>5, <1>7, <3>1
      <4>2. s[1 + 1] = next[s[1]]
        BY <3>1 DEF ListInv, IsList
      <4> QED BY <1>c, <1>1, <4>1, <4>2
    <3> QED BY <1>2, <1>8, <1>9, <1>10, <3>1, <3>2 DEF ListInv, IsList
  <2> QED BY <2>1, <2>2
<1>12. t \in Lists
  BY <1>5, <1>8, DifferentNodes
<1> QED BY <1>3, <1>4, <1>11, <1>12

\* Every step keeps the invariant.
LEMMA StepInv == Inv /\ [Next]_vars => Inv'
<1> SUFFICES ASSUME Inv, [Next]_vars
             PROVE  Inv'
  OBVIOUS
<1>1. PICK s \in Lists : ListInv(s)
  BY DEF Inv
<1>2. TypeOK /\ LockInv /\ OwnerInv /\ NodeInv /\ EndsInv
  BY DEF Inv
<1>3. CASE Next
  <2>1. PICK c \in Cpus : SendI(c) \/ IHandler(c)
    BY <1>3 DEF Next
  <2>2. TypeOK'
    BY <1>2, <2>1, StepType
  <2>3. LockInv'
    BY <1>2, <2>1, StepLock
  <2>4. OwnerInv'
    BY <1>1, <1>2, <2>1, StepOwner
  <2>5. NodeInv'
    BY <1>1, <1>2, <2>1, StepNode
  <2>6. EndsInv'
    BY <1>1, <1>2, <2>1, StepEnds
  <2>7. \E t \in Lists : ListInv(t)'
    <3>1. CASE KeepsList(c)
      BY <1>1, <1>2, <3>1, ListKept
    <3>2. CASE FirstNode(c) \/ NewTail(c)
      BY <1>1, <1>2, <3>2, ListGrows
    <3>3. CASE DeleteFront(c)
      BY <1>1, <1>2, <3>3, ListShrinks
    <3> QED BY <2>1, <3>1, <3>2, <3>3 DEF SendI, IHandler, KeepsList
  <2> QED BY <2>2, <2>3, <2>4, <2>5, <2>6, <2>7 DEF Inv
<1>4. CASE UNCHANGED vars
  <2> USE <1>4 DEF vars, nodeVars
  <2>1. TypeOK'
    BY <1>2 DEF TypeOK
  <2>2. LockInv' /\ OwnerInv' /\ NodeInv'
    BY <1>2 DEF LockInv, OwnerInv, NodeInv
  <2>3. EndsInv'
    BY <1>2 DEF EndsInv
  <2>4. ListInv(s)'
    BY <1>1 DEF ListInv, IsList
  <2> QED BY <2>1, <2>2, <2>3, <2>4 DEF Inv
<1> QED BY <1>3, <1>4

\* The queue keeps its invariant, however its cpus interleave.
THEOREM QueueInvariant == Spec => []Inv
BY InitInv, StepInv, PTL DEF Spec

\* Whenever the spinlock is free the list of queue.c is whole, in both
\* directions, and none of its nodes has been freed.
THEOREM ListWhole == Spec => []ListIsWhole
<1>1. Inv => ListIsWhole
  <2> SUFFICES ASSUME Inv, ~state PROVE ListIsWhole
    BY DEF ListIsWhole
  <2>1. \A c \in Cpus : pc[c] \notin Locked
    BY DEF Inv, LockInv
  <2>2. /\ tail = NULL <=> head = NULL
        /\ head # NULL => prev[head] = NULL /\ next[tail] = NULL
    BY <2>1 DEF Inv, EndsInv, Locked
  <2> QED BY <2>2 DEF Inv, ListInv, ListIsWhole
<1> QED BY <1>1, QueueInvariant, PTL

\* The node that is_empty saw is still there when dequeue has the lock: the
\* assertion of queue_delete holds.
THEOREM DequeueFinds == Spec => []DequeueFindsANode
<1>1. Inv => DequeueFindsANode
  BY DEF Inv, OwnerInv, Handling, DequeueFindsANode
<1> QED BY <1>1, QueueInvariant, PTL

-----------------------------------------------------------------------------
(* The queue implements a FIFO *)

\* There is one list after a step as well.
LEMMA TheListPrime == \A s \in Lists : IsList(s)' => List' = s
<1>1. (\A s \in Lists : IsList(s) => List = s)'
  BY TheList, PTL
<1> QED BY <1>1

\* A cpu with the lock is the only one, so a sender finds the owner elsewhere.
LEMMA OwnerElsewhere ==
  ASSUME LockInv, NEW c \in Cpus, pc[c] \in Locked, pc[c] \notin {"delete34", "msg56"}
  PROVE  pc[Owner] \notin {"delete34", "msg56"}
BY DEF LockInv, Locked

\* sendI does not touch the message the owner has in hand,
LEMMA SendingKeepsHand ==
  ASSUME Inv, NEW c \in Cpus, SendI(c)
  PROVE  InHand' = InHand
<1> USE DEF Inv, TypeOK, Goto, nodeVars, InHand
<1>1. CASE Malloc(c)
  BY <1>1 DEF Malloc
<1>2. CASE EnqueueLock(c)
  BY <1>2 DEF EnqueueLock, spinlock_lock
<1>3. CASE SetMsg(c)
  <2>1. pc[c] = "msg77"
    BY <1>3 DEF SetMsg
  <2>2. pc[Owner] \notin {"delete34", "msg56"}
    BY <2>1, OwnerElsewhere DEF Locked
  <2> QED BY <1>3, <2>2 DEF SetMsg
<1>4. CASE FirstNode(c) \/ FirstLinks(c)
  BY <1>4 DEF FirstNode, FirstLinks
<1>5. CASE LinkNext(c) \/ LinkPrev(c) \/ LinkEnd(c) \/ NewTail(c)
  BY <1>5 DEF LinkNext, LinkPrev, LinkEnd, NewTail
<1>6. CASE EnqueueUnlock(c)
  BY <1>6 DEF EnqueueUnlock, spinlock_unlock
<1> QED BY <1>1, <1>2, <1>3, <1>4, <1>5, <1>6 DEF SendI

\* and i_handler only takes a message out, and handles it.
LEMMA HandlerKeepsHand ==
  ASSUME Inv, NEW c \in Cpus, IHandler(c), ~DeleteFront(c), ~Handle(c)
  PROVE  InHand' = InHand
<1> USE DEF Inv, TypeOK, Goto, nodeVars, InHand
<1>1. CASE IsEmptyLock(c) \/ DequeueLock(c)
  BY <1>1 DEF IsEmptyLock, DequeueLock, spinlock_lock
<1>2. CASE IsEmptyRead(c)
  BY <1>2 DEF IsEmptyRead
<1>3. CASE IsEmptyUnlock(c) \/ DequeueUnlock(c)
  BY <1>3 DEF IsEmptyUnlock, DequeueUnlock, spinlock_unlock
<1>4. CASE DeleteBack(c) \/ Free(c)
  BY <1>4 DEF DeleteBack, Free
<1>5. CASE GetMsg(c)
  <2>1. c = Owner
    BY <1>5 DEF GetMsg, OwnerInv, Handling
  <2> QED BY <1>5, <2>1 DEF GetMsg
<1> QED BY <1>1, <1>2, <1>3, <1>4, <1>5 DEF IHandler

\* A step that keeps the list keeps the messages in it.
LEMMA ContentsKept ==
  ASSUME Inv, NEW c \in Cpus, KeepsList(c)
  PROVE  Contents' = Contents
<1>1. PICK s \in Lists : ListInv(s)
  BY DEF Inv
<1>2. ListInv(s)'
  BY <1>1, ListKept DEF Inv
<1>3. List = s /\ List' = s
  BY <1>1, <1>2, TheList, TheListPrime DEF ListInv
<1>4. \A i \in DOMAIN s : msg'[s[i]] = msg[s[i]]
  <2>1. CASE SetMsg(c)
    <3>1. pc[c] \in Apart
      BY <2>1 DEF SetMsg, Goto, Apart
    <3>2. \A i \in DOMAIN s : s[i] # n[c]
      BY <1>1, <3>1 DEF ListInv
    <3>3. msg' = [msg EXCEPT ![n[c]] = <<c, sent[c]>>] /\ DOMAIN msg = Nodes
      BY <2>1 DEF SetMsg, Inv, TypeOK
    <3>4. \A i \in DOMAIN s : s[i] \in Nodes
      BY <1>1, ListFacts
    <3> QED BY <3>2, <3>3, <3>4
  <2>2. CASE ~SetMsg(c)
    BY <2>2 DEF KeepsList, nodeVars, Malloc, EnqueueLock, FirstLinks, LinkNext, LinkPrev, LinkEnd,
       EnqueueUnlock, IsEmptyLock, IsEmptyRead, IsEmptyUnlock, DequeueLock, DeleteBack, GetMsg,
       Free, DequeueUnlock, Handle, spinlock_lock, spinlock_unlock
  <2> QED BY <2>1, <2>2
<1> QED BY <1>3, <1>4 DEF Contents

\* The store that makes a node the tail enqueues its message.
LEMMA GrowingEnqueues ==
  ASSUME Inv, NEW c \in Cpus, FirstNode(c) \/ NewTail(c)
  PROVE  \E m \in Messages : Abstract!Enqueue(m)
<1>1. PICK s \in Lists : ListInv(s)
  BY DEF Inv
<1>2. PICK t \in Lists : ListInv(t)' /\ t = Append(s, n[c])
  BY <1>1, ListGrows DEF Inv
<1>3. List = s /\ List' = t
  BY <1>1, <1>2, TheList, TheListPrime DEF ListInv
<1>4. n[c] \in Nodes /\ msg[n[c]] \in Messages /\ msg' = msg
  BY DEF FirstNode, NewTail, Goto, nodeVars, Inv, NodeInv, Apart, TypeOK
<1>5. InHand' = InHand
  BY SendingKeepsHand DEF SendI
<1>6. Contents' = Append(Contents, msg[n[c]])
  <2>1. s \in Seq(Nodes) /\ Len(s) \in Nat /\ DOMAIN s = 1..Len(s)
    BY <1>1, ListFacts
  <2>2. /\ t \in Seq(Nodes) /\ Len(t) = Len(s) + 1
        /\ \A i \in 1..Len(s) : t[i] = s[i]
        /\ t[Len(s) + 1] = n[c]
    BY <1>2, <1>4, <2>1, AppendProperties
  <2>3. DOMAIN t = 1..(Len(s) + 1)
    BY <2>2
  <2>4. PICK u : u = Contents
    OBVIOUS
  <2>5. PICK v : v = Contents'
    OBVIOUS
  <2>6. u \in Seq(Messages) /\ Len(u) = Len(s) /\ \A i \in 1..Len(s) : u[i] = msg[s[i]]
    <3>1. u = [i \in 1..Len(s) |-> msg[s[i]]]
      BY <1>3, <2>1, <2>4 DEF Contents
    <3>2. \A i \in 1..Len(s) : msg[s[i]] \in Messages
      BY <1>1, <2>1 DEF ListInv
    <3> QED BY <2>1, <3>1, <3>2
  <2>7. v = [i \in 1..(Len(s) + 1) |-> msg[t[i]]]
    BY <1>3, <1>4, <2>3, <2>5 DEF Contents
  <2>8. v = Append(u, msg[n[c]])
    <3>1. v \in Seq(Messages) /\ Len(v) = Len(s) + 1
      <4>1. \A i \in 1..(Len(s) + 1) : msg[t[i]] \in Messages
        BY <1>2, <1>4, <2>3 DEF ListInv
      <4> QED BY <2>1, <2>7, <4>1
    <3>2. /\ Append(u, msg[n[c]]) \in Seq(Messages) /\ Len(Append(u, msg[n[c]])) = Len(s) + 1
          /\ \A i \in 1..Len(s) : Append(u, msg[n[c]])[i] = msg[s[i]]
          /\ Append(u, msg[n[c]])[Len(s) + 1] = msg[n[c]]
      <4>1. /\ Append(u, msg[n[c]]) \in Seq(Messages) /\ Len(Append(u, msg[n[c]])) = Len(u) + 1
            /\ \A i \in 1..Len(u) : Append(u, msg[n[c]])[i] = u[i]
            /\ Append(u, msg[n[c]])[Len(u) + 1] = msg[n[c]]
        BY <1>4, <2>6, AppendProperties
      <4> QED BY <2>6, <4>1
    <3>3. \A i \in 1..(Len(s) + 1) : i \in 1..Len(s) \/ i = Len(s) + 1
      BY <2>1
    <3>4. \A i \in 1..(Len(s) + 1) : v[i] = Append(u, msg[n[c]])[i]
      BY <2>2, <2>7, <3>2, <3>3
    <3> QED BY <3>1, <3>2, <3>4, SeqEqual
  <2> QED BY <2>4, <2>5, <2>8
<1> QED BY <1>4, <1>5, <1>6 DEF Abstract!Enqueue

\* The store that moves head dequeues the oldest message.
LEMMA ShrinkingDequeues ==
  ASSUME Inv, NEW c \in Cpus, DeleteFront(c)
  PROVE  Abstract!Dequeue
<1>1. PICK s \in Lists : ListInv(s)
  BY DEF Inv
<1>2. PICK t \in Lists : ListInv(t)' /\ t = Tail(s) /\ s # <<>>
  BY <1>1, ListShrinks DEF Inv
<1>3. List = s /\ List' = t
  BY <1>1, <1>2, TheList, TheListPrime DEF ListInv
<1>4. s \in Seq(Nodes) /\ Len(s) \in Nat /\ DOMAIN s = 1..Len(s) /\ Len(s) # 0
  BY <1>1, <1>2, ListFacts
<1>5. /\ t \in Seq(Nodes) /\ Len(t) = Len(s) - 1
      /\ \A i \in 1..Len(t) : t[i] = s[i + 1]
  BY <1>2, <1>4, HeadTailProperties
<1>6. /\ c = Owner /\ pc[Owner] = "delete26" /\ pc'[Owner] = "delete34"
      /\ n'[Owner] = head /\ msg' = msg
  BY DEF DeleteFront, Goto, Inv, OwnerInv, Handling, TypeOK
<1>7. InHand = NULL /\ InHand' = msg[s[1]]
  <2>1. s[1] = head
    BY <1>1, <1>2 DEF ListInv, IsList
  <2>2. hand = NULL
    BY <1>6 DEF Inv, OwnerInv
  <2> QED BY <1>6, <2>1, <2>2 DEF InHand
<1>8. PICK u : u = Contents
  OBVIOUS
<1>9. PICK v : v = Contents'
  OBVIOUS
<1>10. /\ u \in Seq(Messages) /\ Len(u) = Len(s) /\ u # <<>>
       /\ \A i \in 1..Len(s) : u[i] = msg[s[i]]
  <2>1. u = [i \in 1..Len(s) |-> msg[s[i]]]
    BY <1>3, <1>4, <1>8 DEF Contents
  <2>2. \A i \in 1..Len(s) : msg[s[i]] \in Messages
    BY <1>1, <1>4 DEF ListInv
  <2>3. u \in Seq(Messages) /\ Len(u) = Len(s)
    <3>1. u \in [1..Len(s) -> Messages]
      BY <2>1, <2>2
    <3>2. u \in Seq(Messages)
      BY <1>4, <3>1, SeqDef
    <3> QED BY <1>4, <3>1, <3>2, LenProperties
  <2> QED BY <1>4, <2>1, <2>3
<1>11. v \in Seq(Messages) /\ Len(v) = Len(s) - 1 /\ \A i \in 1..Len(t) : v[i] = msg[s[i + 1]]
  <2>1. v = [i \in 1..Len(t) |-> msg[t[i]]]
    BY <1>3, <1>5, <1>6, <1>9 DEF Contents
  <2>2. \A i \in 1..Len(t) : msg[t[i]] \in Messages
    <3>1. \A i \in DOMAIN t : msg'[t[i]] \in Messages
      BY <1>2 DEF ListInv
    <3>2. DOMAIN t = 1..Len(t)
      BY <1>5
    <3> QED BY <1>6, <3>1, <3>2
  <2> QED BY <1>5, <2>1, <2>2
<1>12. Head(u) = msg[s[1]]
  BY <1>4, <1>10
<1>13. v = Tail(u)
  <2>1. /\ Tail(u) \in Seq(Messages) /\ Len(Tail(u)) = Len(s) - 1
        /\ \A i \in 1..(Len(s) - 1) : Tail(u)[i] = u[i + 1]
    BY <1>10, HeadTailProperties
  <2>2. \A i \in 1..(Len(s) - 1) : i + 1 \in 1..Len(s)
    BY <1>4
  <2>3. \A i \in 1..(Len(s) - 1) : v[i] = Tail(u)[i]
    BY <1>5, <1>10, <1>11, <2>1, <2>2
  <2> QED BY <1>11, <2>1, <2>3, SeqEqual
<1> QED BY <1>7, <1>8, <1>9, <1>10, <1>12, <1>13 DEF Abstract!Dequeue

\* The callback is done with the message in hand.
LEMMA HandleHandles ==
  ASSUME Inv, NEW c \in Cpus, Handle(c)
  PROVE  Abstract!Handle
<1>1. c = Owner /\ pc[Owner] = "handle" /\ pc'[Owner] = "idle" /\ hand' = NULL
  BY DEF Handle, Goto, Inv, OwnerInv, Handling, TypeOK
<1>2. hand # NULL
  BY <1>1 DEF Inv, OwnerInv
<1>3. Contents' = Contents
  BY ContentsKept DEF KeepsList
<1> QED BY <1>1, <1>2, <1>3 DEF Abstract!Handle, InHand

\* The linked list of queue.c is a FIFO of messages: an enqueue appends one
\* message, a dequeue takes the oldest one, unchanged, and all the other stores
\* to nodes and ends are invisible.
THEOREM IsAFifo == Spec => ImplementsFifo
<1>1. Init => Abstract!Init
  <2> SUFFICES ASSUME Init PROVE Abstract!Init
    OBVIOUS
  <2>1. IsList(<<>>)
    BY EmptyList DEF Init, IsList
  <2>2. List = <<>>
    BY <2>1, EmptyList, TheList
  <2>3. Contents = <<>>
    <3>1. PICK u : u = Contents
      OBVIOUS
    <3>2. u = [i \in 1..0 |-> msg[List[i]]]
      BY <2>2, <3>1, EmptyList DEF Contents
    <3> QED BY <3>1, <3>2
  <2>4. InHand = NULL
    BY DEF Init, InHand
  <2> QED BY <2>3, <2>4 DEF Abstract!Init
<1>2. Inv /\ [Next]_vars => [Abstract!Next]_<<Contents, InHand>>
  <2> SUFFICES ASSUME Inv, [Next]_vars
               PROVE  Abstract!Next \/ UNCHANGED <<Contents, InHand>>
    OBVIOUS
  <2>1. ASSUME NEW c \in Cpus, SendI(c) \/ IHandler(c)
        PROVE  Abstract!Next \/ UNCHANGED <<Contents, InHand>>
    <3>1. CASE FirstNode(c) \/ NewTail(c)
      BY <3>1, GrowingEnqueues DEF Abstract!Next
    <3>2. CASE DeleteFront(c)
      BY <3>2, ShrinkingDequeues DEF Abstract!Next
    <3>3. CASE Handle(c)
      BY <3>3, HandleHandles DEF Abstract!Next
    <3>4. CASE KeepsList(c) /\ ~DeleteFront(c) /\ ~Handle(c)
      BY <2>1, <3>4, ContentsKept, SendingKeepsHand, HandlerKeepsHand
    <3> QED BY <2>1, <3>1, <3>2, <3>3, <3>4 DEF SendI, IHandler, KeepsList
  <2>2. CASE UNCHANGED vars
    <3>1. PICK s \in Lists : IsList(s)
      BY DEF Inv, ListInv
    <3>2. IsList(s)'
      <4>1. head' = head /\ tail' = tail /\ next' = next
        BY <2>2 DEF vars, nodeVars
      <4> QED BY <3>1, <4>1 DEF IsList
    <3>3. List' = List
      BY <3>1, <3>2, TheList, TheListPrime
    <3> QED BY <2>2, <3>3 DEF vars, nodeVars, Contents, InHand
  <2> QED BY <2>1, <2>2 DEF Next
<1> QED BY <1>1, <1>2, QueueInvariant, PTL DEF Spec, ImplementsFifo, Abstract!Spec
=============================================================================
