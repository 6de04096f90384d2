------------------------------ MODULE MsgQueue ------------------------------
(***************************************************************************)
(* One message queue of sync/queue.c under its spinlock (sync/spinlock.c): *)
(* a doubly linked list that every cpu enqueues to (sendI) and one cpu, the*)
(* owner, empties (i_handler).  The owner also sends to itself: a handler  *)
(* forwards its message to whoever owns the lock by then.                  *)
(*                                                                         *)
(* There is one action per statement that reads or writes the queue or a   *)
(* node.  A node returned by malloc holds whatever its last user left in   *)
(* it.  unlock is a plain store, which releases on x86.                    *)
(***************************************************************************)
EXTENDS Naturals, Sequences, FiniteSets

CONSTANTS
  Cpus, Owner,   \* the senders, and the one of them whose queue this is
  Nodes,         \* addresses malloc may return
  NULL,          \* the null pointer, and no message
  PerCpu         \* messages each cpu sends: a bound of the model

Messages == Cpus \X (1..PerCpu)

ASSUME QueueAssumption ==
  /\ Owner \in Cpus
  /\ IsFiniteSet(Nodes)
  /\ NULL \notin Nodes \cup Messages
  /\ PerCpu \in Nat \ {0}

VARIABLES
  state,              \* q->lock.state: TRUE when locked
  head, tail,         \* of the queue
  next, prev, msg,    \* fields of a node
  allocated,          \* the nodes malloc has handed out
  pc,                 \* where a cpu is, by line of queue.c
  n,                  \* the node enqueue or dequeue works on
  sent,               \* how many messages a cpu has sent
  hand                \* msg in dequeue and i_handler

nodeVars == <<next, prev, msg, allocated>>
vars == <<state, head, tail, nodeVars, pc, n, sent, hand>>

Points ==
  {"idle", "lock75", "msg77", "empty80", "empty81", "link83", "link84", "link85",
   "link86", "unlock88", "lock17", "tail18", "empty19", "full19", "lock49", "delete26",
   "delete34", "msg56", "free57", "unlock58", "handle"}

TypeOK ==
  /\ state \in BOOLEAN
  /\ head \in Nodes \cup {NULL} /\ tail \in Nodes \cup {NULL}
  /\ next \in [Nodes -> Nodes \cup {NULL}]
  /\ prev \in [Nodes -> Nodes \cup {NULL}]
  /\ msg \in [Nodes -> Messages \cup {NULL}]
  /\ allocated \in SUBSET Nodes
  /\ pc \in [Cpus -> Points]
  /\ n \in [Cpus -> Nodes \cup {NULL}]
  /\ sent \in [Cpus -> 0..PerCpu]
  /\ hand \in Messages \cup {NULL}

\* init_queue
Init ==
  /\ state = FALSE
  /\ head = NULL /\ tail = NULL
  /\ next = [x \in Nodes |-> NULL]
  /\ prev = [x \in Nodes |-> NULL]
  /\ msg = [x \in Nodes |-> NULL]
  /\ allocated = {}
  /\ pc = [c \in Cpus |-> "idle"]
  /\ n = [c \in Cpus |-> NULL]
  /\ sent = [c \in Cpus |-> 0]
  /\ hand = NULL

Goto(c, from, to) == pc[c] = from /\ pc' = [pc EXCEPT ![c] = to]

\* mutant: the state is set without looking at what it was
spinlock_lock_blind(c, from, to) ==
  /\ Goto(c, from, to)
  /\ state' = TRUE
  /\ UNCHANGED <<head, tail, nodeVars, n, sent, hand>>

\* while (atomic_xchange(&sl->state)): the exchange that finds it unlocked
spinlock_lock(c, from, to) ==
  /\ Goto(c, from, to)
  /\ ~state
  /\ state' = TRUE
  /\ UNCHANGED <<head, tail, nodeVars, n, sent, hand>>

\* sl->state = SPINLOCK_UNLOCKED, after which the caller returns
spinlock_unlock(c, from, to) ==
  /\ Goto(c, from, to)
  /\ state' = FALSE
  /\ n' = [n EXCEPT ![c] = NULL]
  /\ UNCHANGED <<head, tail, nodeVars, sent, hand>>

-----------------------------------------------------------------------------
(***************************************************************************)
(* enqueue, called by sendI                                                *)
(***************************************************************************)

Malloc(c) ==
  /\ Goto(c, "idle", "lock75")
  /\ sent[c] < PerCpu
  /\ sent' = [sent EXCEPT ![c] = @ + 1]
  /\ \E x \in Nodes \ allocated :
       n' = [n EXCEPT ![c] = x] /\ allocated' = allocated \cup {x}
  /\ UNCHANGED <<state, head, tail, next, prev, msg, hand>>

EnqueueLock(c) == spinlock_lock(c, "lock75", "msg77")

\* n->msg = msg; if (q->tail == NULL)
SetMsg(c) ==
  /\ Goto(c, "msg77", IF tail = NULL THEN "empty80" ELSE "link83")
  /\ msg' = [msg EXCEPT ![n[c]] = <<c, sent[c]>>]
  /\ UNCHANGED <<state, head, tail, next, prev, allocated, n, sent, hand>>

FirstNode(c) ==
  /\ Goto(c, "empty80", "empty81")
  /\ tail' = n[c] /\ head' = n[c]
  /\ UNCHANGED <<state, nodeVars, n, sent, hand>>

FirstLinks(c) ==
  /\ Goto(c, "empty81", "unlock88")
  /\ next' = [next EXCEPT ![n[c]] = NULL]
  /\ prev' = [prev EXCEPT ![n[c]] = NULL]
  /\ UNCHANGED <<state, head, tail, msg, allocated, n, sent, hand>>

LinkNext(c) ==
  /\ Goto(c, "link83", "link84")
  /\ next' = [next EXCEPT ![tail] = n[c]]
  /\ UNCHANGED <<state, head, tail, prev, msg, allocated, n, sent, hand>>

\* mutant: the link back is forgotten
LinkPrevForgotten(c) ==
  /\ Goto(c, "link84", "link85")
  /\ UNCHANGED <<state, head, tail, nodeVars, n, sent, hand>>

LinkPrev(c) ==
  /\ Goto(c, "link84", "link85")
  /\ prev' = [prev EXCEPT ![n[c]] = tail]
  /\ UNCHANGED <<state, head, tail, next, msg, allocated, n, sent, hand>>

LinkEnd(c) ==
  /\ Goto(c, "link85", "link86")
  /\ next' = [next EXCEPT ![n[c]] = NULL]
  /\ UNCHANGED <<state, head, tail, prev, msg, allocated, n, sent, hand>>

NewTail(c) ==
  /\ Goto(c, "link86", "unlock88")
  /\ tail' = n[c]
  /\ UNCHANGED <<state, head, nodeVars, n, sent, hand>>

EnqueueUnlock(c) == spinlock_unlock(c, "unlock88", "idle")

-----------------------------------------------------------------------------
(***************************************************************************)
(* is_empty and dequeue, called by i_handler of the owner                  *)
(***************************************************************************)

IsEmptyLock(c) == c = Owner /\ spinlock_lock(c, "idle", "tail18")

\* mutant: a queue of one message counts as empty
IsEmptyReadShort(c) ==
  /\ Goto(c, "tail18", IF tail = head THEN "empty19" ELSE "full19")
  /\ UNCHANGED <<state, head, tail, nodeVars, n, sent, hand>>

\* mutant: no queue counts as empty
IsEmptyReadNever(c) ==
  /\ Goto(c, "tail18", "full19")
  /\ UNCHANGED <<state, head, tail, nodeVars, n, sent, hand>>

\* the result decides where i_handler goes after the unlock
IsEmptyRead(c) ==
  /\ Goto(c, "tail18", IF tail = NULL THEN "empty19" ELSE "full19")
  /\ UNCHANGED <<state, head, tail, nodeVars, n, sent, hand>>

IsEmptyUnlock(c) ==
  spinlock_unlock(c, "empty19", "idle") \/ spinlock_unlock(c, "full19", "lock49")

DequeueLock(c) == spinlock_lock(c, "lock49", "delete26")

\* queue_delete(q, q->head), from the front; called with the head it cannot
\* return NULL (31, 51-54)
DeleteFront(c) ==
  /\ Goto(c, "delete26", "delete34")
  /\ head # NULL
  /\ n' = [n EXCEPT ![c] = head]
  /\ head' = IF prev[head] = NULL THEN next[head] ELSE head
  /\ next' = IF prev[head] = NULL THEN next
                                  ELSE [next EXCEPT ![prev[head]] = next[head]]
  /\ UNCHANGED <<state, tail, prev, msg, allocated, sent, hand>>

\* and from the back
DeleteBack(c) ==
  /\ Goto(c, "delete34", "msg56")
  /\ \/ /\ next[n[c]] # NULL
        /\ prev' = [prev EXCEPT ![next[n[c]]] = prev[n[c]]]
        /\ UNCHANGED tail
     \/ /\ next[n[c]] = NULL /\ tail = n[c]
        /\ tail' = prev[n[c]]
        /\ UNCHANGED prev
  /\ UNCHANGED <<state, head, next, msg, allocated, n, sent, hand>>

GetMsg(c) ==
  /\ Goto(c, "msg56", "free57")
  /\ hand' = msg[n[c]]
  /\ UNCHANGED <<state, head, tail, nodeVars, n, sent>>

Free(c) ==
  /\ Goto(c, "free57", "unlock58")
  /\ allocated' = allocated \ {n[c]}
  /\ UNCHANGED <<state, head, tail, next, prev, msg, n, sent, hand>>

DequeueUnlock(c) == spinlock_unlock(c, "unlock58", "handle")

\* the callback
Handle(c) ==
  /\ Goto(c, "handle", "idle")
  /\ hand' = NULL
  /\ UNCHANGED <<state, head, tail, nodeVars, n, sent>>

SendI(c) ==
  \/ Malloc(c) \/ EnqueueLock(c) \/ SetMsg(c) \/ FirstNode(c) \/ FirstLinks(c)
  \/ LinkNext(c) \/ LinkPrev(c) \/ LinkEnd(c) \/ NewTail(c) \/ EnqueueUnlock(c)
IHandler(c) ==
  \/ IsEmptyLock(c) \/ IsEmptyRead(c) \/ IsEmptyUnlock(c) \/ DequeueLock(c)
  \/ DeleteFront(c) \/ DeleteBack(c) \/ GetMsg(c) \/ Free(c) \/ DequeueUnlock(c)
  \/ Handle(c)

Next == \E c \in Cpus : SendI(c) \/ IHandler(c)

Spec == Init /\ [][Next]_vars

\* the owner keeps polling
FairSpec == Spec /\ WF_vars(IHandler(Owner)) /\ \A c \in Cpus : WF_vars(SendI(c))

-----------------------------------------------------------------------------
(***************************************************************************)
(* Properties                                                              *)
(***************************************************************************)

\* the list from head to tail
IsList(s) ==
  /\ s = <<>> <=> head = NULL
  /\ s # <<>> => s[1] = head /\ s[Len(s)] = tail
  /\ \A i \in 1..(Len(s) - 1) : s[i + 1] = next[s[i]]
  /\ \A i, j \in DOMAIN s : s[i] = s[j] => i = j
Lists == UNION {[1..k -> Nodes] : k \in 0..Cardinality(Nodes)}
List == CHOOSE s \in Lists : IsList(s)

(***************************************************************************)
(* Whenever the lock is free, the list is whole in both directions, ends   *)
(* with null pointers, and consists of nodes that have not been freed.     *)
(***************************************************************************)
ListIsWhole ==
  ~state =>
    \E s \in Lists :
      /\ IsList(s)
      /\ tail = NULL <=> head = NULL
      /\ head # NULL => prev[head] = NULL /\ next[tail] = NULL
      /\ \A i \in 1..(Len(s) - 1) : prev[s[i + 1]] = s[i]
      /\ \A i \in DOMAIN s : s[i] \in allocated

(***************************************************************************)
(* i_handler dequeues after is_empty said no and gave the lock back; the   *)
(* assertion in queue_delete that there is a node still holds, because only*)
(* the owner takes nodes out.                                              *)
(***************************************************************************)
DequeueFindsANode ==
  \A c \in Cpus : pc[c] = "delete26" => head # NULL

(***************************************************************************)
(* The queue implements a FIFO: a message is in it from the store that     *)
(* makes its node the tail until the one that moves head past it, and the  *)
(* owner gets it as it was sent.                                           *)
(***************************************************************************)
InHand ==
  IF pc[Owner] \in {"delete34", "msg56"} THEN msg[n[Owner]] ELSE hand
Contents == [i \in DOMAIN List |-> msg[List[i]]]
Abstract == INSTANCE Fifo WITH contents <- Contents, hand <- InHand, NoMessage <- NULL
ImplementsFifo == Abstract!Spec

(***************************************************************************)
(* Every message that has been sent is handled, although is_empty, senders *)
(* and dequeue compete for a lock that knows no order.  (The senders run   *)
(* out of messages some day: mylock sends one and waits.)                  *)
(***************************************************************************)
InQueue(m) == \E i \in DOMAIN List : msg[List[i]] = m
MessagesAreHandled == \A m \in Messages : InQueue(m) ~> hand = m
=============================================================================
