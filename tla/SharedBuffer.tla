---------------------------- MODULE SharedBuffer ----------------------------
(***************************************************************************)
(* The shared buffer of runtime-example/sbuffree.c and the way its users,  *)
(* the kernel threads of mythreads_64.c, find out that all work is done.   *)
(* A pthread runs the task it has removed, which may create further tasks  *)
(* (sbuf_insert; a task that does not fit is run at once), and then comes  *)
(* back to sbuf_remove (schedule_next).  A pthread that sees the buffer    *)
(* empty while all others are idle makes an exit task for every pthread.   *)
(*                                                                         *)
(* There is one action per access to the fields of the buffer that others  *)
(* use at the same time.  C does not say which operand of lines 50 and 89  *)
(* is read first.  What is done while trialRear or trialFront is held and  *)
(* read by no other pthread is part of the next access.                    *)
(***************************************************************************)
EXTENDS Integers, Sequences

CONSTANTS
  num_pthreads,   \* of mythreads_start
  n,              \* slots of the buffer
  NULL,           \* no pthread, no item
  exit_task,      \* the item that ends a pthread
  MaxTasks        \* tasks created in all: a bound of the model

ASSUME BufferAssumption ==
  /\ num_pthreads \in Nat \ {0} /\ n \in Nat \ {0} /\ MaxTasks \in Nat \ {0}
  /\ NULL \notin Nat /\ exit_task \notin Nat /\ NULL # exit_task

Pthreads == 1..num_pthreads
Tasks == 1..MaxTasks
Items == Tasks \cup {exit_task}

VARIABLES
  buf, front, rear, inserted, removed, trialRear, trialFront,   \* sbuf
  idlep_count, mutex, done_creating_threads,   \* mutex is mutex_idle_count
  pc,        \* where a pthread is, by line of sbuffree.c
  seen,      \* the operand of line 50 or 89 it has read: its name and value
  item,      \* the item it inserts or removes
  exits,     \* the exit tasks it still has to create
  hand,      \* the tasks it runs, one created by the other
  created    \* how many tasks there are

sbuf == <<buf, front, rear, inserted, removed, trialRear, trialFront>>
idle == <<idlep_count, mutex, done_creating_threads>>
locals == <<seen, item, exits>>
tasks == <<hand, created>>
vars == <<sbuf, idle, pc, locals, tasks>>

TypeOK ==
  /\ buf \in [0..(n - 1) -> Items \cup {NULL}]
  /\ front \in Nat /\ rear \in Nat /\ inserted \in Nat /\ removed \in Nat
  /\ trialRear \in Pthreads \cup {NULL} /\ trialFront \in Pthreads \cup {NULL}
  /\ idlep_count \in 0..num_pthreads
  /\ mutex \in Pthreads \cup {NULL} /\ done_creating_threads \in BOOLEAN
  /\ pc \in [Pthreads -> {"run", "full50", "read50", "lock54", "full56", "free57",
       "store65", "count70", "free71", "empty89", "read89", "lock90", "idle91",
       "unlock100", "idle104", "empty107", "idle110", "lock116", "empty118",
       "free119", "item124", "count131", "free132", "exited"}]
  /\ seen \in [Pthreads -> {"none", "inserted", "removed"} \X Nat]
  /\ item \in [Pthreads -> Items \cup {NULL}]
  /\ exits \in [Pthreads -> 0..num_pthreads]
  /\ hand \in [Pthreads -> SUBSET Tasks] /\ created \in Tasks

\* sbuf_init, and the first task, which main creates before mythreads_start
Init ==
  /\ buf = [i \in 0..(n - 1) |-> IF i = 1 % n THEN 1 ELSE NULL]
  /\ front = 0 /\ rear = 1 /\ inserted = 1 /\ removed = 0
  /\ trialRear = NULL /\ trialFront = NULL
  /\ idlep_count = 0 /\ mutex = NULL /\ done_creating_threads = FALSE
  /\ pc = [p \in Pthreads |-> "empty89"]
  /\ seen = [p \in Pthreads |-> <<"none", 0>>]
  /\ item = [p \in Pthreads |-> NULL]
  /\ exits = [p \in Pthreads |-> 0]
  /\ hand = [p \in Pthreads |-> {}] /\ created = 1

Goto(p, from, to) == pc[p] = from /\ pc' = [pc EXCEPT ![p] = to]

\* The first operand of line 50 or 89, and what the two operands then are.
ReadOne(p, from, to) ==
  /\ Goto(p, from, to)
  /\ \E r \in {<<"inserted", inserted>>, <<"removed", removed>>} : seen' = [seen EXCEPT ![p] = r]
  /\ UNCHANGED <<sbuf, idle, item, exits, tasks>>

Inserted(p) == IF seen[p][1] = "inserted" THEN seen[p][2] ELSE inserted
Removed(p) == IF seen[p][1] = "removed" THEN seen[p][2] ELSE removed
Forget(p) == seen' = [seen EXCEPT ![p] = <<"none", 0>>]

-----------------------------------------------------------------------------
(* sbuf_insert, called from mythread_create *)

\* A task that runs creates another one.
Create(p) ==
  /\ Goto(p, "run", "full50")
  /\ created < MaxTasks
  /\ created' = created + 1
  /\ item' = [item EXCEPT ![p] = created']
  /\ UNCHANGED <<sbuf, idle, seen, exits, hand>>

\* mythread_create when sbuf_insert returns 0: the task runs at once, in place
\* of its creator.  An exit task ends the pthread, which has mutex_idle_count.
RunAtOnce(p, from) ==
  IF item[p] = exit_task THEN Goto(p, from, "exited") /\ UNCHANGED hand
  ELSE Goto(p, from, "run") /\ hand' = [hand EXCEPT ![p] = @ \cup {item[p]}]

FirstFullTest(p) ==
  /\ IF Inserted(p) - Removed(p) = n THEN RunAtOnce(p, "read50")
     ELSE Goto(p, "read50", "lock54") /\ UNCHANGED hand
  /\ Forget(p)
  /\ UNCHANGED <<sbuf, idle, item, exits, created>>

TakeRear(p) ==
  /\ Goto(p, "lock54", "full56")
  /\ trialRear = NULL /\ trialRear' = p
  /\ UNCHANGED <<buf, front, rear, inserted, removed, trialFront, idle, locals, tasks>>

SecondFullTest(p) ==
  /\ IF inserted - removed = n THEN Goto(p, "full56", "free57") ELSE Goto(p, "full56", "store65")
  /\ UNCHANGED <<sbuf, idle, locals, tasks>>

GiveUpRear(p) ==
  /\ RunAtOnce(p, "free57")
  /\ trialRear' = NULL
  /\ UNCHANGED <<buf, front, rear, inserted, removed, trialFront, idle, locals, created>>

StoreItem(p) ==
  /\ Goto(p, "store65", "count70")
  /\ buf' = [buf EXCEPT ![(rear + 1) % n] = item[p]]
  /\ rear' = rear + 1
  /\ UNCHANGED <<front, inserted, removed, trialRear, trialFront, idle, locals, tasks>>

CountInserted(p) ==
  /\ Goto(p, "count70", "free71")
  /\ inserted' = inserted + 1
  /\ UNCHANGED <<buf, front, rear, removed, trialRear, trialFront, idle, locals, tasks>>

\* trialRear = NULL, and back to the task or to the loop of signal_exit_task
FreeRear(p) ==
  /\ exits' = [exits EXCEPT ![p] = IF @ = 0 THEN 0 ELSE @ - 1]
  /\ \/ exits[p] = 0 /\ Goto(p, "free71", "run")
     \/ exits[p] = 1 /\ Goto(p, "free71", "unlock100")
     \/ exits[p] > 1 /\ Goto(p, "free71", "full50")
  /\ trialRear' = NULL
  /\ UNCHANGED <<buf, front, rear, inserted, removed, trialFront, idle, seen, item, tasks>>

sbuf_insert(p) ==
  \/ ReadOne(p, "full50", "read50") \/ FirstFullTest(p)
  \/ TakeRear(p) \/ SecondFullTest(p) \/ GiveUpRear(p)
  \/ StoreItem(p) \/ CountInserted(p) \/ FreeRear(p)

-----------------------------------------------------------------------------
(* sbuf_remove, called from schedule_next when the task has ended or waits *)

Finish(p) ==
  /\ Goto(p, "run", "empty89")
  /\ hand' = [hand EXCEPT ![p] = {}]
  /\ UNCHANGED <<sbuf, idle, locals, created>>

EmptyTest(p) ==
  /\ IF Removed(p) = Inserted(p) THEN Goto(p, "read89", "lock90") ELSE Goto(p, "read89", "idle104")
  /\ Forget(p)
  /\ UNCHANGED <<sbuf, idle, item, exits, tasks>>

LockIdle(p) ==
  /\ Goto(p, "lock90", "idle91")
  /\ mutex = NULL /\ mutex' = p
  /\ UNCHANGED <<sbuf, idlep_count, done_creating_threads, locals, tasks>>

\* Lines 91-98 up to the first mythread_create of signal_exit_task
SignalWhen(p, all_idle, exit_tasks) ==
  /\ IF all_idle /\ exit_tasks > 0
     THEN /\ Goto(p, "idle91", "full50")
          /\ item' = [item EXCEPT ![p] = exit_task]
          /\ exits' = [exits EXCEPT ![p] = exit_tasks]
     ELSE Goto(p, "idle91", "unlock100") /\ UNCHANGED <<item, exits>>
  /\ done_creating_threads' = (done_creating_threads \/ all_idle)
  /\ UNCHANGED <<sbuf, idlep_count, mutex, seen, tasks>>

\* mutant: one pthread that is not idle is overlooked
SignalEarly(p) == SignalWhen(p, idlep_count >= num_pthreads - 2, num_pthreads)

signal_exit_task(p) == SignalWhen(p, idlep_count = num_pthreads - 1, num_pthreads)

UnlockIdle(p) ==
  /\ Goto(p, "unlock100", "idle104")
  /\ mutex' = NULL
  /\ UNCHANGED <<sbuf, idlep_count, done_creating_threads, locals, tasks>>

\* Lines 103-105 and 109-111: nothing but the counter happens under the mutex
CountIdle(p, from, to, change) ==
  /\ Goto(p, from, to)
  /\ mutex = NULL
  /\ idlep_count' = idlep_count + change
  /\ UNCHANGED <<sbuf, mutex, done_creating_threads, locals, tasks>>

BecomeIdle(p) == CountIdle(p, "idle104", "empty107", 1)
StopIdling(p) == CountIdle(p, "idle110", "lock116", -1)

\* while (sbuf->removed == sbuf->inserted) pthread_yield()
AwaitItem(p) ==
  /\ Goto(p, "empty107", "idle110")
  /\ removed # inserted
  /\ UNCHANGED <<sbuf, idle, locals, tasks>>

TakeFront(p) ==
  /\ Goto(p, "lock116", "empty118")
  /\ trialFront = NULL /\ trialFront' = p
  /\ UNCHANGED <<buf, front, rear, inserted, removed, trialRear, idle, locals, tasks>>

\* mutant: the item is not looked for again once trialFront is taken
NoSecondEmptyTest(p) ==
  /\ Goto(p, "empty118", "item124")
  /\ UNCHANGED <<sbuf, idle, locals, tasks>>

SecondEmptyTest(p) ==
  /\ IF removed = inserted THEN Goto(p, "empty118", "free119") ELSE Goto(p, "empty118", "item124")
  /\ UNCHANGED <<sbuf, idle, locals, tasks>>

GiveUpFront(p) ==
  /\ Goto(p, "free119", "empty89")
  /\ trialFront' = NULL
  /\ UNCHANGED <<buf, front, rear, inserted, removed, trialRear, idle, locals, tasks>>

GetItem(p) ==
  /\ Goto(p, "item124", "count131")
  /\ item' = [item EXCEPT ![p] = buf[(1 + front) % n]]
  /\ front' = front + 1
  /\ UNCHANGED <<buf, rear, inserted, removed, trialRear, trialFront, idle, seen, exits, tasks>>

CountRemoved(p) ==
  /\ Goto(p, "count131", "free132")
  /\ removed' = removed + 1
  /\ UNCHANGED <<buf, front, rear, inserted, trialRear, trialFront, idle, locals, tasks>>

\* trialFront = NULL; the item is returned and run, and exit_task ends the pthread
FreeFront(p) ==
  /\ IF item[p] = exit_task THEN Goto(p, "free132", "exited") /\ UNCHANGED hand
     ELSE Goto(p, "free132", "run") /\ hand' = [hand EXCEPT ![p] = {item[p]}]
  /\ trialFront' = NULL
  /\ UNCHANGED <<buf, front, rear, inserted, removed, trialRear, idle, locals, created>>

sbuf_remove(p) ==
  \/ ReadOne(p, "empty89", "read89") \/ EmptyTest(p)
  \/ LockIdle(p) \/ signal_exit_task(p) \/ UnlockIdle(p)
  \/ BecomeIdle(p) \/ AwaitItem(p) \/ StopIdling(p)
  \/ TakeFront(p) \/ SecondEmptyTest(p) \/ GiveUpFront(p)
  \/ GetItem(p) \/ CountRemoved(p) \/ FreeFront(p)

-----------------------------------------------------------------------------
Step(p) == Create(p) \/ Finish(p) \/ sbuf_insert(p) \/ sbuf_remove(p)

Next == \E p \in Pthreads : Step(p)

Spec == Init /\ [][Next]_vars

\* Every pthread runs, a task ends, and a pthread that competes for the mutex
\* or for an end of the buffer gets it in the end.
FairSpec ==
  /\ Spec
  /\ \A p \in Pthreads :
       /\ WF_vars(Step(p))
       /\ SF_vars(LockIdle(p)) /\ SF_vars(BecomeIdle(p)) /\ SF_vars(StopIdling(p))
       /\ SF_vars(TakeFront(p)) /\ SF_vars(TakeRear(p))

-----------------------------------------------------------------------------
(* Properties *)

\* The buffer is a FIFO: an item is put into it by the store to inserted and
\* leaves it by the store to removed; no item is lost, doubled, overtaken, or
\* read from a slot that holds another one.
Abstract == INSTANCE BoundedBuffer WITH
  Consumers <- Pthreads, NoItem <- NULL, First <- <<1>>,
  contents <- [i \in 1..(inserted - removed) |-> buf[(removed + i) % n]],
  hand <- [p \in Pthreads |-> IF pc[p] = "free132" THEN item[p] ELSE NULL]

ImplementsBuffer == Abstract!Spec

\* The tasks that have not run: in the buffer, or in the hands of a pthread
\* that inserts, has removed, or runs them.
Waiting ==
  {buf[(removed + i) % n] : i \in 1..(inserted - removed)}
    \cup {item[p] : p \in {q \in Pthreads : pc[q] \in
             {"full50", "read50", "lock54", "full56", "free57", "store65", "count70", "free132"}}}
Running == UNION {hand[p] : p \in Pthreads}
Outstanding == (Waiting \cup Running) \ {exit_task}

\* No pthread runs a task, or has removed one, when the exit tasks are made:
\* all the others are counted in idlep_count.
NobodyRunsAtExit ==
  [][done_creating_threads' # done_creating_threads =>
       \A p \in Pthreads : hand[p] = {} /\ pc[p] # "free132"]_vars

-----------------------------------------------------------------------------
(* What the comments of the code say and the code does not do: TLC refutes  *)
(* both with two pthreads.                                                  *)

\* "The done_creating_threads flag is set when all the work is done"
\* (lines 92-93): no task is left, not even in the buffer.
ExitWhenDone ==
  [][done_creating_threads' # done_creating_threads => Outstanding = {}]_vars

\* ... "and all the threads become idle": when they are, the flag is set, and
\* every pthread ends.
ExitComes == <>(\A p \in Pthreads : pc[p] = "exited")
=============================================================================
