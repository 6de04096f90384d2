---------------------------- MODULE UserThreads -----------------------------
(***************************************************************************)
(* The user-level threads of runtime-example/mythreads_64.c, several       *)
(* kernel threads (pthreads) running the threads of one program: the       *)
(* fibonacci of tt_fibonacci_64.c, one thread per call and one for         *)
(* testitout, which is named <<>>, the parent of the root of the tree.     *)
(*                                                                         *)
(* A thread's control block and stack are one block of the heap, which     *)
(* its joiner frees.  who->lock is taken by mythread_join and given back   *)
(* by mythread_yield_and_wait after the switch to the stack of the         *)
(* pthread, so that nobody resumes a thread before its registers are saved *)
(* and nobody frees a stack in use.  The one block that is used after it   *)
(* has been freed is that of line 533.                                     *)
(*                                                                         *)
(* Putting a task into the buffer of runnable threads and taking one out   *)
(* are atomic (SharedBuffer shows why they may be); an insertion may fail  *)
(* when the buffer is not full.  The test for emptiness, the count of the  *)
(* idle pthreads and the exit tasks of sbuf_remove are steps of their own. *)
(***************************************************************************)
EXTENDS FibTree, FiniteSets

CONSTANTS
  num_pthreads,   \* of mythreads_start
  num_of_threads, \* slots of the buffer
  MaxBlocks,      \* room in the heap, enough for all threads
  ExitTask        \* a thread that calls exit_task

ASSUME UserThreadsAssumption ==
  /\ num_pthreads \in Nat \ {0} /\ num_of_threads \in Nat
  /\ MaxBlocks \in Nat \ {0}

Pthreads == 1..num_pthreads
Blocks == 1..MaxBlocks
Main == <<>>
Threads == Frames \cup {Main}

Children(f) ==
  IF f = Main THEN <<Root>> ELSE IF IsLeaf(f) THEN <<>> ELSE <<FirstChild(f), SecondChild(f)>>

VARIABLES
  ready,           \* the buffer of runnable threads
  block,           \* the block of a thread, None before mythread_create
  allocated,       \* the blocks in use
  freed,           \* the threads whose block was given back
  lock, done, waiters, insert_fail,   \* the fields of a block
  saved,           \* where a thread goes on when it is resumed: its registers
  at,              \* where a pthread is: a line, and the child it is about
  current_thread,  \* the thread a pthread runs
  w,               \* w->thread or parent in mythread_exit
  output,          \* foo->output of a call
  done_creating_threads,
  stray,           \* line 533 has opened the lock of another thread
  dead             \* a fault, or a corrupted heap: not followed any further

fields == <<lock, done, waiters, insert_fail>>
heap == <<block, allocated, freed, fields>>
fate == <<done_creating_threads, stray, dead>>
vars == <<ready, heap, saved, at, current_thread, w, output, fate>>

Lines ==
  {"start", "create350", "lock382", "done385", "unlock387", "free388", "wait407", "save524",
   "lock530", "free531", "unlock533", "unlock540", "sum79", "lock429", "done431",
   "unlock442", "wake449", "unlock472", "next474",
   "empty89", "idle91", "idle104", "empty107", "idle110", "remove116",
   "exited", "exited91"}
Point(line, k) == <<line, k>>

TypeOK ==
  /\ ready \in Seq(Threads \cup {ExitTask})
  /\ block \in [Threads -> Blocks \cup {None}]
  /\ allocated \in SUBSET Blocks /\ freed \in SUBSET Threads
  /\ lock \in [Blocks -> BOOLEAN] /\ done \in [Blocks -> BOOLEAN]
  /\ waiters \in [Blocks -> Threads \cup {None}] /\ insert_fail \in [Blocks -> BOOLEAN]
  /\ saved \in [Threads -> Lines \X (0..2)]
  /\ at \in [Pthreads -> Lines \X (0..2)]
  /\ current_thread \in [Pthreads -> Threads \cup {None}]
  /\ w \in [Pthreads -> Threads \cup {None}]
  /\ output \in [Frames -> Nat \cup {None}]
  /\ done_creating_threads \in BOOLEAN /\ stray \in BOOLEAN /\ dead \in BOOLEAN

\* main creates the thread of testitout and calls mythreads_start
Init ==
  /\ ready = <<Main>>
  /\ block = [f \in Threads |-> IF f = Main THEN 1 ELSE None]
  /\ allocated = {1} /\ freed = {}
  /\ lock = [x \in Blocks |-> FALSE] /\ done = [x \in Blocks |-> FALSE]
  /\ waiters = [x \in Blocks |-> None] /\ insert_fail = [x \in Blocks |-> FALSE]
  /\ saved = [f \in Threads |-> Point("start", 0)]
  /\ at = [p \in Pthreads |-> Point("empty89", 0)]
  /\ current_thread = [p \in Pthreads |-> None]
  /\ w = [p \in Pthreads |-> None]
  /\ output = [f \in Frames |-> None]
  /\ done_creating_threads = FALSE /\ stray = FALSE /\ dead = FALSE

\* The code of testitout and fibonacci: all children are created, then joined.
AfterCreate(f, k) == IF k < Len(Children(f)) THEN Point("create350", k + 1) ELSE Point("lock382", 1)
AfterJoin(f, k) ==
  IF k < Len(Children(f)) THEN Point("lock382", k + 1)
  ELSE IF f = Main THEN Point("lock429", 0) ELSE Point("sum79", 0)

This(p) == current_thread[p]
Child(p) == Children(This(p))[at[p][2]]
Who(p) == block[Child(p)]    \* the thread that is joined
Own(p) == block[This(p)]

GotoPoint(p, from, point) == at[p][1] = from /\ at' = [at EXCEPT ![p] = point]
Goto(p, from, to) == GotoPoint(p, from, Point(to, at[p][2]))

mythread_resume(p, f) ==
  /\ at' = [at EXCEPT ![p] = saved[f]]
  /\ current_thread' = [current_thread EXCEPT ![p] = f]

LockBlock(b) == ~lock[b] /\ lock' = [lock EXCEPT ![b] = TRUE]
UnlockBlock(b) == lock' = [lock EXCEPT ![b] = FALSE]

-----------------------------------------------------------------------------
(* fibonacci *)

\* mutant: the base case leaves the output as calloc made it
StartCleared(p) ==
  /\ at[p][1] = "start"
  /\ IF Children(This(p)) = <<>>
     THEN Goto(p, "start", "lock429") /\ output' = [output EXCEPT ![This(p)] = 0]
     ELSE GotoPoint(p, "start", Point("create350", 1)) /\ UNCHANGED output
  /\ UNCHANGED <<ready, heap, saved, current_thread, w, fate>>

Start(p) ==
  /\ at[p][1] = "start"
  /\ IF Children(This(p)) = <<>>
     THEN Goto(p, "start", "lock429") /\ output' = [output EXCEPT ![This(p)] = 1]
     ELSE GotoPoint(p, "start", Point("create350", 1)) /\ UNCHANGED output
  /\ UNCHANGED <<ready, heap, saved, current_thread, w, fate>>

Sum(p) ==
  /\ Goto(p, "sum79", "lock429")
  /\ output' = [output EXCEPT ![This(p)] = output[FirstChild(This(p))] + output[SecondChild(This(p))]]
  /\ UNCHANGED <<ready, heap, saved, current_thread, w, fate>>

-----------------------------------------------------------------------------
(* mythread_create: a new block, cleared; the thread goes to the buffer, or, *)
(* if sbuf_insert fails, runs at once while its creator waits for it.        *)

\* The lowest free block.  Which one it is matters to nobody: it is cleared.
calloc == CHOOSE b \in Blocks \ allocated : \A c \in Blocks \ allocated : b <= c

NewBlock(c, waiter, fail) ==
  LET b == calloc IN
  /\ allocated # Blocks
  /\ allocated' = allocated \cup {b}
  /\ block' = [block EXCEPT ![c] = b]
  /\ lock' = [lock EXCEPT ![b] = FALSE]
  /\ done' = [done EXCEPT ![b] = FALSE]
  /\ waiters' = [waiters EXCEPT ![b] = waiter]
  /\ insert_fail' = [insert_fail EXCEPT ![b] = fail]
  /\ UNCHANGED freed

CreateReady(p) ==
  /\ GotoPoint(p, "create350", AfterCreate(This(p), at[p][2]))
  /\ NewBlock(Child(p), None, FALSE)
  /\ Len(ready) < num_of_threads
  /\ ready' = Append(ready, Child(p))
  /\ UNCHANGED <<saved, current_thread, w, output, fate>>

CreateAtOnce(p) ==
  /\ at[p][1] = "create350"
  /\ NewBlock(Child(p), This(p), TRUE)
  /\ saved' = [saved EXCEPT ![This(p)] = AfterCreate(This(p), at[p][2])]
  /\ mythread_resume(p, Child(p))
  /\ UNCHANGED <<ready, w, output, fate>>

-----------------------------------------------------------------------------
(* mythread_join and mythread_yield_and_wait *)

FreeThread(f, b) ==
  /\ allocated' = allocated \ {b}
  /\ freed' = freed \cup {f}
  /\ UNCHANGED <<ready, block, fields, saved, current_thread, w, output, fate>>

JoinLock(p) ==
  /\ Goto(p, "lock382", "done385")
  /\ LockBlock(Who(p))
  /\ UNCHANGED <<ready, block, allocated, freed, done, waiters, insert_fail, saved, current_thread, w, output, fate>>

\* isDone, setDetached: the flag word becomes 1, which is not done any more
JoinTest(p) ==
  /\ at[p][1] = "done385"
  /\ IF done[Who(p)]
     THEN Goto(p, "done385", "unlock387") /\ done' = [done EXCEPT ![Who(p)] = FALSE]
     ELSE Goto(p, "done385", "wait407") /\ UNCHANGED done
  /\ UNCHANGED <<ready, block, allocated, freed, lock, waiters, insert_fail, saved, current_thread, w, output, fate>>

JoinUnlock(p) ==
  /\ Goto(p, "unlock387", "free388")
  /\ UnlockBlock(Who(p))
  /\ UNCHANGED <<ready, block, allocated, freed, done, waiters, insert_fail, saved, current_thread, w, output, fate>>

JoinFree(p) ==
  /\ GotoPoint(p, "free388", AfterJoin(This(p), at[p][2]))
  /\ FreeThread(Child(p), Who(p))

\* mutant: the lock is given back before the registers are saved
JoinWaitUnlocked(p) ==
  /\ Goto(p, "wait407", "save524")
  /\ waiters' = [waiters EXCEPT ![Who(p)] = This(p)]
  /\ UnlockBlock(Who(p))
  /\ UNCHANGED <<ready, block, allocated, freed, done, insert_fail, saved, current_thread, w, output, fate>>

JoinWait(p) ==
  /\ Goto(p, "wait407", "save524")
  /\ waiters' = [waiters EXCEPT ![Who(p)] = This(p)]
  /\ UNCHANGED <<ready, block, allocated, freed, lock, done, insert_fail, saved, current_thread, w, output, fate>>

\* mythread_save and the switch to the stack of the pthread
Save(p) ==
  /\ Goto(p, "save524", "unlock540")
  /\ saved' = [saved EXCEPT ![This(p)] = Point("lock530", at[p][2])]
  /\ UNCHANGED <<ready, heap, current_thread, w, output, fate>>

WaitUnlock(p) ==
  /\ GotoPoint(p, "unlock540", Point("empty89", 0))
  /\ UnlockBlock(Who(p))
  /\ UNCHANGED <<ready, block, allocated, freed, done, waiters, insert_fail, saved, current_thread, w, output, fate>>

\* back from mythread_save: the thread joined has ended
ResumedLock(p) ==
  /\ Goto(p, "lock530", "free531")
  /\ LockBlock(Who(p))
  /\ UNCHANGED <<ready, block, allocated, freed, done, waiters, insert_fail, saved, current_thread, w, output, fate>>

ResumedFree(p) ==
  /\ Goto(p, "free531", "unlock533")
  /\ FreeThread(Child(p), Who(p))

\* pthread_mutex_unlock in the block that line 531 gave back.  It may be the block
\* of a new thread by now, whose lock is opened; or it may hold another object of
\* the heap, or be no memory any more.
ResumedUnlock(p) ==
  /\ GotoPoint(p, "unlock533", AfterJoin(This(p), at[p][2]))
  /\ UnlockBlock(Who(p))
  /\ \/ stray' = (stray \/ Who(p) \in allocated) /\ UNCHANGED dead
     \/ dead' = TRUE /\ UNCHANGED stray
  /\ UNCHANGED <<ready, block, allocated, freed, done, waiters, insert_fail, saved, current_thread, w, output,
                 done_creating_threads>>

mythread_join(p) ==
  \/ JoinLock(p) \/ JoinTest(p) \/ JoinUnlock(p) \/ JoinFree(p)
  \/ JoinWait(p) \/ Save(p) \/ WaitUnlock(p)
  \/ ResumedLock(p) \/ ResumedFree(p) \/ ResumedUnlock(p)

-----------------------------------------------------------------------------
(* mythread_exit and mythread_schedule_next *)

ExitLock(p) ==
  /\ Goto(p, "lock429", "done431")
  /\ LockBlock(Own(p))
  /\ UNCHANGED <<ready, block, allocated, freed, done, waiters, insert_fail, saved, current_thread, w, output, fate>>

\* mutant: the lock is given back before the pthread leaves the stack
ExitDoneUnlocked(p) ==
  /\ at[p][1] = "done431"
  /\ done' = [done EXCEPT ![Own(p)] = TRUE]
  /\ UnlockBlock(Own(p))
  /\ IF insert_fail[Own(p)] THEN Goto(p, "done431", "unlock442") ELSE Goto(p, "done431", "wake449")
  /\ UNCHANGED <<ready, block, allocated, freed, waiters, insert_fail, saved, current_thread, w, output, fate>>

ExitDone(p) ==
  /\ at[p][1] = "done431"
  /\ done' = [done EXCEPT ![Own(p)] = TRUE]
  /\ IF insert_fail[Own(p)] THEN Goto(p, "done431", "unlock442") ELSE Goto(p, "done431", "wake449")
  /\ UNCHANGED <<ready, block, allocated, freed, lock, waiters, insert_fail, saved, current_thread, w, output, fate>>

\* Lines 438-445: the creator goes on, on this pthread
ExitToCreator(p) ==
  /\ at[p][1] = "unlock442"
  /\ waiters' = [waiters EXCEPT ![Own(p)] = None]
  /\ UnlockBlock(Own(p))
  /\ mythread_resume(p, waiters[Own(p)])
  /\ UNCHANGED <<ready, block, allocated, freed, done, insert_fail, saved, w, output, fate>>

\* mutant: the list of waiters is cleared before it is walked
ExitWakeNobody(p) ==
  /\ Goto(p, "wake449", "unlock472")
  /\ waiters' = [waiters EXCEPT ![Own(p)] = None]
  /\ UNCHANGED <<ready, block, allocated, freed, lock, done, insert_fail, saved, current_thread, w, output, fate>>

\* Lines 449-470: the waiter goes to the buffer, or, if that fails, is kept to
\* be resumed; the switch to the stack of the pthread
ExitWake(p) ==
  LET b == Own(p) IN
  /\ Goto(p, "wake449", "unlock472")
  /\ waiters' = [waiters EXCEPT ![b] = None]
  /\ \/ waiters[b] = None /\ UNCHANGED <<ready, w>>
     \/ /\ waiters[b] # None /\ Len(ready) < num_of_threads
        /\ ready' = Append(ready, waiters[b])
        /\ UNCHANGED w
     \/ /\ waiters[b] # None
        /\ w' = [w EXCEPT ![p] = waiters[b]]
        /\ UNCHANGED ready
  /\ UNCHANGED <<block, allocated, freed, lock, done, insert_fail, saved, current_thread, output, fate>>

ExitUnlock(p) ==
  /\ Goto(p, "unlock472", "next474")
  /\ UnlockBlock(Own(p))
  /\ UNCHANGED <<ready, block, allocated, freed, done, waiters, insert_fail, saved, current_thread, w, output, fate>>

ExitNext(p) ==
  /\ at[p][1] = "next474"
  /\ IF w[p] # None THEN mythread_resume(p, w[p])
     ELSE /\ GotoPoint(p, "next474", Point("empty89", 0))
          /\ current_thread' = [current_thread EXCEPT ![p] = None]
  /\ w' = [w EXCEPT ![p] = None]
  /\ UNCHANGED <<ready, heap, saved, output, fate>>

mythread_exit(p) ==
  ExitLock(p) \/ ExitDone(p) \/ ExitToCreator(p) \/ ExitWake(p) \/ ExitUnlock(p) \/ ExitNext(p)

-----------------------------------------------------------------------------
(* mythread_schedule_next, and sbuf_remove as far as it decides when the     *)
(* pthreads end.                                                             *)

\* what mutex_idle_count protects: the pthreads between lines 104 and 110
idlep_count == Cardinality({q \in Pthreads : at[q][1] \in {"empty107", "idle110"}})

\* A pthread that exits inside of signal_exit_task keeps mutex_idle_count.
MutexIdleFree == \A q \in Pthreads : at[q][1] # "exited91"

TestEmpty(p) ==
  /\ \/ ready = <<>> /\ Goto(p, "empty89", "idle91")
     \/ ready # <<>> /\ Goto(p, "empty89", "idle104")
     \/ ready # <<>> /\ Goto(p, "empty107", "idle110")
  /\ UNCHANGED <<ready, heap, saved, current_thread, w, output, fate>>

ExitTasks(n) == [i \in 1..n |-> ExitTask]

\* One exit task per pthread.  The others are idle and wait for the mutex, so that
\* nobody takes one before the last is made.  If one cannot be inserted, it runs
\* at once: mythread_create first saves the registers of the thread that this
\* pthread ran last, if there is one, and then the pthread exits.
signal_exit_task(p) ==
  /\ done_creating_threads' = TRUE
  /\ \/ /\ Len(ready) + num_pthreads <= num_of_threads
        /\ ready' = ready \o ExitTasks(num_pthreads)
        /\ Goto(p, "idle91", "idle104")
        /\ UNCHANGED <<saved, dead>>
     \/ \E n \in 0..(num_pthreads - 1) :
          /\ Len(ready) + n <= num_of_threads
          /\ ready' = ready \o ExitTasks(n)
          /\ GotoPoint(p, "idle91", Point("exited91", 0))
          /\ \/ This(p) = None /\ dead' = TRUE /\ UNCHANGED saved
             \/ /\ This(p) # None
                /\ saved' = [saved EXCEPT ![This(p)] = Point("idle91", 0)]
                /\ UNCHANGED dead
  /\ UNCHANGED <<heap, current_thread, w, output, stray>>

SignalIfLast(p) ==
  /\ at[p][1] = "idle91" /\ MutexIdleFree
  /\ \/ idlep_count = num_pthreads - 1 /\ signal_exit_task(p)
     \/ /\ idlep_count # num_pthreads - 1
        /\ Goto(p, "idle91", "idle104")
        /\ UNCHANGED <<ready, heap, saved, current_thread, w, output, fate>>

CountIdle(p) ==
  /\ Goto(p, "idle104", "empty107") \/ Goto(p, "idle110", "remove116")
  /\ MutexIdleFree
  /\ UNCHANGED <<ready, heap, saved, current_thread, w, output, fate>>

RemoveNothing(p) ==
  /\ Goto(p, "remove116", "empty89")
  /\ ready = <<>>
  /\ UNCHANGED <<ready, heap, saved, current_thread, w, output, fate>>

RemoveThread(p) ==
  /\ at[p][1] = "remove116"
  /\ ready # <<>> /\ Head(ready) # ExitTask
  /\ ready' = Tail(ready)
  /\ mythread_resume(p, Head(ready))
  /\ UNCHANGED <<heap, saved, w, output, fate>>

exit_task(p) ==
  /\ GotoPoint(p, "remove116", Point("exited", 0))
  /\ ready # <<>> /\ Head(ready) = ExitTask
  /\ ready' = Tail(ready)
  /\ UNCHANGED <<heap, saved, current_thread, w, output, fate>>

mythread_schedule_next(p) ==
  \/ TestEmpty(p) \/ SignalIfLast(p) \/ CountIdle(p)
  \/ RemoveNothing(p) \/ RemoveThread(p) \/ exit_task(p)

-----------------------------------------------------------------------------
Step(p) ==
  /\ ~dead
  /\ \/ Start(p) \/ Sum(p)
     \/ CreateReady(p) \/ CreateAtOnce(p)
     \/ mythread_join(p) \/ mythread_exit(p) \/ mythread_schedule_next(p)

Next == \E p \in Pthreads : Step(p)

Spec == Init /\ [][Next]_vars

\* Every pthread runs.  Each lock is taken a few times only.
FairSpec == Spec /\ \A p \in Pthreads : WF_vars(Step(p))

-----------------------------------------------------------------------------
(* Properties *)

\* The pthreads that run on the stack of their current_thread.
OnStack ==
  {p \in Pthreads : at[p][1] \in
    {"start", "create350", "lock382", "done385", "unlock387", "free388", "wait407", "save524",
     "lock530", "free531", "unlock533", "sum79", "lock429", "done431", "unlock442", "wake449"}}

\* No thread is run by two pthreads, unless line 533 has opened the lock of
\* another: the waiter that mythread_join adds at 407 is not resumed
\* before it has saved its registers and left its stack.
OneRunner ==
  stray \/ \A p, q \in OnStack : p # q => This(p) # This(q)

\* The threads whose memory the next step of the pthreads uses: as a stack, as the
\* thread that is joined (but for line 533), as the one that ends, or as the saved
\* registers of one that is to be resumed.
InUse ==
  UNION {{This(p) : p \in OnStack},
         {Child(p) : p \in {q \in Pthreads : at[q][1] \in
            {"lock382", "done385", "unlock387", "free388", "wait407", "save524", "unlock540",
             "lock530", "free531"}}},
         {This(p) : p \in {q \in Pthreads : at[q][1] = "unlock472"}},
         {w[p] : p \in Pthreads},
         {ready[i] : i \in DOMAIN ready}}

\* What mythread_join and mythread_yield_and_wait free is not used any more: line
\* 533 is the only one that uses a block after freeThread, and nothing else goes
\* wrong until it hits a block that belongs to another.
FreedAreUnused ==
  stray \/ InUse \cap freed = {}

\* Each step is one of fork and join, every call being made once and returning
\* once with the right value, unless line 533 has opened the lock of another.
Abstract == INSTANCE ForkJoin WITH called <- {f \in Frames : block[f] # None}
ForkJoinUnlessStray ==
  /\ Abstract!Init
  /\ [][stray' \/ Abstract!Next]_<<block, output>>

\* The exit tasks were made when calls of the program were still to return:
\* sbuf_remove looks at the buffer before, and not while, it looks at the count of
\* idle pthreads.
EarlyExit == done_creating_threads /\ ~(Frames \subseteq freed)

\* "Parent waits till the children compute the fibonacci"
\* (tt_fibonacci_64.c:75), and then goes on: every join returns, unless the
\* pthreads were sent home early or line 533 did harm.
Finishes == <>(Frames \subseteq freed \/ EarlyExit \/ stray \/ dead)
=============================================================================
