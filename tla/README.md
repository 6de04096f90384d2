# Stacklets: a verification project

TLA+ models of the concurrent parts of this repository, checked with TLC on
small instances, with proofs checked by TLAPS for every value of the constants.

## 1. The system

The repository explores cheap parallelism by *lazy threads on stacklets* and
*user-level interrupts* (ULI): messages that run a handler on another cpu.

| part | source | models |
| --- | --- | --- |
| queueing lock on ULI | `sync/mylock.c` | `UliLock` |
| polled ULI delivery | `sync/u_interrupt.c` | `UliLock` |
| counter benchmark | `sync/myapp.c` | `UliLock`, `AtomicCounter` |
| message queue, spinlock | `sync/queue.c`, `sync/spinlock.c` | `MsgQueue`, `Fifo` |
| stacklets v3, work stealing with pthreads | `compiler/v3/{myfib,stacklet,seedStack,spinlock}.c` | `FibTree`, `Stacklets`, `ForkJoin` |
| stacklets over ULI, work stealing with messages | `compiler/uli/{stacklet,myfib,seedStack,msgs,readyQ}.c` | `UliSteal` |
| eager user-level threads, the other runtime | `runtime-example/{mythreads_64,tt_fibonacci_64}.c` | `UserThreads`, `ForkJoin` |
| their shared buffer | `runtime-example/sbuffree.c` | `SharedBuffer`, `BoundedBuffer` |
| ULI delivery in gem5 | `simulation/gem5-stable-629fe6e6c781/src/{sim,arch/x86,cpu}` | `SimUli` |
| thread library of the simulator | `simulation/m5threads/pthread.c` | `Barrier`, `Rendezvous`, `RwLock` |
| stacklets v1, v2 | `compiler/v1/`, `compiler/v2/` | not modelled (section 11) |
| gem5 | `simulation/` | third-party, not modelled |

How they interact: an application calls `mylock`/`myunlock`; a cpu that finds
the lock owned sends an `addme` message to the owner with `SENDI` and spins
with `POLL`; the owner's `POLL` runs `addme`. The stacklet runtime runs `fib`
on several pthreads, each with a stack of *seeds*, the continuations other
threads may steal; its newest version replaces the locks around the seed
stacks by ULI messages. The gem5 changes provide the interrupts in hardware, and
programs that run in gem5 are linked with m5threads. The eager threads of
`runtime-example` are the system the stacklets are compared with.

The modules use no state of each other; they meet where one promises what
another one takes for granted. `UliLock` takes a message queue for a FIFO, which
`MsgQueue` shows and `MsgQueueProofs` proves (`Fifo`); `UserThreads` takes the shared buffer for an atomic
one, which `SharedBuffer` shows (`BoundedBuffer`); `Stacklets` and, until a
freed lock is opened, `UserThreads` implement the same `ForkJoin`; `UliLock` takes it that no handler runs between
`DUI` and `EUI`, which fails in the simulator (section 10).

## 2. The ULI lock (`UliLock`)

**State.** `owner` is `L->owner_id`; `trigger`, `waiter` are the fields of
`pcpu_lock_struct`; `masked` the interrupt flag; `queue` the messages of a cpu,
each reduced to its `ask_id`; `pc` and `hpc` say where a thread is in the
program and in a handler, by line of the source. `owner_id` is the **tail** of
a queue of waiters, not the holder.

**Actions.** One per access to memory that several threads touch. `LockTest` ..
`LockGot` are `mylock`; `UnlockHandOver`, `UnlockFree` are `myunlock`; `Addme*`
are `addme`; `Dequeue`, `UnwindHandler`, `PollReturns` are `poll` and
`i_handler`. `EUI` at the end of `addme` polls again, so handlers nest
(`depth`). `CountLoad`, `CountStore` are `count++`. `flags` and `waiter_id` of
a cpu are touched by its own thread only and are folded into the neighbouring
action. The accesses are interleaved in program order, which the fences and
locked instructions of the code justify on x86.

**Runs.**

| run | instance | shows |
| --- | --- | --- |
| `lock_three_cpus` | 3 cpus, 2 rounds, symmetry | `MutualExclusion`, `RequestsAreLive`, `NestingBounded`, `TotalIsExact`, the inductive invariant `Inv`, and the refinement `ImplementsAtomicCounter` |
| `lock_unless_raced` | 3 cpus, 1 round | `OnlyTheRaceBreaksTheQueue`, and every run without the race ends (`FinishesUnlessRaced`) |
| `lock_race` | 3 cpus, 1 round | **violation** of `WaitersFormQueue` |

Three cpus are the fewest with the race, and with a waiter behind a waiter. Two
rounds let a cpu come back while the others still wait for it. There is no bound
on the queues or on the nesting: both stay finite by themselves.

**Finding (`lock_race`).** `addme` on cpu *h* takes the free lock for its asker
*a* (line 121). Before *h* looks at the outcome (125), *a*, which polls while it
waits, handles the request of *d* and passes `owner_id` on (155). Now 125 reads
*d*, concludes that *a* lost the race, and forwards the request of *a*, which
is linked behind nobody and is waiting for a trigger, to the end of its own
queue. Everybody waits forever. `papers/finalreport/usinguli.tex:78-80` claims
a queue and fairness. Mutual exclusion survives.

**Fairness.** `FairSpec` is weak fairness of each thread (the system schedules
every pthread) and of main's join. `SleepOver` carries the timing assumption of
`myapp.c:50`: after two seconds no cpu is still between reading `owner_id` and
sending to it.

## 3. The message queue (`MsgQueue`, `Fifo`, `MsgQueueProofs`)

`UliLock` takes a message queue for a FIFO with atomic operations; `MsgQueue`
shows that it is one. It models one queue statement by statement: `head`,
`tail`, the fields of the nodes, the word of the spinlock (`state`), and per cpu
the line it is at and its node `n`. `Malloc` .. `EnqueueUnlock` are `enqueue`;
`IsEmptyLock` .. `IsEmptyUnlock` are `is_empty`; `DequeueLock` .. `DequeueUnlock`
are `dequeue` with `queue_delete`; `Handle` is the callback. A freed node keeps
its contents and may be handed out again, so a stale link would show.

| run | instance | shows |
| --- | --- | --- |
| `message_queue` | 3 cpus, 2 messages each, 2 nodes | `ListIsWhole`, `DequeueFindsANode` (one owner is what makes the gap between `is_empty` and `dequeue` harmless), `ImplementsFifo`, `MessagesAreHandled` |

Fewer nodes than messages make `malloc` reuse them; `malloc` waits where the
program would run out of memory and abort. `PerCpu` bounds the messages of a
cpu. All but `MessagesAreHandled` is also proved for every instance (section 9).
Fairness is weak fairness of each thread. It lets the owner through to the
spinlock only because senders pause: with senders that never do, the spinlock
promises nothing, but a cpu in `mylock` sends one request and waits.

## 4. Stacklets (`FibTree`, `Stacklets`, `ForkJoin`)

**The algorithm.** Before `fib` calls its first child it pushes a seed on the
stack of its thread. If the seed is still there when the child returns
(`FirstChildDoneNormally`), the second child is an ordinary call. A thread
without work takes the oldest seed of some stack and jumps **into the parent's
frame** (`SecondChildSteal`), redirects the first child's return to
`FirstChildDone`, sets `syncCounter` to 2 and runs the second child on a new
stacklet. Whoever decrements `syncCounter` to 0 continues the parent.

**State.** `FibTree` names each call by the inputs on the way to it.
`seedStacks`, `holder` (the locks), per thread `pc`, `frame` and `look` (the
place in the loop of `suspend`), per frame `firstChildReturnAdr`, `ptid`,
`syncCounter`, `output`, and `ret`, its return address while it is live. On a
stacklet the return address is `stubRoutine`, and `ret` is the `parentPC` of the
stub. The locks are error-checking mutexes: unlocking one that another thread
holds fails an assertion. The integers cannot overflow: `ResultVerified` bounds
them by the table, whose last entry is below 2^31.

**Actions.** `PeekEmpty` .. `TakeSeed` are `suspend`, `getSeedIfAvailableFrom`
and `peekSeed`, with the unlocked test apart from the locked one; `Leaf` ..
`ReturnJoined` follow `fib` from label to label; `FirstForkLock`, `FirstFork`,
`Exit` are `startfib` and `main`. `exit` stops all threads.

**Properties.**

* `LockDiscipline`: the assertions of `spinlock.c`. The lock a thief takes in
  `peekSeed` is given back in `stackletFork`, by the same pthread.
* `FramesDoNotCollide`: the comments "We cannot make function calls here!". A
  thread uses the stack below a frame only when no call made there is live and
  nobody else does; it returns from a frame only when all others have left.
* `OwnersReleaseLast`, `IdleThreadsHaveNoSeeds`: two facts the code does not
  state. A parent that finds its seed untouched runs on the thread that pushed
  it (so `ptid` and `threadId` agree at line 117) and the seed is at the back;
  and a thread that suspends has an empty stack, so the first look of `suspend`
  is always in vain.
* `MainResumesLast`: "Only one thread can reach here", with all work done.
* `ResultVerified`: the assertion of `main`.
* `ImplementsForkJoin`: every call is made once and returns once, after its own
  calls, with their sum, whichever thread runs it.
* `Finishes`: the program ends.

| run | instance | shows |
| --- | --- | --- |
| `fib_three_threads` | fib(5), 3 threads | all of them |
| `fib_four_threads` | fib(4), 4 threads | `Finishes` where some stacks are out of sight of some threads |

fib(5) has four calls that fork, three of them nested along first children, so
a stack holds up to three seeds, a join can move the rest of the computation to
another thread, and a thief can be robbed itself. Fairness is weak fairness of each
thread.

## 5. Stacklets over ULI (`UliSteal`)

**The protocol.** A seed is taken by its owner or by a handler on its owner's
thread, so no locks are needed. A thread without work looks at the seeds of the
others without any protection, sends a request (`stealHandler`) to the first
that has some, sets `amStealing`, and goes round its loop, polling. The handler
answers with the oldest seed (a `forkHandler` message from
`remoteStackletFork`) or with `noWorkHandler`.

**State.** Per thread `pc` and `after` (where it is, and where it goes on when
its poll is over), `inbox`, `answers` (the handlers that have not sent their
answer, innermost last), `seedStacks`, `frames` (the seeds of the calls of `fib`
on its stack), `stub` (the stacklet it runs on: its work, its parent's thread
and the thread that made it), `amStealing`, `lastReq`, and the `locals` of
`suspend`; the global `readyQ`; and the history `pushed`, `restarts`, `started`,
`released`.

**Actions.** `PushSeed` .. `ReturnFromRoot` are `fib`;
`returnFromStolenWorkRoutine` and `finishDoneWithStolenWork` end a stolen call;
`OwnSeed` .. `Around` are `suspend`; `stealHandler*`, `noWorkHandler`,
`forkHandler`, `returnInletHandler` are the handlers. Every `EUI` and every
`getMsg` polls, so a handler can be interrupted before it has answered:
`SendAnswer` is an action of its own.

**Memory that is used while it is in use.** Three kinds, and three actions:

* `deqReadyQ`. `enQnewStacklet` queues its own frame and goes on in it, so an
  entry of the ready queue is stale from the start. A thread that takes it jumps
  to `Resume` (387) and starts the work that is in the frame, a second time.
* `SendAnswerOverwriting`. `remoteStackletFork` starts at the top of the system
  stack, whatever is there: `suspend`, or the `remoteStackletFork` of a handler
  that has not sent its answer. What was overwritten goes on with the old values,
  with those of the fork just sent, which is then sent again, or is passed over.
* `ReturnElsewhere`. Two threads on one stacklet, after a restart, overwrite each
  other's calls of `fib`, and one may return from a call of the other.

A fault or a failed assertion ends the process. The specification has no
fairness, so a behaviour may end, or one thread stop, at any point.

| run | instance | shows |
| --- | --- | --- |
| `steal_three` | 3 threads, 4 seeds | `WorkDoubledOnlyByReuse`: the work of a seed gets into two places only by `deqReadyQ` or `SendAnswerOverwriting`; `WorkLostOnlyByReuse`: it disappears only when `suspend` releases a seed of its own (307), when a fork arrives at a thread that has not sent its own answer, or when that answer's frame is overwritten; `SeedsStrayOnlyByLeaving`: the seeds of a thread are those of the calls it is in, until a fork makes it leave a call or a second thread overwrites its calls |

Three threads are the fewest with two requests at one victim, or with two
victims of one thief. `MaxSeeds` bounds the seeds that are pushed, and a restart
counts as two of them. Four let a thread be robbed, rob in turn, and be asked by
two at once, and they are the fewest with which a fork makes a handler lose its
answer; or they let work be started again while its stacklet is in use. Each way
of doubling and of losing that the properties name happens in this instance: without
any one of them TLC finds a violation. `suspend` is overwritten in its poll,
where it has no variables, and not yet at the two places where it has (`Values`).
The code does not keep its work, nor run it once; the properties name the only
steps in which it goes wrong. What the comments promise beyond this fails
(section 10).

## 6. Eager user-level threads

### The shared buffer (`SharedBuffer`, `BoundedBuffer`)

A ring with two compare-and-swap words, one for each end, and counters
`inserted` and `removed` that both sides read without protection: lines 50 and
89 read one and then the other, in either order (`seen`). `hand` is what a
pthread runs; a task may create tasks, and one that does not fit is run at once.
`idlep_count` and `done_creating_threads` decide the end: a pthread that sees the
buffer empty with all others idle inserts an exit task for each.

| run | instance | shows |
| --- | --- | --- |
| `shared_buffer` | 2 pthreads, 2 slots, 6 tasks | `ImplementsBuffer`; `NobodyRunsAtExit`: no pthread runs a task when the exit tasks are created |

`BoundedBuffer` is a sequence with at most `n` items; an item enters with the
store to `inserted` and leaves with the store to `removed`. Six tasks
(`MaxTasks`) fill and empty two slots several times over, and let both tests for
room and both for an item have either outcome. The counters are unbounded numbers:
2^31 insertions are out of sight. Both properties are proved for any number of
pthreads, slots and tasks (section 9). The idle count says that nobody *runs* a
task; that none waits in the buffer, it does not say (section 10).

### The threads (`UserThreads`)

The threads of `tt_fibonacci_64`, one per call of `fib` in the same tree as in
`Stacklets`. The state is the heap (`block`, `allocated`, and the fields `lock`,
`done`, `waiters`, `insert_fail` of a block), the registers a waiting thread has
saved, and per pthread its place `at` and `current_thread`. `Create*` are
`mythread_create`; `Join*`, `Save`, `WaitUnlock`, `Resumed*` are `mythread_join`
with `mythread_yield_and_wait`; `Exit*` are `mythread_exit`; `TestEmpty` ..
`exit_task` are `mythread_schedule_next` with the parts of `sbuf_remove` that
decide the end. An insertion into the buffer and a removal are atomic; the
insertion may fail when the buffer is not full, as the real one's may.

A joiner that was resumed frees the thread (531) and then unlocks the mutex inside
the freed block (533). When `calloc` has handed the block out again, that opens
the lock of another thread (`stray`); when the memory serves something else, or
is unmapped, the model does not follow (`dead`).

| run | instance | shows |
| --- | --- | --- |
| `user_threads` | fib(4), 2 pthreads, 2 slots, 6 blocks | `OneRunner`: no thread is run by two pthreads; `FreedAreUnused`: nothing but line 533 uses a freed thread; `ForkJoinUnlessStray`: each step is one of `ForkJoin`; `Finishes`: every join returns |

The first three hold until line 533 has opened another thread's lock. `Finishes`
holds unless that happens or the pthreads are sent home early (`EarlyExit`): the
exit tasks of `sbuf_remove` may come while calls are still to return. Both
excuses are needed: without either, TLC finds a violation (section 10).

fib(4) makes six threads, more than the buffer and the pthreads hold, so threads
are run at once, wait, and are resumed by another pthread. Six blocks
(`MaxBlocks`) are enough for all threads at once, and freed ones are handed out
again. Fairness is weak fairness of each pthread.

## 7. User-level interrupts in the simulator (`SimUli`)

One receiving cpu: `uli_queue` and `pendingULI` of its interrupt controller,
`now` (address space, mode and code it executes), `saved` (the registers of the
interrupted code, one place), and `interrupt`, what the commit stage of the
out-of-order cpu holds. `stacklet_sendi`, `stacklet_retuli` and
`stacklet_uli_toggle` are the instructions; `checkForInterrupts` is the simple
cpu; `propagateInterrupt` and `handleInterrupt` are the out-of-order cpu;
`EnterKernel`, `SwitchProcess`, `LeaveKernel` are the operating system (external).

| run | instance | shows |
| --- | --- | --- |
| `sim_uli` | both cpu models, 3 messages, a kernel and another process | `ServedInOrder`: handlers start in the order of the messages; `RestoresUnlessNested`: `RETULI` goes back to what the handler interrupted, unless another handler interrupted it; `StartedUnlessStranded`: every message is handled, unless the flag was cleared while it was queued |

So the delivery works as its description says (`papers/finalreport/arch.tex`)
while one message is under way. Three messages (`MaxMessages`) let two wait while
a third is handled. Fairness is weak fairness of the sender, of the delivery and
of the handlers' return: a simulated cpu goes on. What fails with two messages,
and that `TOGGLEULI` is not implemented, is in section 10.

## 8. The thread library of the simulator

`Barrier` (`pthread_barrier_wait`): the counter runs up in one round and down in
the next; `direction` is read without the lock. `round` counts the waits of a
thread. `Rendezvous` is what it promises. `RwLock`: `readers` and `writer`, read
without the spinlock before they are read with it. Thread ids are numbers of
`LongBits`, and the writer field has `IntBits`.

| run | instance | shows |
| --- | --- | --- |
| `barrier` | 4 threads, 4 rounds | `Together`, `ImplementsRendezvous`, `AllReturn` |
| `rwlock` | 4 threads, 2 uses, a field of 3 bits, ids of 5 | `WriterIsAlone`, `FieldsSayWho`, `AllReturn` |

Four rounds use the barrier twice in each direction, and a thread can be in the
next round while all others are on their way out of the last. Fairness is weak
fairness of each thread.

**The writer field** is an int, and an id is the address of a thread's control
block or 0 for the first thread. Of the ids of the run, 0 and 2 fit into the
field, 6 is cut to a negative number, and 10 is cut to the same number as 2. The
unlock of a writer whose id does not fit is taken for a reader's: the count goes
to -1 and the lock stays closed (`LeftClosed`). `WriterIsAlone` does not depend
on this; `FieldsSayWho` says that it is the only harm.

**Progress.** Weak fairness promises nobody the spinlock, which is a bare exchange
in a loop. A waiting writer goes round lines 420-440 and takes it again and
again, also when there is a writer inside, so the holder may never get the
spinlock that its unlock needs (`StarvedByWriter`). `AllReturn` says that every
call returns unless this happens forever or the lock has been left closed.

## 9. Proofs

### The lock

`UliLockLocalProofs`, `UliLockProofs` and `UliLockTotalProofs` prove, for any finite set of cpus and
any number of rounds (assumptions `CpusAssumption`, `ItersAssumption`):

| theorem | statement |
| --- | --- |
| `TypeCorrect` | `Spec => []TypeOK` |
| `InvCorrect` | `Spec => []Inv` |
| `MutualExclusionCorrect` | `Spec => []MutualExclusion` |
| `RequestsAreLiveCorrect` | `Spec => []RequestsAreLive` |
| `OnlyTheRaceCorrect` | `Spec => OnlyTheRaceBreaksTheQueue` |
| `Refinement` | `Spec => ImplementsAtomicCounter` |
| `TotalExactCorrect` | `Spec => []TotalIsExact` |

**The argument.** Mutual exclusion alone is not inductive: a hand-over to the
wrong waiter would break it. `Inv` adds what the code relies on:

* `LocalInv`: where handlers run, that targets are cpus, that rounds are counted;
* `RequestsAreLive`: a cpu with a request waits, is not triggered, and has one
  request only;
* `Queued`: either `QueueInv` (at most one cpu has the lock; the cpus linked by
  `waiter` start there and end in `owner`; linked cpus wait and have no
  request), or `Orphaned`, the state the race leaves behind: `owner` is set,
  nobody has the lock, the owner waits with no request. `Orphaned` is closed
  under every step, and it keeps mutual exclusion trivially;
* `GiversOwn`, `StoresAreFresh`: a handler about to give the lock away still
  owns it; `count` does not change between load and store.

"Has the lock" (`HasLock`) covers every place the ownership can be: in the
critical section, in a trigger, in a compare-and-swap whose outcome has not
been read, in an `addme` that took the lock for its asker. "Behind" on the chain
of waiters is stated with closed sets, not by recursion, so that the solvers
can use it. Steps that change neither a queue, the ownership nor a request are
done once by the lemmas `QuietStep` and `SameQueue`. The refinement maps `done`
to the rounds whose store has happened. That the total is exact follows from the
atomic counter alone: `count` is the number of pairs of a cpu and a round that
has been counted (`CountInv`), and pairs can be counted without a sum.

### The other components

| theorem | statement |
| --- | --- |
| `ListWhole` | `Spec => []ListIsWhole` |
| `DequeueFinds` | `Spec => []DequeueFindsANode` |
| `IsAFifo` | `Spec => ImplementsFifo` |
| `BarrierTogether` | `Spec => []Together` |
| `BarrierIsRendezvous` | `Spec => ImplementsRendezvous` |
| `RwLockExcludes` | `Spec => []WriterIsAlone` |
| `RwLockFields` | `Spec => []FieldsSayWho` |
| `BufferIsFifo` | `Spec => ImplementsBuffer` |
| `NobodyRuns` | `Spec => NobodyRunsAtExit` |
| `ServedInOrderAlways` | `Spec => []ServedInOrder` |
| `RestoresAlways` | `Spec => RestoresUnlessNested` |

* `MsgQueueProofs`, for any cpus, any number of messages and any finite set of
  nodes (`QueueAssumption`). The list is the hard part: while a cpu has the
  spinlock its links are half written. `Inv` therefore says that *some* sequence
  of nodes is the list (`ListInv`), that the nodes outside it belong to one cpu
  each (`NodeInv`, which is why a store to such a node cannot hurt the list), how
  far the stores to the ends have got (`EndsInv`), and that one cpu at a time is
  among them (`LockInv`). Three stores change the list: lines 80 and 86 append a
  node, line 29 takes the first off (`ListGrows`, `ListShrinks`); all others
  leave it alone (`ListKept`). That `head` and `next` determine the list
  (`OneList`, by the least position at which two lists differ) makes it the one
  the refinement mapping chooses. That only the owner takes nodes out
  (`OwnerInv`) gives `DequeueFinds`.
* `BarrierProofs`, for any finite set of threads and any number of rounds
  (`BarrierAssumption`). That the threads keep together rests on the counter,
  and what the counter means depends on the direction: `CounterInv` says that it
  counts the threads of the current round from below or from above, with
  cardinalities; `RoundInv` that a thread that can still reverse the direction
  has read the current one, and that the same rounds are over for everybody.
* `RwLockProofs`, for any finite set of ids and any width of the field
  (`RwLockAssumption`). `IdsAreAddresses` says that neither an id nor what is
  left of it in the field is the -1 of an absent writer: an id is a multiple of
  the page size. `Inv` counts the readers that have been let in and not been taken
  out, tells readers from writers in `pthread_rwlock_unlock` as the code does, by
  the id, and says what the fields are from the moment a writer is mistaken for a
  reader: the field stays set and nobody is let in again, which keeps writers alone.
* `SharedBufferProofs`, for any number of pthreads, slots and tasks
  (`BufferAssumption`). What a pthread reads before it holds an end of the ring
  is worth nothing, so `BufInv` says nothing of `seen`: the second tests (56,
  118) are made by the only pthread at that end (`EndsInv`), and what they
  establish stays true, because the other end can only make more room, or more
  items (`SpaceInv`). `MovedInv` says by how much `rear` and `front` are ahead.
  `IdleInv` says that `idlep_count` counts the idle pthreads.
* `SimUliProofs`, for any number of messages, both cpu models and any processes
  (`PlacesAssumption`: no place of the program or the kernel is in a handler).
  Messages are numbered as they are sent; `OrderInv` says that what is queued
  comes after what was started. The registers saved in the one place belong to
  the newest handler, which runs again only in the process it began in
  (`PlaceInv`).

**Only model-checked:** liveness (fairness is out of the prover's reach);
`NestingBounded` (a sum over the handlers needs induction); and everything about
`Stacklets`, `UliSteal` and `UserThreads`.

## 10. What does not hold

Each of these was met while modelling: a comment, a document or an assertion
says it, and the code does otherwise. The first is a run of the project. The
next eleven are stated at the end of their modules, under "What the comments of
the code say and the code does not do"; then come properties of a run without
one of the exceptions they make, and the last is a property of a run that fails
for other constants. TLC refutes each with the constants given.

| property | module, constants | says | what happens |
| --- | --- | --- | --- |
| `WaitersFormQueue` | `MCUliLock`, `lock_race.cfg` | `papers/finalreport/usinguli.tex:78` "there is a queue of waiters being formed" | section 2 |
| `IdleAsks` | `UliSteal`, 2 threads, 2 seeds, `FairSpec` | `compiler/uli/stacklet.c:333` "steal was no good, so check around" | the loop over the victims leaves out the one asked last; of two threads, one that was refused never asks again |
| `RequestIsFlagged` | `UliSteal`, 3 threads, 3 seeds | `compiler/uli/stacklet.c:20` "set to 1 if we are waiting for a steal req to come back" | `getMsg` polls between the store to `amStealing` and the send, and the answer to an earlier request clears the flag |
| `SystemStackIsFree` | `UliSteal`, 3 threads, 2 seeds | `compiler/uli/stacklet.c:451` "I can turn on interrupts as soon as I switch stacks" | all handlers switch to the same stack, at the same place |
| `ReadyIsNotStarted` | `UliSteal`, 2 threads, 1 seed | `compiler/uli/stacklet.c:371` "for which the initial function has not been executed" | `enQnewStacklet` queues the stacklet and falls through into it |
| `ExitWhenDone` | `SharedBuffer`, 2 pthreads, 4 slots, 4 tasks | `runtime-example/sbuffree.c:92` "when all the work is done and all the threads become idle" | a task is inserted between the test for emptiness (89) and that of the idle count (91) |
| `ExitComes` | `SharedBuffer`, 2 pthreads, 4 slots, 1 task, `FairSpec` | the same | test (91) and increment (104) of the idle count are two critical sections; the last two pthreads miss each other and wait forever |
| `AllHandled` | `SimUli`, 2 messages, `FairSpec` | `papers/finalreport/arch.tex:128` "each of which must be handled somewhere down the line" | `pendingULI` is cleared with the first message (`interrupts.cc:777`) |
| `RestoresState` | `SimUli`, 2 messages | `arch.tex:43` "restoring the state of the processor" | the second delivery overwrites the registers saved by the first (`faults.cc:333`) |
| `OffMeansOff` | `SimUli`, 1 message | `sim/pseudo_inst.cc:689` "otherwise we disable it" | `stacklet_uli_toggle` does nothing, so in the simulator `addme` can run between lines 93 and 98 of `mylock.c` |
| `FaultIsThere` | `SimUli`, 1 message, `"o3"` | `cpu/o3/cpu.cc:951` `assert(interrupt != NoFault)` | the message is taken from the queue twice (`commit_impl.hh:764`, 799) |
| `HandlersInApplication` | `SimUli`, 1 message, `Preempted` | `arch.tex:63` "in the context of the application" | the simple cpu ignores that `updateIntrInfo` refused (`base.cc:356`) |
| `OneRunner` without `stray` | `MCUserThreads`, `user_threads.cfg` | `runtime-example/mythreads_64.c:384` "first check dead threads" | a joiner frees a thread (531) and unlocks the lock inside it (533), which may be the lock of a new thread by then |
| `Finishes` without `EarlyExit` | `MCUserThreads`, `user_threads.cfg` | `tt_fibonacci_64.c:75` "Parent waits till the children compute the fibonacci" | the buffer was empty at 89 and is not when the exit tasks are made |
| `FieldsSayWho` without `LeftClosed` | `RwLock`, `rwlock.cfg` | `m5threads/pthread.c:450` "the write lock will be released" | a `pthread_t` cut to an int does not compare equal with itself, and the unlock of a writer is taken for a reader's |
| `AllReturn` without `StarvedByWriter` | `RwLock`, ids 0 and 2, `rwlock.cfg` | `m5threads/pthread.c:396`, which wants to avoid a live-lock | section 8 |
| `Twice = {}` | `UliSteal`, `steal_three.cfg` | as for `ReadyIsNotStarted` | work is started again from the ready queue |
| `ResultVerified` | `MCStacklets`, `N = 0` | `compiler/v3/myfib.c:278`, the assertion of `main` | `fib` answers 1 for every input up to 2; the table starts with 0, and `main` accepts 0 |

## 11. Not modelled

* `compiler/v1` and `compiler/v2` run on one thread and are deterministic: for
  each input there is one execution, and running the program shows it. Version 3
  came from them.
* `yield` and the ready queue of version 3 have no caller.
* Stacklets over ULI: what a parent does with the result of stolen work. The
  handler for it is not written (`compiler/uli/stacklet.c:486-498`), so such a
  parent never goes on, and no result can be stated. The list of free message
  buffers allocates when it is empty; its polls are modelled.
* `runtime-example/mythreads.c`, the 32-bit version, contradicts the header it
  includes and is in no program that compiles. `detach`, `yield` and semaphores
  of the 64-bit version are not used by its programs.
* m5threads: the condition variable (a waiter that leaves tests the count, 576,
  and then clears the flag, under another lock than the one a new waiter counts
  itself in with, 562); creation, join, exit, keys, and `pthread_once` (which
  marks its work as done before doing it; nothing here relies on it).
* gem5 but for the project's additions: third-party code, far too large.
* Logging, statistics, the debug builds, failing `malloc`, and weak memory. The
  register save area of `fib` is below the grain of the model.
