------------------------------- MODULE UliLock -------------------------------
(***************************************************************************)
(* The queueing lock built on user-level interrupts (sync/mylock.c), the   *)
(* polled delivery of those interrupts (sync/u_interrupt.c) and the        *)
(* benchmark that drives both (sync/myapp.c), in the build without SIM_ULI.*)
(*                                                                         *)
(* owner_id is the TAIL of the queue of cpus that want the lock, not the   *)
(* holder: a cpu that finds the lock owned sends addme to the owner, whose *)
(* handler passes owner_id on to the asker and remembers it in waiter_id.  *)
(* myunlock sets the trigger of the waiter, or frees the lock.             *)
(*                                                                         *)
(* Grain.  There is one action per access to memory that several threads   *)
(* touch: owner_id, a trigger, a message queue (whose operations run under *)
(* the queue's spinlock) and count.  flags[me] and waiter_id[me] are only  *)
(* touched by thread me, so their accesses are folded into the neighbouring*)
(* action.  The fences and the locked instructions of the code make this   *)
(* interleaving model adequate on x86.                                     *)
(***************************************************************************)
EXTENDS Naturals, Sequences, FiniteSets

CONSTANTS
  Cpus,    \* the cpus, one pthread each
  None,    \* the id -1
  Iters    \* rounds of increment_counter, 100 in the code

ASSUME CpusAssumption == IsFiniteSet(Cpus) /\ Cpus # {} /\ None \notin Cpus
ASSUME ItersAssumption == Iters \in Nat \ {0}

VARIABLES
  owner,    \* L->owner_id
  trigger,  \* pcpu_lock_struct[c].trigger
  waiter,   \* pcpu_lock_struct[c].waiter_id
  masked,   \* flags[c] & SMP_INTFLAG
  queue,    \* msg_bufs[c]: addme requests, each standing for its cfd.ask_id
  count,    \* the counter the lock protects
  pc,       \* where thread c is in increment_counter, mylock, myunlock
  round,    \* i in increment_counter
  saved,    \* save_id in mylock
  loaded,   \* the register that holds count between load and store
  hpc,      \* where c is in i_handler or addme, "off" outside of both
  ask,      \* ask_id of the running addme
  hsaved,   \* save_id in the running addme
  depth,    \* addme frames on the stack of c: EUI at its end polls again
  printed   \* what main prints after the joins, None before

lockVars == <<owner, trigger, waiter>>
mainVars == <<pc, round, saved, loaded, count>>
handlerVars == <<hpc, ask, hsaved, depth>>
vars == <<lockVars, masked, queue, mainVars, handlerVars, printed>>

(***************************************************************************)
(* Program points.  The number is the line of the source the thread is     *)
(* about to execute: of myapp.c for the points of increment_counter, of    *)
(* mylock.c for all others.                                                *)
(***************************************************************************)
PollPoints == {"poll41", "poll43", "poll45", "poll47", "poll49", "poll51",
               "waitpoll72", "eui101"}
MainPoints == PollPoints \cup
  {"test50", "cas52", "check56", "free57", "save68", "send71", "wait72",
   "got75", "load44", "store44", "unlock91", "sleep50", "exit"}
AddmePoints == {"owner119", "free120", "cas121", "check125", "save149",
                "send152", "trigger139", "give155"}
HandlerPoints == AddmePoints \cup {"off", "loop"}

TypeOK ==
  /\ owner \in Cpus \cup {None}
  /\ trigger \in [Cpus -> BOOLEAN]
  /\ waiter \in [Cpus -> Cpus \cup {None}]
  /\ masked \in [Cpus -> BOOLEAN]
  /\ queue \in [Cpus -> Seq(Cpus)]
  /\ count \in Nat
  /\ pc \in [Cpus -> MainPoints]
  /\ round \in [Cpus -> 0..Iters]
  /\ saved \in [Cpus -> Cpus \cup {None}]
  /\ loaded \in [Cpus -> Nat]
  /\ hpc \in [Cpus -> HandlerPoints]
  /\ ask \in [Cpus -> Cpus \cup {None}]
  /\ hsaved \in [Cpus -> Cpus \cup {None}]
  /\ depth \in [Cpus -> Nat]
  /\ printed \in Nat \cup {None}

\* INIT_ULI and init_lock in main, then one thread per cpu
Init ==
  /\ owner = None
  /\ trigger = [c \in Cpus |-> FALSE]
  /\ waiter = [c \in Cpus |-> None]
  /\ masked = [c \in Cpus |-> FALSE]
  /\ queue = [c \in Cpus |-> <<>>]
  /\ count = 0
  /\ pc = [c \in Cpus |-> "poll41"]
  /\ round = [c \in Cpus |-> 0]
  /\ saved = [c \in Cpus |-> None]
  /\ loaded = [c \in Cpus |-> 0]
  /\ hpc = [c \in Cpus |-> "off"]
  /\ ask = [c \in Cpus |-> None]
  /\ hsaved = [c \in Cpus |-> None]
  /\ depth = [c \in Cpus |-> 0]
  /\ printed = None

Running(c) == hpc[c] = "off"

Goto(c, from, to) ==
  /\ Running(c)
  /\ pc[c] = from
  /\ pc' = [pc EXCEPT ![c] = to]

-----------------------------------------------------------------------------
(***************************************************************************)
(* SENDI, POLL, i_handler: u_interrupt.c                                   *)
(***************************************************************************)

\* sendI: enqueue on the target's queue
SendI(a, target) == queue' = [queue EXCEPT ![target] = Append(@, a)]

\* where increment_counter, mylock or myunlock goes on after a POLL
AfterPoll(c) ==
  [poll41     |-> "test50",
   waitpoll72 |-> "wait72",
   poll43     |-> "load44",
   poll45     |-> "unlock91",
   eui101     |-> "poll47",
   poll47     |-> IF round[c] + 1 < Iters THEN "poll41" ELSE "poll49",
   poll49     |-> "sleep50",
   poll51     |-> "exit"][pc[c]]

\* at the while of i_handler, on entry from poll or after a callback
AtLoop(c) ==
  \/ hpc[c] = "loop"
  \/ Running(c) /\ pc[c] \in PollPoints /\ ~masked[c]

\* i_handler takes a message and calls addme, which masks interrupts (117)
Dequeue(c) ==
  /\ AtLoop(c)
  /\ queue[c] # <<>>
  /\ queue' = [queue EXCEPT ![c] = Tail(@)]
  /\ ask' = [ask EXCEPT ![c] = Head(queue[c])]
  /\ depth' = [depth EXCEPT ![c] = @ + 1]
  /\ masked' = [masked EXCEPT ![c] = TRUE]
  /\ hpc' = [hpc EXCEPT ![c] = "owner119"]
  /\ UNCHANGED <<lockVars, mainVars, hsaved, printed>>

\* i_handler finds the queue empty and returns to the EUI of an outer addme,
\* which returns to the while of the i_handler that called it
UnwindHandler(c) ==
  /\ hpc[c] = "loop"
  /\ queue[c] = <<>>
  /\ depth[c] > 0
  /\ depth' = [depth EXCEPT ![c] = @ - 1]
  /\ UNCHANGED <<lockVars, masked, queue, mainVars, hpc, ask, hsaved, printed>>

\* poll returns to the code that called it: the queue is empty or, on entry,
\* interrupts are masked
PollReturns(c) ==
  /\ depth[c] = 0
  /\ \/ AtLoop(c) /\ queue[c] = <<>>
     \/ Running(c) /\ pc[c] \in PollPoints /\ masked[c]
  /\ pc' = [pc EXCEPT ![c] = AfterPoll(c)]
  /\ round' = [round EXCEPT ![c] = IF pc[c] = "poll47" THEN @ + 1 ELSE @]
  /\ hpc' = [hpc EXCEPT ![c] = "off"]
  /\ UNCHANGED <<lockVars, masked, queue, saved, loaded, count, ask, hsaved,
                 depth, printed>>

-----------------------------------------------------------------------------
(***************************************************************************)
(* mylock                                                                  *)
(***************************************************************************)

LockTest(c) ==
  /\ Goto(c, "test50", IF owner = None THEN "cas52" ELSE "check56")
  /\ UNCHANGED <<lockVars, masked, queue, round, saved, loaded, count,
                 handlerVars, printed>>

\* mutant: owner_id is written without comparing it
LockCasBlind(c) ==
  /\ Goto(c, "cas52", "check56")
  /\ owner' = c
  /\ UNCHANGED <<trigger, waiter, masked, queue, round, saved, loaded, count,
                 handlerVars, printed>>

\* __sync_val_compare_and_swap(&L->owner_id, -1, my_id)
LockCas(c) ==
  /\ Goto(c, "cas52", "check56")
  /\ owner' = IF owner = None THEN c ELSE owner
  /\ UNCHANGED <<trigger, waiter, masked, queue, round, saved, loaded, count,
                 handlerVars, printed>>

\* mutant: the outcome of the compare-and-swap is not looked at
LockCheckSkipped(c) ==
  /\ Goto(c, "check56", "got75")
  /\ UNCHANGED <<lockVars, masked, queue, round, saved, loaded, count,
                 handlerVars, printed>>

LockCheck(c) ==
  /\ Goto(c, "check56", IF owner = c THEN "got75" ELSE "free57")
  /\ UNCHANGED <<lockVars, masked, queue, round, saved, loaded, count,
                 handlerVars, printed>>

LockFree(c) ==
  /\ Goto(c, "free57", IF owner = None THEN "cas52" ELSE "save68")
  /\ UNCHANGED <<lockVars, masked, queue, round, saved, loaded, count,
                 handlerVars, printed>>

LockSave(c) ==
  /\ Goto(c, "save68", IF owner = None THEN "cas52" ELSE "send71")
  /\ saved' = [saved EXCEPT ![c] = owner]
  /\ UNCHANGED <<lockVars, masked, queue, round, loaded, count, handlerVars,
                 printed>>

LockSend(c) ==
  /\ Goto(c, "send71", "wait72")
  /\ SendI(c, saved[c])
  /\ saved' = [saved EXCEPT ![c] = None]
  /\ UNCHANGED <<lockVars, masked, round, loaded, count, handlerVars, printed>>

\* while (!(*my_trigger)) POLL();
LockWait(c) ==
  /\ Goto(c, "wait72", IF trigger[c] THEN "got75" ELSE "waitpoll72")
  /\ UNCHANGED <<lockVars, masked, queue, round, saved, loaded, count,
                 handlerVars, printed>>

LockGot(c) ==
  /\ Goto(c, "got75", "poll43")
  /\ trigger' = [trigger EXCEPT ![c] = FALSE]
  /\ UNCHANGED <<owner, waiter, masked, queue, round, saved, loaded, count,
                 handlerVars, printed>>

-----------------------------------------------------------------------------
(***************************************************************************)
(* count++ and myunlock.  myunlock makes one access to memory of other     *)
(* threads, in one of two branches, and ends in EUI: clear the mask, POLL. *)
(***************************************************************************)

CountLoad(c) ==
  /\ Goto(c, "load44", "store44")
  /\ loaded' = [loaded EXCEPT ![c] = count]
  /\ UNCHANGED <<lockVars, masked, queue, round, saved, count, handlerVars,
                 printed>>

CountStore(c) ==
  /\ Goto(c, "store44", "poll45")
  /\ count' = loaded[c] + 1
  /\ loaded' = [loaded EXCEPT ![c] = 0]
  /\ UNCHANGED <<lockVars, masked, queue, round, saved, handlerVars, printed>>

\* mutant: waiter_id is not reset
UnlockHandOverNoReset(c) ==
  /\ Goto(c, "unlock91", "eui101")
  /\ waiter[c] # None
  /\ trigger' = [trigger EXCEPT ![waiter[c]] = TRUE]
  /\ masked' = [masked EXCEPT ![c] = FALSE]
  /\ UNCHANGED <<owner, waiter, queue, round, saved, loaded, count, handlerVars,
                 printed>>

\* mutant: the lock is freed although it is handed over
UnlockHandOverAndFree(c) ==
  /\ Goto(c, "unlock91", "eui101")
  /\ waiter[c] # None
  /\ owner' = None
  /\ trigger' = [trigger EXCEPT ![waiter[c]] = TRUE]
  /\ waiter' = [waiter EXCEPT ![c] = None]
  /\ masked' = [masked EXCEPT ![c] = FALSE]
  /\ UNCHANGED <<queue, round, saved, loaded, count, handlerVars, printed>>

UnlockHandOver(c) ==
  /\ Goto(c, "unlock91", "eui101")
  /\ waiter[c] # None
  /\ trigger' = [trigger EXCEPT ![waiter[c]] = TRUE]
  /\ waiter' = [waiter EXCEPT ![c] = None]
  /\ masked' = [masked EXCEPT ![c] = FALSE]
  /\ UNCHANGED <<owner, queue, round, saved, loaded, count, handlerVars, printed>>

UnlockFree(c) ==
  /\ Goto(c, "unlock91", "eui101")
  /\ waiter[c] = None
  /\ owner' = None
  /\ masked' = [masked EXCEPT ![c] = FALSE]
  /\ UNCHANGED <<trigger, waiter, queue, round, saved, loaded, count,
                 handlerVars, printed>>

-----------------------------------------------------------------------------
(***************************************************************************)
(* addme, run by cpu c on behalf of ask[c]                                 *)
(***************************************************************************)

HandlerGoto(c, from, to) ==
  /\ hpc[c] = from
  /\ hpc' = [hpc EXCEPT ![c] = to]

\* mutant: the owner does not recognise itself and forwards
AddmeOwnerNotMe(c) ==
  /\ HandlerGoto(c, "owner119", "free120")
  /\ UNCHANGED <<lockVars, masked, queue, mainVars, ask, hsaved, depth, printed>>

AddmeOwner(c) ==
  /\ HandlerGoto(c, "owner119", IF owner = c THEN "give155" ELSE "free120")
  /\ UNCHANGED <<lockVars, masked, queue, mainVars, ask, hsaved, depth, printed>>

AddmeFree(c) ==
  /\ HandlerGoto(c, "free120", IF owner = None THEN "cas121" ELSE "save149")
  /\ UNCHANGED <<lockVars, masked, queue, mainVars, ask, hsaved, depth, printed>>

\* mutant: owner_id is written without comparing it
AddmeCasBlind(c) ==
  /\ HandlerGoto(c, "cas121", "check125")
  /\ owner' = ask[c]
  /\ UNCHANGED <<trigger, waiter, masked, queue, mainVars, ask, hsaved, depth,
                 printed>>

AddmeCas(c) ==
  /\ HandlerGoto(c, "cas121", "check125")
  /\ owner' = IF owner = None THEN ask[c] ELSE owner
  /\ UNCHANGED <<trigger, waiter, masked, queue, mainVars, ask, hsaved, depth,
                 printed>>

AddmeCheck(c) ==
  /\ HandlerGoto(c, "check125", IF owner = ask[c] THEN "trigger139" ELSE "save149")
  /\ UNCHANGED <<lockVars, masked, queue, mainVars, ask, hsaved, depth, printed>>

\* lines 133 and 149: the two branches forward the message in the same way
AddmeSave(c) ==
  /\ HandlerGoto(c, "save149", IF owner = None THEN "owner119" ELSE "send152")
  /\ hsaved' = [hsaved EXCEPT ![c] = owner]
  /\ UNCHANGED <<lockVars, masked, queue, mainVars, ask, depth, printed>>

\* mutant: addme ends without EUI
AddmeReturnMasked(c, from) ==
  /\ HandlerGoto(c, from, "loop")
  /\ ask' = [ask EXCEPT ![c] = None]
  /\ UNCHANGED <<mainVars, masked, depth, printed>>

\* EUI(0xfffe) at the end of addme: clear the mask and POLL again
AddmeReturn(c, from) ==
  /\ HandlerGoto(c, from, "loop")
  /\ masked' = [masked EXCEPT ![c] = FALSE]
  /\ ask' = [ask EXCEPT ![c] = None]
  /\ UNCHANGED <<mainVars, depth, printed>>

AddmeForward(c) ==
  /\ AddmeReturn(c, "send152")
  /\ SendI(ask[c], hsaved[c])
  /\ hsaved' = [hsaved EXCEPT ![c] = None]
  /\ UNCHANGED lockVars

AddmeTrigger(c) ==
  /\ AddmeReturn(c, "trigger139")
  /\ trigger' = [trigger EXCEPT ![ask[c]] = TRUE]
  /\ UNCHANGED <<owner, waiter, queue, hsaved>>

\* mutant: the asker is not remembered as the waiter
AddmeGiveForgetful(c) ==
  /\ AddmeReturn(c, "give155")
  /\ owner' = ask[c]
  /\ UNCHANGED <<trigger, waiter, queue, hsaved>>

AddmeGive(c) ==
  /\ AddmeReturn(c, "give155")
  /\ owner' = ask[c]
  /\ waiter' = [waiter EXCEPT ![c] = ask[c]]
  /\ UNCHANGED <<trigger, queue, hsaved>>

-----------------------------------------------------------------------------
(***************************************************************************)
(* The end of the threads and of main                                      *)
(***************************************************************************)

\* d has read c from owner_id and will send its message to c
WillSendTo(d, c) ==
  \/ pc[d] = "send71" /\ saved[d] = c
  \/ hpc[d] = "send152" /\ hsaved[d] = c

\* sleep(2) "to give time for other threads to send messages": the timing
\* assumption of the benchmark is that two seconds are enough for that
SleepOver(c) ==
  /\ Goto(c, "sleep50", "poll51")
  /\ \A d \in Cpus : ~WillSendTo(d, c)
  /\ UNCHANGED <<lockVars, masked, queue, round, saved, loaded, count,
                 handlerVars, printed>>

\* main has joined every thread and prints the count
JoinAll ==
  /\ printed = None
  /\ \A c \in Cpus : pc[c] = "exit"
  /\ printed' = count
  /\ UNCHANGED <<lockVars, masked, queue, mainVars, handlerVars>>

\* the program is over
Terminated == printed # None /\ UNCHANGED vars

Mylock(c) ==
  \/ LockTest(c) \/ LockCas(c) \/ LockCheck(c) \/ LockFree(c)
  \/ LockSave(c) \/ LockSend(c) \/ LockWait(c) \/ LockGot(c)
Myunlock(c) == UnlockHandOver(c) \/ UnlockFree(c)
Addme(c) ==
  \/ AddmeOwner(c) \/ AddmeFree(c) \/ AddmeCas(c) \/ AddmeCheck(c)
  \/ AddmeSave(c) \/ AddmeForward(c) \/ AddmeTrigger(c) \/ AddmeGive(c)
IHandler(c) == Dequeue(c) \/ UnwindHandler(c) \/ PollReturns(c)

Thread(c) ==
  \/ Mylock(c) \/ Myunlock(c) \/ Addme(c) \/ IHandler(c)
  \/ CountLoad(c) \/ CountStore(c) \/ SleepOver(c)

Next == (\E c \in Cpus : Thread(c)) \/ JoinAll \/ Terminated

Spec == Init /\ [][Next]_vars

\* every pthread is scheduled again and again, and so is main
FairSpec == Spec /\ \A c \in Cpus : WF_vars(Thread(c)) /\ WF_vars(JoinAll)

-----------------------------------------------------------------------------
(***************************************************************************)
(* Properties                                                              *)
(***************************************************************************)

InCriticalSection(c) ==
  pc[c] \in {"poll43", "load44", "store44", "poll45", "unlock91"}

Waiting(c) == pc[c] \in {"wait72", "waitpoll72"}

InAddme(h) == hpc[h] \in AddmePoints

\* the addme on h has taken the free lock for c and is about to trigger c
TakenFor(h, c) ==
  /\ ask[h] = c
  /\ \/ hpc[h] = "check125" /\ owner = c
     \/ hpc[h] = "trigger139"

\* c is inside, or it has taken the free lock itself
Holds(c) ==
  InCriticalSection(c) \/ pc[c] = "got75" \/ (pc[c] = "check56" /\ owner = c)

\* the lock is c's: c is inside or will find out that it got the lock
HasLock(c) == Holds(c) \/ trigger[c] \/ \E h \in Cpus : TakenFor(h, c)

\* c waits for the trigger from some cpu's myunlock
Linked(c) == \E d \in Cpus : waiter[d] = c

\* an addme is queued or running on behalf of c
Requested(c) ==
  \/ \E d \in Cpus : \E i \in DOMAIN queue[d] : queue[d][i] = c
  \/ \E h \in Cpus : ask[h] = c

UniqueRequests ==
  /\ \A c, d \in Cpus : \A i \in DOMAIN queue[c], j \in DOMAIN queue[d] :
       queue[c][i] = queue[d][j] => c = d /\ i = j
  /\ \A c, h \in Cpus : \A i \in DOMAIN queue[c] : queue[c][i] # ask[h]
  /\ \A g, h \in Cpus : ask[g] = ask[h] /\ ask[g] # None => g = h

ClosedUnderWaiter(S) == \A c \in S : waiter[c] \in S \cup {None}

\* d is on the chain of waiters that starts at c
Behind(c, d) ==
  \A S \in SUBSET Cpus : c \in S /\ ClosedUnderWaiter(S) => d \in S

(***************************************************************************)
(* Between mylock and myunlock there is never more than one cpu.           *)
(***************************************************************************)
MutualExclusion ==
  \A c, d \in Cpus : InCriticalSection(c) /\ InCriticalSection(d) => c = d

(***************************************************************************)
(* An addme message points into the stack frame of the mylock that sent it *)
(* (cfd, line 67), so while it is queued, forwarded or handled that mylock *)
(* must still be waiting, and there is never a second copy of a request.   *)
(***************************************************************************)
RequestsAreLive ==
  /\ \A c \in Cpus : Requested(c) => Waiting(c) /\ ~trigger[c]
  /\ UniqueRequests

(***************************************************************************)
(* When owner_id is set, somebody has the lock, and all cpus that were made*)
(* owner since form one chain of waiters that starts there and ends in     *)
(* owner_id: the implicit queue of the lock.                               *)
(***************************************************************************)
WaitersFormQueue ==
  owner # None =>
    \E c \in Cpus :
      /\ HasLock(c)
      /\ \A d \in Cpus : d = owner \/ Linked(d) => Behind(c, d)

(***************************************************************************)
(* addme(h) has taken the free lock for a (121) and has not looked at the  *)
(* outcome yet (125) when a, which polls, passes owner_id on to another    *)
(* asker (155).  Now 125 takes owner_id # ask_id for a lost race and sends *)
(* the request of a, who has the lock, to wait behind itself.              *)
(***************************************************************************)
GivenAwayTooEarly ==
  \E h, a \in Cpus :
    hpc[h] = "check125" /\ ask[h] = a /\ owner = a /\ AddmeGive(a)

(***************************************************************************)
(* Nothing but that race breaks the queue.                                 *)
(***************************************************************************)
OnlyTheRaceBreaksTheQueue ==
  [][WaitersFormQueue /\ ~WaitersFormQueue' => GivenAwayTooEarly]_vars

(***************************************************************************)
(* addme polls again before it returns, so handlers nest on the stack of   *)
(* the interrupted thread.  The nesting is bounded: while a thread is in   *)
(* one POLL it handles each other cpu's request at most twice.             *)
(***************************************************************************)
NestingBounded == \A c \in Cpus : depth[c] <= 2 * (Cardinality(Cpus) - 1)

(***************************************************************************)
(* main prints the number of increments of all threads.                    *)
(***************************************************************************)
TotalIsExact == printed # None => printed = Cardinality(Cpus) * Iters

(***************************************************************************)
(* Every run in which the queue stays whole ends: every thread gets        *)
(* through all its rounds and main prints the total.                       *)
(***************************************************************************)
FinishesUnlessRaced == <>(printed # None) \/ <>~WaitersFormQueue

(***************************************************************************)
(* The load and the store of count++ act as one step: the benchmark with   *)
(* this lock implements the atomic counter.                                *)
(***************************************************************************)
Done(c) ==
  round[c] + (IF pc[c] \in {"poll45", "unlock91", "eui101", "poll47"} THEN 1 ELSE 0)
Counter == INSTANCE AtomicCounter WITH done <- [c \in Cpus |-> Done(c)]
ImplementsAtomicCounter == Counter!Spec

-----------------------------------------------------------------------------
(***************************************************************************)
(* The inductive invariant                                                 *)
(***************************************************************************)

\* a handler runs inside a POLL
HandlersRunInPolls == \A c \in Cpus : hpc[c] # "off" => pc[c] \in PollPoints

AsksInHandlers == \A c \in Cpus : (ask[c] # None) <=> InAddme(c)

TargetsAreCpus ==
  \A c \in Cpus :
    /\ pc[c] = "send71" => saved[c] \in Cpus
    /\ hpc[c] = "send152" => hsaved[c] \in Cpus

LastPoints == {"poll49", "sleep50", "poll51", "exit"}

RoundsCounted ==
  \A c \in Cpus :
    /\ pc[c] \in LastPoints => round[c] = Iters
    /\ pc[c] \notin LastPoints => round[c] < Iters

LocalInv ==
  HandlersRunInPolls /\ AsksInHandlers /\ TargetsAreCpus /\ RoundsCounted

\* nobody but the owner itself can move owner_id away from it
GiversOwn == \A c \in Cpus : hpc[c] = "give155" => owner = c

\* count does not change between a load and its store
StoresAreFresh == \A c \in Cpus : pc[c] = "store44" => loaded[c] = count

\* the race has happened: the lock is owned and nobody has it or will get it
Orphaned ==
  /\ owner # None
  /\ \A c \in Cpus : ~HasLock(c) /\ (owner = c => Waiting(c) /\ ~Requested(c))

Member(c) == HasLock(c) \/ Linked(c)

\* the queue is whole
QueueInv ==
  /\ \A c, d \in Cpus : HasLock(c) /\ HasLock(d) => c = d
  /\ owner = None => \A c \in Cpus : ~Member(c)
  /\ owner # None => \E c \in Cpus : HasLock(c)
  /\ \A c \in Cpus :
       /\ trigger[c] => Waiting(c) \/ pc[c] = "got75"
       /\ Linked(c) => Waiting(c) /\ ~HasLock(c) /\ ~Requested(c)
       /\ waiter[c] # None <=> Member(c) /\ owner # c
       /\ owner = c => Member(c)
       /\ HasLock(c) => \A d \in Cpus : Member(d) => Behind(c, d)
  /\ \A c, d \in Cpus : waiter[c] = waiter[d] /\ waiter[c] # None => c = d

Queued == Orphaned \/ QueueInv

Inv ==
  /\ TypeOK /\ LocalInv
  /\ RequestsAreLive /\ Queued
  /\ GiversOwn /\ StoresAreFresh
=============================================================================
