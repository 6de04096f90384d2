------------------------------ MODULE Stacklets ------------------------------
(***************************************************************************)
(* fib on stacklets with several pthreads (compiler/v3): lazy threads whose*)
(* parents leave a seed behind before they call their first child, and     *)
(* thieves that turn the oldest seed of a thread into a second child that  *)
(* runs on a stacklet of its own.                                          *)
(*                                                                         *)
(* A frame is owned by whoever jumps into it: the thread that made the call*)
(* (and, when a child came back on another thread, that thread), the thief *)
(* that has taken its seed, and the thread on which the second child ends. *)
(* fib is compiled code, so the model has one action per access to memory  *)
(* that several threads touch (seed stacks, their locks, the locals        *)
(* firstChildReturnAdr and syncCounter); what a thread does in between on  *)
(* its own is folded into the action before.                               *)
(*                                                                         *)
(* The lock of a seed stack is an error-checking mutex.  A thread about to *)
(* fail an assertion of spinlock.c is stuck here, and LockDiscipline says  *)
(* that there is none.  Nothing calls yield, so readyQ stays empty and the *)
(* branch of suspend that looks there (248-255) is never taken.            *)
(***************************************************************************)
EXTENDS FibTree, SequencesExt

CONSTANT numberOfThreads

ASSUME ThreadsAssumption == numberOfThreads \in Nat \ {0}

Threads == 0..(numberOfThreads - 1)

VARIABLES
  pc,          \* where thread t is
  frame,       \* the frame t works in, None on its system stack or in main
  look,        \* in suspend: 0 at the own stack (245), i + 1 in the loop (261)
  seedStacks,  \* seedStacks[t]: the frames with a seed there, front first
  holder,      \* seedStackLocks[t]: who holds it
  ret,         \* the return address of a live frame, None otherwise
  firstChildReturnAdr, ptid, syncCounter,    \* locals of a frame
  output       \* output of the Foo of a frame

frameVars == <<firstChildReturnAdr, ptid, syncCounter>>
vars == <<pc, frame, look, seedStacks, holder, ret, frameVars, output>>

\* a program point carries the line of myfib.c, seedStack.c (peek, take) or
\* stacklet.c (firstFork, fork) it stands at
Points ==
  {"firstFork298", "fork194", "peek93", "take94", "check96", "enter57", "push102",
   "mark103", "unlock106", "lock112", "goto113", "release117", "unlock118", "sum122",
   "steal129", "fork136", "unlock142", "join144", "join175", "sum168", "verify278",
   "exit"}

TypeOK ==
  /\ pc \in [Threads -> Points]
  /\ frame \in [Threads -> Frames \cup {None}]
  /\ look \in [Threads -> 0..3]
  /\ seedStacks \in [Threads -> Seq(Frames)]
  /\ holder \in [Threads -> Threads \cup {None}]
  /\ ret \in [Frames -> {None, "FF", "lock112", "sum122", "join175"}]
  /\ firstChildReturnAdr \in [Frames -> {None, "release117", "unlock142"}]
  /\ ptid \in [Frames -> Threads \cup {None}]
  /\ syncCounter \in [Frames -> 0..2]
  /\ output \in [Frames -> Nat \cup {None}]

\* startfib has initialised the stacks and created the other threads, which
\* start in suspend; the main thread is thread 0
Init ==
  /\ pc = [t \in Threads |-> IF t = 0 THEN "firstFork298" ELSE "peek93"]
  /\ frame = [t \in Threads |-> None]
  /\ look = [t \in Threads |-> 0]
  /\ seedStacks = [t \in Threads |-> <<>>]
  /\ holder = [t \in Threads |-> None]
  /\ ret = [f \in Frames |-> None]
  /\ firstChildReturnAdr = [f \in Frames |-> None]
  /\ ptid = [f \in Frames |-> None]
  /\ syncCounter = [f \in Frames |-> 0]
  /\ output = [f \in Frames |-> None]

Exited == \E t \in Threads : pc[t] = "exit"

Goto(t, from, to) ==
  /\ ~Exited
  /\ pc[t] = from
  /\ pc' = [pc EXCEPT ![t] = to]

seedStackLock(t, s) == holder[s] = None /\ holder' = [holder EXCEPT ![s] = t]
seedStackUnlock(t, s) == holder[s] = t /\ holder' = [holder EXCEPT ![s] = None]

-----------------------------------------------------------------------------
(***************************************************************************)
(* Calls, returns and forks                                                *)
(***************************************************************************)

\* t enters f, which will return to adr
Enter(t, f, adr) ==
  /\ frame' = [frame EXCEPT ![t] = f]
  /\ ret' = [ret EXCEPT ![f] = adr]

\* where the return address of f leads.  On a stacklet it is stubRoutine, and
\* finishStubRoutine then resumes the parentPC of the stub
ReturnPoint(f) == IF ret[f] = "FF" THEN "verify278" ELSE ret[f]

\* f->output = v; return
Return(t, from, v) ==
  LET f == frame[t] IN
  /\ Goto(t, from, ReturnPoint(f))
  /\ output' = [output EXCEPT ![f] = v]
  /\ ret' = [ret EXCEPT ![f] = None]
  /\ frame' = [frame EXCEPT ![t] = IF f = Root THEN None ELSE Parent(f)]
  /\ UNCHANGED <<look, seedStacks, holder, frameVars>>

\* t unlocks the stack of s and starts f on a new stacklet
stackletFork(t, from, f, parentPC, s) ==
  /\ Goto(t, from, "enter57")
  /\ seedStackUnlock(t, s)
  /\ Enter(t, f, parentPC)
  /\ UNCHANGED <<look, seedStacks, frameVars, output>>

\* suspendStub: t leaves its frame and looks for work on its system stack
suspendFrom(t, from) ==
  /\ Goto(t, from, "peek93")
  /\ frame' = [frame EXCEPT ![t] = None]
  /\ look' = [look EXCEPT ![t] = 0]

-----------------------------------------------------------------------------
(***************************************************************************)
(* main                                                                    *)
(***************************************************************************)

FirstForkLock(t) ==
  /\ Goto(t, "firstFork298", "fork194")
  /\ seedStackLock(t, 0)
  /\ UNCHANGED <<frame, look, seedStacks, ret, frameVars, output>>

FirstFork(t) == stackletFork(t, "fork194", Root, "FF", 0)

\* back from firstFork: startfib returns the output and main ends the process
Exit(t) ==
  /\ Goto(t, "verify278", "exit")
  /\ UNCHANGED <<frame, look, seedStacks, holder, ret, frameVars, output>>

-----------------------------------------------------------------------------
(***************************************************************************)
(* suspend, getSeedIfAvailableFrom and peekSeed                            *)
(***************************************************************************)

\* whose stack t looks at
Victim(t) == IF look[t] = 0 THEN t ELSE (t + look[t] - 1) % numberOfThreads

NextLook(t) == look' = [look EXCEPT ![t] = (@ + 1) % 4]

\* the test of Q->front without the lock
PeekEmpty(t) ==
  /\ Goto(t, "peek93", "peek93")
  /\ seedStacks[Victim(t)] = <<>>
  /\ NextLook(t)
  /\ UNCHANGED <<frame, seedStacks, holder, ret, frameVars, output>>

PeekFound(t) ==
  /\ Goto(t, "peek93", "take94")
  /\ seedStacks[Victim(t)] # <<>>
  /\ UNCHANGED <<frame, look, seedStacks, holder, ret, frameVars, output>>

PeekLock(t) ==
  /\ Goto(t, "take94", "check96")
  /\ seedStackLock(t, Victim(t))
  /\ UNCHANGED <<frame, look, seedStacks, ret, frameVars, output>>

\* somebody else was faster
TooLate(t) ==
  /\ Goto(t, "check96", "peek93")
  /\ seedStacks[Victim(t)] = <<>>
  /\ seedStackUnlock(t, Victim(t))
  /\ NextLook(t)
  /\ UNCHANGED <<frame, seedStacks, ret, frameVars, output>>

\* mutant: the seed stays on the stack
TakeSeedKeeps(t) ==
  LET Q == seedStacks[Victim(t)] IN
  /\ Goto(t, "check96", "steal129")
  /\ Q # <<>>
  /\ frame' = [frame EXCEPT ![t] = Head(Q)]
  /\ UNCHANGED <<look, seedStacks, holder, ret, frameVars, output>>

\* mutant: thieves take the newest seed
TakeSeedNewest(t) ==
  LET Q == seedStacks[Victim(t)] IN
  /\ Goto(t, "check96", "steal129")
  /\ Q # <<>>
  /\ frame' = [frame EXCEPT ![t] = Last(Q)]
  /\ seedStacks' = [seedStacks EXCEPT ![Victim(t)] = Front(Q)]
  /\ UNCHANGED <<look, holder, ret, frameVars, output>>

\* release the front seed and jump to SecondChildSteal, with the stack locked
TakeSeed(t) ==
  LET Q == seedStacks[Victim(t)] IN
  /\ Goto(t, "check96", "steal129")
  /\ Q # <<>>
  /\ frame' = [frame EXCEPT ![t] = Head(Q)]
  /\ seedStacks' = [seedStacks EXCEPT ![Victim(t)] = Tail(Q)]
  /\ UNCHANGED <<look, holder, ret, frameVars, output>>

-----------------------------------------------------------------------------
(***************************************************************************)
(* fib                                                                     *)
(***************************************************************************)

Leaf(t) == Return(t, "enter57", 1) /\ IsLeaf(frame[t])

Fork(t) ==
  /\ Goto(t, "enter57", "push102")
  /\ ~IsLeaf(frame[t])
  /\ UNCHANGED <<frame, look, seedStacks, holder, ret, frameVars, output>>

\* pushSeed, with the lock of the stack taken and kept
PushSeed(t) ==
  /\ Goto(t, "push102", "mark103")
  /\ seedStackLock(t, t)
  /\ seedStacks' = [seedStacks EXCEPT ![t] = Append(@, frame[t])]
  /\ UNCHANGED <<frame, look, ret, frameVars, output>>

MarkFrame(t) ==
  /\ Goto(t, "mark103", "unlock106")
  /\ firstChildReturnAdr' = [firstChildReturnAdr EXCEPT ![frame[t]] = "release117"]
  /\ ptid' = [ptid EXCEPT ![frame[t]] = t]
  /\ UNCHANGED <<frame, look, seedStacks, holder, ret, syncCounter, output>>

\* unlock and call fib(&a)
CallFirst(t) ==
  /\ Goto(t, "unlock106", "enter57")
  /\ seedStackUnlock(t, t)
  /\ Enter(t, FirstChild(frame[t]), "lock112")
  /\ UNCHANGED <<look, seedStacks, frameVars, output>>

\* mutant: threadId instead of ptid
FirstReturnedHere(t) ==
  /\ Goto(t, "lock112", "goto113")
  /\ seedStackLock(t, t)
  /\ UNCHANGED <<frame, look, seedStacks, ret, frameVars, output>>

\* fib(&a) has returned, on any thread
FirstReturned(t) ==
  /\ Goto(t, "lock112", "goto113")
  /\ seedStackLock(t, ptid[frame[t]])
  /\ UNCHANGED <<frame, look, seedStacks, ret, frameVars, output>>

GotoReturnAdr(t) ==
  /\ Goto(t, "goto113", firstChildReturnAdr[frame[t]])
  /\ UNCHANGED <<frame, look, seedStacks, holder, ret, frameVars, output>>

\* FirstChildDoneNormally: unlink the seed from its list
ReleaseSeed(t) ==
  LET s == ptid[frame[t]] IN
  /\ Goto(t, "release117", "unlock118")
  /\ \E i \in DOMAIN seedStacks[s] :
       /\ seedStacks[s][i] = frame[t]
       /\ seedStacks' = [seedStacks EXCEPT ![s] = RemoveAt(@, i)]
  /\ UNCHANGED <<frame, look, holder, ret, frameVars, output>>

\* unlock and call fib(&b)
CallSecond(t) ==
  /\ Goto(t, "unlock118", "enter57")
  /\ seedStackUnlock(t, ptid[frame[t]])
  /\ Enter(t, SecondChild(frame[t]), "sum122")
  /\ UNCHANGED <<look, seedStacks, frameVars, output>>

\* a.output + b.output of f, indeterminate while one of them is not written
Sum(f) ==
  LET a == output[FirstChild(f)]
      b == output[SecondChild(f)]
  IN  IF a = None \/ b = None THEN None ELSE a + b

ReturnInline(t) == Return(t, "sum122", Sum(frame[t]))

\* mutant: only the second child is counted
StealCountsOne(t) ==
  /\ Goto(t, "steal129", "fork136")
  /\ firstChildReturnAdr' = [firstChildReturnAdr EXCEPT ![frame[t]] = "unlock142"]
  /\ syncCounter' = [syncCounter EXCEPT ![frame[t]] = 1]
  /\ UNCHANGED <<frame, look, seedStacks, holder, ret, ptid, output>>

\* SecondChildSteal
Steal(t) ==
  /\ Goto(t, "steal129", "fork136")
  /\ firstChildReturnAdr' = [firstChildReturnAdr EXCEPT ![frame[t]] = "unlock142"]
  /\ syncCounter' = [syncCounter EXCEPT ![frame[t]] = 2]
  /\ UNCHANGED <<frame, look, seedStacks, holder, ret, ptid, output>>

ForkSecond(t) ==
  stackletFork(t, "fork136", SecondChild(frame[t]), "join175", ptid[frame[t]])

\* FirstChildDone, with the lock of 112 still held
FirstChildDone(t) ==
  /\ Goto(t, "unlock142", "join144")
  /\ seedStackUnlock(t, ptid[frame[t]])
  /\ UNCHANGED <<frame, look, seedStacks, ret, frameVars, output>>

Decrement(f) == syncCounter' = [syncCounter EXCEPT ![f] = @ - 1]

\* the first to come to the join, at 144 or at 175, leaves the frame
JoinSuspend(t, from) ==
  /\ suspendFrom(t, from)
  /\ syncCounter[frame[t]] # 1
  /\ Decrement(frame[t])
  /\ UNCHANGED <<seedStacks, holder, ret, firstChildReturnAdr, ptid, output>>

\* mutant: both go on
JoinGoEager(t, from) ==
  /\ Goto(t, from, "sum168")
  /\ Decrement(frame[t])
  /\ UNCHANGED <<frame, look, seedStacks, holder, ret, firstChildReturnAdr, ptid,
                 output>>

\* mutant: both leave
JoinGoNever(t, from) ==
  /\ suspendFrom(t, from)
  /\ syncCounter[frame[t]] = 1
  /\ Decrement(frame[t])
  /\ UNCHANGED <<seedStacks, holder, ret, firstChildReturnAdr, ptid, output>>

\* the other one goes on
JoinGo(t, from) ==
  /\ Goto(t, from, "sum168")
  /\ syncCounter[frame[t]] = 1
  /\ Decrement(frame[t])
  /\ UNCHANGED <<frame, look, seedStacks, holder, ret, firstChildReturnAdr, ptid,
                 output>>

\* AllReturned
ReturnJoined(t) == Return(t, "sum168", Sum(frame[t]))

Suspend(t) == PeekEmpty(t) \/ PeekFound(t) \/ PeekLock(t) \/ TooLate(t) \/ TakeSeed(t)
Fib(t) ==
  \/ Leaf(t) \/ Fork(t) \/ PushSeed(t) \/ MarkFrame(t) \/ CallFirst(t)
  \/ FirstReturned(t) \/ GotoReturnAdr(t) \/ ReleaseSeed(t) \/ CallSecond(t)
  \/ ReturnInline(t) \/ Steal(t) \/ ForkSecond(t) \/ FirstChildDone(t)
  \/ JoinSuspend(t, "join144") \/ JoinGo(t, "join144")
  \/ JoinSuspend(t, "join175") \/ JoinGo(t, "join175") \/ ReturnJoined(t)
Main(t) == FirstForkLock(t) \/ FirstFork(t) \/ Exit(t)

Thread(t) == Main(t) \/ Suspend(t) \/ Fib(t)

\* the process has ended
Terminated == Exited /\ UNCHANGED vars

Next == (\E t \in Threads : Thread(t)) \/ Terminated

Spec == Init /\ [][Next]_vars

\* the system runs every pthread again and again
FairSpec == Spec /\ \A t \in Threads : WF_vars(Thread(t))

-----------------------------------------------------------------------------
(***************************************************************************)
(* Properties                                                              *)
(***************************************************************************)

\* the stack whose lock t takes or gives back next
LockOf(t) ==
  CASE pc[t] \in {"firstFork298", "fork194"} -> 0
    [] pc[t] \in {"take94", "check96"} -> Victim(t)
    [] pc[t] \in {"push102", "unlock106"} -> t
    [] OTHER -> ptid[frame[t]]

(***************************************************************************)
(* The assertions of spinlock.c.  The mutex is of the error-checking kind, *)
(* so mySpinUnlock fails unless the calling thread holds the lock, which   *)
(* for a stolen frame is the thief and not the thread whose stack it is,   *)
(* and mySpinLock fails if it does.                                        *)
(***************************************************************************)
LockDiscipline ==
  \A t \in Threads :
    /\ pc[t] \in {"fork194", "check96", "unlock106", "unlock118", "fork136", "unlock142"}
         => holder[LockOf(t)] = t
    /\ pc[t] \in {"firstFork298", "take94", "push102", "lock112"}
         => holder[LockOf(t)] # t

\* where fib runs on the stack of its frame as any function does
StackPoints ==
  {"enter57", "push102", "mark103", "unlock106", "lock112", "goto113", "release117",
   "unlock118", "sum122", "unlock142", "sum168"}

\* a call that f has made on its own stack is live
CallPending(f) ==
  \/ ret[FirstChild(f)] # None
  \/ ret[SecondChild(f)] = "sum122"

(***************************************************************************)
(* "We cannot make function calls here!" (126, 171).  A thread uses the    *)
(* stack below a frame, at any point but those two and the joins, only when*)
(* no call made there is live and no other thread does the same; and it    *)
(* returns from a frame only when every other thread has left it.          *)
(***************************************************************************)
FramesDoNotCollide ==
  \A t \in Threads : pc[t] \in StackPoints =>
    /\ frame[t] \in Inner => ~CallPending(frame[t])
    /\ \A u \in Threads \ {t} : frame[u] = frame[t] =>
         pc[u] \notin StackPoints /\ pc[t] \notin {"sum122", "sum168"}

(***************************************************************************)
(* A parent that gets its seed back (117) runs on the thread that pushed   *)
(* the seed, and the seed is the last of the stack: owners work at the back*)
(* and thieves at the front.                                               *)
(***************************************************************************)
OwnersReleaseLast ==
  \A t \in Threads : pc[t] = "release117" =>
    /\ ptid[frame[t]] = t
    /\ seedStacks[t] # <<>> /\ Last(seedStacks[t]) = frame[t]

(***************************************************************************)
(* A thread without work has no seed on its own stack: of the places where *)
(* suspend looks, the first one (245) is always empty, and no seed is ever *)
(* left to a thread that is not working above it.                          *)
(***************************************************************************)
IdleThreadsHaveNoSeeds ==
  \A t \in Threads : frame[t] = None => seedStacks[t] = <<>>

(***************************************************************************)
(* "Only one thread can reach here" (startfib, 258), and then all work is  *)
(* done: nobody is in a frame and no seed is left.                         *)
(***************************************************************************)
MainResumesLast ==
  \A t \in Threads : pc[t] \in {"verify278", "exit"} =>
    \A u \in Threads :
      /\ frame[u] = None /\ seedStacks[u] = <<>>
      /\ pc[u] \in {"verify278", "exit"} => u = t

(***************************************************************************)
(* The assertion of main: the output is the one of the table.              *)
(***************************************************************************)
ResultVerified ==
  \A t \in Threads : pc[t] \in {"verify278", "exit"} => output[Root] = result[N]

(***************************************************************************)
(* Every call of the tree is made once, inline or on a stacklet, and       *)
(* returns once, after its own calls, with the sum of their outputs.       *)
(***************************************************************************)
Made == {f \in Frames : ret[f] # None \/ output[f] # None}
Abstract == INSTANCE ForkJoin WITH called <- Made
ImplementsForkJoin == Abstract!Spec

(***************************************************************************)
(* The program ends: no join waits forever and no seed is forgotten.       *)
(***************************************************************************)
Finishes == <>Exited
=============================================================================
