---------------------------- MODULE UliLockLocalProofs -----------------------
(***************************************************************************)
(* The part of the proofs about UliLock that does not look at the queue of *)
(* waiters, for every finite set of cpus and every number of rounds: the   *)
(* types, the local facts (LocalInv), which are inductive by themselves    *)
(* (LocalStep), and the requests.  UliLockProofs adds the queue.           *)
(***************************************************************************)
EXTENDS UliLock, TLAPS

USE CpusAssumption, ItersAssumption
USE DEF Goto, Running, lockVars, mainVars, handlerVars, HandlerGoto, AddmeReturn

-----------------------------------------------------------------------------
(***************************************************************************)
(* Types and local facts                                                   *)
(***************************************************************************)

\* i + 1 in the loop of increment_counter
LEMMA NextRound ==
  ASSUME TypeOK, NEW c \in Cpus, round[c] < Iters
  PROVE  /\ round[c] + 1 \in 0..Iters
         /\ ~(round[c] + 1 < Iters) => round[c] + 1 = Iters
<1>1. round[c] \in Nat /\ Iters \in Nat
  BY DEF TypeOK
<1> QED BY <1>1

\* where a POLL returns to: never to a send or a store, and to the end of
\* increment_counter only from its last round
LEMMA AfterPollPoints ==
  ASSUME NEW c \in Cpus, pc[c] \in PollPoints
  PROVE  /\ AfterPoll(c) \in MainPoints
         /\ AfterPoll(c) \notin {"send71", "store44", "got75", "check56", "waitpoll72"}
         /\ pc[c] = "poll47" /\ round[c] + 1 < Iters => AfterPoll(c) \notin LastPoints
         /\ pc[c] = "poll47" /\ ~(round[c] + 1 < Iters) => AfterPoll(c) \in LastPoints
         /\ pc[c] # "poll47" => (AfterPoll(c) \in LastPoints <=> pc[c] \in LastPoints)
  BY DEF AfterPoll, PollPoints, MainPoints, LastPoints

\* a message keeps the queues typed
LEMMA SendIType ==
  ASSUME TypeOK, NEW a \in Cpus, NEW target \in Cpus, SendI(a, target)
  PROVE  queue' \in [Cpus -> Seq(Cpus)]
<1>1. queue \in [Cpus -> Seq(Cpus)]
  BY DEF TypeOK
<1>2. Append(queue[target], a) \in Seq(Cpus)
  <2>1. queue[target] \in Seq(Cpus)
    BY <1>1
  <2> QED BY <2>1
<1>3. queue' = [queue EXCEPT ![target] = Append(queue[target], a)]
  BY DEF SendI
<1> QED BY <1>1, <1>2, <1>3

\* a step of increment_counter, mylock or myunlock from one point to another
LEMMA LocalGoto ==
  ASSUME TypeOK, LocalInv, NEW c \in Cpus,
         NEW from, NEW to \in MainPoints, Goto(c, from, to),
         from \in LastPoints <=> to \in LastPoints,
         to = "send71" => saved'[c] \in Cpus,
         \A d \in Cpus \ {c} : saved'[d] = saved[d],
         UNCHANGED <<handlerVars, round>>
  PROVE  LocalInv'
<1>1. HandlersRunInPolls'
  BY DEF LocalInv, HandlersRunInPolls, TypeOK
<1>2. AsksInHandlers'
  BY DEF LocalInv, AsksInHandlers, InAddme
<1>3. TargetsAreCpus'
  BY DEF LocalInv, TargetsAreCpus, TypeOK
<1>4. RoundsCounted'
  BY DEF LocalInv, RoundsCounted, TypeOK
<1> QED BY <1>1, <1>2, <1>3, <1>4 DEF LocalInv

\* a step of addme from one point to another or back to i_handler
LEMMA LocalHandlerGoto ==
  ASSUME TypeOK, LocalInv, NEW c \in Cpus,
         NEW from \in AddmePoints, NEW to \in AddmePoints \cup {"loop"},
         HandlerGoto(c, from, to),
         to = "send152" => hsaved'[c] \in Cpus,
         \A d \in Cpus \ {c} : hsaved'[d] = hsaved[d] /\ ask'[d] = ask[d],
         (ask'[c] # None) <=> to \in AddmePoints,
         UNCHANGED mainVars
  PROVE  LocalInv'
<1>1. HandlersRunInPolls'
  BY DEF LocalInv, HandlersRunInPolls, TypeOK, AddmePoints
<1>2. AsksInHandlers'
  BY DEF LocalInv, AsksInHandlers, InAddme, TypeOK
<1>3. TargetsAreCpus'
  BY DEF LocalInv, TargetsAreCpus, TypeOK
<1>4. RoundsCounted'
  BY DEF LocalInv, RoundsCounted, TypeOK
<1> QED BY <1>1, <1>2, <1>3, <1>4 DEF LocalInv

\* mylock
LEMMA LocalMylock ==
  ASSUME TypeOK, LocalInv, NEW c \in Cpus, Mylock(c)
  PROVE  TypeOK' /\ LocalInv'
<1> USE DEF MainPoints, LastPoints
<1>1. CASE LockTest(c)
  <2>1. TypeOK' BY <1>1 DEF LockTest, TypeOK
  <2>2. LocalInv' BY <1>1, LocalGoto DEF LockTest
  <2> QED BY <2>1, <2>2
<1>2. CASE LockCas(c)
  <2>1. TypeOK' BY <1>2 DEF LockCas, TypeOK
  <2>2. LocalInv' BY <1>2, LocalGoto DEF LockCas
  <2> QED BY <2>1, <2>2
<1>3. CASE LockCheck(c)
  <2>1. TypeOK' BY <1>3 DEF LockCheck, TypeOK
  <2>2. LocalInv' BY <1>3, LocalGoto DEF LockCheck
  <2> QED BY <2>1, <2>2
<1>4. CASE LockFree(c)
  <2>1. TypeOK' BY <1>4 DEF LockFree, TypeOK
  <2>2. LocalInv' BY <1>4, LocalGoto DEF LockFree
  <2> QED BY <2>1, <2>2
<1>5. CASE LockSave(c)
  <2>1. TypeOK' BY <1>5 DEF LockSave, TypeOK
  <2>2. LocalInv' BY <1>5, LocalGoto DEF LockSave, TypeOK
  <2> QED BY <2>1, <2>2
<1>6. CASE LockSend(c)
  <2>1. saved[c] \in Cpus
    BY <1>6 DEF LockSend, LocalInv, TargetsAreCpus
  <2>2. queue' \in [Cpus -> Seq(Cpus)]
    BY <1>6, <2>1, SendIType DEF LockSend
  <2>3. TypeOK' BY <1>6, <2>2 DEF LockSend, TypeOK
  <2>4. LocalInv' BY <1>6, LocalGoto DEF LockSend, TypeOK
  <2> QED BY <2>3, <2>4
<1>7. CASE LockWait(c)
  <2>1. TypeOK' BY <1>7 DEF LockWait, TypeOK, PollPoints
  <2>2. LocalInv' BY <1>7, LocalGoto DEF LockWait, PollPoints
  <2> QED BY <2>1, <2>2
<1>8. CASE LockGot(c)
  <2>1. TypeOK' BY <1>8 DEF LockGot, TypeOK, PollPoints
  <2>2. LocalInv' BY <1>8, LocalGoto DEF LockGot, PollPoints
  <2> QED BY <2>1, <2>2
<1> QED
  BY <1>1, <1>2, <1>3, <1>4, <1>5, <1>6, <1>7, <1>8 DEF Mylock

\* count++, myunlock and the sleep
LEMMA LocalApp ==
  ASSUME TypeOK, LocalInv, NEW c \in Cpus,
         CountLoad(c) \/ CountStore(c) \/ Myunlock(c) \/ SleepOver(c)
  PROVE  TypeOK' /\ LocalInv'
<1> USE DEF MainPoints, PollPoints, LastPoints
<1>1. CASE CountLoad(c)
  <2>1. TypeOK' BY <1>1 DEF CountLoad, TypeOK
  <2>2. LocalInv' BY <1>1, LocalGoto DEF CountLoad
  <2> QED BY <2>1, <2>2
<1>2. CASE CountStore(c)
  <2>1. count' \in Nat BY <1>2 DEF CountStore, TypeOK
  <2>2. TypeOK' BY <1>2, <2>1 DEF CountStore, TypeOK
  <2>3. LocalInv' BY <1>2, LocalGoto DEF CountStore
  <2> QED BY <2>2, <2>3
<1>3. CASE UnlockHandOver(c)
  <2>1. TypeOK' BY <1>3 DEF UnlockHandOver, TypeOK
  <2>2. LocalInv' BY <1>3, LocalGoto DEF UnlockHandOver
  <2> QED BY <2>1, <2>2
<1>4. CASE UnlockFree(c)
  <2>1. TypeOK' BY <1>4 DEF UnlockFree, TypeOK
  <2>2. LocalInv' BY <1>4, LocalGoto DEF UnlockFree
  <2> QED BY <2>1, <2>2
<1>5. CASE SleepOver(c)
  <2>1. TypeOK' BY <1>5 DEF SleepOver, TypeOK
  <2>2. LocalInv' BY <1>5, LocalGoto DEF SleepOver
  <2> QED BY <2>1, <2>2
<1> QED BY <1>1, <1>2, <1>3, <1>4, <1>5 DEF Myunlock

\* addme
LEMMA LocalAddme ==
  ASSUME TypeOK, LocalInv, NEW c \in Cpus, Addme(c)
  PROVE  TypeOK' /\ LocalInv' /\ ask[c] \in Cpus
<1>0. ask[c] \in Cpus
  BY DEF Addme, AddmeOwner, AddmeFree, AddmeCas, AddmeCheck, AddmeSave, AddmeForward,
         AddmeTrigger, AddmeGive, AddmePoints, InAddme, TypeOK, LocalInv, AsksInHandlers
<1> USE DEF HandlerPoints, AddmePoints
<1>1. CASE AddmeOwner(c)
  <2>1. TypeOK' BY <1>1 DEF AddmeOwner, TypeOK
  <2>2. LocalInv' BY <1>0, <1>1, LocalHandlerGoto DEF AddmeOwner
  <2> QED BY <1>0, <2>1, <2>2
<1>2. CASE AddmeFree(c)
  <2>1. TypeOK' BY <1>2 DEF AddmeFree, TypeOK
  <2>2. LocalInv' BY <1>0, <1>2, LocalHandlerGoto DEF AddmeFree
  <2> QED BY <1>0, <2>1, <2>2
<1>3. CASE AddmeCas(c)
  <2>1. TypeOK' BY <1>3 DEF AddmeCas, TypeOK
  <2>2. LocalInv' BY <1>0, <1>3, LocalHandlerGoto DEF AddmeCas
  <2> QED BY <1>0, <2>1, <2>2
<1>4. CASE AddmeCheck(c)
  <2>1. TypeOK' BY <1>4 DEF AddmeCheck, TypeOK
  <2>2. LocalInv' BY <1>0, <1>4, LocalHandlerGoto DEF AddmeCheck
  <2> QED BY <1>0, <2>1, <2>2
<1>5. CASE AddmeSave(c)
  <2>1. TypeOK' BY <1>5 DEF AddmeSave, TypeOK
  <2>2. LocalInv' BY <1>0, <1>5, LocalHandlerGoto DEF AddmeSave, TypeOK
  <2> QED BY <1>0, <2>1, <2>2
<1>6. CASE AddmeForward(c)
  <2>1. hsaved[c] \in Cpus
    BY <1>6 DEF AddmeForward, LocalInv, TargetsAreCpus
  <2>2. queue' \in [Cpus -> Seq(Cpus)]
    BY <1>0, <1>6, <2>1, SendIType DEF AddmeForward
  <2>3. TypeOK' BY <1>6, <2>2 DEF AddmeForward, TypeOK
  <2>4. LocalInv' BY <1>6, LocalHandlerGoto DEF AddmeForward, TypeOK
  <2> QED BY <1>0, <2>3, <2>4
<1>7. CASE AddmeTrigger(c)
  <2>1. TypeOK' BY <1>7 DEF AddmeTrigger, TypeOK
  <2>2. LocalInv' BY <1>7, LocalHandlerGoto DEF AddmeTrigger, TypeOK
  <2> QED BY <1>0, <2>1, <2>2
<1>8. CASE AddmeGive(c)
  <2>1. TypeOK' BY <1>8 DEF AddmeGive, TypeOK
  <2>2. LocalInv' BY <1>8, LocalHandlerGoto DEF AddmeGive, TypeOK
  <2> QED BY <1>0, <2>1, <2>2
<1> QED
  BY <1>1, <1>2, <1>3, <1>4, <1>5, <1>6, <1>7, <1>8 DEF Addme

\* POLL returns
LEMMA LocalPollReturns ==
  ASSUME TypeOK, LocalInv, NEW c \in Cpus, PollReturns(c)
  PROVE  TypeOK' /\ LocalInv' /\ pc[c] \in PollPoints /\ ~InAddme(c)
<1>0. pc[c] \in PollPoints
  BY DEF PollReturns, AtLoop, LocalInv, HandlersRunInPolls
<1>1. TypeOK'
  <2>1. CASE pc[c] = "poll47"
    <3> DEFINE r == round[c] + 1
    <3>1. round[c] < Iters BY <2>1 DEF LocalInv, RoundsCounted, LastPoints
    <3>2. r \in 0..Iters BY <3>1, NextRound
    <3>3. round' = [round EXCEPT ![c] = r] BY <2>1 DEF PollReturns
    <3> HIDE DEF r
    <3>4. round' \in [Cpus -> 0..Iters] BY <3>2, <3>3 DEF TypeOK
    <3> QED BY <1>0, <3>4, AfterPollPoints DEF TypeOK, PollReturns, HandlerPoints
  <2>2. CASE pc[c] # "poll47"
    <3>1. round' = round BY <2>2 DEF PollReturns, TypeOK
    <3> QED BY <1>0, <3>1, AfterPollPoints DEF TypeOK, PollReturns, HandlerPoints
  <2> QED BY <2>1, <2>2
<1>2. HandlersRunInPolls'
  BY DEF PollReturns, LocalInv, HandlersRunInPolls, TypeOK
<1>3. AsksInHandlers' /\ ~InAddme(c)
  BY DEF PollReturns, AtLoop, LocalInv, AsksInHandlers, InAddme, AddmePoints, TypeOK
<1>4. TargetsAreCpus'
  BY <1>0, AfterPollPoints DEF PollReturns, LocalInv, TargetsAreCpus, TypeOK
<1>5. RoundsCounted'
  <2> SUFFICES ASSUME NEW d \in Cpus
               PROVE  /\ pc'[d] \in LastPoints => round'[d] = Iters
                      /\ pc'[d] \notin LastPoints => round'[d] < Iters
    BY DEF RoundsCounted
  <2>1. CASE d # c
    BY <2>1 DEF PollReturns, LocalInv, RoundsCounted, TypeOK
  <2>2. CASE d = c /\ pc[c] # "poll47"
    <3>1. pc'[c] = AfterPoll(c) /\ round'[c] = round[c]
      BY <2>2 DEF PollReturns, TypeOK
    <3> QED BY <2>2, <3>1, <1>0, AfterPollPoints DEF LocalInv, RoundsCounted
  <2>3. CASE d = c /\ pc[c] = "poll47"
    <3>1. pc'[c] = AfterPoll(c) /\ round'[c] = round[c] + 1
      BY <2>3 DEF PollReturns, TypeOK
    <3>2. round[c] < Iters
      BY <2>3 DEF LocalInv, RoundsCounted, LastPoints
    <3>3. ~(round[c] + 1 < Iters) => round[c] + 1 = Iters
      BY <3>2, NextRound
    <3> QED BY <2>3, <3>1, <3>3, <1>0, AfterPollPoints
  <2> QED BY <2>1, <2>2, <2>3
<1> QED BY <1>0, <1>1, <1>2, <1>3, <1>4, <1>5 DEF LocalInv

\* i_handler takes a message
LEMMA LocalDequeue ==
  ASSUME TypeOK, LocalInv, NEW c \in Cpus, Dequeue(c)
  PROVE  TypeOK' /\ LocalInv' /\ Head(queue[c]) \in Cpus /\ ~InAddme(c)
<1>1. Head(queue[c]) \in Cpus /\ Tail(queue[c]) \in Seq(Cpus)
  <2>1. queue[c] \in Seq(Cpus) /\ queue[c] # <<>>
    BY DEF Dequeue, TypeOK
  <2> QED BY <2>1
<1>2. depth' \in [Cpus -> Nat]
  <2>1. depth \in [Cpus -> Nat] /\ depth' = [depth EXCEPT ![c] = depth[c] + 1]
    BY DEF Dequeue, TypeOK
  <2> QED BY <2>1
<1>3. TypeOK'
  <2>1. queue' \in [Cpus -> Seq(Cpus)]
    BY <1>1 DEF Dequeue, TypeOK
  <2>2. ask' \in [Cpus -> Cpus \cup {None}]
    BY <1>1 DEF Dequeue, TypeOK
  <2>3. masked' \in [Cpus -> BOOLEAN] /\ hpc' \in [Cpus -> HandlerPoints]
    BY DEF Dequeue, TypeOK, HandlerPoints, AddmePoints
  <2> QED BY <1>2, <2>1, <2>2, <2>3 DEF Dequeue, TypeOK
<1>4. HandlersRunInPolls'
  BY DEF Dequeue, AtLoop, LocalInv, HandlersRunInPolls, TypeOK
<1>5. AsksInHandlers' /\ ~InAddme(c)
  BY <1>1 DEF Dequeue, AtLoop, LocalInv, AsksInHandlers, InAddme, AddmePoints, TypeOK
<1>6. TargetsAreCpus'
  BY DEF Dequeue, LocalInv, TargetsAreCpus, TypeOK
<1>7. RoundsCounted'
  BY DEF Dequeue, LocalInv, RoundsCounted
<1> QED BY <1>1, <1>3, <1>4, <1>5, <1>6, <1>7 DEF LocalInv

\* i_handler returns to an outer addme
LEMMA LocalUnwind ==
  ASSUME TypeOK, LocalInv, NEW c \in Cpus, UnwindHandler(c)
  PROVE  TypeOK' /\ LocalInv'
<1>1. depth' \in [Cpus -> Nat]
  BY DEF UnwindHandler, TypeOK
<1>2. TypeOK'
  BY <1>1 DEF UnwindHandler, TypeOK
<1>3. LocalInv'
  BY DEF UnwindHandler, LocalInv, HandlersRunInPolls, AsksInHandlers, InAddme,
         TargetsAreCpus, RoundsCounted
<1> QED BY <1>2, <1>3

LEMMA LocalStep == TypeOK /\ LocalInv /\ [Next]_vars => TypeOK' /\ LocalInv'
<1> SUFFICES ASSUME TypeOK, LocalInv, [Next]_vars
             PROVE  TypeOK' /\ LocalInv'
  OBVIOUS
<1>1. ASSUME NEW c \in Cpus, Thread(c) PROVE TypeOK' /\ LocalInv'
  BY <1>1, LocalMylock, LocalApp, LocalAddme, LocalPollReturns, LocalDequeue, LocalUnwind
     DEF Thread, IHandler
<1>2. CASE JoinAll
  <2>1. TypeOK' BY <1>2 DEF JoinAll, TypeOK
  <2>2. LocalInv'
    BY <1>2 DEF JoinAll, LocalInv, HandlersRunInPolls, AsksInHandlers, InAddme,
                TargetsAreCpus, RoundsCounted
  <2> QED BY <2>1, <2>2
<1>3. CASE UNCHANGED vars
  <2>1. TypeOK' BY <1>3 DEF vars, TypeOK
  <2>2. LocalInv'
    BY <1>3 DEF vars, LocalInv, HandlersRunInPolls, AsksInHandlers, InAddme,
                TargetsAreCpus, RoundsCounted
  <2> QED BY <2>1, <2>2
<1> QED BY <1>1, <1>2, <1>3 DEF Next, Terminated

LEMMA LocalInit == Init => TypeOK /\ LocalInv
<1> SUFFICES ASSUME Init PROVE TypeOK /\ LocalInv
  OBVIOUS
<1>1. TypeOK
  BY DEF Init, TypeOK, MainPoints, PollPoints, HandlerPoints
<1>2. LocalInv
  BY DEF Init, LocalInv, HandlersRunInPolls, AsksInHandlers, InAddme, AddmePoints,
         TargetsAreCpus, RoundsCounted, LastPoints
<1> QED BY <1>1, <1>2

(***************************************************************************)
(* The variables of the lock, of the delivery and of the threads keep their*)
(* types; in particular every id that is stored, forwarded or made owner is*)
(* the id of a cpu.                                                        *)
(***************************************************************************)
THEOREM TypeCorrect == Spec => []TypeOK
<1>1. Init => TypeOK /\ LocalInv
  BY LocalInit
<1>2. TypeOK /\ LocalInv /\ [Next]_vars => (TypeOK /\ LocalInv)'
  BY LocalStep
<1> QED BY <1>1, <1>2, PTL DEF Spec

-----------------------------------------------------------------------------
(***************************************************************************)
(* What the steps do to the requests                                       *)
(***************************************************************************)

\* Append(s, a) adds a at the end
LEMMA AppendIndex ==
  ASSUME NEW S, NEW s \in Seq(S), NEW a \in S
  PROVE  /\ Len(s) + 1 \notin DOMAIN s
         /\ DOMAIN Append(s, a) = DOMAIN s \cup {Len(s) + 1}
         /\ Append(s, a)[Len(s) + 1] = a
         /\ \A i \in DOMAIN s : Append(s, a)[i] = s[i]
OBVIOUS

\* Tail(s) shifts the indices by one
LEMMA TailIndex ==
  ASSUME NEW S, NEW s \in Seq(S), s # <<>>
  PROVE  /\ 1 \in DOMAIN s /\ Head(s) = s[1]
         /\ \A i \in DOMAIN Tail(s) : i + 1 \in DOMAIN s /\ Tail(s)[i] = s[i + 1] /\ i + 1 # 1
         /\ \A i \in DOMAIN s : i # 1 => i - 1 \in DOMAIN Tail(s) /\ Tail(s)[i - 1] = s[i]
         /\ \A i, j \in DOMAIN Tail(s) : i + 1 = j + 1 => i = j
OBVIOUS

\* queues hold cpus
LEMMA QueuedAreCpus ==
  ASSUME TypeOK
  PROVE  \A d \in Cpus : \A i \in DOMAIN queue[d] : queue[d][i] \in Cpus
<1> SUFFICES ASSUME NEW d \in Cpus, NEW i \in DOMAIN queue[d]
             PROVE  queue[d][i] \in Cpus
  OBVIOUS
<1>1. queue[d] \in Seq(Cpus)
  BY DEF TypeOK
<1> QED BY <1>1

\* a cpu that has no request sends one
LEMMA SendRequest ==
  ASSUME TypeOK, UniqueRequests, NEW a \in Cpus, NEW target \in Cpus, ~Requested(a),
         SendI(a, target), UNCHANGED ask
  PROVE  UniqueRequests' /\ \A d \in Cpus : Requested(d)' <=> Requested(d) \/ d = a
<1> DEFINE s == queue[target]
           n == Len(s) + 1
<1>1. s \in Seq(Cpus)
  BY DEF TypeOK
<1> HIDE DEF n
<1>2. /\ queue'[target] = Append(s, a)
      /\ \A d \in Cpus : d # target => queue'[d] = queue[d]
  BY DEF SendI, TypeOK
<1>3. /\ n \notin DOMAIN s
      /\ DOMAIN queue'[target] = DOMAIN s \cup {n}
      /\ queue'[target][n] = a
      /\ \A i \in DOMAIN s : queue'[target][i] = s[i]
  BY <1>1, <1>2, AppendIndex DEF n
<1>4. \A d \in Cpus : \A i \in DOMAIN queue'[d] :
        \/ d = target /\ i = n /\ queue'[d][i] = a
        \/ i \in DOMAIN queue[d] /\ queue'[d][i] = queue[d][i] /\ queue[d][i] # a
  BY <1>2, <1>3 DEF Requested
<1>5. \A d \in Cpus : \A i \in DOMAIN queue[d] :
        i \in DOMAIN queue'[d] /\ queue'[d][i] = queue[d][i]
  BY <1>2, <1>3
<1>6. UniqueRequests'
  BY <1>4 DEF UniqueRequests, Requested
<1>7. \A d \in Cpus : Requested(d)' <=> Requested(d) \/ d = a
  BY <1>2, <1>3, <1>4, <1>5 DEF Requested
<1> QED BY <1>6, <1>7

\* addme on c is done with its request
LEMMA DropRequest ==
  ASSUME TypeOK, UniqueRequests, NEW c \in Cpus, ask[c] \in Cpus,
         ask' = [ask EXCEPT ![c] = None], UNCHANGED queue
  PROVE  UniqueRequests' /\ \A d \in Cpus : Requested(d)' <=> Requested(d) /\ d # ask[c]
<1>1. ask'[c] = None /\ \A h \in Cpus \ {c} : ask'[h] = ask[h]
  BY DEF TypeOK
<1>2. UniqueRequests'
  BY <1>1, QueuedAreCpus DEF UniqueRequests
<1>3. \A d \in Cpus : Requested(d)' <=> Requested(d) /\ d # ask[c]
  <2> TAKE d \in Cpus
  <2>1. Requested(d)' => Requested(d)
    BY <1>1 DEF Requested
  <2>2. d = ask[c] => ~Requested(d)'
    BY <1>1 DEF Requested, UniqueRequests
  <2>3. Requested(d) /\ d # ask[c] => Requested(d)'
    BY <1>1 DEF Requested
  <2> QED BY <2>1, <2>2, <2>3
<1> QED BY <1>2, <1>3

\* i_handler takes a message and starts addme for it
LEMMA TakeRequest ==
  ASSUME TypeOK, UniqueRequests, NEW c \in Cpus, ask[c] = None,
         queue[c] # <<>>,
         queue' = [queue EXCEPT ![c] = Tail(queue[c])],
         ask' = [ask EXCEPT ![c] = Head(queue[c])]
  PROVE  UniqueRequests' /\ \A d \in Cpus : Requested(d)' <=> Requested(d)
<1> DEFINE s == queue[c]
<1>1. s \in Seq(Cpus) /\ s # <<>>
  BY DEF TypeOK
<1>2. /\ queue'[c] = Tail(s) /\ ask'[c] = Head(s)
      /\ \A d \in Cpus : d # c => queue'[d] = queue[d] /\ ask'[d] = ask[d]
  BY DEF TypeOK
<1>3. /\ 1 \in DOMAIN s /\ Head(s) = s[1]
      /\ \A i \in DOMAIN Tail(s) : i + 1 \in DOMAIN s /\ Tail(s)[i] = s[i + 1] /\ i + 1 # 1
      /\ \A i \in DOMAIN s : i # 1 => i - 1 \in DOMAIN Tail(s) /\ Tail(s)[i - 1] = s[i]
      /\ \A i, j \in DOMAIN Tail(s) : i + 1 = j + 1 => i = j
  BY <1>1, TailIndex
<1>4. \A d \in Cpus : \A i \in DOMAIN queue'[d] :
        queue'[d][i] \in Cpus /\ queue'[d][i] # s[1]
  <2> TAKE d \in Cpus
  <2> TAKE i \in DOMAIN queue'[d]
  <2>1. CASE d # c
    BY <1>2, <1>3, <2>1, QueuedAreCpus DEF UniqueRequests
  <2>2. CASE d = c
    <3> DEFINE j == i + 1
    <3>1. j \in DOMAIN s /\ queue'[d][i] = s[j] /\ j # 1
      BY <1>2, <1>3, <2>2
    <3> HIDE DEF j
    <3> QED BY <1>3, <3>1, QueuedAreCpus DEF UniqueRequests
  <2> QED BY <2>1, <2>2
<1>5. UniqueRequests'
  <2>1. \A d, e \in Cpus : \A i \in DOMAIN queue'[d], j \in DOMAIN queue'[e] :
          queue'[d][i] = queue'[e][j] => d = e /\ i = j
    BY <1>2, <1>3 DEF UniqueRequests
  <2>2. \A d, h \in Cpus : \A i \in DOMAIN queue'[d] : queue'[d][i] # ask'[h]
    BY <1>2, <1>3, <1>4 DEF UniqueRequests
  <2>3. \A g, h \in Cpus : ask'[g] = ask'[h] /\ ask'[g] # None => g = h
    BY <1>2, <1>3 DEF UniqueRequests
  <2> QED BY <2>1, <2>2, <2>3 DEF UniqueRequests
<1>6. \A d \in Cpus : Requested(d)' <=> Requested(d)
  <2> TAKE d \in Cpus
  <2>1. ASSUME NEW e \in Cpus, NEW i \in DOMAIN queue[e], queue[e][i] = d
        PROVE  Requested(d)'
    <3>1. CASE e # c
      BY <1>2, <2>1, <3>1 DEF Requested
    <3>2. CASE e = c /\ i = 1
      BY <1>2, <1>3, <2>1, <3>2 DEF Requested
    <3>3. CASE e = c /\ i # 1
      <4>1. i - 1 \in DOMAIN queue'[c] /\ queue'[c][i - 1] = d
        BY <1>2, <1>3, <2>1, <3>3
      <4> QED BY <4>1 DEF Requested
    <3> QED BY <3>1, <3>2, <3>3
  <2>2. ASSUME NEW h \in Cpus, ask[h] = d PROVE Requested(d)'
    BY <1>2, <2>2 DEF Requested
  <2>3. ASSUME NEW e \in Cpus, NEW i \in DOMAIN queue'[e], queue'[e][i] = d
        PROVE  Requested(d)
    BY <1>2, <1>3, <2>3 DEF Requested
  <2>4. ASSUME NEW h \in Cpus, ask'[h] = d PROVE Requested(d)
    BY <1>2, <1>3, <2>4 DEF Requested
  <2> QED BY <2>1, <2>2, <2>3, <2>4 DEF Requested
<1> QED BY <1>5, <1>6

\* addme sends its request on
LEMMA ForwardRequest ==
  ASSUME TypeOK, UniqueRequests, NEW c \in Cpus, ask[c] \in Cpus, NEW target \in Cpus,
         SendI(ask[c], target), ask' = [ask EXCEPT ![c] = None]
  PROVE  UniqueRequests' /\ \A d \in Cpus : Requested(d)' <=> Requested(d)
<1> DEFINE s == queue[target]
           a == ask[c]
           n == Len(s) + 1
<1>1. s \in Seq(Cpus)
  BY DEF TypeOK
<1> HIDE DEF n
<1>2. /\ queue'[target] = Append(s, a)
      /\ \A d \in Cpus : d # target => queue'[d] = queue[d]
      /\ ask'[c] = None /\ \A h \in Cpus \ {c} : ask'[h] = ask[h]
  BY DEF SendI, TypeOK
<1>3. /\ n \notin DOMAIN s
      /\ DOMAIN queue'[target] = DOMAIN s \cup {n}
      /\ queue'[target][n] = a
      /\ \A i \in DOMAIN s : queue'[target][i] = s[i]
  BY <1>1, <1>2, AppendIndex DEF n
<1>4. \A d \in Cpus : \A i \in DOMAIN queue'[d] :
        \/ d = target /\ i = n /\ queue'[d][i] = a
        \/ i \in DOMAIN queue[d] /\ queue'[d][i] = queue[d][i] /\ queue[d][i] # a
  BY <1>2, <1>3 DEF UniqueRequests
<1>5. \A d \in Cpus : \A i \in DOMAIN queue[d] :
        i \in DOMAIN queue'[d] /\ queue'[d][i] = queue[d][i]
  BY <1>2, <1>3
<1>6. UniqueRequests'
  <2>1. \A d, e \in Cpus : \A i \in DOMAIN queue'[d], j \in DOMAIN queue'[e] :
          queue'[d][i] = queue'[e][j] => d = e /\ i = j
    BY <1>4 DEF UniqueRequests
  <2>2. \A d, h \in Cpus : \A i \in DOMAIN queue'[d] : queue'[d][i] # ask'[h]
    BY <1>2, <1>4, QueuedAreCpus DEF UniqueRequests
  <2>3. \A g, h \in Cpus : ask'[g] = ask'[h] /\ ask'[g] # None => g = h
    BY <1>2 DEF UniqueRequests
  <2> QED BY <2>1, <2>2, <2>3 DEF UniqueRequests
<1>7. \A d \in Cpus : Requested(d)' <=> Requested(d)
  BY <1>2, <1>3, <1>4, <1>5 DEF Requested
<1> QED BY <1>6, <1>7

=============================================================================
