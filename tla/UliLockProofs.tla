---------------------------- MODULE UliLockProofs ----------------------------
(***************************************************************************)
(* The queue of waiters, mutual exclusion and the atomic counter           *)
(***************************************************************************)
EXTENDS UliLockLocalProofs

USE CpusAssumption, ItersAssumption
USE DEF Goto, Running, lockVars, mainVars, handlerVars, HandlerGoto, AddmeReturn

(***************************************************************************)
(* Facts about one state                                                   *)
(***************************************************************************)

\* a cpu that is about to try to take the lock is not the owner
LEMMA TryingIsNotOwner ==
  ASSUME TypeOK, LocalInv, RequestsAreLive, Queued,
         NEW c \in Cpus, pc[c] \in {"test50", "cas52"}
  PROVE  owner # c
<1>1. ~Waiting(c) /\ ~InCriticalSection(c)
  BY DEF Waiting, InCriticalSection
<1>2. ~Requested(c)
  BY <1>1 DEF RequestsAreLive
<1>3. CASE Orphaned
  BY <1>1, <1>3 DEF Orphaned
<1>4. CASE QueueInv
  <2>1. ~trigger[c] /\ ~Linked(c)
    BY <1>1, <1>4 DEF QueueInv
  <2>2. ~HasLock(c)
    BY <1>1, <1>2, <2>1 DEF HasLock, Holds, TakenFor, Requested
  <2> QED BY <1>4, <2>1, <2>2 DEF QueueInv, Member
<1> QED BY <1>3, <1>4 DEF Queued

\* a cpu on whose behalf addme runs waits, and unless that addme has taken
\* the lock for it, it is not in the queue
LEMMA AskerWaits ==
  ASSUME TypeOK, LocalInv, RequestsAreLive, Queued,
         NEW h \in Cpus, InAddme(h), hpc[h] \notin {"check125", "trigger139"}
  PROVE  /\ ask[h] \in Cpus /\ Requested(ask[h]) /\ Waiting(ask[h]) /\ ~trigger[ask[h]]
         /\ ~HasLock(ask[h]) /\ owner # ask[h] /\ (QueueInv => ~Linked(ask[h]))
<1>1. ask[h] \in Cpus /\ Requested(ask[h]) /\ Waiting(ask[h]) /\ ~trigger[ask[h]]
  <2>1. ask[h] \in Cpus
    BY DEF LocalInv, AsksInHandlers, TypeOK
  <2>2. Requested(ask[h])
    BY <2>1 DEF Requested
  <2> QED BY <2>1, <2>2 DEF RequestsAreLive
<1>2. \A g \in Cpus : ~TakenFor(g, ask[h])
  BY <1>1 DEF TakenFor, RequestsAreLive, UniqueRequests
<1>3. ~HasLock(ask[h])
  BY <1>1, <1>2 DEF HasLock, Holds, Waiting, InCriticalSection
<1>4. QueueInv => ~Linked(ask[h])
  BY <1>1 DEF QueueInv
<1>5. owner # ask[h]
  BY <1>1, <1>3, <1>4 DEF Queued, Orphaned, QueueInv, Member
<1> QED BY <1>1, <1>3, <1>4, <1>5

\* a cpu inside has the lock alone and nobody asks for it
LEMMA Inside ==
  ASSUME TypeOK, LocalInv, RequestsAreLive, Queued,
         NEW c \in Cpus, InCriticalSection(c)
  PROVE  /\ QueueInv /\ HasLock(c) /\ \A d \in Cpus : HasLock(d) => d = c
         /\ ~trigger[c] /\ ~Requested(c) /\ ~Linked(c) /\ \A h \in Cpus : ~TakenFor(h, c)
<1>1. HasLock(c) /\ ~Waiting(c) /\ pc[c] # "got75"
  BY DEF HasLock, Holds, InCriticalSection, Waiting
<1>2. QueueInv
  BY <1>1 DEF Queued, Orphaned
<1>3. ~Requested(c)
  BY <1>1 DEF RequestsAreLive
<1>4. \A h \in Cpus : ~TakenFor(h, c)
  BY <1>3 DEF TakenFor, Requested
<1> QED BY <1>1, <1>2, <1>3, <1>4 DEF QueueInv

(***************************************************************************)
(* Steps that leave the queue as it is                                     *)
(***************************************************************************)

\* the queue stays whole if it is whole
QueuedStep == Queued' /\ (QueueInv => QueueInv')

LEMMA SameQueue ==
  ASSUME Queued, UNCHANGED <<owner, waiter>>,
         \A c \in Cpus : HasLock(c)' <=> HasLock(c),
         \A c \in Cpus : trigger'[c] => Waiting(c)' \/ pc'[c] = "got75",
         \A c \in Cpus : Waiting(c) /\ ~HasLock(c) /\ ~Requested(c) =>
                           Waiting(c)' /\ ~Requested(c)'
  PROVE  QueuedStep
<1>1. \A c, d \in Cpus : (Linked(c)' <=> Linked(c)) /\ (Behind(c, d)' <=> Behind(c, d))
  BY DEF Linked, Behind, ClosedUnderWaiter
<1>2. \A c \in Cpus : Member(c)' <=> Member(c)
  BY <1>1 DEF Member
<1>3. CASE Orphaned
  <2>1. Orphaned'
    BY <1>3 DEF Orphaned
  <2>2. ~QueueInv
    BY <1>3 DEF Orphaned, QueueInv
  <2> QED BY <2>1, <2>2 DEF Queued, QueuedStep
<1>4. CASE QueueInv
  <2>1. QueueInv'
    BY <1>1, <1>2, <1>4 DEF QueueInv
  <2> QED BY <2>1 DEF Queued, QueuedStep
<1> QED BY <1>3, <1>4 DEF Queued

\* what the invariant adds to the types and the local facts
GlobalInv == RequestsAreLive /\ Queued /\ GiversOwn /\ StoresAreFresh

GlobalStep == GlobalInv' /\ QueuedStep

\* steps that change neither the lock nor the requests
LEMMA QuietStep ==
  ASSUME Inv, UNCHANGED <<lockVars, queue, ask, count>>,
         \A d \in Cpus : Waiting(d)' <=> Waiting(d),
         \A d \in Cpus : Holds(d)' <=> Holds(d),
         \A d \in Cpus : pc[d] = "got75" => pc'[d] = "got75",
         \A d \in Cpus : pc'[d] = "store44" => loaded'[d] = count,
         \A d, h \in Cpus : TakenFor(h, d)' <=> TakenFor(h, d),
         \A d \in Cpus : hpc'[d] = "give155" => owner = d
  PROVE  GlobalStep
<1>1. \A d \in Cpus : Requested(d)' <=> Requested(d)
  BY DEF Requested
<1>2. UniqueRequests'
  BY DEF Inv, RequestsAreLive, UniqueRequests
<1>3. RequestsAreLive'
  BY <1>1, <1>2 DEF Inv, RequestsAreLive
<1>4. \A d \in Cpus : HasLock(d)' <=> HasLock(d)
  BY DEF HasLock
<1>5. \A d \in Cpus : trigger'[d] => Waiting(d)' \/ pc'[d] = "got75"
  BY DEF Inv, Queued, Orphaned, QueueInv, HasLock
<1>6. QueuedStep
  BY <1>1, <1>4, <1>5, SameQueue DEF Inv
<1> QED BY <1>3, <1>6 DEF GlobalInv, GlobalStep, QueuedStep, GiversOwn, StoresAreFresh

\* a quiet step of the thread itself
LEMMA QuietGoto ==
  ASSUME Inv, NEW c \in Cpus, NEW from, NEW to, Goto(c, from, to),
         UNCHANGED <<lockVars, queue, handlerVars, count>>,
         from \in {"wait72", "waitpoll72"} <=> to \in {"wait72", "waitpoll72"},
         from \in {"poll43", "load44", "store44", "poll45", "unlock91"} <=>
           to \in {"poll43", "load44", "store44", "poll45", "unlock91"},
         from # "got75" /\ to # "got75",
         from = "check56" \/ to = "check56" => owner # c,
         to = "store44" => loaded'[c] = count,
         \A d \in Cpus \ {c} : loaded'[d] = loaded[d]
  PROVE  GlobalStep
<1>1. pc'[c] = to /\ \A d \in Cpus \ {c} : pc'[d] = pc[d]
  BY DEF Inv, TypeOK
<1>2. \A d \in Cpus : Waiting(d)' <=> Waiting(d)
  BY <1>1 DEF Waiting
<1>3. \A d \in Cpus : Holds(d)' <=> Holds(d)
  BY <1>1 DEF Holds, InCriticalSection
<1>4. \A d, h \in Cpus : TakenFor(h, d)' <=> TakenFor(h, d)
  BY DEF TakenFor
<1>5. \A d \in Cpus : pc'[d] = "store44" => loaded'[d] = count
  BY <1>1 DEF Inv, StoresAreFresh
<1>6. \A d \in Cpus : pc[d] = "got75" => pc'[d] = "got75"
  BY <1>1
<1>7. \A d \in Cpus : hpc'[d] = "give155" => owner = d
  BY DEF Inv, GiversOwn
<1> QED BY <1>2, <1>3, <1>4, <1>5, <1>6, <1>7, QuietStep

\* a quiet step of addme
LEMMA QuietHandlerGoto ==
  ASSUME Inv, NEW c \in Cpus, NEW from, NEW to, HandlerGoto(c, from, to),
         UNCHANGED <<lockVars, queue, mainVars, ask>>,
         \/ from \notin {"check125", "trigger139"} /\ to \notin {"check125", "trigger139"}
         \/ from = "check125" /\ to = "trigger139" /\ owner = ask[c]
         \/ from = "check125" /\ to = "save149" /\ owner # ask[c],
         to = "give155" => owner = c
  PROVE  GlobalStep
<1>1. hpc'[c] = to /\ \A d \in Cpus \ {c} : hpc'[d] = hpc[d]
  BY DEF Inv, TypeOK
<1>2. \A d \in Cpus : (Waiting(d)' <=> Waiting(d)) /\ (Holds(d)' <=> Holds(d))
  BY DEF Waiting, Holds, InCriticalSection
<1>3. \A d, h \in Cpus : TakenFor(h, d)' <=> TakenFor(h, d)
  BY <1>1 DEF TakenFor
<1>4. \A d \in Cpus : pc'[d] = "store44" => loaded'[d] = count
  BY DEF Inv, StoresAreFresh
<1>5. \A d \in Cpus : hpc'[d] = "give155" => owner = d
  BY <1>1 DEF Inv, GiversOwn
<1> QED BY <1>2, <1>3, <1>4, <1>5, QuietStep

(***************************************************************************)
(* mylock                                                                  *)
(***************************************************************************)
LEMMA MylockQuiet ==
  ASSUME Inv, NEW c \in Cpus,
         LockTest(c) \/ LockFree(c) \/ LockSave(c)
  PROVE  GlobalStep
<1>1. CASE LockTest(c)
  <2>1. owner # c
    BY <1>1, TryingIsNotOwner DEF Inv, LockTest
  <2> QED BY <1>1, <2>1, QuietGoto DEF LockTest
<1>2. CASE LockFree(c)
  BY <1>2, QuietGoto DEF LockFree
<1>3. CASE LockSave(c)
  BY <1>3, QuietGoto DEF LockSave
<1> QED BY <1>1, <1>2, <1>3

LEMMA LockCheckGlobal ==
  ASSUME Inv, NEW c \in Cpus, LockCheck(c)
  PROVE  GlobalStep
<1>1. CASE owner # c
  BY <1>1, QuietGoto DEF LockCheck
<1>2. CASE owner = c
  <2>1. pc'[c] = "got75" /\ \A d \in Cpus \ {c} : pc'[d] = pc[d]
    BY <1>2 DEF LockCheck, Inv, TypeOK
  <2>2. \A d \in Cpus : Waiting(d)' <=> Waiting(d)
    BY <2>1 DEF Waiting, LockCheck
  <2>3. \A d \in Cpus : Holds(d)' <=> Holds(d)
    BY <1>2, <2>1 DEF Holds, InCriticalSection, LockCheck
  <2>4. \A d, h \in Cpus : TakenFor(h, d)' <=> TakenFor(h, d)
    BY DEF TakenFor, LockCheck
  <2>5. \A d \in Cpus : pc'[d] = "store44" => loaded'[d] = count
    BY <2>1 DEF Inv, StoresAreFresh, LockCheck
  <2>6. \A d \in Cpus : hpc'[d] = "give155" => owner = d
    BY DEF Inv, GiversOwn, LockCheck
  <2>7. \A d \in Cpus : pc[d] = "got75" => pc'[d] = "got75"
    BY <2>1
  <2> QED BY <2>2, <2>3, <2>4, <2>5, <2>6, <2>7, QuietStep DEF LockCheck
<1> QED BY <1>1, <1>2

\* the request goes out: c starts to wait
LEMMA LockSendGlobal ==
  ASSUME Inv, NEW c \in Cpus, LockSend(c)
  PROVE  GlobalStep
<1>0. TypeOK /\ LocalInv /\ RequestsAreLive /\ Queued /\ UniqueRequests
  BY DEF Inv, RequestsAreLive
<1>1. pc'[c] = "wait72" /\ pc[c] = "send71" /\ \A d \in Cpus \ {c} : pc'[d] = pc[d]
  BY DEF LockSend, Inv, TypeOK
<1>2. ~Requested(c)
  BY <1>0, <1>1 DEF RequestsAreLive, Waiting
<1>3. saved[c] \in Cpus
  BY <1>0, <1>1 DEF LocalInv, TargetsAreCpus
<1>4. UniqueRequests' /\ \A d \in Cpus : Requested(d)' <=> Requested(d) \/ d = c
  BY <1>0, <1>2, <1>3, SendRequest DEF LockSend
<1>5. ~trigger[c]
  BY <1>0, <1>1 DEF Queued, Orphaned, QueueInv, HasLock, Holds, Waiting
<1>6. RequestsAreLive'
  BY <1>0, <1>1, <1>4, <1>5 DEF RequestsAreLive, Waiting, LockSend
<1>7. \A d \in Cpus : HasLock(d)' <=> HasLock(d)
  BY <1>1 DEF HasLock, Holds, TakenFor, InCriticalSection, LockSend
<1>8. \A d \in Cpus : trigger'[d] => Waiting(d)' \/ pc'[d] = "got75"
  BY <1>0, <1>1 DEF Queued, Orphaned, QueueInv, HasLock, Holds, Waiting, LockSend
<1>9. QueuedStep
  <2>1. \A d \in Cpus : Waiting(d) /\ ~HasLock(d) /\ ~Requested(d) =>
                          Waiting(d)' /\ ~Requested(d)'
    BY <1>1, <1>4 DEF Waiting
  <2> QED BY <1>0, <1>7, <1>8, <2>1, SameQueue DEF LockSend
<1>10. StoresAreFresh'
  BY <1>1 DEF Inv, StoresAreFresh, LockSend
<1>11. GiversOwn'
  BY DEF Inv, GiversOwn, LockSend
<1> QED BY <1>6, <1>9, <1>10, <1>11 DEF GlobalInv, GlobalStep, QueuedStep

\* c sees its trigger
LEMMA LockWaitGlobal ==
  ASSUME Inv, NEW c \in Cpus, LockWait(c)
  PROVE  GlobalStep
<1>0. TypeOK /\ LocalInv /\ RequestsAreLive /\ Queued /\ UniqueRequests
  BY DEF Inv, RequestsAreLive
<1>1. CASE ~trigger[c]
  BY <1>1, QuietGoto DEF LockWait
<1>2. CASE trigger[c]
  <2>1. pc'[c] = "got75" /\ pc[c] = "wait72" /\ \A d \in Cpus \ {c} : pc'[d] = pc[d]
    BY <1>2 DEF LockWait, Inv, TypeOK
  <2>2. \A d \in Cpus : Requested(d)' <=> Requested(d)
    BY DEF Requested, LockWait
  <2>3. UniqueRequests'
    BY <1>0 DEF UniqueRequests, LockWait
  <2>4. RequestsAreLive'
    BY <1>0, <1>2, <2>1, <2>2, <2>3 DEF RequestsAreLive, Waiting, LockWait
  <2>5. \A d \in Cpus : HasLock(d)' <=> HasLock(d)
    BY <1>2, <2>1 DEF HasLock, Holds, TakenFor, InCriticalSection, LockWait
  <2>6. \A d \in Cpus : trigger'[d] => Waiting(d)' \/ pc'[d] = "got75"
    BY <1>0, <2>1 DEF Queued, Orphaned, QueueInv, HasLock, Holds, Waiting, LockWait
  <2>7. QueuedStep
    <3>1. \A d \in Cpus : Waiting(d) /\ ~HasLock(d) /\ ~Requested(d) =>
                            Waiting(d)' /\ ~Requested(d)'
      BY <1>2, <2>1, <2>2 DEF Waiting, HasLock, Holds
    <3> QED BY <1>0, <2>5, <2>6, <3>1, SameQueue DEF LockWait
  <2>8. StoresAreFresh'
    BY <2>1 DEF Inv, StoresAreFresh, LockWait
  <2>9. GiversOwn'
    BY DEF Inv, GiversOwn, LockWait
  <2> QED BY <2>4, <2>7, <2>8, <2>9 DEF GlobalInv, GlobalStep, QueuedStep
<1> QED BY <1>1, <1>2

\* c resets its trigger and enters
LEMMA LockGotGlobal ==
  ASSUME Inv, NEW c \in Cpus, LockGot(c)
  PROVE  GlobalStep
<1>0. TypeOK /\ LocalInv /\ RequestsAreLive /\ Queued /\ UniqueRequests
  BY DEF Inv, RequestsAreLive
<1>1. /\ pc'[c] = "poll43" /\ pc[c] = "got75" /\ \A d \in Cpus \ {c} : pc'[d] = pc[d]
      /\ ~trigger'[c] /\ \A d \in Cpus \ {c} : trigger'[d] = trigger[d]
  BY DEF LockGot, Inv, TypeOK
<1>2. \A d \in Cpus : Requested(d)' <=> Requested(d)
  BY DEF Requested, LockGot
<1>3. UniqueRequests'
  BY <1>0 DEF UniqueRequests, LockGot
<1>4. RequestsAreLive'
  BY <1>0, <1>1, <1>2, <1>3 DEF RequestsAreLive, Waiting
<1>5. \A d \in Cpus : HasLock(d)' <=> HasLock(d)
  BY <1>1 DEF HasLock, Holds, TakenFor, InCriticalSection, LockGot
<1>6. \A d \in Cpus : trigger'[d] => Waiting(d)' \/ pc'[d] = "got75"
  BY <1>0, <1>1 DEF Queued, Orphaned, QueueInv, HasLock, Holds, Waiting
<1>7. QueuedStep
  <2>1. \A d \in Cpus : Waiting(d) /\ ~HasLock(d) /\ ~Requested(d) =>
                          Waiting(d)' /\ ~Requested(d)'
    BY <1>1, <1>2 DEF Waiting
  <2> QED BY <1>0, <1>5, <1>6, <2>1, SameQueue DEF LockGot
<1>8. StoresAreFresh'
  BY <1>1 DEF Inv, StoresAreFresh, LockGot
<1>9. GiversOwn'
  BY DEF Inv, GiversOwn, LockGot
<1> QED BY <1>4, <1>7, <1>8, <1>9 DEF GlobalInv, GlobalStep, QueuedStep

\* the free lock gets an owner: a new queue of one
LEMMA NewQueue ==
  ASSUME Inv, NEW a \in Cpus, owner = None, owner' = a, UNCHANGED <<trigger, waiter>>,
         \A d \in Cpus : HasLock(d)' <=> d = a
  PROVE  QueuedStep
<1>1. QueueInv
  BY DEF Inv, Queued, Orphaned
<1>2. \A d \in Cpus : ~HasLock(d) /\ ~Linked(d) /\ ~trigger[d]
  BY <1>1 DEF QueueInv, Member, HasLock
<1>3. \A d \in Cpus : waiter[d] = None
  BY <1>2 DEF Linked, Inv, TypeOK
<1>4. \A d \in Cpus : ~Linked(d)'
  BY <1>2 DEF Linked
<1>5. \A d \in Cpus : Member(d)' <=> d = a
  BY <1>4 DEF Member
<1>6. \A d \in Cpus : Behind(d, d)'
  BY DEF Behind
<1>7. QueueInv'
  BY <1>2, <1>3, <1>4, <1>5, <1>6 DEF QueueInv
<1> QED BY <1>7 DEF Queued, QueuedStep

LEMMA LockCasGlobal ==
  ASSUME Inv, NEW c \in Cpus, LockCas(c)
  PROVE  GlobalStep
<1>0. TypeOK /\ LocalInv /\ RequestsAreLive /\ Queued /\ UniqueRequests
  BY DEF Inv, RequestsAreLive
<1>1. CASE owner # None
  <2>1. owner # c
    BY <1>0, TryingIsNotOwner DEF LockCas
  <2> QED BY <1>1, <2>1, QuietGoto DEF LockCas
<1>2. CASE owner = None
  <2>1. /\ pc'[c] = "check56" /\ pc[c] = "cas52" /\ \A d \in Cpus \ {c} : pc'[d] = pc[d]
        /\ owner' = c
    BY <1>2 DEF LockCas, Inv, TypeOK
  <2>2. \A d \in Cpus : Requested(d)' <=> Requested(d)
    BY DEF Requested, LockCas
  <2>3. UniqueRequests'
    BY <1>0 DEF UniqueRequests, LockCas
  <2>4. RequestsAreLive'
    BY <1>0, <2>1, <2>2, <2>3 DEF RequestsAreLive, Waiting, LockCas
  <2>5. \A d \in Cpus : ~HasLock(d)
    BY <1>0, <1>2 DEF Queued, Orphaned, QueueInv, Member
  <2>6. \A d \in Cpus : HasLock(d)' <=> d = c
    BY <2>1, <2>5 DEF HasLock, Holds, TakenFor, InCriticalSection, LockCas
  <2>7. QueuedStep
    BY <1>2, <2>1, <2>6, NewQueue DEF LockCas
  <2>8. StoresAreFresh'
    BY <2>1 DEF Inv, StoresAreFresh, LockCas
  <2>9. GiversOwn'
    BY <1>2 DEF Inv, GiversOwn, LockCas
  <2> QED BY <2>4, <2>7, <2>8, <2>9 DEF GlobalInv, GlobalStep, QueuedStep
<1> QED BY <1>1, <1>2

(***************************************************************************)
(* count++ and myunlock                                                    *)
(***************************************************************************)
LEMMA CountGlobal ==
  ASSUME Inv, NEW c \in Cpus, CountLoad(c) \/ CountStore(c)
  PROVE  GlobalStep
<1>1. CASE CountLoad(c)
  <2>1. loaded'[c] = count /\ \A d \in Cpus \ {c} : loaded'[d] = loaded[d]
    BY <1>1 DEF CountLoad, Inv, TypeOK
  <2> QED BY <1>1, <2>1, QuietGoto DEF CountLoad
<1>2. CASE CountStore(c)
  <2>0. TypeOK /\ LocalInv /\ RequestsAreLive /\ Queued /\ UniqueRequests
    BY DEF Inv, RequestsAreLive
  <2>1. /\ pc'[c] = "poll45" /\ pc[c] = "store44" /\ \A d \in Cpus \ {c} : pc'[d] = pc[d]
        /\ \A d \in Cpus \ {c} : loaded'[d] = loaded[d]
    BY <1>2 DEF CountStore, Inv, TypeOK
  <2>2. InCriticalSection(c)
    BY <2>1 DEF InCriticalSection
  <2>3. \A d \in Cpus \ {c} : ~HasLock(d)
    BY <2>0, <2>2, Inside
  <2>4. StoresAreFresh'
    BY <2>1, <2>3 DEF StoresAreFresh, HasLock, Holds, InCriticalSection
  <2>5. GiversOwn'
    BY <1>2 DEF Inv, GiversOwn, CountStore
  <2>6. \A d \in Cpus : Requested(d)' <=> Requested(d)
    BY <1>2 DEF Requested, CountStore
  <2>7. UniqueRequests'
    <3>1. queue' = queue /\ ask' = ask
      BY <1>2 DEF CountStore
    <3> QED BY <2>0, <3>1 DEF UniqueRequests
  <2>8. RequestsAreLive'
    BY <1>2, <2>0, <2>1, <2>6, <2>7 DEF RequestsAreLive, Waiting, CountStore
  <2>9. \A d \in Cpus : HasLock(d)' <=> HasLock(d)
    BY <1>2, <2>1 DEF HasLock, Holds, TakenFor, InCriticalSection, CountStore
  <2>10. \A d \in Cpus : trigger'[d] => Waiting(d)' \/ pc'[d] = "got75"
    BY <1>2, <2>0, <2>1 DEF Queued, Orphaned, QueueInv, HasLock, Waiting, CountStore
  <2>11. QueuedStep
    <3>1. \A d \in Cpus : Waiting(d) /\ ~HasLock(d) /\ ~Requested(d) =>
                            Waiting(d)' /\ ~Requested(d)'
      BY <2>1, <2>6 DEF Waiting
    <3> QED BY <1>2, <2>0, <2>9, <2>10, <3>1, SameQueue DEF CountStore
  <2> QED BY <2>4, <2>5, <2>8, <2>11 DEF GlobalInv, GlobalStep, QueuedStep
<1> QED BY <1>1, <1>2

\* the trigger of the next cpu is set: it becomes the head of the queue
LEMMA UnlockHandOverGlobal ==
  ASSUME Inv, NEW c \in Cpus, UnlockHandOver(c)
  PROVE  GlobalStep
<1>0. TypeOK /\ LocalInv /\ RequestsAreLive /\ Queued /\ UniqueRequests
  BY DEF Inv, RequestsAreLive
<1>1. PICK w \in Cpus : waiter[c] = w
  BY <1>0 DEF UnlockHandOver, TypeOK
<1>2. /\ pc'[c] = "eui101" /\ pc[c] = "unlock91" /\ \A d \in Cpus \ {c} : pc'[d] = pc[d]
      /\ trigger'[w] /\ \A d \in Cpus \ {w} : trigger'[d] = trigger[d]
      /\ waiter'[c] = None /\ \A d \in Cpus \ {c} : waiter'[d] = waiter[d]
      /\ UNCHANGED <<owner, queue, count, loaded, handlerVars>>
  BY <1>0, <1>1 DEF UnlockHandOver, TypeOK
<1>3. InCriticalSection(c)
  BY <1>2 DEF InCriticalSection
<1>4. /\ QueueInv /\ HasLock(c) /\ \A d \in Cpus : HasLock(d) => d = c
      /\ ~trigger[c] /\ ~Requested(c) /\ ~Linked(c) /\ \A h \in Cpus : ~TakenFor(h, c)
  BY <1>0, <1>3, Inside
<1>5. Linked(w) /\ Waiting(w) /\ ~HasLock(w) /\ ~Requested(w) /\ w # c
  <2>1. Linked(w)
    BY <1>1 DEF Linked
  <2> QED BY <1>4, <2>1 DEF QueueInv
<1>6. \A d \in Cpus : Requested(d)' <=> Requested(d)
  BY <1>2 DEF Requested
<1>7. RequestsAreLive'
  <2>1. UniqueRequests'
    BY <1>0, <1>2 DEF UniqueRequests
  <2> QED BY <1>0, <1>2, <1>5, <1>6, <2>1 DEF RequestsAreLive, Waiting
<1>8. \A d \in Cpus : HasLock(d)' <=> d = w
  <2>1. \A h, d \in Cpus : TakenFor(h, d)' <=> TakenFor(h, d)
    BY <1>2 DEF TakenFor
  <2>2. \A d \in Cpus \ {c} : Holds(d)' <=> Holds(d)
    BY <1>2 DEF Holds, InCriticalSection
  <2>3. ~Holds(c)'
    BY <1>2 DEF Holds, InCriticalSection
  <2> QED BY <1>2, <1>4, <1>5, <2>1, <2>2, <2>3 DEF HasLock
<1>9. \A d \in Cpus : Linked(d)' <=> Linked(d) /\ d # w
  <2>1. \A d, e \in Cpus : waiter[d] = waiter[e] /\ waiter[d] # None => d = e
    BY <1>4 DEF QueueInv
  <2> QED BY <1>1, <1>2, <2>1 DEF Linked
<1>10. \A d \in Cpus : Member(d)' <=> Member(d) /\ d # c
  BY <1>4, <1>5, <1>8, <1>9 DEF Member
<1>11. owner # None /\ owner # c
  BY <1>1, <1>4 DEF QueueInv, Member
<1>12. \A d \in Cpus : Member(d)' => Behind(w, d)'
  <2> SUFFICES ASSUME NEW d \in Cpus, Member(d)', NEW S \in SUBSET Cpus,
                      w \in S, ClosedUnderWaiter(S)'
               PROVE  d \in S
    BY DEF Behind
  <2>1. ClosedUnderWaiter(S \cup {c})
    BY <1>1, <1>2 DEF ClosedUnderWaiter
  <2>2. Behind(c, d)
    BY <1>4, <1>10 DEF QueueInv
  <2> QED BY <1>10, <2>1, <2>2 DEF Behind
<1>13. QueueInv'
  <2>1. \A d \in Cpus : trigger'[d] => Waiting(d)' \/ pc'[d] = "got75"
    <3>1. \A d \in Cpus : trigger[d] => d = c
      BY <1>4 DEF HasLock
    <3> QED BY <1>2, <1>4, <1>5, <3>1 DEF Waiting
  <2>2. \A d \in Cpus : Linked(d)' => Waiting(d)' /\ ~HasLock(d)' /\ ~Requested(d)'
    <3>1. \A d \in Cpus : Linked(d) => Waiting(d) /\ ~Requested(d)
      BY <1>4 DEF QueueInv
    <3> QED BY <1>2, <1>6, <1>8, <1>9, <3>1 DEF Waiting
  <2>3. \A d \in Cpus : waiter'[d] # None <=> Member(d)' /\ owner' # d
    <3>1. \A d \in Cpus : waiter[d] # None <=> Member(d) /\ owner # d
      BY <1>4 DEF QueueInv
    <3> QED BY <1>2, <1>10, <3>1
  <2>4. \A d, e \in Cpus : waiter'[d] = waiter'[e] /\ waiter'[d] # None => d = e
    <3>1. \A d, e \in Cpus : waiter[d] = waiter[e] /\ waiter[d] # None => d = e
      BY <1>4 DEF QueueInv
    <3> QED BY <1>2, <3>1
  <2>5. \A d \in Cpus : owner' = d => Member(d)'
    BY <1>2, <1>4, <1>10, <1>11 DEF QueueInv
  <2> QED BY <1>2, <1>8, <1>11, <1>12, <2>1, <2>2, <2>3, <2>4, <2>5 DEF QueueInv
<1>14. StoresAreFresh' /\ GiversOwn'
  BY <1>2 DEF Inv, StoresAreFresh, GiversOwn
<1> QED BY <1>7, <1>13, <1>14 DEF GlobalInv, GlobalStep, Queued, QueuedStep

\* nobody waits: the lock becomes free
LEMMA UnlockFreeGlobal ==
  ASSUME Inv, NEW c \in Cpus, UnlockFree(c)
  PROVE  GlobalStep
<1>0. TypeOK /\ LocalInv /\ RequestsAreLive /\ Queued /\ UniqueRequests
  BY DEF Inv, RequestsAreLive
<1>1. /\ pc'[c] = "eui101" /\ pc[c] = "unlock91" /\ \A d \in Cpus \ {c} : pc'[d] = pc[d]
      /\ waiter[c] = None /\ owner' = None
      /\ UNCHANGED <<trigger, waiter, queue, count, loaded, handlerVars>>
  BY <1>0 DEF UnlockFree, TypeOK
<1>2. InCriticalSection(c)
  BY <1>1 DEF InCriticalSection
<1>3. /\ QueueInv /\ HasLock(c) /\ \A d \in Cpus : HasLock(d) => d = c
      /\ ~trigger[c] /\ ~Requested(c) /\ ~Linked(c) /\ \A h \in Cpus : ~TakenFor(h, c)
  BY <1>0, <1>2, Inside
<1>4. \A d \in Cpus : Member(d) => d = c
  <2>1. ClosedUnderWaiter({c})
    BY <1>1 DEF ClosedUnderWaiter
  <2> QED BY <1>3, <2>1 DEF QueueInv, Behind
<1>5. owner = c
  <2>1. waiter[c] # None <=> Member(c) /\ owner # c
    BY <1>3 DEF QueueInv
  <2> QED BY <1>1, <1>3, <2>1 DEF Member
<1>6. \A d \in Cpus : ~Linked(d) /\ waiter[d] = None /\ ~trigger[d]
  <2>1. \A d \in Cpus : ~Linked(d)
    BY <1>3, <1>4 DEF Member
  <2>2. \A d \in Cpus : ~trigger[d]
    BY <1>3, <1>4 DEF Member, HasLock
  <2> QED BY <1>0, <2>1, <2>2 DEF Linked, TypeOK
<1>7. \A d \in Cpus : ~HasLock(d)' /\ ~Linked(d)'
  <2>1. \A h, d \in Cpus : ~TakenFor(h, d)'
    <3>1. \A h, d \in Cpus : TakenFor(h, d)' => TakenFor(h, d)
      BY <1>1 DEF TakenFor
    <3> QED BY <1>3, <1>4, <3>1 DEF Member, HasLock
  <2>2. \A d \in Cpus \ {c} : Holds(d)' => Holds(d)
    BY <1>1 DEF Holds, InCriticalSection
  <2>3. ~Holds(c)'
    BY <1>1 DEF Holds, InCriticalSection
  <2>4. \A d \in Cpus : ~Holds(d)'
    BY <1>3, <2>2, <2>3 DEF HasLock
  <2> QED BY <1>1, <1>6, <2>1, <2>4 DEF HasLock, Linked
<1>8. QueueInv'
  BY <1>1, <1>6, <1>7 DEF QueueInv, Member
<1>9. \A d \in Cpus : Requested(d)' <=> Requested(d)
  BY <1>1 DEF Requested
<1>10. RequestsAreLive'
  <2>1. UniqueRequests'
    BY <1>0, <1>1 DEF UniqueRequests
  <2> QED BY <1>0, <1>1, <1>9, <2>1 DEF RequestsAreLive, Waiting
<1>11. StoresAreFresh'
  BY <1>1 DEF Inv, StoresAreFresh
<1>12. GiversOwn'
  BY <1>0, <1>1, <1>5 DEF Inv, GiversOwn, LocalInv, HandlersRunInPolls, PollPoints
<1> QED BY <1>8, <1>10, <1>11, <1>12 DEF GlobalInv, GlobalStep, Queued, QueuedStep

(***************************************************************************)
(* i_handler and the sleep                                                 *)
(***************************************************************************)
LEMMA PollGlobal ==
  ASSUME Inv, NEW c \in Cpus, PollReturns(c)
  PROVE  GlobalStep
<1>0. TypeOK /\ LocalInv
  BY DEF Inv
<1>1. pc[c] \in PollPoints /\ ~InAddme(c)
  BY <1>0, LocalPollReturns
<1>2. /\ pc'[c] = AfterPoll(c) /\ \A d \in Cpus \ {c} : pc'[d] = pc[d]
      /\ hpc'[c] = "off" /\ \A d \in Cpus \ {c} : hpc'[d] = hpc[d]
      /\ UNCHANGED <<lockVars, queue, ask, count, loaded>>
  BY <1>0 DEF PollReturns, TypeOK
<1>3. /\ AfterPoll(c) \in {"wait72", "waitpoll72"} <=> pc[c] \in {"wait72", "waitpoll72"}
      /\ AfterPoll(c) \in {"poll43", "load44", "store44", "poll45", "unlock91"} <=>
           pc[c] \in {"poll43", "load44", "store44", "poll45", "unlock91"}
      /\ AfterPoll(c) \notin {"got75", "check56", "store44"}
      /\ pc[c] \notin {"got75", "check56"}
  BY <1>1 DEF AfterPoll, PollPoints
<1>4. \A d \in Cpus : Waiting(d)' <=> Waiting(d)
  BY <1>2, <1>3 DEF Waiting
<1>5. \A d \in Cpus : Holds(d)' <=> Holds(d)
  BY <1>2, <1>3 DEF Holds, InCriticalSection
<1>6. \A d \in Cpus : pc[d] = "got75" => pc'[d] = "got75"
  BY <1>2, <1>3
<1>7. \A d \in Cpus : pc'[d] = "store44" => loaded'[d] = count
  BY <1>2, <1>3 DEF Inv, StoresAreFresh
<1>8. \A d, h \in Cpus : TakenFor(h, d)' <=> TakenFor(h, d)
  BY <1>1, <1>2 DEF TakenFor, InAddme, AddmePoints
<1>9. \A d \in Cpus : hpc'[d] = "give155" => owner = d
  BY <1>2 DEF Inv, GiversOwn
<1> QED BY <1>2, <1>4, <1>5, <1>6, <1>7, <1>8, <1>9, QuietStep

\* what is left when a step does not touch the threads outside of addme
LEMMA HandlerStep ==
  ASSUME Inv, UNCHANGED <<owner, waiter, mainVars>>,
         UniqueRequests',
         \A d \in Cpus : Requested(d)' => Requested(d) /\ ~trigger'[d],
         \A d \in Cpus : HasLock(d)' <=> HasLock(d),
         \A d \in Cpus : trigger'[d] => trigger[d] \/ Waiting(d),
         \A d \in Cpus : hpc'[d] = "give155" => hpc[d] = "give155"
  PROVE  GlobalStep
<1>0. TypeOK /\ LocalInv /\ RequestsAreLive /\ Queued /\ UniqueRequests
  BY DEF Inv, RequestsAreLive
<1>1. \A d \in Cpus : Waiting(d)' <=> Waiting(d)
  BY DEF Waiting
<1>2. RequestsAreLive'
  BY <1>0, <1>1 DEF RequestsAreLive
<1>3. \A d \in Cpus : trigger'[d] => Waiting(d)' \/ pc'[d] = "got75"
  BY <1>0, <1>1 DEF Queued, Orphaned, QueueInv, HasLock
<1>4. QueuedStep
  BY <1>0, <1>1, <1>3, SameQueue
<1>5. StoresAreFresh' /\ GiversOwn'
  BY DEF Inv, StoresAreFresh, GiversOwn
<1> QED BY <1>2, <1>4, <1>5 DEF GlobalInv, GlobalStep, QueuedStep

LEMMA DequeueGlobal ==
  ASSUME Inv, NEW c \in Cpus, Dequeue(c)
  PROVE  GlobalStep
<1>0. TypeOK /\ LocalInv /\ RequestsAreLive /\ Queued /\ UniqueRequests
  BY DEF Inv, RequestsAreLive
<1>1. ~InAddme(c) /\ ask[c] = None
  BY <1>0, LocalDequeue DEF LocalInv, AsksInHandlers
<1>2. UniqueRequests' /\ \A d \in Cpus : Requested(d)' <=> Requested(d)
  BY <1>0, <1>1, TakeRequest DEF Dequeue
<1>3. \A d, h \in Cpus : TakenFor(h, d)' <=> TakenFor(h, d)
  <2>1. /\ hpc'[c] = "owner119"
        /\ \A h \in Cpus \ {c} : hpc'[h] = hpc[h] /\ ask'[h] = ask[h]
        /\ owner' = owner
    BY <1>0 DEF Dequeue, TypeOK
  <2> QED BY <1>1, <2>1 DEF TakenFor, InAddme, AddmePoints
<1>4. \A d \in Cpus : HasLock(d)' <=> HasLock(d)
  BY <1>3 DEF HasLock, Holds, InCriticalSection, Dequeue
<1>5. \A d \in Cpus : Requested(d)' => Requested(d) /\ ~trigger'[d]
  BY <1>0, <1>2 DEF RequestsAreLive, Dequeue
<1>6. \A d \in Cpus : hpc'[d] = "give155" => hpc[d] = "give155"
  BY <1>0 DEF Dequeue, TypeOK
<1>7. \A d \in Cpus : trigger'[d] => trigger[d] \/ Waiting(d)
  BY DEF Dequeue
<1> QED BY <1>2, <1>4, <1>5, <1>6, <1>7, HandlerStep DEF Dequeue

LEMMA AddmeForwardGlobal ==
  ASSUME Inv, NEW c \in Cpus, AddmeForward(c)
  PROVE  GlobalStep
<1>0. TypeOK /\ LocalInv /\ RequestsAreLive /\ Queued /\ UniqueRequests
  BY DEF Inv, RequestsAreLive
<1>1. ask[c] \in Cpus /\ hsaved[c] \in Cpus
  BY <1>0, LocalAddme DEF Addme, AddmeForward, LocalInv, TargetsAreCpus
<1>2. UniqueRequests' /\ \A d \in Cpus : Requested(d)' <=> Requested(d)
  BY <1>0, <1>1, ForwardRequest DEF AddmeForward
<1>3. /\ hpc[c] = "send152" /\ hpc'[c] = "loop"
      /\ \A h \in Cpus \ {c} : hpc'[h] = hpc[h] /\ ask'[h] = ask[h]
      /\ UNCHANGED <<lockVars, mainVars>>
  BY <1>0 DEF AddmeForward, TypeOK
<1>4. \A d, h \in Cpus : TakenFor(h, d)' <=> TakenFor(h, d)
  BY <1>3 DEF TakenFor
<1>5. \A d \in Cpus : HasLock(d)' <=> HasLock(d)
  BY <1>3, <1>4 DEF HasLock, Holds, InCriticalSection
<1>6. \A d \in Cpus : Requested(d)' => Requested(d) /\ ~trigger'[d]
  BY <1>0, <1>2, <1>3 DEF RequestsAreLive
<1>7. \A d \in Cpus : hpc'[d] = "give155" => hpc[d] = "give155"
  BY <1>3
<1>8. \A d \in Cpus : trigger'[d] => trigger[d] \/ Waiting(d)
  BY <1>3
<1> QED BY <1>2, <1>3, <1>5, <1>6, <1>7, <1>8, HandlerStep

\* addme triggers the cpu it has taken the lock for
LEMMA AddmeTriggerGlobal ==
  ASSUME Inv, NEW c \in Cpus, AddmeTrigger(c)
  PROVE  GlobalStep
<1>0. TypeOK /\ LocalInv /\ RequestsAreLive /\ Queued /\ UniqueRequests
  BY DEF Inv, RequestsAreLive
<1>1. ask[c] \in Cpus
  BY <1>0, LocalAddme DEF Addme
<1>2. PICK a \in Cpus : a = ask[c]
  BY <1>1
<1>3. Requested(a) /\ Waiting(a) /\ TakenFor(c, a)
  BY <1>0, <1>2 DEF Requested, RequestsAreLive, TakenFor, AddmeTrigger
<1>4. UniqueRequests' /\ \A d \in Cpus : Requested(d)' <=> Requested(d) /\ d # a
  BY <1>0, <1>1, <1>2, DropRequest DEF AddmeTrigger
<1>5. /\ hpc'[c] = "loop" /\ ask'[c] = None
      /\ \A h \in Cpus \ {c} : hpc'[h] = hpc[h] /\ ask'[h] = ask[h]
      /\ trigger'[a] /\ \A d \in Cpus \ {a} : trigger'[d] = trigger[d]
      /\ UNCHANGED <<owner, waiter, mainVars>>
  BY <1>0, <1>2 DEF AddmeTrigger, TypeOK
<1>6. \A d \in Cpus \ {a}, h \in Cpus : TakenFor(h, d)' <=> TakenFor(h, d)
  BY <1>2, <1>5 DEF TakenFor
<1>7. \A d \in Cpus : HasLock(d)' <=> HasLock(d)
  <2>1. HasLock(a) /\ HasLock(a)'
    BY <1>3, <1>5 DEF HasLock
  <2>2. \A d \in Cpus : Holds(d)' <=> Holds(d)
    BY <1>5 DEF Holds, InCriticalSection
  <2>3. \A d \in Cpus \ {a} : HasLock(d)' <=> HasLock(d)
    BY <1>5, <1>6, <2>2 DEF HasLock
  <2> QED BY <2>1, <2>3
<1>8. \A d \in Cpus : Requested(d)' => Requested(d) /\ ~trigger'[d]
  BY <1>0, <1>4, <1>5 DEF RequestsAreLive
<1>9. \A d \in Cpus : hpc'[d] = "give155" => hpc[d] = "give155"
  BY <1>5
<1>10. \A d \in Cpus : trigger'[d] => trigger[d] \/ Waiting(d)
  BY <1>3, <1>5
<1> QED BY <1>4, <1>5, <1>7, <1>8, <1>9, <1>10, HandlerStep

\* addme tries to take the lock, which looked free, for its asker
LEMMA AddmeCasGlobal ==
  ASSUME Inv, NEW c \in Cpus, AddmeCas(c)
  PROVE  GlobalStep
<1>0. TypeOK /\ LocalInv /\ RequestsAreLive /\ Queued /\ UniqueRequests
  BY DEF Inv, RequestsAreLive
<1>1. InAddme(c) /\ hpc[c] \notin {"check125", "trigger139"}
  BY DEF AddmeCas, InAddme, AddmePoints
<1>2. ask[c] \in Cpus /\ owner # ask[c]
  BY <1>0, <1>1, AskerWaits
<1>3. PICK a \in Cpus : a = ask[c]
  BY <1>2
<1>4. /\ hpc'[c] = "check125" /\ hpc[c] = "cas121"
      /\ \A h \in Cpus \ {c} : hpc'[h] = hpc[h]
      /\ UNCHANGED <<trigger, waiter, queue, mainVars, ask>>
      /\ owner' = IF owner = None THEN a ELSE owner
  BY <1>0, <1>3 DEF AddmeCas, TypeOK
<1>5. \A d \in Cpus : Requested(d)' <=> Requested(d)
  BY <1>4 DEF Requested
<1>6. RequestsAreLive'
  <2>1. UniqueRequests'
    BY <1>0, <1>4 DEF UniqueRequests
  <2> QED BY <1>0, <1>4, <1>5, <2>1 DEF RequestsAreLive, Waiting
<1>7. CASE owner = None
  <2>1. \A d \in Cpus : ~HasLock(d)
    BY <1>0, <1>7 DEF Queued, Orphaned, QueueInv, Member
  <2>2. TakenFor(c, a)'
    BY <1>3, <1>4, <1>7 DEF TakenFor
  <2>3. \A d \in Cpus \ {a}, h \in Cpus : TakenFor(h, d)' => TakenFor(h, d)
    BY <1>3, <1>4, <1>7 DEF TakenFor
  <2>4. \A d \in Cpus \ {a} : Holds(d)' => Holds(d)
    BY <1>4, <1>7 DEF Holds, InCriticalSection
  <2>5. \A d \in Cpus : HasLock(d)' <=> d = a
    BY <1>4, <2>1, <2>2, <2>3, <2>4 DEF HasLock
  <2>6. QueuedStep
    BY <1>4, <1>7, <2>5, NewQueue
  <2>7. GiversOwn' /\ StoresAreFresh'
    BY <1>4, <1>7 DEF Inv, GiversOwn, StoresAreFresh
  <2> QED BY <1>6, <2>6, <2>7 DEF GlobalInv, GlobalStep, QueuedStep
<1>8. CASE owner # None
  <2>1. \A d \in Cpus, h \in Cpus : TakenFor(h, d)' <=> TakenFor(h, d)
    BY <1>2, <1>4, <1>8 DEF TakenFor
  <2>2. \A d \in Cpus : HasLock(d)' <=> HasLock(d)
    BY <1>4, <1>8, <2>1 DEF HasLock, Holds, InCriticalSection
  <2>3. \A d \in Cpus : Requested(d)' => Requested(d) /\ ~trigger'[d]
    BY <1>0, <1>4, <1>5 DEF RequestsAreLive
  <2>4. \A d \in Cpus : trigger'[d] => trigger[d] \/ Waiting(d)
    BY <1>4
  <2>5. \A d \in Cpus : hpc'[d] = "give155" => hpc[d] = "give155"
    BY <1>4
  <2>6. UniqueRequests'
    BY <1>6 DEF RequestsAreLive
  <2> QED BY <1>4, <1>8, <2>2, <2>3, <2>4, <2>5, <2>6, HandlerStep
<1> QED BY <1>7, <1>8

\* the other steps of addme before it acts
LEMMA AddmeQuiet ==
  ASSUME Inv, NEW c \in Cpus,
         AddmeOwner(c) \/ AddmeFree(c) \/ AddmeCheck(c) \/ AddmeSave(c)
  PROVE  GlobalStep
<1>1. CASE AddmeOwner(c)
  BY <1>1, QuietHandlerGoto DEF AddmeOwner
<1>2. CASE AddmeFree(c)
  BY <1>2, QuietHandlerGoto DEF AddmeFree
<1>3. CASE AddmeCheck(c)
  BY <1>3, QuietHandlerGoto DEF AddmeCheck
<1>4. CASE AddmeSave(c)
  BY <1>4, QuietHandlerGoto DEF AddmeSave
<1> QED BY <1>1, <1>2, <1>3, <1>4

(***************************************************************************)
(* The owner passes owner_id on to the cpu that asked.  That cpu becomes   *)
(* the new tail, unless the owner was made owner by an addme that has not  *)
(* looked at the outcome yet.                                              *)
(***************************************************************************)
LEMMA AddmeGiveGlobal ==
  ASSUME Inv, NEW c \in Cpus, AddmeGive(c)
  PROVE  GlobalInv' /\ (QueueInv /\ ~GivenAwayTooEarly => QueueInv')
<1>0. TypeOK /\ LocalInv /\ RequestsAreLive /\ Queued /\ UniqueRequests
  BY DEF Inv, RequestsAreLive
<1>1. hpc[c] = "give155" /\ InAddme(c) /\ hpc[c] \notin {"check125", "trigger139"}
  BY DEF AddmeGive, InAddme, AddmePoints
<1>2. owner = c
  BY <1>1 DEF Inv, GiversOwn
<1>3. PICK a \in Cpus : a = ask[c]
  BY <1>0, <1>1, AskerWaits
<1>4. /\ Requested(a) /\ Waiting(a) /\ ~trigger[a] /\ ~HasLock(a) /\ a # c
      /\ QueueInv => ~Linked(a)
  BY <1>0, <1>1, <1>2, <1>3, AskerWaits
<1>5. /\ hpc'[c] = "loop" /\ ask'[c] = None
      /\ \A h \in Cpus \ {c} : hpc'[h] = hpc[h] /\ ask'[h] = ask[h]
      /\ owner' = a
      /\ waiter'[c] = a /\ \A d \in Cpus \ {c} : waiter'[d] = waiter[d]
      /\ UNCHANGED <<trigger, queue, mainVars>>
  BY <1>0, <1>3 DEF AddmeGive, TypeOK
<1>6. UniqueRequests' /\ \A d \in Cpus : Requested(d)' <=> Requested(d) /\ d # a
  BY <1>0, <1>3, DropRequest DEF AddmeGive
<1>7. RequestsAreLive'
  BY <1>0, <1>5, <1>6 DEF RequestsAreLive, Waiting
<1>8. GiversOwn' /\ StoresAreFresh'
  BY <1>2, <1>5 DEF Inv, GiversOwn, StoresAreFresh
<1>9. \A d \in Cpus : ~(pc'[d] = "check56" /\ owner' = d)
  BY <1>4, <1>5 DEF Waiting
<1>10. \A h \in Cpus : ~TakenFor(h, a)'
  BY <1>0, <1>3, <1>5, <1>6 DEF TakenFor, Requested
<1>11. \A d \in Cpus : HasLock(d)' => HasLock(d)
  <2>1. \A d \in Cpus : Holds(d)' => Holds(d)
    BY <1>5, <1>9 DEF Holds, InCriticalSection
  <2>2. \A d, h \in Cpus : TakenFor(h, d)' => TakenFor(h, d)
    BY <1>5, <1>10 DEF TakenFor
  <2> QED BY <1>5, <2>1, <2>2 DEF HasLock
<1>12. CASE Orphaned
  <2>1. Orphaned'
    BY <1>4, <1>5, <1>6, <1>11, <1>12 DEF Orphaned, Waiting
  <2>2. ~QueueInv
    BY <1>12 DEF Orphaned, QueueInv
  <2> QED BY <1>7, <1>8, <2>1, <2>2 DEF GlobalInv, Queued
<1>13. CASE QueueInv /\ GivenAwayTooEarly
  <2>1. PICK h \in Cpus, b \in Cpus :
          hpc[h] = "check125" /\ ask[h] = b /\ owner = b
    BY <1>13 DEF GivenAwayTooEarly
  <2>2. ask[h] = c /\ TakenFor(h, c)
    BY <1>2, <2>1 DEF TakenFor
  <2>3. HasLock(c) /\ Requested(c)
    BY <2>2 DEF HasLock, Requested
  <2>4. Waiting(c) /\ ~trigger[c] /\ \A g \in Cpus : ask[g] = c => g = h
    BY <1>0, <2>2, <2>3 DEF RequestsAreLive, UniqueRequests
  <2>5. ~HasLock(c)'
    <3>1. ~Holds(c)'
      BY <1>5, <1>9, <2>4 DEF Holds, InCriticalSection, Waiting
    <3>2. \A g \in Cpus : ~TakenFor(g, c)'
      BY <1>4, <1>5, <2>1, <2>4 DEF TakenFor
    <3> QED BY <1>5, <2>4, <3>1, <3>2 DEF HasLock
  <2>6. \A d \in Cpus : ~HasLock(d)'
    BY <1>11, <1>13, <2>3, <2>5 DEF QueueInv
  <2>7. Orphaned'
    BY <1>4, <1>5, <1>6, <2>6 DEF Orphaned, Waiting
  <2> QED BY <1>7, <1>8, <1>13, <2>7 DEF GlobalInv, Queued
<1>14. CASE QueueInv /\ ~GivenAwayTooEarly
  <2>1. \A h \in Cpus : hpc[h] = "check125" => ask[h] # c
    BY <1>2, <1>14 DEF GivenAwayTooEarly
  <2>2. \A d \in Cpus : HasLock(d) => HasLock(d)'
    <3>1. \A d \in Cpus : Holds(d) => Holds(d)'
      BY <1>0, <1>1, <1>2, <1>5
         DEF Holds, InCriticalSection, LocalInv, HandlersRunInPolls, PollPoints
    <3>2. \A d, h \in Cpus : TakenFor(h, d) => TakenFor(h, d)'
      BY <1>1, <1>2, <1>5, <2>1 DEF TakenFor
    <3> QED BY <1>5, <3>1, <3>2 DEF HasLock
  <2>3. Member(c) /\ waiter[c] = None /\ ~Member(a) /\ waiter[a] = None
    BY <1>2, <1>4, <1>14 DEF QueueInv, Member
  <2>4. \A d \in Cpus : Linked(d)' <=> Linked(d) \/ d = a
    BY <1>5, <2>3 DEF Linked
  <2>5. \A d \in Cpus : Member(d)' <=> Member(d) \/ d = a
    BY <1>11, <2>2, <2>4 DEF Member
  <2>6. \A d, e \in Cpus : HasLock(d)' /\ Member(e)' => Behind(d, e)'
    <3> SUFFICES ASSUME NEW d \in Cpus, NEW e \in Cpus, HasLock(d)', Member(e)',
                        NEW S \in SUBSET Cpus, d \in S, ClosedUnderWaiter(S)'
                 PROVE  e \in S
      BY DEF Behind
    <3>1. ClosedUnderWaiter(S)
      BY <1>5, <2>3 DEF ClosedUnderWaiter
    <3>2. \A x \in Cpus : Member(x) => x \in S
      BY <1>11, <1>14, <3>1 DEF QueueInv, Behind
    <3>3. a \in S
      BY <1>5, <2>3, <3>2 DEF ClosedUnderWaiter
    <3> QED BY <2>5, <3>2, <3>3
  <2>7. \A d \in Cpus : Linked(d)' => Waiting(d)' /\ ~HasLock(d)' /\ ~Requested(d)'
    <3>1. \A d \in Cpus : Linked(d) => Waiting(d) /\ ~HasLock(d) /\ ~Requested(d)
      BY <1>14 DEF QueueInv
    <3> QED BY <1>4, <1>5, <1>6, <1>11, <2>4, <3>1 DEF Waiting
  <2>8. \A d \in Cpus : waiter'[d] # None <=> Member(d)' /\ owner' # d
    <3>1. \A d \in Cpus : waiter[d] # None <=> Member(d) /\ owner # d
      BY <1>14 DEF QueueInv
    <3>2. ASSUME NEW d \in Cpus \ {a, c} PROVE waiter'[d] # None <=> Member(d)' /\ owner' # d
      BY <1>2, <1>5, <2>5, <3>1
    <3>3. waiter'[a] = None /\ owner' = a
      BY <1>5, <2>3
    <3>4. waiter'[c] # None /\ Member(c)' /\ owner' # c
      BY <1>5, <2>3, <2>5
    <3> QED BY <3>2, <3>3, <3>4
  <2>9. \A d, e \in Cpus : waiter'[d] = waiter'[e] /\ waiter'[d] # None => d = e
    <3>1. \A d, e \in Cpus : waiter[d] = waiter[e] /\ waiter[d] # None => d = e
      BY <1>14 DEF QueueInv
    <3>2. \A d \in Cpus : waiter[d] # a
      BY <2>3 DEF Member, Linked
    <3> QED BY <1>5, <3>1, <3>2
  <2>10. \A d \in Cpus : trigger'[d] => Waiting(d)' \/ pc'[d] = "got75"
    BY <1>5, <1>14 DEF QueueInv, Waiting
  <2>11. QueueInv'
    BY <1>2, <1>5, <1>11, <1>14, <2>2, <2>5, <2>6, <2>7, <2>8, <2>9, <2>10 DEF QueueInv
  <2> QED BY <1>7, <1>8, <2>11 DEF GlobalInv, Queued
<1> QED BY <1>0, <1>12, <1>13, <1>14 DEF Queued

(***************************************************************************)
(* The invariant                                                           *)
(***************************************************************************)
LEMMA InvInit == Init => Inv
<1> SUFFICES ASSUME Init PROVE Inv
  OBVIOUS
<1>1. TypeOK /\ LocalInv
  BY LocalInit
<1>2. \A d \in Cpus : queue[d] = <<>> /\ ask[d] = None /\ waiter[d] = None /\ ~trigger[d]
  BY DEF Init
<1>3. \A d \in Cpus : ~HasLock(d) /\ ~Linked(d)
  BY <1>2 DEF Init, HasLock, Holds, InCriticalSection, TakenFor, Linked
<1>4. QueueInv
  BY <1>2, <1>3 DEF Init, QueueInv, Member
<1>5. \A d \in Cpus : ~Requested(d)
  BY <1>2 DEF Requested
<1>6. UniqueRequests
  BY <1>2 DEF UniqueRequests
<1>7. GiversOwn /\ StoresAreFresh
  BY DEF Init, GiversOwn, StoresAreFresh
<1> QED BY <1>1, <1>4, <1>5, <1>6, <1>7 DEF Inv, RequestsAreLive, Queued

\* a step of a thread
LEMMA ThreadGlobal ==
  ASSUME Inv, NEW c \in Cpus, Thread(c)
  PROVE  GlobalInv' /\ (QueueInv /\ ~GivenAwayTooEarly => QueueInv')
<1>1. CASE Mylock(c)
  BY <1>1, MylockQuiet, LockCasGlobal, LockCheckGlobal, LockSendGlobal, LockWaitGlobal,
     LockGotGlobal DEF Mylock, GlobalStep, QueuedStep
<1>2. CASE Myunlock(c)
  BY <1>2, UnlockHandOverGlobal, UnlockFreeGlobal DEF Myunlock, GlobalStep, QueuedStep
<1>3. CASE Addme(c)
  BY <1>3, AddmeQuiet, AddmeCasGlobal, AddmeForwardGlobal, AddmeTriggerGlobal,
     AddmeGiveGlobal DEF Addme, GlobalStep, QueuedStep
<1>4. CASE Dequeue(c) \/ PollReturns(c)
  BY <1>4, DequeueGlobal, PollGlobal DEF GlobalStep, QueuedStep
<1>5. CASE UnwindHandler(c)
  <2>1. UNCHANGED <<lockVars, queue, ask, hpc, mainVars>>
    BY <1>5 DEF UnwindHandler
  <2>2. \A d, h \in Cpus : /\ Waiting(d)' <=> Waiting(d)
                           /\ Holds(d)' <=> Holds(d)
                           /\ TakenFor(h, d)' <=> TakenFor(h, d)
    BY <2>1 DEF Waiting, Holds, InCriticalSection, TakenFor
  <2>3. \A d \in Cpus : /\ pc'[d] = "store44" => loaded'[d] = count
                        /\ hpc'[d] = "give155" => owner = d
    BY <2>1 DEF Inv, StoresAreFresh, GiversOwn
  <2> QED BY <2>1, <2>2, <2>3, QuietStep DEF GlobalStep, QueuedStep
<1>6. CASE CountLoad(c) \/ CountStore(c)
  BY <1>6, CountGlobal DEF GlobalStep, QueuedStep
<1>7. CASE SleepOver(c)
  <2>1. GlobalStep
    BY <1>7, QuietGoto DEF SleepOver
  <2> QED BY <2>1 DEF GlobalStep, QueuedStep
<1> QED
  BY <1>1, <1>2, <1>3, <1>4, <1>5, <1>6, <1>7 DEF Thread, IHandler

LEMMA InvStep ==
  Inv /\ [Next]_vars => Inv' /\ (QueueInv /\ ~GivenAwayTooEarly => QueueInv')
<1> SUFFICES ASSUME Inv, [Next]_vars
             PROVE  Inv' /\ (QueueInv /\ ~GivenAwayTooEarly => QueueInv')
  OBVIOUS
<1>1. TypeOK' /\ LocalInv'
  BY LocalStep DEF Inv
<1>2. ASSUME NEW c \in Cpus, Thread(c)
      PROVE  Inv' /\ (QueueInv /\ ~GivenAwayTooEarly => QueueInv')
  BY <1>1, <1>2, ThreadGlobal DEF Inv, GlobalInv
<1>3. ASSUME JoinAll \/ UNCHANGED vars
      PROVE  Inv' /\ (QueueInv /\ ~GivenAwayTooEarly => QueueInv')
  <2>1. UNCHANGED <<lockVars, queue, ask, hpc, mainVars>>
    BY <1>3 DEF JoinAll, vars
  <2>2. \A d, h \in Cpus : /\ Waiting(d)' <=> Waiting(d)
                           /\ Holds(d)' <=> Holds(d)
                           /\ TakenFor(h, d)' <=> TakenFor(h, d)
    BY <2>1 DEF Waiting, Holds, InCriticalSection, TakenFor
  <2>3. \A d \in Cpus : /\ pc'[d] = "store44" => loaded'[d] = count
                        /\ hpc'[d] = "give155" => owner = d
    BY <2>1 DEF Inv, StoresAreFresh, GiversOwn
  <2>4. GlobalStep
    BY <2>1, <2>2, <2>3, QuietStep
  <2> QED BY <1>1, <2>4 DEF Inv, GlobalStep, GlobalInv, QueuedStep
<1> QED BY <1>2, <1>3 DEF Next, Terminated

(***************************************************************************)
(* Inv holds in every reachable state.                                     *)
(***************************************************************************)
THEOREM InvCorrect == Spec => []Inv
<1>1. Inv /\ [Next]_vars => Inv'
  BY InvStep
<1> QED BY InvInit, <1>1, PTL DEF Spec

(***************************************************************************)
(* mylock and myunlock exclude: for every number of cpus, at most one is   *)
(* between them, even after the race of lines 121-125.                     *)
(***************************************************************************)
THEOREM MutualExclusionCorrect == Spec => []MutualExclusion
<1>1. Inv => MutualExclusion
  BY DEF Inv, Queued, Orphaned, QueueInv, HasLock, Holds, MutualExclusion
<1> QED BY InvCorrect, <1>1, PTL

(***************************************************************************)
(* addme never works on the cfd of a mylock that has returned, and no      *)
(* request is ever duplicated by the forwarding of lines 130-153.          *)
(***************************************************************************)
THEOREM RequestsAreLiveCorrect == Spec => []RequestsAreLive
<1>1. Inv => RequestsAreLive
  BY DEF Inv
<1> QED BY InvCorrect, <1>1, PTL

(***************************************************************************)
(* For every number of cpus the chain of waiters is broken by one step only*)
(* an owner that gives the lock away while the addme that made it owner is *)
(* still between lines 121 and 125.                                        *)
(***************************************************************************)
THEOREM OnlyTheRaceCorrect == Spec => OnlyTheRaceBreaksTheQueue
<1>1. Inv /\ WaitersFormQueue => QueueInv
  BY DEF Inv, Queued, Orphaned, WaitersFormQueue
<1>2. QueueInv => WaitersFormQueue
  BY DEF QueueInv, WaitersFormQueue, Member
<1>3. Inv /\ [Next]_vars => [WaitersFormQueue /\ ~WaitersFormQueue' => GivenAwayTooEarly]_vars
  <2>1. QueueInv' => WaitersFormQueue'
    BY <1>2, PTL
  <2> QED BY <1>1, <2>1, InvStep
<1> QED BY InvCorrect, <1>3, PTL DEF Spec, OnlyTheRaceBreaksTheQueue

(***************************************************************************)
(* The atomic counter                                                      *)
(***************************************************************************)
done == [c \in Cpus |-> Done(c)]

\* a step that does not leave count++ keeps every thread's number of rounds
LEMMA SameDone ==
  ASSUME TypeOK, NEW c \in Cpus, NEW from, NEW to, Goto(c, from, to), UNCHANGED round,
         from \in {"poll45", "unlock91", "eui101", "poll47"} <=>
           to \in {"poll45", "unlock91", "eui101", "poll47"}
  PROVE  done' = done
<1>1. pc'[c] = to /\ \A d \in Cpus \ {c} : pc'[d] = pc[d]
  BY DEF TypeOK
<1>2. \A d \in Cpus : Done(d)' = Done(d)
  BY <1>1 DEF Done
<1> QED BY <1>2 DEF done

\* POLL returns: at the end of a round the round is counted
LEMMA PollDone ==
  ASSUME TypeOK, LocalInv, NEW c \in Cpus, PollReturns(c)
  PROVE  done' = done
<1>1. pc[c] \in PollPoints
  BY LocalPollReturns
<1>2. /\ pc'[c] = AfterPoll(c) /\ \A d \in Cpus \ {c} : pc'[d] = pc[d] /\ round'[d] = round[d]
      /\ round'[c] = IF pc[c] = "poll47" THEN round[c] + 1 ELSE round[c]
  BY DEF PollReturns, TypeOK
<1>3. round[c] \in Nat
  BY DEF TypeOK
<1>4. CASE pc[c] = "poll47"
  <2>1. AfterPoll(c) \notin {"poll45", "unlock91", "eui101", "poll47"}
    BY <1>4, SMTT(20) DEF AfterPoll
  <2>2. Done(c) = round[c] + 1
    BY <1>4 DEF Done
  <2>3. Done(c)' = round'[c] + 0
    BY <1>2, <2>1 DEF Done
  <2>4. round'[c] = round[c] + 1
    BY <1>2, <1>4
  <2>5. Done(c)' = Done(c)
    BY <1>3, <2>2, <2>3, <2>4
  <2>6. ASSUME NEW d \in Cpus \ {c} PROVE Done(d)' = Done(d)
    <3>1. pc'[d] = pc[d] /\ round'[d] = round[d]
      BY <1>2
    <3> QED BY <3>1, Zenon DEF Done
  <2> QED BY <2>5, <2>6 DEF done
<1>5. CASE pc[c] # "poll47"
  <2>1. AfterPoll(c) \in {"poll45", "unlock91", "eui101", "poll47"} <=>
          pc[c] \in {"poll45", "unlock91", "eui101", "poll47"}
    BY <1>1, <1>5 DEF AfterPoll, PollPoints
  <2>2. ASSUME NEW d \in Cpus PROVE Done(d)' = Done(d)
    <3>1. round'[d] = round[d]
      BY <1>2, <1>5
    <3>2. pc'[d] \in {"poll45", "unlock91", "eui101", "poll47"} <=>
            pc[d] \in {"poll45", "unlock91", "eui101", "poll47"}
      BY <1>2, <2>1
    <3> QED BY <3>1, <3>2, Zenon DEF Done
  <2> QED BY <2>2 DEF done
<1> QED BY <1>4, <1>5

\* the store of count++ is the abstract increment
LEMMA StoreIncrements ==
  ASSUME Inv, NEW c \in Cpus, CountStore(c)
  PROVE  Counter!Increment(c)
<1>1. TypeOK /\ round[c] < Iters /\ loaded[c] = count
  BY DEF Inv, LocalInv, RoundsCounted, LastPoints, StoresAreFresh, CountStore
<1>2. /\ pc[c] = "store44" /\ pc'[c] = "poll45" /\ \A d \in Cpus \ {c} : pc'[d] = pc[d]
      /\ round' = round /\ count' = count + 1 /\ printed' = printed
  BY <1>1 DEF CountStore, TypeOK
<1>3. round[c] \in Nat
  BY <1>1 DEF TypeOK
<1>4. Done(c) = round[c] /\ Done(c)' = round[c] + 1
  <2>1. Done(c) = round[c] + 0
    BY <1>2 DEF Done
  <2>2. Done(c)' = round'[c] + 1
    BY <1>2 DEF Done
  <2> QED BY <1>2, <1>3, <2>1, <2>2
<1>5. ASSUME NEW d \in Cpus \ {c} PROVE Done(d)' = Done(d)
  <2>1. pc'[d] = pc[d] /\ round'[d] = round[d]
    BY <1>2
  <2> QED BY <2>1, Zenon DEF Done
<1>6. done' = [done EXCEPT ![c] = done[c] + 1]
  BY <1>4, <1>5 DEF done
<1>7. done[c] < Iters
  BY <1>1, <1>4 DEF done
<1> QED BY <1>2, <1>6, <1>7 DEF Counter!Increment, done

\* main prints when all rounds of all threads are done
LEMMA JoinPrints ==
  ASSUME Inv, JoinAll
  PROVE  Counter!PrintTotal
<1>1. \A c \in Cpus : pc[c] = "exit" /\ round[c] = Iters
  BY DEF Inv, LocalInv, RoundsCounted, LastPoints, JoinAll
<1>2. \A c \in Cpus : Done(c) = Iters
  <2> TAKE c \in Cpus
  <2>1. Done(c) = round[c] + 0
    BY <1>1 DEF Done
  <2> QED BY <1>1, <2>1
<1>3. done' = done
  BY DEF JoinAll, done, Done
<1> QED BY <1>2, <1>3 DEF Counter!PrintTotal, JoinAll, done

\* all other steps of a thread stutter
LEMMA OthersStutter ==
  ASSUME TypeOK, LocalInv, NEW c \in Cpus, Thread(c), ~CountStore(c)
  PROVE  UNCHANGED <<count, done, printed>>
<1>1. CASE Mylock(c)
  <2>1. count' = count /\ printed' = printed
    BY <1>1 DEF Mylock, LockTest, LockCas, LockCheck, LockFree, LockSave, LockSend, LockWait,
                LockGot
  <2>2. done' = done
    BY <1>1, SameDone DEF Mylock, LockTest, LockCas, LockCheck, LockFree, LockSave, LockSend,
                          LockWait, LockGot
  <2> QED BY <2>1, <2>2
<1>2. CASE Myunlock(c) \/ CountLoad(c) \/ SleepOver(c)
  <2>1. count' = count /\ printed' = printed
    BY <1>2 DEF Myunlock, UnlockHandOver, UnlockFree, CountLoad, SleepOver
  <2>2. done' = done
    BY <1>2, SameDone DEF Myunlock, UnlockHandOver, UnlockFree, CountLoad, SleepOver
  <2> QED BY <2>1, <2>2
<1>3. CASE Addme(c) \/ Dequeue(c) \/ UnwindHandler(c)
  <2>1. UNCHANGED mainVars /\ printed' = printed
    BY <1>3 DEF Addme, AddmeOwner, AddmeFree, AddmeCas, AddmeCheck, AddmeSave, AddmeForward,
                AddmeTrigger, AddmeGive, Dequeue, UnwindHandler
  <2> QED BY <2>1 DEF done, Done
<1>4. CASE PollReturns(c)
  BY <1>4, PollDone DEF PollReturns
<1> QED BY <1>1, <1>2, <1>3, <1>4 DEF Thread, IHandler

(***************************************************************************)
(* The benchmark implements the atomic counter: no increment of any thread *)
(* is lost, for every number of cpus and rounds.                           *)
(***************************************************************************)
THEOREM Refinement == Spec => ImplementsAtomicCounter
<1>1. Init => Counter!Init
  <2> SUFFICES ASSUME Init PROVE Counter!Init
    OBVIOUS
  <2>1. \A c \in Cpus : Done(c) = 0
    BY DEF Init, Done
  <2> QED BY <2>1 DEF Init, Counter!Init
<1>2. Inv /\ [Next]_vars => [Counter!Next]_<<count, done, printed>>
  <2> SUFFICES ASSUME Inv, [Next]_vars
               PROVE  Counter!Next \/ UNCHANGED <<count, done, printed>>
    OBVIOUS
  <2>1. CASE JoinAll
    BY <2>1, JoinPrints DEF Counter!Next
  <2>2. CASE UNCHANGED vars
    BY <2>2 DEF vars, done, Done
  <2>3. ASSUME NEW c \in Cpus, Thread(c)
        PROVE  Counter!Next \/ UNCHANGED <<count, done, printed>>
    BY <2>3, StoreIncrements, OthersStutter DEF Inv, Counter!Next
  <2> QED BY <2>1, <2>2, <2>3 DEF Next, Terminated
<1> QED
  BY InvCorrect, <1>1, <1>2, PTL DEF Spec, ImplementsAtomicCounter, Counter!Spec, done

=============================================================================
