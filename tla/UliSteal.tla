------------------------------ MODULE UliSteal ------------------------------
(***************************************************************************)
(* Work stealing by messages (src/compiler/uli): a thread without work     *)
(* asks one that has seeds, the asked thread takes its oldest seed and     *)
(* sends it as a fork, or answers that there is no work.                   *)
(*                                                                         *)
(* A message is handled when its receiver polls: in suspend, in getMsg and *)
(* freeMsgBuffer, when fib unlocks its seeds, and inside a handler, which  *)
(* enables interrupts before it answers.  A handler that has not answered  *)
(* yet is on a stack of answers.  mydui and myeui only count, so they are  *)
(* the places of the polls.  Two polls in a row are one.                   *)
(*                                                                         *)
(* fib is what it does with seeds: it pushes one, calls its first child,   *)
(* and on the way back releases the seed or finds it stolen.  A parent of  *)
(* stolen work never goes on, since the handler of the result is empty     *)
(* (stacklet.c 486).  Message buffers are allocated on demand, so there is *)
(* always one.                                                             *)
(*                                                                         *)
(* Three kinds of memory are used again while they are in use: the frame   *)
(* that an entry of the ready queue points to, the system stack of a       *)
(* thread, and a stacklet whose work is started again.  With overwritten   *)
(* values a thread goes on, in one of the ways that the code at that place *)
(* allows, or it faults or fails an assertion.  That ends the process, and *)
(* so the behaviour: a specification without fairness lets it end anywhere.*)
(***************************************************************************)
EXTENDS Integers, FiniteSets, SequencesExt

CONSTANTS
  numberOfThreads,
  MaxSeeds          \* seeds pushed and work started again, a bound of the model:
                    \* a restart counts as two seeds

ASSUME UliStealAssumption == numberOfThreads \in Nat \ {0} /\ MaxSeeds \in Nat

Threads == 0..(numberOfThreads - 1)
Seeds == 1..MaxSeeds
Root == -1          \* parentProc of the first stacklet, which has none

\* the stacklets: the work, the thread of its parent, the thread that made it
Stubs == [seed : Seeds, parentProc : Threads, by : Threads]
FirstStub == [seed |-> 0, parentProc |-> Root, by |-> 0]
NoStub == [seed |-> 0, parentProc |-> Root, by |-> Root]    \* in suspend

Points == {"work", "return537", "own299", "self310", "look321", "deq326", "loop335", "send344", "exit"}
Messages ==
  [kind : {"steal"}, from : Threads] \cup [kind : {"noWork"}]
    \cup [kind : {"fork"}, from : Threads, seed : Seeds] \cup [kind : {"return"}]

VARIABLES
  pc, after,       \* where a thread is, and where it goes on after a poll
  inbox,           \* msg_bufs
  answers,         \* per thread, the answers of the handlers on its stack
  seedStacks,      \* per thread, its seeds, oldest first
  frames,          \* per thread, the seeds of the calls of fib it is in
  stub,            \* the stacklet a thread runs on
  readyQ,          \* the stacklets in the ready queue
  ready,           \* the entry suspend has found there: whose frame it is
  amStealing, lastReq,
  locals,          \* of suspend: i, x and tryagain
  \* what has happened so far, for the properties
  pushed,          \* the number of seeds
  restarts,        \* the number of entries taken from the ready queue
  started,         \* per thread, the stacklets it has started, in order
  released         \* the seeds their own threads have released

idle == <<readyQ, ready, amStealing, lastReq, locals>>
local == <<seedStacks, frames, stub>>
history == <<pushed, restarts, started, released>>
vars == <<pc, after, inbox, answers, local, idle, history>>

TypeOK ==
  /\ pc \in [Threads -> Points \cup {"poll", "answer"}] /\ after \in [Threads -> Points]
  /\ inbox \in [Threads -> Seq(Messages)]
  /\ answers \in [Threads -> Seq([to : Threads, message : Messages])]
  /\ seedStacks \in [Threads -> Seq(Seeds)] /\ frames \in [Threads -> Seq(Seeds)]
  /\ stub \in [Threads -> Stubs \cup {FirstStub, NoStub}]
  /\ readyQ \in Seq(Stubs) /\ ready \in [Threads -> Threads]
  /\ amStealing \in [Threads -> BOOLEAN]
  /\ lastReq \in [Threads -> Threads]
  /\ locals \in [Threads -> [i : 1..(numberOfThreads + 1), x : Threads, tryagain : BOOLEAN]]
  /\ pushed \in 0..MaxSeeds /\ restarts \in 0..MaxSeeds
  /\ started \in [Threads -> Seq(Stubs)] /\ released \in SUBSET Seeds

\* the variables of suspend where none of them is in use
Fresh == [i |-> 1, x |-> 0, tryagain |-> FALSE]

Init ==
  /\ pc = [t \in Threads |-> "poll"]
  /\ after = [t \in Threads |-> IF t = 0 THEN "work" ELSE "own299"]
  /\ inbox = [t \in Threads |-> <<>>] /\ answers = inbox
  /\ seedStacks = inbox /\ frames = inbox
  /\ stub = [t \in Threads |-> IF t = 0 THEN FirstStub ELSE NoStub]
  /\ readyQ = <<>> /\ ready = [t \in Threads |-> t]
  /\ amStealing = [t \in Threads |-> FALSE]
  /\ lastReq = [t \in Threads |-> t] /\ locals = [t \in Threads |-> Fresh]
  /\ pushed = 0 /\ restarts = 0 /\ started = inbox /\ released = {}

Room(n) == pushed + 2 * restarts + n <= MaxSeeds

Goto(t, label) ==
  /\ pc' = [pc EXCEPT ![t] = label]
  /\ after' = [after EXCEPT ![t] = label]

\* poll, and then go on at the label
PollThen(t, label) ==
  /\ pc' = [pc EXCEPT ![t] = "poll"]
  /\ after' = [after EXCEPT ![t] = label]

\* back to the poll, in suspend
start(t) == PollThen(t, "own299")

suspend(t) ==
  /\ stub' = [stub EXCEPT ![t] = NoStub]
  /\ frames' = [frames EXCEPT ![t] = <<>>]
  /\ start(t)

SENDI(m, t) == inbox' = [inbox EXCEPT ![t] = Append(@, m)]

pushSeed(seed, t) == seedStacks' = [seedStacks EXCEPT ![t] = Append(@, seed)]

releaseSeed(seed, t) == seedStacks' = [seedStacks EXCEPT ![t] = Remove(@, seed)]

\* the oldest seed, when there is one
checkSeedQue(t) == Head(seedStacks[t])

-----------------------------------------------------------------------------
(* fib *)

PushSeed(t) ==
  /\ pc[t] = "work" /\ Room(1)
  /\ pushed' = pushed + 1
  /\ pushSeed(pushed + 1, t)
  /\ frames' = [frames EXCEPT ![t] = Append(@, pushed + 1)]
  /\ PollThen(t, "work")
  /\ UNCHANGED <<inbox, answers, stub, idle, restarts, started, released>>

FirstChildDoneNormally(t) ==
  /\ pc[t] = "work" /\ frames[t] # <<>>
  /\ LET seed == Last(frames[t]) IN
     /\ Contains(seedStacks[t], seed)
     /\ releaseSeed(seed, t)
     /\ released' = released \cup {seed}
  /\ frames' = [frames EXCEPT ![t] = Front(@)]
  /\ PollThen(t, "work")
  /\ UNCHANGED <<inbox, answers, stub, idle, pushed, restarts, started>>

\* syncCounter goes from 2 to 1: the second child is elsewhere
FirstChildDone(t) ==
  /\ pc[t] = "work" /\ frames[t] # <<>>
  /\ ~ Contains(seedStacks[t], Last(frames[t]))
  /\ suspend(t)
  /\ UNCHANGED <<inbox, answers, seedStacks, idle, history>>

ReturnFromRoot(t) ==
  /\ pc[t] = "work" /\ frames[t] = <<>> /\ stub[t] = FirstStub
  /\ Goto(t, "exit")
  /\ UNCHANGED <<inbox, answers, local, idle, history>>

returnFromStolenWorkRoutine(t) ==
  /\ pc[t] = "work" /\ frames[t] = <<>> /\ stub[t] # FirstStub
  /\ PollThen(t, "return537")
  /\ UNCHANGED <<inbox, answers, local, idle, history>>

finishDoneWithStolenWork(t) ==
  /\ pc[t] = "return537"
  /\ SENDI([kind |-> "return"], stub[t].parentProc)
  /\ suspend(t)
  /\ UNCHANGED <<answers, seedStacks, idle, history>>

-----------------------------------------------------------------------------
(* The handlers *)

\* i_handler takes the next message, which is of this kind
Receive(t, kind) ==
  /\ pc[t] = "poll" /\ inbox[t] # <<>> /\ Head(inbox[t]).kind = kind
  /\ inbox' = [inbox EXCEPT ![t] = Tail(@)]

Answer(t, m) == answers' = [answers EXCEPT ![t] = Append(@, [to |-> Head(inbox[t]).from, message |-> m])]

stealHandlerNoWork(t) ==
  /\ Receive(t, "steal") /\ seedStacks[t] = <<>>
  /\ Answer(t, [kind |-> "noWork"])
  /\ UNCHANGED <<pc, after, local, idle, history>>

IsFork(a) == a.message.kind = "fork"

\* mutant: the seed stays in the queue
stealHandlerKeeps(t) ==
  /\ Receive(t, "steal") /\ seedStacks[t] # <<>>
  /\ UNCHANGED seedStacks
  /\ Answer(t, [kind |-> "fork", from |-> t, seed |-> checkSeedQue(t)])
  /\ UNCHANGED <<pc, after, frames, stub, idle, history>>

\* mutant: the seed is taken and the answer is that there is no work
stealHandlerDrops(t) ==
  /\ Receive(t, "steal") /\ seedStacks[t] # <<>>
  /\ releaseSeed(checkSeedQue(t), t)
  /\ Answer(t, [kind |-> "noWork"])
  /\ UNCHANGED <<pc, after, frames, stub, idle, history>>

\* mutant: the newest seed goes, whose frame is at the top of the stack
stealHandlerNewest(t) ==
  /\ Receive(t, "steal") /\ seedStacks[t] # <<>>
  /\ releaseSeed(Last(seedStacks[t]), t)
  /\ Answer(t, [kind |-> "fork", from |-> t, seed |-> Last(seedStacks[t])])
  /\ UNCHANGED <<pc, after, frames, stub, idle, history>>

\* The seed's frame sends itself off, from the top of the system stack.
stealHandlerFork(t) ==
  /\ Receive(t, "steal") /\ seedStacks[t] # <<>>
  /\ releaseSeed(checkSeedQue(t), t)
  /\ Answer(t, [kind |-> "fork", from |-> t, seed |-> checkSeedQue(t)])
  /\ UNCHANGED <<pc, after, frames, stub, idle, history>>

noWorkHandler(t) ==
  /\ Receive(t, "noWork")
  /\ amStealing' = [amStealing EXCEPT ![t] = FALSE]
  /\ UNCHANGED <<pc, after, answers, local, readyQ, ready, lastReq, locals, history>>

enqReadyQ(work) == readyQ' = Append(readyQ, work)

\* The work is started from the stub of its stacklet.
switchAndJmpWithArg(t, work) ==
  /\ stub' = [stub EXCEPT ![t] = work]
  /\ started' = [started EXCEPT ![t] = Append(@, work)]
  /\ frames' = [frames EXCEPT ![t] = <<>>]
  /\ Goto(t, "work")

\* It falls through to Resume and runs the work: what the thread was doing
\* is left, and the handler that called does not go on.
enQnewStacklet(t, work) ==
  /\ enqReadyQ(work)
  /\ switchAndJmpWithArg(t, work)
  /\ answers' = [answers EXCEPT ![t] = <<>>]

forkHandler(t) ==
  LET m == Head(inbox[t]) IN
  /\ Receive(t, "fork")
  /\ enQnewStacklet(t, [seed |-> m.seed, parentProc |-> m.from, by |-> t])
  /\ locals' = [locals EXCEPT ![t] = Fresh]
  /\ UNCHANGED <<seedStacks, ready, amStealing, lastReq, pushed, restarts, released>>

returnInletHandler(t) ==
  /\ Receive(t, "return")
  /\ UNCHANGED <<pc, after, answers, local, idle, history>>

\* The loop of i_handler ends: the handler below it goes on, or the thread.
PollDone(t) ==
  /\ pc[t] = "poll" /\ inbox[t] = <<>>
  /\ pc' = [pc EXCEPT ![t] = IF answers[t] = <<>> THEN after[t] ELSE "answer"]
  /\ UNCHANGED <<after, inbox, answers, local, idle, history>>

SendAnswer(t) ==
  /\ pc[t] = "answer"
  /\ SENDI(Last(answers[t]).message, Last(answers[t]).to)
  /\ answers' = [answers EXCEPT ![t] = Front(@)]
  /\ pc' = [pc EXCEPT ![t] = "poll"]
  /\ UNCHANGED <<after, local, idle, history>>

\* remoteStackletFork starts at the top of the system stack.  What that has
\* overwritten when it returns to the handler: suspend, and the handlers that
\* have been called since suspend or another remoteStackletFork began.
InSuspend(t) == after[t] \notin {"work", "return537"}
Overwritten(t) ==
  {k \in 1..(Len(answers[t]) - 1) : InSuspend(t) \/ \E j \in 1..k : IsFork(answers[t][j])}

\* What the variables of suspend may be once they have been overwritten: those
\* that it still uses.
Values(t) ==
  CASE after[t] = "send344" -> [i : 1..numberOfThreads, x : Threads, tryagain : {FALSE}]
    [] after[t] = "self310" -> [i : {1}, x : {0}, tryagain : BOOLEAN]
    [] OTHER -> {locals[t]}

\* A handler below goes on as it was, or with the values of the one that has been
\* sent so that it sends that again, or the thread returns past it; suspend goes on
\* with any values.
SendAnswerOverwriting(t) ==
  LET sent == Last(answers[t]) IN
  /\ pc[t] = "answer" /\ IsFork(sent)
  /\ InSuspend(t) \/ Overwritten(t) # {}
  /\ SENDI(sent.message, sent.to)
  /\ \E again \in SUBSET Overwritten(t), skipped \in 0..Cardinality(Overwritten(t)) :
       answers' = [answers EXCEPT ![t] =
         [k \in 1..(Len(@) - 1 - skipped) |-> IF k \in again THEN sent ELSE @[k]]]
  /\ \E values \in Values(t) : locals' = [locals EXCEPT ![t] = values]
  /\ pc' = [pc EXCEPT ![t] = "poll"]
  /\ UNCHANGED <<after, local, readyQ, ready, amStealing, lastReq, history>>

-----------------------------------------------------------------------------
(* suspend *)

\* Past the seeds of its own: t has none, or has sent itself a request.
AtReadyQ(t) == pc[t] = "look321" \/ (pc[t] = "own299" /\ seedStacks[t] = <<>>)

OwnSeed(t) ==
  /\ pc[t] = "own299" /\ seedStacks[t] # <<>>
  /\ releaseSeed(checkSeedQue(t), t)
  /\ PollThen(t, "self310")
  /\ UNCHANGED <<inbox, answers, frames, stub, idle, history>>

\* The sender is not filled in: it is what the buffer held.
AskMyself(t) == \E from \in Threads :
  /\ pc[t] = "self310"
  /\ SENDI([kind |-> "steal", from |-> from], t)
  /\ locals' = [locals EXCEPT ![t] = Fresh]
  /\ Goto(t, IF locals[t].tryagain THEN "own299" ELSE "look321")
  /\ UNCHANGED <<answers, local, readyQ, ready, amStealing, lastReq, history>>

LookAtReadyQ(t) ==
  /\ AtReadyQ(t) /\ readyQ # <<>> /\ Room(2)
  /\ ready' = [ready EXCEPT ![t] = Head(readyQ).by]
  /\ Goto(t, "deq326")
  /\ UNCHANGED <<inbox, answers, local, readyQ, amStealing, lastReq, locals, history>>

\* Nothing protects the queue: another thread may have found the same entry, and
\* it may be empty by now, which is a fault.  The thread jumps to Resume in enQnewStacklet, on the
\* frame that the maker of the entry has left long since, and starts the work of
\* that frame again: the work of the entry or one that the maker has begun later.
deqReadyQ(t) ==
  /\ pc[t] = "deq326"
  /\ readyQ # <<>> /\ Room(2)
  /\ readyQ' = Tail(readyQ)
  /\ restarts' = restarts + 1
  /\ \E work \in {x \in Range(started[ready[t]]) : x.by = ready[t]} : switchAndJmpWithArg(t, work)
  /\ ready' = [ready EXCEPT ![t] = t]
  /\ UNCHANGED <<inbox, answers, seedStacks, amStealing, lastReq, locals, pushed, released>>

\* On a stacklet that another thread has been started on too, the frames of t are
\* overwritten, and t may return from a call of the other: it does not come back to
\* its own, whose seeds stay where they are.
ReturnElsewhere(t) ==
  /\ pc[t] = "work" /\ frames[t] # <<>>
  /\ \E u \in Threads \ {t} : Contains(started[u], stub[t])
  /\ \E n \in 0..(Len(frames[t]) - 1) : frames' = [frames EXCEPT ![t] = SubSeq(@, 1, n)]
  /\ UNCHANGED <<pc, after, inbox, answers, seedStacks, stub, idle, history>>

AlreadyAsked(t) ==
  /\ AtReadyQ(t) /\ readyQ = <<>> /\ amStealing[t]
  /\ start(t)
  /\ UNCHANGED <<inbox, answers, local, idle, history>>

LookAround(t) ==
  /\ AtReadyQ(t) /\ readyQ = <<>> /\ ~ amStealing[t]
  /\ locals' = [locals EXCEPT ![t] = Fresh]
  /\ Goto(t, "loop335")
  /\ UNCHANGED <<inbox, answers, local, readyQ, ready, amStealing, lastReq, history>>

Candidate(t) == (lastReq[t] + locals[t].i) % numberOfThreads

SkipVictim(t) ==
  /\ pc[t] = "loop335" /\ locals[t].i < numberOfThreads /\ seedStacks[Candidate(t)] = <<>>
  /\ locals' = [locals EXCEPT ![t].i = @ + 1]
  /\ UNCHANGED <<pc, after, inbox, answers, local, readyQ, ready, amStealing, lastReq, history>>

ChooseVictim(t) ==
  /\ pc[t] = "loop335" /\ locals[t].i < numberOfThreads /\ seedStacks[Candidate(t)] # <<>>
  /\ amStealing' = [amStealing EXCEPT ![t] = TRUE]
  /\ lastReq' = [lastReq EXCEPT ![t] = Candidate(t)]
  /\ locals' = [locals EXCEPT ![t].x = Candidate(t)]
  /\ PollThen(t, "send344")
  /\ UNCHANGED <<inbox, answers, local, readyQ, ready, history>>

AskForWork(t) ==
  /\ pc[t] = "send344"
  /\ SENDI([kind |-> "steal", from |-> t], locals[t].x)
  /\ locals' = [locals EXCEPT ![t].i = @ + 1, ![t].x = 0]
  /\ Goto(t, "loop335")
  /\ UNCHANGED <<answers, local, readyQ, ready, amStealing, lastReq, history>>

Around(t) ==
  /\ pc[t] = "loop335" /\ locals[t].i >= numberOfThreads
  /\ locals' = [locals EXCEPT ![t] = Fresh]
  /\ start(t)
  /\ UNCHANGED <<inbox, answers, local, readyQ, ready, amStealing, lastReq, history>>

PollOrSuspend(t) ==
  \/ stealHandlerNoWork(t) \/ stealHandlerFork(t) \/ noWorkHandler(t) \/ forkHandler(t)
  \/ returnInletHandler(t) \/ PollDone(t) \/ SendAnswer(t) \/ SendAnswerOverwriting(t)
  \/ OwnSeed(t) \/ AskMyself(t) \/ LookAtReadyQ(t) \/ deqReadyQ(t)
  \/ AlreadyAsked(t) \/ LookAround(t) \/ SkipVictim(t) \/ ChooseVictim(t) \/ AskForWork(t) \/ Around(t)

fib(t) ==
  \/ PushSeed(t) \/ FirstChildDoneNormally(t) \/ FirstChildDone(t)
  \/ ReturnFromRoot(t) \/ returnFromStolenWorkRoutine(t) \/ finishDoneWithStolenWork(t)
  \/ ReturnElsewhere(t)

Next == \E t \in Threads : PollOrSuspend(t) \/ fib(t)

Spec == Init /\ [][Next]_vars

\* A call of fib may take as long as it likes between two polls.
FairSpec == Spec /\ \A t \in Threads : WF_vars(PollOrSuspend(t))

-----------------------------------------------------------------------------
(* Properties *)

Forks(q) == {k \in DOMAIN q : q[k].kind = "fork"}
Unsent(t) == {k \in DOMAIN answers[t] : IsFork(answers[t][k])}

\* Where the work of each seed is: in a seed queue, on its way, started or done.
Places ==
  {<<s, "released">> : s \in released} \cup
  UNION {
    {<<seedStacks[t][k], "seed", t, k>> : k \in DOMAIN seedStacks[t]} \cup
    {<<inbox[t][k].seed, "inbox", t, k>> : k \in Forks(inbox[t])} \cup
    {<<answers[t][k].message.seed, "answer", t, k>> : k \in Unsent(t)} \cup
    {<<started[t][k].seed, "started", t, k>> : k \in DOMAIN started[t]} : t \in Threads}

places == <<inbox, answers, seedStacks, started, released>>

\* A seed whose work is in two places comes to be so in two ways only: the work is
\* started again from the ready queue, or a handler whose frame has been
\* overwritten sends the fork of another one again.  Else what a thread releases
\* and runs itself no thief gets, and no two thieves get the same (stacklet.c
\* 447-450, myfib.c 114-119).
Twice == LET all == Places IN {s \in Seeds : Cardinality({x \in all : x[1] = s}) > 1}
WorkDoubledOnlyByReuse ==
  [][\/ UNCHANGED places \/ Twice' \subseteq Twice
     \/ \E t \in Threads : deqReadyQ(t) \/ SendAnswerOverwriting(t)]_vars

\* A step of t loses the work of s: suspend finds a seed of its own and releases it
\* (stacklet.c 307); a fork arrives while the handler of another request has not
\* sent its answer, which is then never sent (387); or the frame of such a handler
\* is overwritten (stacklet.h 143-145).
Loses(t, s) ==
  \/ OwnSeed(t) /\ s = Head(seedStacks[t])
  \/ forkHandler(t) /\ \E k \in Unsent(t) : answers[t][k].message.seed = s
  \/ SendAnswerOverwriting(t) /\ \E k \in Unsent(t) \cap Overwritten(t) : answers[t][k].message.seed = s

\* Work is lost in these ways only.
Kept == {x[1] : x \in Places}
WorkLostOnlyByReuse ==
  [][UNCHANGED places \/ \A s \in Kept \ Kept' : \E t \in Threads : Loses(t, s)]_vars

\* The seeds of a thread are those of calls it is in, so that there are none
\* when it suspends (stacklet.c 299-318 is in vain), until a fork arrives while
\* it is in a call, so that it leaves the call and runs the fork, or its calls are
\* overwritten by those of a second thread on its stacklet.
Strays(t) == Range(seedStacks[t]) \ Range(frames[t]) # {}
SeedsStrayOnlyByLeaving ==
  [][\A t \in Threads : ~ Strays(t) /\ Strays(t)' =>
       (forkHandler(t) /\ frames[t] # <<>>) \/ ReturnElsewhere(t)]_vars

-----------------------------------------------------------------------------
(* What the comments of the code say and the code does not do: TLC refutes  *)
(* each of these.                                                           *)

Holds(q, kind) == \E k \in DOMAIN q : q[k].kind = kind

\* The request of t is under way, being handled, or answered and not received.
Waiting(t) ==
  \/ \E x \in Threads, m \in Messages : m = [kind |-> "steal", from |-> t] /\ Contains(inbox[x], m)
  \/ \E x \in Threads : \E k \in DOMAIN answers[x] : answers[x][k].to = t
  \/ Holds(inbox[t], "noWork") \/ Holds(inbox[t], "fork")

\* A thread whose request for work is unanswered has amStealing set, so it
\* does not send another one (stacklet.c 20, 330-331).
RequestIsFlagged == \A t \in Threads : Waiting(t) => amStealing[t]

\* A handler that turns interrupts on again to send a fork is the only one
\* that uses the system stack (stacklet.c 451, 224).
SystemStackIsFree == \A t \in Threads :
  Cardinality({k \in DOMAIN answers[t] : IsFork(answers[t][k])}) <= 1

\* What is in the ready queue has been created and not yet run (stacklet.c
\* 371-372).
ReadyIsNotStarted == \A k \in DOMAIN readyQ : \A t \in Threads : ~ Contains(started[t], readyQ[k])

Idle(t) == pc[t] \notin {"work", "return537", "exit"} /\ after[t] \notin {"work", "return537"}

\* A thread that has no work and no request under way does not leave the
\* seeds of another thread alone forever (stacklet.c 333-346).
IdleAsks == \A t, x \in Threads : ~ <>[](Idle(t) /\ ~ amStealing[t] /\ seedStacks[x] # <<>>)
=============================================================================
