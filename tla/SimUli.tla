------------------------------- MODULE SimUli -------------------------------
(***************************************************************************)
(* User-level interrupts (ULIs) in the simulator: the instructions SENDI,  *)
(* RETULI and TOGGLEULI that the project adds to gem5 (sim/pseudo_inst.cc),*)
(* the queue of ULIs of a cpu (arch/x86/interrupts.cc), and how the two    *)
(* cpu models take them from there: the simple one between instructions    *)
(* (cpu/simple/base.cc), the out-of-order one in its commit stage          *)
(* (cpu/o3/commit_impl.hh, cpu/o3/cpu.cc).                                 *)
(*                                                                         *)
(* One cpu receives.  It runs the program, a handler, or, while the        *)
(* operating system has it, the kernel or another process.  A message is   *)
(* its key in msg_map; sendMessage is atomic, so it is in the queue at     *)
(* once.  No other unmaskable interrupt comes, so that pendingULI is       *)
(* pendingUnmaskableInt.                                                   *)
(***************************************************************************)
EXTENDS Integers, Sequences

CONSTANTS
  Models,                 \* the cpu models looked at: "simple", "o3"
  MaxMessages,            \* messages sent, a bound of the model
  Preempted,              \* whether the operating system takes the cpu
  Program,                \* places in the program
  Kernel, None            \* code of the kernel, and no fault

ASSUME SimUliAssumption ==
  /\ Models \subseteq {"simple", "o3"} /\ Preempted \in BOOLEAN
  /\ MaxMessages \in Nat /\ Program # {}

Messages == 1..MaxMessages

\* no place of the program or the kernel is in a handler
ASSUME PlacesAssumption == Kernel \notin Program /\ Messages \cap (Program \cup {Kernel}) = {}

Spaces == {"app", "other"}        \* values of CR3; that of app is in cr3_map
Modes == {"user", "kernel"}       \* CS is 0x10 in the kernel
Codes == Messages \cup Program \cup {Kernel}
Contexts == [cr3 : Spaces, cs : Modes, code : Codes]

VARIABLES
  model,         \* the model of the receiving cpu
  msg_counter,   \* messages sent
  pendingULI, uli_queue,   \* of the interrupt controller
  now,           \* what the cpu executes
  saved,         \* savedULIPC, savedULISP, ..., was_kernel_mode: one place
  user,          \* where the kernel resumes each process
  interrupt,     \* DefaultCommit::interrupt, None for NoFault
  failed,        \* an assertion of the simulator has failed
  \* what has happened so far, for the properties
  interrupted,   \* what each handler was started in place of
  started,       \* the messages whose handler was started
  returned,      \* the messages whose handler has returned
  disabled       \* what the code asked for with TOGGLEULI

history == <<interrupted, started, returned, disabled>>
vars == <<model, msg_counter, pendingULI, uli_queue, now, saved, user, interrupt, failed, history>>

TypeOK ==
  /\ model \in Models /\ msg_counter \in 0..MaxMessages
  /\ pendingULI \in BOOLEAN /\ uli_queue \in Seq(Messages)
  /\ now \in Contexts /\ saved \in Contexts
  /\ user \in [Spaces -> Messages \cup Program]
  /\ interrupt \in Messages \cup {None} /\ failed \in BOOLEAN
  /\ interrupted \in [Messages -> Contexts] /\ started \in Seq(Messages)
  /\ returned \in SUBSET Messages /\ disabled \in BOOLEAN

InProgram(c) == [cr3 |-> "app", cs |-> "user", code |-> c]

Init ==
  /\ model \in Models /\ msg_counter = 0
  /\ pendingULI = FALSE /\ uli_queue = <<>>
  /\ now \in {InProgram(c) : c \in Program} /\ saved = now
  /\ user = [s \in Spaces |-> now.code]
  /\ interrupt = None /\ failed = FALSE
  /\ interrupted = [m \in Messages |-> now] /\ started = <<>> /\ returned = {} /\ disabled = FALSE

-----------------------------------------------------------------------------
(* The sender: SENDI, and what it does at the receiver *)

addULI(m) == uli_queue' = Append(uli_queue, m)

\* mutant: the message is queued and not noted
requestInterruptUnnoted(m) == UNCHANGED pendingULI /\ addULI(m)

requestInterrupt(m) == pendingULI' = TRUE /\ addULI(m)

recvMessage(m) == requestInterrupt(m)

stacklet_sendi ==
  /\ msg_counter < MaxMessages
  /\ msg_counter' = msg_counter + 1
  /\ recvMessage(msg_counter + 1)
  /\ UNCHANGED <<model, now, saved, user, interrupt, failed, history>>

-----------------------------------------------------------------------------
(* The interrupt controller *)

checkInterrupts == pendingULI

\* mutant: the newest message first
getInterruptLast(m) ==
  /\ uli_queue # <<>>
  /\ m = uli_queue[Len(uli_queue)]
  /\ uli_queue' = SubSeq(uli_queue, 1, Len(uli_queue) - 1)

\* The fault object of message m, when there is one.
getInterrupt(m) ==
  /\ uli_queue # <<>>
  /\ m = Head(uli_queue)
  /\ uli_queue' = Tail(uli_queue)

\* -1 in the kernel and in another process
Refused == now.cr3 # "app" \/ now.cs = "kernel"

updateIntrInfo == pendingULI' = (pendingULI /\ Refused)

\* mutant: the place to return to is not saved
invokeUnsaved(m) ==
  /\ UNCHANGED saved
  /\ now' = [now EXCEPT !.cs = "user", !.code = m]
  /\ interrupted' = [interrupted EXCEPT ![m] = now]
  /\ started' = Append(started, m)
  /\ UNCHANGED <<returned, disabled>>

\* ULI::invoke
invoke(m) ==
  /\ saved' = now
  /\ now' = [now EXCEPT !.cs = "user", !.code = m]
  /\ interrupted' = [interrupted EXCEPT ![m] = now]
  /\ started' = Append(started, m)
  /\ UNCHANGED <<returned, disabled>>

-----------------------------------------------------------------------------
(* The simple cpu, before an instruction *)

checkForInterrupts ==
  /\ model = "simple" /\ checkInterrupts
  /\ \E m \in Messages : getInterrupt(m) /\ updateIntrInfo /\ invoke(m)
  /\ UNCHANGED <<model, msg_counter, user, interrupt, failed>>

-----------------------------------------------------------------------------
(* The out-of-order cpu *)

propagateInterrupt ==
  /\ model = "o3" /\ ~failed /\ checkInterrupts
  /\ interrupt = None
  /\ \E m \in Messages : getInterrupt(m) /\ interrupt' = m
  /\ UNCHANGED <<model, msg_counter, pendingULI, now, saved, user, failed, history>>

processInterrupts(m) ==
  /\ updateIntrInfo
  /\ IF Refused THEN UNCHANGED <<now, saved, history>> ELSE invoke(m)

\* handleInterrupt calls getInterrupts again, and processInterrupts with that
handleInterrupt ==
  /\ model = "o3" /\ ~failed /\ interrupt # None /\ checkInterrupts
  /\ interrupt' = None
  /\ \/ /\ uli_queue = <<>>    \* assert(interrupt != NoFault)
        /\ failed' = TRUE
        /\ UNCHANGED <<pendingULI, uli_queue, now, saved, history>>
     \/ /\ \E m \in Messages : getInterrupt(m) /\ processInterrupts(m)
        /\ UNCHANGED failed
  /\ UNCHANGED <<model, msg_counter, user>>

-----------------------------------------------------------------------------
(* Instructions of the receiver *)

\* At the end of a handler.  CR3 is neither saved nor restored.
stacklet_retuli ==
  /\ ~failed /\ now.code \in Messages
  /\ now' = [now EXCEPT !.cs = saved.cs, !.code = saved.code]
  /\ returned' = returned \cup {now.code}
  /\ UNCHANGED <<model, msg_counter, pendingULI, uli_queue, saved, user, interrupt, failed,
       interrupted, started, disabled>>

\* Nothing in the simulator depends on it.
stacklet_uli_toggle ==
  /\ ~failed /\ now.code \in Program /\ now.cr3 = "app"
  /\ disabled' = ~disabled
  /\ UNCHANGED <<model, msg_counter, pendingULI, uli_queue, now, saved, user, interrupt, failed,
       interrupted, started, returned>>

ProgramStep ==
  /\ ~failed /\ now.code \in Program
  /\ \E c \in Program : now' = [now EXCEPT !.code = c]
  /\ UNCHANGED <<model, msg_counter, pendingULI, uli_queue, saved, user, interrupt, failed, history>>

-----------------------------------------------------------------------------
(* The operating system: a trap or a timer enters the kernel, which may      *)
(* choose another process and resumes the one it has chosen.                 *)

EnterKernel ==
  /\ Preempted /\ ~failed /\ now.cs = "user"
  /\ user' = [user EXCEPT ![now.cr3] = now.code]
  /\ now' = [now EXCEPT !.cs = "kernel", !.code = Kernel]
  /\ UNCHANGED <<model, msg_counter, pendingULI, uli_queue, saved, interrupt, failed, history>>

SwitchProcess ==
  /\ ~failed /\ now.code = Kernel
  /\ \E s \in Spaces : now' = [now EXCEPT !.cr3 = s]
  /\ UNCHANGED <<model, msg_counter, pendingULI, uli_queue, saved, user, interrupt, failed, history>>

LeaveKernel ==
  /\ ~failed /\ now.code = Kernel
  /\ now' = [now EXCEPT !.cs = "user", !.code = user[now.cr3]]
  /\ UNCHANGED <<model, msg_counter, pendingULI, uli_queue, saved, user, interrupt, failed, history>>

-----------------------------------------------------------------------------
Deliver == checkForInterrupts \/ propagateInterrupt \/ handleInterrupt

Next ==
  \/ stacklet_sendi
  \/ Deliver
  \/ stacklet_retuli \/ stacklet_uli_toggle \/ ProgramStep
  \/ EnterKernel \/ SwitchProcess \/ LeaveKernel

Spec == Init /\ [][Next]_vars

\* The senders go on sending, the cpu looks for interrupts before every
\* instruction, and handlers come to their end.
FairSpec ==
  Spec /\ WF_vars(stacklet_sendi) /\ WF_vars(Deliver) /\ WF_vars(stacklet_retuli)

-----------------------------------------------------------------------------
(* Properties *)

\* "Interrupts are serviced from the front of the queue, i.e. in the order
\* that they were received" (papers/finalreport/arch.tex:130), each at most
\* once, whatever the cpu model and the operating system do.
ServedInOrder ==
  \A i, j \in DOMAIN started : i < j => started[i] < started[j]

\* RETULI goes back to what the handler was started in place of, as long as no
\* other handler has started since: there is one place for the registers
\* (arch/x86/faults.cc 333), whoever has had the cpu in between.
RestoresUnlessNested ==
  [][stacklet_retuli /\ now.code = started[Len(started)] => now' = interrupted[now.code]]_vars

\* On the simple cpu every message is handled, unless a delivery clears
\* pendingULI while others are queued (arch/x86/interrupts.cc 777).
Stranded == ~pendingULI /\ uli_queue # <<>> /\ started # <<>>
StartedUnlessStranded ==
  model = "simple" => <>(Len(started) = MaxMessages) \/ <>Stranded

-----------------------------------------------------------------------------
(* What the report and the code say and the code does not do: TLC refutes   *)
(* each of these.                                                           *)

\* "RETULI is entrusted with restoring the state of the processor to what it
\* was doing before it was interrupted" (papers/finalreport/arch.tex:43).
RestoresState ==
  [][stacklet_retuli => now' = interrupted[now.code]]_vars

\* Each user-level interrupt "must be handled somewhere down the line"
\* (papers/finalreport/arch.tex:128).
AllHandled == <>(returned = Messages)

\* assert(interrupt != NoFault) of processInterrupts (cpu/o3/cpu.cc:951).
FaultIsThere == ~failed

\* TOGGLEULI: "If enable == 1, then we enable ULI, otherwise we disable it"
\* (sim/pseudo_inst.cc:690).  No handler starts in between.
OffMeansOff ==
  [][disabled => started' = started]_vars

\* A handler runs "in the context of the application", "in user-space"
\* (papers/finalreport/arch.tex:64).
HandlersInApplication ==
  now.code \in Messages => now.cr3 = "app"
=============================================================================
