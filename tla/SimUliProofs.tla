---------------------------- MODULE SimUliProofs ----------------------------
(***************************************************************************)
(* The ULIs of the simulator are served in the order they were sent, and   *)
(* RETULI goes back to what the last handler was started in place of, for  *)
(* any number of messages and whatever the operating system does.          *)
(***************************************************************************)
EXTENDS SimUli, SequenceTheorems, TLAPS

(***************************************************************************)
(* The inductive invariant                                                 *)
(***************************************************************************)

Increasing(q) == \A k, n \in 1..Len(q) : k < n => q[k] < q[n]

\* messages are numbered as they are sent, and what is queued comes after
\* what was started
OrderInv ==
  /\ \A k \in 1..Len(uli_queue) : uli_queue[k] <= msg_counter
  /\ \A k \in 1..Len(started) : started[k] <= msg_counter
  /\ Increasing(uli_queue)
  /\ Increasing(started)
  /\ \A k \in 1..Len(started), n \in 1..Len(uli_queue) : started[k] < uli_queue[n]

Newest == started[Len(started)]

\* the code of a handler runs, or waits to be resumed, only once it is started
Known(c) == c \in Messages => \E k \in 1..Len(started) : started[k] = c

\* the kernel runs kernel code, and nothing else does
Moded(context) == context.cs = "kernel" <=> context.code = Kernel

\* the one place for registers holds what the newest handler was started in
\* place of, and that handler is only ever resumed in the process it began in
PlaceInv ==
  /\ Moded(now) /\ Moded(saved)
  /\ Known(now.code) /\ Known(saved.code) /\ \A s \in Spaces : Known(user[s])
  /\ started # <<>> =>
       /\ saved = interrupted[Newest] /\ saved.code # Newest
       /\ now.code = Newest => now.cr3 = saved.cr3
       /\ \A s \in Spaces : user[s] = Newest => s = saved.cr3

Inv == TypeOK /\ OrderInv /\ PlaceInv

(***************************************************************************)
(* Sequences                                                               *)
(***************************************************************************)

\* what Append does to the elements of a sequence
LEMMA Appended ==
  ASSUME NEW S, NEW q \in Seq(S), NEW x \in S
  PROVE  /\ Append(q, x) \in Seq(S) /\ Append(q, x) # <<>>
         /\ Len(q) \in Nat /\ Len(Append(q, x)) = Len(q) + 1
         /\ \A k \in 1..Len(q) : Append(q, x)[k] = q[k]
         /\ Append(q, x)[Len(q) + 1] = x
OBVIOUS

\* what Tail does to them
LEMMA Shortened ==
  ASSUME NEW S, NEW q \in Seq(S), q # <<>>
  PROVE  /\ Head(q) = q[1] /\ Head(q) \in S
         /\ Tail(q) \in Seq(S)
         /\ Len(q) \in Nat /\ Len(q) >= 1 /\ Len(Tail(q)) = Len(q) - 1
         /\ \A k \in 1..(Len(q) - 1) : Tail(q)[k] = q[k + 1]
<1>1. Len(q) \in Nat /\ Len(q) # 0
  BY EmptySeq, LenProperties
<1>2. Head(q) = q[1] /\ Tail(q) \in Seq(S) /\ Len(Tail(q)) = Len(q) - 1
  BY HeadTailProperties
<1>3. 1 \in 1..Len(q)
  BY <1>1
<1>4. q[1] \in S
  BY <1>3, ElementOfSeq
<1>5. \A k \in 1..(Len(q) - 1) : Tail(q)[k] = q[k + 1]
  BY <1>2, HeadTailProperties
<1> QED BY <1>1, <1>2, <1>4, <1>5

(***************************************************************************)
(* The order of the messages                                               *)
(***************************************************************************)

\* getInterrupt takes the least of the queued messages
LEMMA Fetched ==
  ASSUME TypeOK, OrderInv, NEW m \in Messages, getInterrupt(m)
  PROVE  /\ uli_queue' \in Seq(Messages) /\ Increasing(uli_queue')
         /\ m <= msg_counter
         /\ \A k \in 1..Len(uli_queue') : uli_queue'[k] <= msg_counter /\ m < uli_queue'[k]
         /\ \A k \in 1..Len(started) : started[k] < m
         /\ \A k \in 1..Len(started), n \in 1..Len(uli_queue') : started[k] < uli_queue'[n]
<1>1. PICK q : q = uli_queue
  OBVIOUS
<1>2. PICK r : r = uli_queue'
  OBVIOUS
<1>3. q \in Seq(Messages) /\ q # <<>> /\ m = Head(q) /\ r = Tail(q)
  BY <1>1, <1>2 DEF getInterrupt, TypeOK
<1>4. /\ m = q[1] /\ r \in Seq(Messages)
      /\ Len(q) \in Nat /\ Len(q) >= 1 /\ Len(r) = Len(q) - 1
      /\ \A k \in 1..(Len(q) - 1) : r[k] = q[k + 1]
  BY <1>3, Shortened
<1>5. \A k \in 1..Len(r) : k + 1 \in 1..Len(q) /\ 1 < k + 1 /\ r[k] = q[k + 1]
  BY <1>4
<1>6. 1 \in 1..Len(q)
  BY <1>4
<1>7. /\ \A k \in 1..Len(q) : q[k] <= msg_counter
      /\ \A k, n \in 1..Len(q) : k < n => q[k] < q[n]
      /\ \A k \in 1..Len(started), n \in 1..Len(q) : started[k] < q[n]
  BY <1>1 DEF OrderInv, Increasing
<1>8. \A k, n \in 1..Len(r) : k < n => k + 1 < n + 1
  OBVIOUS
<1>9. Increasing(r)
  BY <1>5, <1>7, <1>8 DEF Increasing
<1>10. \A k \in 1..Len(r) : r[k] <= msg_counter /\ m < r[k]
  BY <1>4, <1>5, <1>6, <1>7
<1>11. \A k \in 1..Len(started) : started[k] < m
  BY <1>4, <1>6, <1>7
<1>12. \A k \in 1..Len(started), n \in 1..Len(r) : started[k] < r[n]
  BY <1>5, <1>7
<1>13. m <= msg_counter
  BY <1>4, <1>6, <1>7
<1> QED BY <1>2, <1>4, <1>9, <1>10, <1>11, <1>12, <1>13

\* a message that is dropped, or held in commit, leaves the others in order
LEMMA OrderFetch ==
  ASSUME TypeOK, OrderInv, NEW m \in Messages, getInterrupt(m),
         UNCHANGED <<msg_counter, started>>
  PROVE  OrderInv'
BY Fetched DEF OrderInv

\* and so does one whose handler starts
LEMMA OrderInvoke ==
  ASSUME TypeOK, OrderInv, NEW m \in Messages, getInterrupt(m), UNCHANGED msg_counter,
         started' = Append(started, m)
  PROVE  OrderInv'
<1>1. started \in Seq(Messages)
  BY DEF TypeOK
<1>2. /\ Len(started) \in Nat /\ Len(started') = Len(started) + 1
      /\ \A k \in 1..Len(started) : started'[k] = started[k]
      /\ started'[Len(started) + 1] = m
  BY <1>1, Appended
<1>3. \A k \in 1..Len(started') : k \in 1..Len(started) \/ k = Len(started) + 1
  BY <1>2
<1>4. Increasing(started')
  <2> SUFFICES ASSUME NEW k \in 1..Len(started'), NEW n \in 1..Len(started'), k < n
               PROVE  started'[k] < started'[n]
    BY DEF Increasing
  <2>1. k \in 1..Len(started)
    BY <1>2
  <2>2. CASE n \in 1..Len(started)
    BY <1>2, <2>1, <2>2 DEF OrderInv, Increasing
  <2>3. CASE n = Len(started) + 1
    BY <1>2, <2>1, <2>3, Fetched
  <2> QED BY <1>3, <2>2, <2>3
<1>5. \A k \in 1..Len(started'), n \in 1..Len(uli_queue') : started'[k] < uli_queue'[n]
  BY <1>2, <1>3, Fetched
<1>6. \A k \in 1..Len(started') : started'[k] <= msg_counter
  BY <1>2, <1>3, Fetched DEF OrderInv
<1> QED BY <1>4, <1>5, <1>6, Fetched DEF OrderInv

\* a new message is greater than all before
LEMMA OrderSend ==
  ASSUME TypeOK, OrderInv, stacklet_sendi
  PROVE  OrderInv'
<1> DEFINE m == msg_counter + 1
<1>1. m \in Messages /\ msg_counter \in Nat
  BY SimUliAssumption DEF TypeOK, stacklet_sendi, Messages
<1>2. uli_queue \in Seq(Messages) /\ uli_queue' = Append(uli_queue, m) /\ msg_counter' = m
      /\ started' = started
  BY DEF TypeOK, stacklet_sendi, recvMessage, requestInterrupt, addULI, history
<1> HIDE DEF m
<1>3. /\ Len(uli_queue) \in Nat /\ Len(uli_queue') = Len(uli_queue) + 1
      /\ \A k \in 1..Len(uli_queue) : uli_queue'[k] = uli_queue[k]
      /\ uli_queue'[Len(uli_queue) + 1] = m
  BY <1>1, <1>2, Appended
<1>4. \A k \in 1..Len(uli_queue') : k \in 1..Len(uli_queue) \/ k = Len(uli_queue) + 1
  BY <1>3
<1>5. \A k \in 1..Len(uli_queue) : uli_queue[k] \in Messages /\ uli_queue[k] <= msg_counter
  BY <1>2, ElementOfSeq DEF OrderInv
<1>6. \A x \in Nat : x <= msg_counter => x < m
  BY <1>1 DEF m
<1>7. \A k \in 1..Len(uli_queue) : uli_queue'[k] <= m /\ uli_queue'[k] < m
  BY <1>3, <1>5, <1>6, <1>1 DEF Messages
<1>8. m \in Nat /\ m <= m
  BY <1>1 DEF m
<1>9. \A k \in 1..Len(uli_queue') : uli_queue'[k] <= m
  BY <1>3, <1>4, <1>7, <1>8
<1>10. Increasing(uli_queue')
  <2> SUFFICES ASSUME NEW k \in 1..Len(uli_queue'), NEW n \in 1..Len(uli_queue'), k < n
               PROVE  uli_queue'[k] < uli_queue'[n]
    BY DEF Increasing
  <2>1. k \in 1..Len(uli_queue)
    BY <1>3
  <2>2. CASE n \in 1..Len(uli_queue)
    BY <1>3, <2>1, <2>2 DEF OrderInv, Increasing
  <2>3. CASE n = Len(uli_queue) + 1
    BY <1>3, <1>7, <2>1, <2>3
  <2> QED BY <1>4, <2>2, <2>3
<1>11. \A k \in 1..Len(started) : started[k] \in Messages
  BY ElementOfSeq DEF TypeOK
<1>12. \A k \in 1..Len(started) : started[k] < m /\ started[k] <= m
  <2>1. \A k \in 1..Len(started) : started[k] \in Nat /\ started[k] < m
    BY <1>11, <1>6 DEF Messages, OrderInv
  <2> QED BY <1>8, <2>1
<1>13. \A k \in 1..Len(started), n \in 1..Len(uli_queue') : started[k] < uli_queue'[n]
  BY <1>3, <1>4, <1>12 DEF OrderInv
<1> QED BY <1>2, <1>9, <1>10, <1>12, <1>13 DEF OrderInv, Increasing

(***************************************************************************)
(* The place to return to                                                  *)
(***************************************************************************)

\* ULI::invoke saves what it interrupts, and nothing else has the code of m yet
LEMMA PlaceInvoke ==
  ASSUME TypeOK, OrderInv, PlaceInv, NEW m \in Messages, getInterrupt(m), invoke(m),
         UNCHANGED user
  PROVE  PlaceInv'
<1>1. started \in Seq(Messages) /\ now \in Contexts /\ user \in [Spaces -> Messages \cup Program]
      /\ interrupted \in [Messages -> Contexts]
  BY DEF TypeOK
<1>2. /\ started' # <<>> /\ Len(started) \in Nat /\ Len(started') = Len(started) + 1
      /\ \A k \in 1..Len(started) : started'[k] = started[k]
      /\ started'[Len(started) + 1] = m
  BY <1>1, Appended DEF invoke
<1>3. Newest' = m
  BY <1>2 DEF Newest
<1>4. \A k \in 1..Len(started) : started[k] # m
  <2>1. \A k \in 1..Len(started) : started[k] < m /\ started[k] \in Messages
    BY <1>1, Fetched, ElementOfSeq
  <2> QED BY <2>1 DEF Messages
<1>5. \A c : Known(c) => c # m /\ (c \in Messages => \E k \in 1..Len(started') : started'[k] = c)
  BY <1>2, <1>4 DEF Known
<1>6. \E k \in 1..Len(started') : started'[k] = m
  BY <1>2
<1>7. /\ saved' = now /\ interrupted'[m] = now /\ user' = user
      /\ now'.cr3 = now.cr3 /\ now'.cs = "user" /\ now'.code = m
  BY <1>1 DEF invoke, Contexts
<1>8. m # Kernel
  BY PlacesAssumption
<1>9. (Moded(now) /\ Moded(saved))'
  BY <1>7, <1>8 DEF PlaceInv, Moded
<1>10. now.code # m /\ \A s \in Spaces : user[s] # m
  BY <1>5 DEF PlaceInv
<1>11. Known(now.code) /\ \A s \in Spaces : Known(user[s])
  BY DEF PlaceInv
<1>12. (Known(now.code) /\ Known(saved.code) /\ \A s \in Spaces : Known(user[s]))'
  BY <1>5, <1>6, <1>7, <1>11 DEF Known
<1> QED
  BY <1>3, <1>7, <1>9, <1>10, <1>12 DEF PlaceInv, Moded

\* the newest handler's message
LEMMA NewestTyped ==
  ASSUME TypeOK, started # <<>>
  PROVE  Newest \in Messages
<1>1. started \in Seq(Messages) /\ Len(started) \in Nat /\ Len(started) # 0
  BY EmptySeq, LenProperties DEF TypeOK
<1>2. Len(started) \in 1..Len(started)
  BY <1>1
<1> QED BY <1>1, <1>2, ElementOfSeq DEF Newest

\* every step that starts no handler: RETULI, the program, the kernel
LEMMA PlaceOther ==
  ASSUME TypeOK, PlaceInv, UNCHANGED <<saved, interrupted, started>>,
         \/ UNCHANGED <<now, user>>
         \/ stacklet_retuli \/ ProgramStep \/ EnterKernel \/ SwitchProcess \/ LeaveKernel
  PROVE  PlaceInv'
<1>1. /\ now \in Contexts /\ saved \in Contexts
      /\ user \in [Spaces -> Messages \cup Program]
  BY DEF TypeOK
<1>2. /\ now.cr3 \in Spaces /\ now.cs \in {"user", "kernel"}
      /\ saved.cr3 \in Spaces /\ saved.cs \in {"user", "kernel"}
      /\ \A s \in Spaces : user[s] \in Messages \cup Program
  BY <1>1 DEF Contexts, Modes
<1>3. started # <<>> => Newest \in Messages
  BY NewestTyped
<1>4. Kernel \notin Program /\ Kernel \notin Messages /\ \A c \in Program : c \notin Messages
  BY PlacesAssumption
<1>5. Newest' = Newest /\ \A c : Known(c)' <=> Known(c)
  BY DEF Newest, Known
<1>6. ASSUME Moded(now'), Known(now'.code), \A s \in Spaces : Known(user'[s]),
             started # <<>> => /\ now'.code = Newest => now'.cr3 = saved.cr3
                               /\ \A s \in Spaces : user'[s] = Newest => s = saved.cr3
      PROVE  PlaceInv'
  <2>1. Moded(saved) /\ Known(saved.code)
        /\ (started # <<>> => saved = interrupted[Newest] /\ saved.code # Newest)
    BY DEF PlaceInv
  <2>2. (Moded(now) /\ Moded(saved))'
    BY <1>6, <2>1 DEF Moded
  <2>3. (Known(now.code) /\ Known(saved.code) /\ \A s \in Spaces : Known(user[s]))'
    BY <1>6, <2>1 DEF Known
  <2> QED BY <1>5, <1>6, <2>1, <2>2, <2>3 DEF PlaceInv
<1>7. CASE UNCHANGED <<now, user>>
  BY <1>6, <1>7 DEF PlaceInv
<1>8. CASE stacklet_retuli
  <2>1. now'.cs = saved.cs /\ now'.code = saved.code /\ now'.cr3 = now.cr3 /\ user' = user
    BY <1>1, <1>8 DEF stacklet_retuli, Contexts
  <2> QED BY <1>6, <2>1 DEF PlaceInv, Moded
<1>9. CASE ProgramStep
  <2>1. PICK c \in Program : now' = [now EXCEPT !.code = c]
    BY <1>9 DEF ProgramStep
  <2>2. now'.cs = now.cs /\ now'.code = c /\ user' = user /\ now.code \in Program
    BY <1>1, <1>9, <2>1 DEF ProgramStep, Contexts
  <2>3. Moded(now') /\ Known(now'.code)
    BY <1>4, <2>2 DEF PlaceInv, Moded, Known
  <2> QED BY <1>3, <1>4, <1>6, <2>2, <2>3 DEF PlaceInv
<1>10. CASE EnterKernel
  <2>1. /\ now'.cs = "kernel" /\ now'.code = Kernel
        /\ user' = [user EXCEPT ![now.cr3] = now.code]
    BY <1>1, <1>10 DEF EnterKernel, Contexts
  <2>2. /\ user'[now.cr3] = now.code
        /\ \A s \in Spaces : s # now.cr3 => user'[s] = user[s]
    BY <1>1, <1>2, <2>1
  <2>3. Moded(now') /\ Known(now'.code)
    BY <1>4, <2>1 DEF Moded, Known
  <2>4. \A s \in Spaces : Known(user'[s])
    BY <2>2 DEF PlaceInv
  <2> QED BY <1>3, <1>4, <1>6, <2>1, <2>2, <2>3, <2>4 DEF PlaceInv
<1>11. CASE SwitchProcess
  <2>1. PICK s \in Spaces : now' = [now EXCEPT !.cr3 = s]
    BY <1>11 DEF SwitchProcess
  <2>2. now'.cs = now.cs /\ now'.code = Kernel /\ user' = user /\ now.code = Kernel
    BY <1>1, <1>11, <2>1 DEF SwitchProcess, Contexts
  <2>3. Moded(now') /\ Known(now'.code)
    BY <1>4, <2>2 DEF PlaceInv, Moded, Known
  <2> QED BY <1>3, <1>4, <1>6, <2>2, <2>3 DEF PlaceInv
<1>12. CASE LeaveKernel
  <2>1. now'.cs = "user" /\ now'.code = user[now.cr3] /\ now'.cr3 = now.cr3 /\ user' = user
    BY <1>1, <1>12 DEF LeaveKernel, Contexts
  <2>2. user[now.cr3] # Kernel
    BY <1>2, <1>4
  <2>3. Moded(now') /\ Known(now'.code)
    BY <1>2, <2>1, <2>2 DEF PlaceInv, Moded
  <2> QED BY <1>2, <1>6, <2>1, <2>3 DEF PlaceInv
<1> QED BY <1>7, <1>8, <1>9, <1>10, <1>11, <1>12

(***************************************************************************)
(* Types                                                                   *)
(***************************************************************************)

\* a delivery keeps the types
LEMMA TypeDeliver ==
  ASSUME TypeOK, OrderInv, Deliver
  PROVE  TypeOK'
<1> USE DEF TypeOK
<1>1. \A m \in Messages : getInterrupt(m) => uli_queue' \in Seq(Messages)
  BY Fetched
<1>2. updateIntrInfo => pendingULI' \in BOOLEAN
  BY DEF updateIntrInfo
<1>3. \A m \in Messages : invoke(m) =>
        /\ now' \in Contexts /\ saved' \in Contexts /\ interrupted' \in [Messages -> Contexts]
        /\ started' \in Seq(Messages) /\ returned' = returned /\ disabled' = disabled
  <2> SUFFICES ASSUME NEW m \in Messages, invoke(m)
               PROVE  /\ now' \in Contexts /\ saved' \in Contexts
                      /\ interrupted' \in [Messages -> Contexts]
                      /\ started' \in Seq(Messages)
                      /\ returned' = returned /\ disabled' = disabled
    OBVIOUS
  <2>1. now' \in Contexts
    BY DEF invoke, Contexts, Codes, Modes
  <2>2. started' \in Seq(Messages)
    BY Appended DEF invoke
  <2> QED BY <2>1, <2>2 DEF invoke
<1>4. CASE checkForInterrupts
  BY <1>1, <1>2, <1>3, <1>4 DEF checkForInterrupts
<1>5. CASE propagateInterrupt
  BY <1>1, <1>5 DEF propagateInterrupt, history
<1>6. CASE handleInterrupt
  BY <1>1, <1>2, <1>3, <1>6 DEF handleInterrupt, processInterrupts, history
<1> QED BY <1>4, <1>5, <1>6 DEF Deliver

\* and so does every other step
LEMMA TypeOther ==
  ASSUME TypeOK, PlaceInv,
         \/ stacklet_sendi \/ stacklet_retuli \/ stacklet_uli_toggle \/ ProgramStep
         \/ EnterKernel \/ SwitchProcess \/ LeaveKernel
  PROVE  TypeOK'
<1> USE DEF TypeOK, history
<1>1. CASE stacklet_sendi
  <2>1. msg_counter + 1 \in Messages /\ msg_counter + 1 \in 0..MaxMessages
    BY <1>1, SimUliAssumption DEF stacklet_sendi, Messages
  <2>2. uli_queue' \in Seq(Messages)
    BY <1>1, <2>1, Appended DEF stacklet_sendi, recvMessage, requestInterrupt, addULI
  <2> QED BY <1>1, <2>1, <2>2 DEF stacklet_sendi, recvMessage, requestInterrupt
<1>2. CASE stacklet_retuli
  <2>1. now' \in Contexts /\ now.code \in Messages
    BY <1>2 DEF stacklet_retuli, Contexts
  <2> QED BY <1>2, <2>1 DEF stacklet_retuli
<1>3. CASE stacklet_uli_toggle
  BY <1>3 DEF stacklet_uli_toggle
<1>4. CASE ProgramStep
  <2>1. now' \in Contexts
    BY <1>4 DEF ProgramStep, Contexts, Codes
  <2> QED BY <1>4, <2>1 DEF ProgramStep
<1>5. CASE EnterKernel
  <2>1. now' \in Contexts
    BY <1>5 DEF EnterKernel, Contexts, Codes, Modes
  <2>2. now.code \in Messages \cup Program /\ now.cr3 \in Spaces
    BY <1>5 DEF EnterKernel, Contexts, Codes, PlaceInv, Moded
  <2> QED BY <1>5, <2>1, <2>2 DEF EnterKernel
<1>6. CASE SwitchProcess
  <2>1. now' \in Contexts
    BY <1>6 DEF SwitchProcess, Contexts
  <2> QED BY <1>6, <2>1 DEF SwitchProcess
<1>7. CASE LeaveKernel
  <2>1. now.cr3 \in Spaces
    BY DEF Contexts
  <2>2. user[now.cr3] \in Codes
    BY <2>1 DEF Codes
  <2>3. now' \in Contexts
    BY <1>7, <2>2 DEF LeaveKernel, Contexts, Modes
  <2> QED BY <1>7, <2>3 DEF LeaveKernel
<1> QED BY <1>1, <1>2, <1>3, <1>4, <1>5, <1>6, <1>7

(***************************************************************************)
(* The invariant holds, and what it shows                                  *)
(***************************************************************************)

\* a delivery keeps the invariant
LEMMA InvDeliver ==
  ASSUME Inv, Deliver
  PROVE  Inv'
<1> USE DEF Inv
<1>1. TypeOK'
  BY TypeDeliver
<1>2. ASSUME NEW m \in Messages, getInterrupt(m), invoke(m), UNCHANGED <<msg_counter, user>>
      PROVE  OrderInv' /\ PlaceInv'
  BY <1>2, OrderInvoke, PlaceInvoke DEF invoke
<1>3. ASSUME NEW m \in Messages, getInterrupt(m),
             UNCHANGED <<msg_counter, now, saved, user, history>>
      PROVE  OrderInv' /\ PlaceInv'
  BY <1>3, OrderFetch, PlaceOther DEF history
<1>4. ASSUME UNCHANGED <<msg_counter, uli_queue, now, saved, user, history>>
      PROVE  OrderInv' /\ PlaceInv'
  BY <1>4, PlaceOther DEF history, OrderInv
<1>5. CASE checkForInterrupts
  BY <1>1, <1>2, <1>5 DEF checkForInterrupts
<1>6. CASE propagateInterrupt
  BY <1>1, <1>3, <1>6 DEF propagateInterrupt
<1>7. CASE handleInterrupt
  BY <1>1, <1>2, <1>3, <1>4, <1>7 DEF handleInterrupt, processInterrupts
<1> QED BY <1>5, <1>6, <1>7 DEF Deliver

\* every step does
LEMMA InvStep == Inv /\ [Next]_vars => Inv'
<1> SUFFICES ASSUME Inv, [Next]_vars PROVE Inv'
  OBVIOUS
<1> USE DEF Inv
<1>1. CASE stacklet_sendi
  <2>1. UNCHANGED <<saved, interrupted, started, now, user>>
    BY <1>1 DEF stacklet_sendi, history
  <2> QED BY <1>1, <2>1, TypeOther, OrderSend, PlaceOther
<1>2. CASE Deliver
  BY <1>2, InvDeliver
<1>3. CASE stacklet_retuli \/ ProgramStep \/ EnterKernel \/ SwitchProcess \/ LeaveKernel
  <2>1. UNCHANGED <<msg_counter, uli_queue, saved, interrupted, started>>
    BY <1>3 DEF stacklet_retuli, ProgramStep, EnterKernel, SwitchProcess, LeaveKernel, history
  <2>2. OrderInv'
    BY <2>1 DEF OrderInv
  <2> QED BY <1>3, <2>1, <2>2, TypeOther, PlaceOther
<1>4. CASE stacklet_uli_toggle
  <2>1. UNCHANGED <<msg_counter, uli_queue, saved, interrupted, started, now, user>>
    BY <1>4 DEF stacklet_uli_toggle
  <2>2. OrderInv'
    BY <2>1 DEF OrderInv
  <2> QED BY <1>4, <2>1, <2>2, TypeOther, PlaceOther
<1>5. CASE UNCHANGED vars
  <2>1. TypeOK'
    BY <1>5 DEF TypeOK, vars, history
  <2>2. UNCHANGED <<msg_counter, uli_queue, saved, interrupted, started, now, user>>
    BY <1>5 DEF vars, history
  <2>3. OrderInv'
    BY <2>2 DEF OrderInv
  <2> QED BY <2>1, <2>2, <2>3, PlaceOther
<1> QED BY <1>1, <1>2, <1>3, <1>4, <1>5 DEF Next

\* the invariant holds at the start
LEMMA InvInit == Init => Inv
<1> SUFFICES ASSUME Init PROVE Inv
  OBVIOUS
<1>1. PICK c \in Program : now = InProgram(c)
  BY DEF Init
<1>2. /\ now.cr3 = "app" /\ now.cs = "user" /\ now.code = c /\ now \in Contexts
  BY <1>1 DEF InProgram, Contexts, Codes, Spaces, Modes
<1>3. TypeOK
  <2>1. msg_counter \in 0..MaxMessages /\ uli_queue \in Seq(Messages) /\ started \in Seq(Messages)
    BY SimUliAssumption DEF Init
  <2>2. user \in [Spaces -> Messages \cup Program]
    BY <1>2 DEF Init
  <2>3. saved \in Contexts /\ interrupted \in [Messages -> Contexts]
    BY <1>2 DEF Init
  <2> QED BY <1>2, <2>1, <2>2, <2>3, Zenon DEF Init, TypeOK
<1>4. uli_queue = <<>> /\ started = <<>> /\ saved = now /\ \A s \in Spaces : user[s] = c
  BY <1>2 DEF Init
<1>5. OrderInv
  BY <1>4 DEF OrderInv, Increasing
<1>6. c # Kernel /\ c \notin Messages
  BY PlacesAssumption
<1>7. PlaceInv
  BY <1>2, <1>4, <1>6 DEF PlaceInv, Moded, Known
<1> QED BY <1>3, <1>5, <1>7 DEF Inv

(***************************************************************************)
(* The inductive invariant of the simulated ULIs: numbered messages in     *)
(* order, and one saved context that belongs to the newest handler.        *)
(***************************************************************************)
THEOREM InvHolds == Spec => []Inv
BY InvInit, InvStep, PTL DEF Spec

(***************************************************************************)
(* Handlers start in the order in which their messages were sent and none  *)
(* starts twice, on both cpu models, for any number of messages: a message *)
(* the out-of-order commit stage fetches and drops is never served late.   *)
(***************************************************************************)
THEOREM ServedInOrderAlways == Spec => []ServedInOrder
<1>1. Inv => ServedInOrder
  <2> SUFFICES ASSUME Inv PROVE ServedInOrder
    OBVIOUS
  <2>1. DOMAIN started = 1..Len(started)
    BY LenProperties DEF Inv, TypeOK
  <2> QED BY <2>1 DEF Inv, OrderInv, Increasing, ServedInOrder
<1> QED BY InvHolds, <1>1, PTL

(***************************************************************************)
(* RETULI at the end of the newest handler goes back to exactly what that  *)
(* handler was started in place of, however often the kernel has taken the *)
(* cpu in between and whichever process it has run.                        *)
(***************************************************************************)
THEOREM RestoresAlways == Spec => RestoresUnlessNested
<1>1. ASSUME Inv, stacklet_retuli, now.code = started[Len(started)]
      PROVE  now' = interrupted[now.code]
  <2>1. now.code \in Messages /\ now' = [now EXCEPT !.cs = saved.cs, !.code = saved.code]
    BY <1>1 DEF stacklet_retuli
  <2>2. started # <<>>
    BY <1>1, <2>1 DEF Inv, PlaceInv, Known
  <2>3. saved = interrupted[now.code] /\ now.cr3 = saved.cr3
    BY <1>1, <2>2 DEF Inv, PlaceInv, Newest
  <2>4. now \in Contexts /\ saved \in Contexts
    BY <1>1 DEF Inv, TypeOK
  <2> QED BY <2>1, <2>3, <2>4 DEF Contexts
<1>2. Inv /\ [Next]_vars =>
        [stacklet_retuli /\ now.code = started[Len(started)] => now' = interrupted[now.code]]_vars
  BY <1>1
<1> QED BY InvHolds, <1>2, PTL DEF Spec, RestoresUnlessNested

============================================================================
