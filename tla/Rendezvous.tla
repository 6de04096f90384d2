----------------------------- MODULE Rendezvous -----------------------------
(***************************************************************************)
(* What a barrier promises: a thread leaves its k-th wait only when every  *)
(* thread has entered its k-th wait.                                       *)
(***************************************************************************)
EXTENDS Naturals

CONSTANTS Threads, Rounds

VARIABLES
  entered,   \* how many waits a thread has begun
  left       \* how many it has returned from

Init ==
  /\ entered = [t \in Threads |-> 0]
  /\ left = [t \in Threads |-> 0]

Enter(t) ==
  /\ left[t] = entered[t] /\ entered[t] < Rounds
  /\ entered' = [entered EXCEPT ![t] = @ + 1]
  /\ UNCHANGED left

Leave(t) ==
  /\ left[t] < entered[t]
  /\ \A u \in Threads : entered[u] >= entered[t]
  /\ left' = [left EXCEPT ![t] = @ + 1]
  /\ UNCHANGED entered

Next == \E t \in Threads : Enter(t) \/ Leave(t)

Spec == Init /\ [][Next]_<<entered, left>>
=============================================================================
