------------------------------- MODULE ForkJoin -------------------------------
(***************************************************************************)
(* What running fib on stacklets promises, whoever runs which part of it:  *)
(* every call of the tree is made once, by a call that has not returned,   *)
(* and it returns once, after the calls it made, with the sum of what they *)
(* returned.                                                               *)
(***************************************************************************)
EXTENDS FibTree

VARIABLES
  called,   \* the calls that have been made
  output    \* what each call has returned, None before

Init ==
  /\ called = {}
  /\ output = [f \in Frames |-> None]

Call(f) ==
  /\ f \notin called
  /\ f # Root =>
       Parent(f) \in called /\ output[Parent(f)] = None
  /\ called' = called \cup {f}
  /\ UNCHANGED output

ReturnLeaf(f) ==
  /\ IsLeaf(f)
  /\ f \in called /\ output[f] = None
  /\ output' = [output EXCEPT ![f] = 1]
  /\ UNCHANGED called

ReturnSum(f) ==
  /\ ~IsLeaf(f)
  /\ f \in called /\ output[f] = None
  /\ output[FirstChild(f)] # None /\ output[SecondChild(f)] # None
  /\ output' = [output EXCEPT ![f] = output[FirstChild(f)] + output[SecondChild(f)]]
  /\ UNCHANGED called

Next == \E f \in Frames : Call(f) \/ ReturnLeaf(f) \/ ReturnSum(f)

Spec == Init /\ [][Next]_<<called, output>>
=============================================================================
