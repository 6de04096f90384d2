------------------------------- MODULE FibTree -------------------------------
(***************************************************************************)
(* The tree of calls that fib (compiler/v3/myfib.c) makes for one argument,*)
(* and the table its result is compared with.                              *)
(*                                                                         *)
(* A call of fib is named by the inputs on the way to it: <<5, 3, 2>> is   *)
(* the first call made by the second call made by fib(5).  The name also   *)
(* stands for the activation record of the call and for its Foo.           *)
(***************************************************************************)
EXTENDS Integers, Sequences

CONSTANTS
  N,        \* the argument of the program
  result,   \* the table of expected results
  None      \* an absent frame or thread, and an output not yet written

ASSUME NAssumption == N \in 0..46    \* die("cannot verify if n > 46")
ASSUME ResultAssumption ==
  /\ result \in [0..46 -> Nat]
  /\ result[1] = 1 /\ result[2] = 1
  /\ \A n \in 3..46 : result[n] = result[n - 1] + result[n - 2]

Frames ==
  {f \in UNION {[1..k -> 0..N] : k \in 1..(N + 1)} :
     /\ f[1] = N
     /\ \A i \in DOMAIN f : f[i] <= N + 1 - i
     /\ \A i \in DOMAIN f \ {1} : f[i - 1] > 2 /\ f[i] \in {f[i - 1] - 1, f[i - 1] - 2}}

Root == <<N>>
Input(f) == f[Len(f)]
IsLeaf(f) == Input(f) <= 2

\* the calls fib(&a) and fib(&b) of f
FirstChild(f) == Append(f, Input(f) - 1)
SecondChild(f) == Append(f, Input(f) - 2)
Parent(f) == SubSeq(f, 1, Len(f) - 1)

Inner == {f \in Frames : ~IsLeaf(f)}

ASSUME NoneAssumption == None \notin Frames \cup Nat
=============================================================================
