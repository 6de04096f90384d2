--------------------------- MODULE BoundedBuffer ----------------------------
(***************************************************************************)
(* What runtime-example/sbuffree.h promises: a bounded FIFO buffer, safe   *)
(* for several producers and several consumers.  An insertion into a full  *)
(* buffer fails and changes nothing.                                       *)
(***************************************************************************)
EXTENDS Naturals, Sequences

CONSTANTS Items, Consumers, NoItem,
  n,        \* slots
  First     \* what it holds at the start

VARIABLES
  contents,   \* the items in the buffer
  hand        \* the item sbuf_remove is about to return to a consumer

Init ==
  /\ contents = First
  /\ hand = [c \in Consumers |-> NoItem]

Insert(x) ==
  /\ Len(contents) < n
  /\ contents' = Append(contents, x)
  /\ UNCHANGED hand

Remove(c) ==
  /\ contents # <<>> /\ hand[c] = NoItem
  /\ hand' = [hand EXCEPT ![c] = Head(contents)]
  /\ contents' = Tail(contents)

Return(c) ==
  /\ hand[c] # NoItem
  /\ hand' = [hand EXCEPT ![c] = NoItem]
  /\ UNCHANGED contents

Next == (\E x \in Items : Insert(x)) \/ (\E c \in Consumers : Remove(c) \/ Return(c))

Spec == Init /\ [][Next]_<<contents, hand>>
=============================================================================
