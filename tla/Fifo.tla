-------------------------------- MODULE Fifo --------------------------------
(***************************************************************************)
(* What a message queue of sync/queue.c promises to sendI and i_handler:   *)
(* a queue that many senders append to and one owner takes from, one       *)
(* message at a time, each as it was sent.                                 *)
(***************************************************************************)
EXTENDS Sequences

CONSTANTS Messages, NoMessage

VARIABLES
  contents,   \* the messages in the queue
  hand        \* the message the owner has taken out and not handled yet

Init == contents = <<>> /\ hand = NoMessage

Enqueue(m) ==
  /\ contents' = Append(contents, m)
  /\ UNCHANGED hand

Dequeue ==
  /\ contents # <<>> /\ hand = NoMessage
  /\ hand' = Head(contents)
  /\ contents' = Tail(contents)

Handle ==
  /\ hand # NoMessage
  /\ hand' = NoMessage
  /\ UNCHANGED contents

Next == (\E m \in Messages : Enqueue(m)) \/ Dequeue \/ Handle

Spec == Init /\ [][Next]_<<contents, hand>>
=============================================================================
