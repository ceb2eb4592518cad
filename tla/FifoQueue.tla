----------------------------- MODULE FifoQueue -----------------------------
(***************************************************************************)
(* What a blocking queue promises its callers, without threads that wait,  *)
(* condition variables, nodes or pointers: an element goes in at one end,  *)
(* comes out at the other exactly once, and a pop comes back empty-handed  *)
(* only at a moment when the queue is empty.                               *)
(***************************************************************************)
EXTENDS Sequences

CONSTANTS Consumers, Data, NULL

VARIABLES
  queue,    \* the elements pushed and not yet popped, oldest first
  got       \* what each consumer's last finished pop returned

Init ==
  /\ queue = << >>
  /\ got = [c \in Consumers |-> NULL]

Enqueue(d) ==
  /\ queue' = Append(queue, d)
  /\ UNCHANGED got

Dequeue(c) ==
  /\ queue # << >>
  /\ got' = [got EXCEPT ![c] = Head(queue)]
  /\ queue' = Tail(queue)

ReturnNull(c) ==
  /\ queue = << >>
  /\ got' = [got EXCEPT ![c] = NULL]
  /\ UNCHANGED queue

Next ==
  \/ \E d \in Data : Enqueue(d)
  \/ \E c \in Consumers : Dequeue(c) \/ ReturnNull(c)

vars == << queue, got >>

Spec == Init /\ [][Next]_vars
=============================================================================
