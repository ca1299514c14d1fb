---------------------------- MODULE BoundedQueue ----------------------------
(***************************************************************************)
(* What the queues of the standard library promise: first in, first out,   *)
(* at most Capacity items, and nothing lost when the queue is full or      *)
(* empty.  out is what the last call answered: whether it succeeded, the   *)
(* number it returned, and the item it returned (<<>> for null).           *)
(***************************************************************************)
EXTENDS Integers, Sequences

CONSTANTS
  Values,    \* what scripts put in a queue
  Initial,   \* the items it is made with
  Capacity

VARIABLES items, out

Answer(op, ok, number, item) ==
  [op |-> op, ok |-> ok, number |-> number, item |-> item]

Init == items = Initial /\ out = Answer("new", TRUE, 0, <<>>)

Push(v) ==
  /\ Len(items) < Capacity
  /\ items' = Append(items, v)
  /\ out' = Answer("push", TRUE, Len(items) + 1, <<>>)

Refuse ==
  /\ Len(items) = Capacity
  /\ out' = Answer("push", FALSE, Capacity, <<>>)
  /\ UNCHANGED items

Pop ==
  /\ items # <<>>
  /\ items' = Tail(items)
  /\ out' = Answer("pop", TRUE, 0, <<Head(items)>>)

PopEmpty ==
  /\ items = <<>>
  /\ out' = Answer("pop", TRUE, 0, <<>>)
  /\ UNCHANGED items

Clear == items' = <<>> /\ out' = Answer("clear", TRUE, 0, <<>>)

Next == (\E v \in Values : Push(v)) \/ Refuse \/ Pop \/ PopEmpty \/ Clear

Spec == Init /\ [][Next]_<<items, out>>
=============================================================================
