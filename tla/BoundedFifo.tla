---------------------------- MODULE BoundedFifo ----------------------------
(***************************************************************************)
(* What a receive buffer promises: items come out once, in the order they  *)
(* arrived, and one is lost only when Capacity of them are waiting.        *)
(***************************************************************************)
EXTENDS Naturals, Sequences

CONSTANTS
  Item,      \* what is queued
  Capacity,  \* how many can wait
  MaxInput   \* bound: how many items are under way at a time

VARIABLES
  input,  \* items that arrived and are neither queued nor lost yet
  queue,  \* items that wait to be read
  got     \* the last item that was read

vars == <<input, queue, got>>

Init == input = <<>> /\ queue = <<>> /\ got \notin Item

Arrive == \E x \in Item :
  /\ Len(input) < MaxInput
  /\ input' = Append(input, x)
  /\ UNCHANGED <<queue, got>>

Put ==
  /\ input # <<>> /\ Len(queue) < Capacity
  /\ queue' = Append(queue, Head(input)) /\ input' = Tail(input)
  /\ UNCHANGED got

Lose ==
  /\ input # <<>> /\ Len(queue) = Capacity
  /\ input' = Tail(input)
  /\ UNCHANGED <<queue, got>>

Get ==
  /\ queue # <<>>
  /\ got' = Head(queue) /\ queue' = Tail(queue)
  /\ UNCHANGED input

Next == Arrive \/ Put \/ Lose \/ Get

Spec == Init /\ [][Next]_vars
=============================================================================
