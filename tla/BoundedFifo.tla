----------------------------- MODULE BoundedFifo -----------------------------
(***************************************************************************)
(* What a shared-memory ring promises the two threads that use it: a queue *)
(* of at most Capacity items.  What was put is got, once, whole and in     *)
(* order; a put is refused only when the queue is full and a get comes     *)
(* back empty only when the queue is empty.                                *)
(***************************************************************************)
EXTENDS Naturals, Sequences

CONSTANTS Item,      \* the values that can be queued
          Capacity   \* how many of them fit

VARIABLES put,       \* every item accepted so far, in order
          got,       \* every item handed out so far, in order
          reply      \* what the last completed operation answered

vars == <<put, got, reply>>

Init == /\ put = <<>>
        /\ got = <<>>
        /\ reply = "none"

Full  == Len(put) - Len(got) >= Capacity
Empty == Len(got) >= Len(put)

Put == /\ ~Full
       /\ \E item \in Item : put' = Append(put, item)
       /\ reply' = "put"
       /\ UNCHANGED got

Refuse == /\ Full
          /\ reply' = "full"
          /\ UNCHANGED <<put, got>>

Get == /\ ~Empty
       /\ got' = Append(got, put[Len(got) + 1])
       /\ reply' = "got"
       /\ UNCHANGED put

FindNothing == /\ Empty
               /\ reply' = "empty"
               /\ UNCHANGED <<put, got>>

Next == Put \/ Refuse \/ Get \/ FindNothing

Spec == Init /\ [][Next]_vars
=============================================================================
