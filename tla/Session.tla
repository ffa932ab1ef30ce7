------------------------------- MODULE Session -------------------------------
(***************************************************************************)
(* What the private channel promises to its users: a channel asked for is  *)
(* carried by the connection some time later, and a connection that takes  *)
(* the place of a lost one carries all that was asked for by then.         *)
(***************************************************************************)
EXTENDS FiniteSets

CONSTANT Channel   \* the channels of the private web socket

VARIABLES asked,     \* the channels asked for since the start
          open,      \* whether there is a connection that carries anything
          carried    \* what it carries

vars == <<asked, open, carried>>

Init == asked = {} /\ open = TRUE /\ carried = {}

Ask(c) == /\ asked' = asked \cup {c}
          /\ UNCHANGED <<open, carried>>

Carry(c) == /\ open
            /\ c \in asked
            /\ carried' = carried \cup {c}
            /\ UNCHANGED <<asked, open>>

Lose == /\ open' = FALSE
        /\ carried' = {}
        /\ UNCHANGED asked

Restore == /\ ~open
           /\ open' = TRUE
           /\ carried' = asked
           /\ UNCHANGED asked

Next == (\E c \in Channel : Ask(c) \/ Carry(c)) \/ Lose \/ Restore

Spec == Init /\ [][Next]_vars
=============================================================================
