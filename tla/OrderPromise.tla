----------------------------- MODULE OrderPromise -----------------------------
(***************************************************************************)
(* What the trading engine promises the strategy about its orders: each    *)
(* goes to the exchange once at most, and what is said of it under its id  *)
(* is what the exchange has made of it by then, never what it might make.  *)
(* It may be said late, twice, or not at all.                              *)
(***************************************************************************)
CONSTANT Order

VARIABLES asked,   \* the orders asked for
          fate,    \* what the exchange has made of each
          known    \* the last the strategy was told of each

vars == <<asked, fate, known>>

Init == /\ asked = {}
        /\ fate = [o \in Order |-> "unknown"]
        /\ known = [o \in Order |-> "none"]

Ask(o) == /\ o \notin asked
          /\ asked' = asked \cup {o}
          /\ UNCHANGED <<fate, known>>

Become(o, from, to) == /\ fate[o] = from
                       /\ fate' = [fate EXCEPT ![o] = to]
                       /\ UNCHANGED <<asked, known>>

Decide(o) == o \in asked /\ \E to \in {"open", "refused"} : Become(o, "unknown", to)

End(o) == \E to \in {"filled", "cancelled"} : Become(o, "open", to)

(* What a status says of an order that fill after fill may have overtaken. *)
Says(status, made) ==
  \/ status \in {"NEW", "PARTIALLY_FILLED"} /\ made \in {"open", "filled", "cancelled"}
  \/ status = "FILLED" /\ made = "filled"
  \/ status = "CANCELLED" /\ made = "cancelled"

Tell(o) == /\ \E status \in {"NEW", "PARTIALLY_FILLED", "FILLED", "CANCELLED"} :
                /\ Says(status, fate[o])
                /\ known' = [known EXCEPT ![o] = status]
           /\ UNCHANGED <<asked, fate>>

Next == \E o \in Order : Ask(o) \/ Decide(o) \/ End(o) \/ Tell(o)

Spec == Init /\ [][Next]_vars
===============================================================================
