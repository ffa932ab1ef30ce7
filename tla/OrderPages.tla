----------------------------- MODULE OrderPages -----------------------------
(***************************************************************************)
(* OkxClient::QueryPendingOrdersByType (clients/okx/okx.cpp): the orders   *)
(* of one kind that are pending, asked for a page at a time, the newest    *)
(* first, each page below the last order kept of the page before.  Orders  *)
(* are placed and end between the pages.  One page is one REST call, which *)
(* reads the exchange at one point.                                        *)
(*                                                                         *)
(* An order is the id the exchange gave it; ids grow with time.            *)
(***************************************************************************)
EXTENDS Integers, FiniteSets

CONSTANTS Id,           \* the ids the exchange may give
          Registered,   \* those of orders for registered instruments
          PageSize,     \* what the exchange puts on a page (100)
          Empty         \* no cursor

ASSUME IdAssumption   == Id \subseteq Nat /\ Registered \subseteq Id /\ Empty \notin Id
ASSUME SizeAssumption == PageSize \in Nat \ {0}

VARIABLES pending,   \* the orders pending at the exchange
          used,      \* the ids it has given
          cursor,    \* after_cursor
          result,    \* how often each order is in result; 2 is twice or more
          pc,        \* ask, or done
          stayed,    \* history: the orders pending ever since the call
          cut,       \* history: a full page held an unregistered order
          failed     \* history: a call failed

vars == <<pending, used, cursor, result, pc, stayed, cut, failed>>

Init == /\ pending \in SUBSET Id /\ IsFiniteSet(pending)
        /\ used = pending
        /\ cursor = Empty
        /\ result = [i \in Id |-> 0]
        /\ pc = "ask"
        /\ stayed = pending
        /\ cut = FALSE
        /\ failed = FALSE

-----------------------------------------------------------------------------
(* The exchange: a page is the newest of the orders below the cursor, and    *)
(* less than a full one only if there are no more.                           *)
Older == {i \in pending : cursor = Empty \/ i < cursor}

Pages == {page \in SUBSET Older :
            /\ Cardinality(page) <= PageSize
            /\ \A i \in page : \A j \in Older \ page : j < i
            /\ Cardinality(page) < PageSize => page = Older}

Place(i) ==
  /\ \A j \in used : j < i
  /\ pending' = pending \cup {i}
  /\ used' = used \cup {i}
  /\ UNCHANGED <<cursor, result, pc, stayed, cut, failed>>

End(i) ==
  /\ i \in pending
  /\ pending' = pending \ {i}
  /\ stayed' = stayed \ {i}
  /\ UNCHANGED <<used, cursor, result, pc, cut, failed>>

-----------------------------------------------------------------------------
(* An order for an instrument that is not registered is skipped, and does    *)
(* not count (data_count).                                                   *)
Keep(page) == page \cap Registered

Push(kept) ==
  result' = [i \in Id |-> IF i \in kept /\ result[i] < 2 THEN result[i] + 1 ELSE result[i]]

(* Mutant: a page filled to the last place is taken for the last one. *)
MayHaveMoreOver(kept) == Cardinality(kept) > PageSize
MayHaveMore(kept) == Cardinality(kept) >= PageSize

(* Mutants: the cursor is not moved; it is the first of the page; it is one   *)
(* below the last.                                                           *)
CursorKept(kept)  == cursor
FirstOf(kept)     == CHOOSE i \in kept : \A j \in kept : j <= i
BelowLastOf(kept) == (CHOOSE i \in kept : \A j \in kept : i <= j) - 1
LastOf(kept) == CHOOSE i \in kept : \A j \in kept : i <= j

ReadPage ==
  /\ pc = "ask"
  /\ \E page \in Pages :
       LET kept == Keep(page) IN
       /\ Push(kept)
       /\ IF MayHaveMore(kept)
          THEN cursor' = LastOf(kept) /\ UNCHANGED pc
          ELSE pc' = "done" /\ UNCHANGED cursor
       /\ cut' = (cut \/ (Cardinality(page) = PageSize /\ kept # page))
  /\ UNCHANGED <<pending, used, stayed, failed>>

(* A failed call, or an answer that ends too early: what was kept of it stays. *)
Fail ==
  /\ pc = "ask"
  /\ \E page \in Pages : \E part \in SUBSET page :
       /\ \A i \in part : \A j \in page \ part : j < i
       /\ Push(Keep(part))
  /\ pc' = "done"
  /\ failed' = TRUE
  /\ UNCHANGED <<pending, used, cursor, stayed, cut>>

-----------------------------------------------------------------------------
Next == ReadPage \/ Fail \/ (\E i \in Id : Place(i) \/ End(i))

Spec == Init /\ [][Next]_vars

(* The call goes on for as long as the process runs; it need not fail. *)
FairSpec == Spec /\ WF_vars(ReadPage)

-----------------------------------------------------------------------------
(* Properties *)

TypeOK == /\ pending \subseteq used /\ used \subseteq Id
          /\ cursor \in Id \cup {Empty}
          /\ result \in [Id -> 0 .. 2]
          /\ pc \in {"ask", "done"}
          /\ stayed \subseteq pending
          /\ cut \in BOOLEAN
          /\ failed \in BOOLEAN

(* An order that is pending all along is found, however many are placed and   *)
(* end between the pages, unless a call fails or an order for an unregistered *)
(* instrument makes a full page look like the last (okx.cpp 304-307, 324).    *)
NoneMissed ==
  pc = "done" /\ ~failed /\ ~cut =>
    \A i \in stayed \cap Registered : result[i] > 0

(* No order is found on two pages (the strategy is handed the list as it is). *)
NoneTwice == \A i \in Id : result[i] <= 1

(* Why: what is still to be asked for is below the cursor, what has been      *)
(* pushed is not.                                                             *)
PagesInv ==
  /\ \A i \in Id : result[i] > 0 => i \in used
  /\ pc = "ask" => /\ ~failed /\ ~cut
                   /\ \A i \in Id : cursor = Empty \/ i < cursor => result[i] = 0
                   /\ \A i \in stayed \cap Registered :
                        result[i] > 0 \/ cursor = Empty \/ i < cursor
  /\ NoneMissed
  /\ NoneTwice

(* The loop ends, though orders keep being placed while it runs. *)
Ends == <>(pc = "done")
=============================================================================
