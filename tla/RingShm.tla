------------------------------- MODULE RingShm -------------------------------
(***************************************************************************)
(* The shared-memory ring of sdk/include/ring_shm.hpp, one atomic access   *)
(* per step.  head and tail are free-running uint64_t counters: entry i    *)
(* lives in slot i % Capacity, the producer owns tail, the consumer owns   *)
(* head.  An entry is a struct of several cache lines, so the copy into    *)
(* and out of a slot is not one access: a slot is two halves, written and  *)
(* read one after the other, which is enough to see a torn copy.           *)
(*                                                                         *)
(* The code has no lock and never says how many threads may push; the      *)
(* signal ring has one producer, the report ring has two.                  *)
(***************************************************************************)
EXTENDS Integers, Sequences, SequencesExt

CONSTANTS Producers,   \* the threads that call shm_push on this ring
          Entry,       \* the values they push
          NoEntry,     \* the content of a slot never written (memset 0)
          Capacity,    \* the template parameter of the same name
          IndexSpace,  \* how many values a uint64_t takes: 2^64
          MaxSends     \* bound: how many pushes are accepted in all

ASSUME CapacityAssumption == Capacity \in Nat \ {0}
ASSUME IndexAssumption    == /\ IndexSpace \in Nat \ {0}
                             /\ Capacity < IndexSpace
ASSUME SendsAssumption    == MaxSends \in Nat /\ MaxSends < IndexSpace

VARIABLES head,       \* next entry to pop
          tail,       \* next entry to push
          entries,    \* the slots
          push,       \* push[p]: the local variables of producer p
          pop,        \* the local variables of the consumer
          sent,       \* history: the entries shm_push answered true for
          received,   \* history: the entries shm_pop handed out
          reply       \* history: what the last finished call answered

shared  == <<head, tail, entries>>
history == <<sent, received, reply>>
vars    == <<shared, push, pop, history>>

Slot     == 0 .. (Capacity - 1)
Content  == [lo : Entry \cup {NoEntry}, hi : Entry \cup {NoEntry}]
Whole(e) == [lo |-> e, hi |-> e]

PushPc == {"idle", "full?", "lo", "hi", "publish"}
PopPc  == {"idle", "empty?", "lo", "hi", "retire"}

Unsigned(n) == n % IndexSpace
SlotOf(i)   == i % Capacity

Init == /\ head = 0
        /\ tail = 0
        /\ entries = [s \in Slot |-> Whole(NoEntry)]
        /\ push = [p \in Producers |-> [pc |-> "idle", tail |-> 0, entry |-> NoEntry]]
        /\ pop = [pc |-> "idle", head |-> 0, entry |-> Whole(NoEntry)]
        /\ sent = <<>>
        /\ received = <<>>
        /\ reply = "none"

-----------------------------------------------------------------------------
(* shm_push *)

LoadTail(p) ==
  /\ push[p].pc = "idle"
  /\ Len(sent) < MaxSends
  /\ \E e \in Entry :
       push' = [push EXCEPT ![p] = [pc |-> "full?", tail |-> tail, entry |-> e]]
  /\ UNCHANGED <<shared, pop, history>>

(* Mutants of the test: one entry too many, one slot never used. *)
HasRoomForOneMore(p)  == Unsigned(push[p].tail - head) <= Capacity
HasRoomButOneSlot(p)  == Unsigned(push[p].tail - head) < Capacity - 1
HasRoom(p) == Unsigned(push[p].tail - head) < Capacity

(* Mutant: the tail is published before the entry is copied. *)
CheckRoomAndPublish(p) ==
  /\ push[p].pc = "full?"
  /\ HasRoom(p)
  /\ push' = [push EXCEPT ![p].pc = "lo"]
  /\ tail' = Unsigned(push[p].tail + 1)
  /\ UNCHANGED <<head, entries, pop, history>>

CheckRoom(p) ==
  /\ push[p].pc = "full?"
  /\ HasRoom(p)
  /\ push' = [push EXCEPT ![p].pc = "lo"]
  /\ UNCHANGED <<shared, pop, history>>

Refuse(p) ==
  /\ push[p].pc = "full?"
  /\ ~HasRoom(p)
  /\ push' = [push EXCEPT ![p].pc = "idle"]
  /\ reply' = "full"
  /\ UNCHANGED <<shared, pop, sent, received>>

WriteLo(p) ==
  /\ push[p].pc = "lo"
  /\ entries' = [entries EXCEPT ![SlotOf(push[p].tail)].lo = push[p].entry]
  /\ push' = [push EXCEPT ![p].pc = "hi"]
  /\ UNCHANGED <<head, tail, pop, history>>

WriteHi(p) ==
  /\ push[p].pc = "hi"
  /\ entries' = [entries EXCEPT ![SlotOf(push[p].tail)].hi = push[p].entry]
  /\ push' = [push EXCEPT ![p].pc = "publish"]
  /\ UNCHANGED <<head, tail, pop, history>>

(* Mutant: the tail advances by the size of the ring. *)
PublishRing(p) ==
  /\ push[p].pc = "publish"
  /\ tail' = push[p].tail + Capacity
  /\ push' = [push EXCEPT ![p].pc = "idle"]
  /\ sent' = Append(sent, Whole(push[p].entry))
  /\ reply' = "put"
  /\ UNCHANGED <<head, entries, pop, received>>

Publish(p) ==
  /\ push[p].pc = "publish"
  /\ tail' = Unsigned(push[p].tail + 1)
  /\ push' = [push EXCEPT ![p].pc = "idle"]
  /\ sent' = Append(sent, Whole(push[p].entry))
  /\ reply' = "put"
  /\ UNCHANGED <<head, entries, pop, received>>

PushStep(p) == \/ CheckRoom(p) \/ Refuse(p)
               \/ WriteLo(p) \/ WriteHi(p) \/ Publish(p)

-----------------------------------------------------------------------------
(* shm_pop *)

LoadHead ==
  /\ pop.pc = "idle"
  /\ pop' = [pop EXCEPT !.pc = "empty?", !.head = head]
  /\ UNCHANGED <<shared, push, history>>

(* Mutant: the last entry waits for another one. *)
HasMoreThanOne == pop.head + 1 < tail
HasEntry == pop.head < tail

CheckEntry ==
  /\ pop.pc = "empty?"
  /\ HasEntry
  /\ pop' = [pop EXCEPT !.pc = "lo"]
  /\ UNCHANGED <<shared, push, history>>

FindEmpty ==
  /\ pop.pc = "empty?"
  /\ ~HasEntry
  /\ pop' = [pop EXCEPT !.pc = "idle"]
  /\ reply' = "empty"
  /\ UNCHANGED <<shared, push, sent, received>>

CopyLo ==
  /\ pop.pc = "lo"
  /\ pop' = [pop EXCEPT !.pc = "hi", !.entry.lo = entries[SlotOf(pop.head)].lo]
  /\ UNCHANGED <<shared, push, history>>

CopyHi ==
  /\ pop.pc = "hi"
  /\ pop' = [pop EXCEPT !.pc = "retire", !.entry.hi = entries[SlotOf(pop.head)].hi]
  /\ UNCHANGED <<shared, push, history>>

Retire ==
  /\ pop.pc = "retire"
  /\ head' = Unsigned(pop.head + 1)
  /\ pop' = [pop EXCEPT !.pc = "idle"]
  /\ received' = Append(received, pop.entry)
  /\ reply' = "got"
  /\ UNCHANGED <<tail, entries, push, sent>>

PopStep == \/ LoadHead \/ CheckEntry \/ FindEmpty
           \/ CopyLo \/ CopyHi \/ Retire

-----------------------------------------------------------------------------
Next == (\E p \in Producers : LoadTail(p) \/ PushStep(p)) \/ PopStep

Spec == Init /\ [][Next]_vars

(* The consumer polls for as long as the process runs (StrategyEngine::Run, *)
(* RunOrderDispatcher), and a push once begun runs to its end.  Nothing     *)
(* obliges a producer to begin one.                                         *)
Fairness == /\ WF_vars(PopStep)
            /\ \A p \in Producers : WF_vars(PushStep(p))

FairSpec == Spec /\ Fairness

-----------------------------------------------------------------------------
(* Properties *)

TypeOK == /\ head \in 0 .. (IndexSpace - 1)
          /\ tail \in 0 .. (IndexSpace - 1)
          /\ entries \in [Slot -> Content]
          /\ push \in [Producers -> [pc : PushPc, tail : 0 .. (IndexSpace - 1),
                                     entry : Entry \cup {NoEntry}]]
          /\ pop \in [pc : PopPc, head : 0 .. (IndexSpace - 1), entry : Content]
          /\ sent \in Seq(Content)
          /\ received \in Seq(Content)
          /\ reply \in {"none", "put", "full", "got", "empty"}

(* What shm_pop hands out is what shm_push accepted: nothing lost, doubled,  *)
(* reordered or torn between the two halves of a copy (ring_shm.hpp 67-87).  *)
DeliveredInOrder == IsPrefix(received, sent)

(* While the consumer copies out of a slot nobody writes to it: the memory   *)
(* order of head and tail is the only thing that keeps the two plain         *)
(* struct copies apart (ring_shm.hpp 73 and 84).                             *)
Writing(p)  == push[p].pc \in {"lo", "hi"}
Reading     == pop.pc \in {"lo", "hi"}
NoDataRace  == \A p \in Producers :
                 /\ Writing(p) /\ Reading => SlotOf(push[p].tail) # SlotOf(pop.head)
                 /\ \A q \in Producers \ {p} :
                      Writing(p) /\ Writing(q) => SlotOf(push[p].tail) # SlotOf(push[q].tail)

(* Why one producer and one consumer are safe.  The slots from head up to   *)
(* tail hold the accepted entries not yet handed out; the counters a thread *)
(* loaded from its own end are still current; a producer past its check has *)
(* a free slot and a consumer past its check has a full one.                *)
Window == /\ tail = Len(sent)
          /\ head = Len(received)
          /\ head <= tail
          /\ tail <= head + Capacity
          /\ tail <= MaxSends
          /\ \A i \in head .. (tail - 1) : entries[SlotOf(i)] = sent[i + 1]

Handed == \A i \in 1 .. Len(received) : received[i] = sent[i]

Pushing(p) ==
  /\ push[p].pc # "idle" => /\ push[p].tail = tail
                            /\ tail < MaxSends
                            /\ push[p].entry \in Entry
  /\ push[p].pc \in {"lo", "hi", "publish"} => tail - head < Capacity
  /\ push[p].pc \in {"hi", "publish"} => entries[SlotOf(tail)].lo = push[p].entry
  /\ push[p].pc = "publish" => entries[SlotOf(tail)].hi = push[p].entry

Popping ==
  /\ pop.pc # "idle" => pop.head = head
  /\ pop.pc \in {"lo", "hi", "retire"} => head < tail
  /\ pop.pc \in {"hi", "retire"} => pop.entry.lo = entries[SlotOf(head)].lo
  /\ pop.pc = "retire" => pop.entry.hi = entries[SlotOf(head)].hi

RingInv == Window /\ Handed /\ (\A p \in Producers : Pushing(p)) /\ Popping

(* The ring is the bounded queue it stands for: in particular a push is      *)
(* refused only when Capacity entries wait, whatever the counters' width.    *)
Fifo == INSTANCE BoundedFifo WITH Item <- Content, put <- sent, got <- received
ImplementsFifo == Fifo!Spec

(* Every entry a push answered true for is handed to the consumer in the     *)
(* end: no call leaves the ring in a state it cannot get out of.             *)
AcceptedIsDelivered == \A n \in 1 .. MaxSends : Len(sent) >= n ~> Len(received) >= n
=============================================================================
