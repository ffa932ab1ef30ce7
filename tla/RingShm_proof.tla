---------------------------- MODULE RingShm_proof ----------------------------
(***************************************************************************)
(* Proofs about RingShm for every capacity, entry set and number of        *)
(* pushes: type correctness whoever pushes, and, when one thread pushes,   *)
(* delivery in order, freedom from data races and refinement of            *)
(* BoundedFifo.                                                            *)
(***************************************************************************)
EXTENDS RingShm, SequenceTheorems, TLAPS

(* One thread at most calls shm_push on the ring. *)
SingleProducer == \A p, q \in Producers : p = q

-----------------------------------------------------------------------------
(* Arithmetic of the counters and the slots. *)

(* A counter that has not wrapped is its own value modulo the word size. *)
LEMMA UnsignedSmall ==
  ASSUME NEW n \in 0 .. (IndexSpace - 1)
  PROVE  Unsigned(n) = n
BY IndexAssumption DEF Unsigned

(* The word holds every unsigned value. *)
LEMMA UnsignedType ==
  ASSUME NEW n \in Int
  PROVE  Unsigned(n) \in 0 .. (IndexSpace - 1)
BY IndexAssumption DEF Unsigned

(* A counter picks one of the slots. *)
LEMMA SlotOfType ==
  ASSUME NEW i \in Nat
  PROVE  SlotOf(i) \in Slot
BY CapacityAssumption DEF SlotOf, Slot

(* Entries closer together than Capacity live in different slots. *)
LEMMA SlotsDiffer ==
  ASSUME NEW i \in Nat, NEW j \in Nat, i < j, j - i < Capacity
  PROVE  SlotOf(i) # SlotOf(j)
<1> DEFINE a == i \div Capacity
           b == j \div Capacity
<1>1. /\ a \in Int /\ i = Capacity * a + SlotOf(i)
      /\ b \in Int /\ j = Capacity * b + SlotOf(j)
  BY CapacityAssumption DEF SlotOf
<1>2. ASSUME SlotOf(i) = SlotOf(j) PROVE FALSE
  <2> HIDE DEF a, b
  <2>1. SlotOf(i) \in Int
    BY SlotOfType DEF Slot
  <2>2. b >= a + 1
    BY <1>1, <1>2, <2>1, CapacityAssumption
  <2>3. Capacity * b >= Capacity * a + Capacity
    BY <1>1, <2>2, CapacityAssumption
  <2> QED BY <1>1, <1>2, <2>1, <2>3, CapacityAssumption
<1> QED BY <1>2

-----------------------------------------------------------------------------
(* Every step of shm_push keeps the types, whoever takes it. *)
LEMMA PushTyped ==
  ASSUME TypeOK, NEW p \in Producers, LoadTail(p) \/ PushStep(p)
  PROVE  TypeOK'
<1> USE DEF TypeOK, shared, history
<1>1. CASE LoadTail(p)
  BY <1>1 DEF LoadTail, PushPc
<1>2. CASE CheckRoom(p)
  BY <1>2 DEF CheckRoom, PushPc
<1>3. CASE Refuse(p)
  BY <1>3 DEF Refuse, PushPc
<1>4. CASE WriteLo(p)
  <2>1. entries' \in [Slot -> Content]
    BY <1>4 DEF WriteLo, Content
  <2> QED BY <1>4, <2>1 DEF WriteLo, PushPc
<1>5. CASE WriteHi(p)
  <2>1. entries' \in [Slot -> Content]
    BY <1>5 DEF WriteHi, Content
  <2> QED BY <1>5, <2>1 DEF WriteHi, PushPc
<1>6. CASE Publish(p)
  <2>1. tail' \in 0 .. (IndexSpace - 1)
    BY <1>6, UnsignedType DEF Publish
  <2>2. Whole(push[p].entry) \in Content
    BY DEF Whole, Content
  <2>3. sent' \in Seq(Content)
    BY <1>6, <2>2, AppendProperties DEF Publish
  <2>4. push' \in [Producers -> [pc : PushPc, tail : 0 .. (IndexSpace - 1),
                                 entry : Entry \cup {NoEntry}]]
    BY <1>6 DEF Publish, PushPc
  <2>5. UNCHANGED <<head, entries, pop, received>> /\ reply' = "put"
    BY <1>6 DEF Publish
  <2> QED BY <2>1, <2>3, <2>4, <2>5
<1> QED BY <1>1, <1>2, <1>3, <1>4, <1>5, <1>6 DEF PushStep

(* Every step of shm_pop keeps the types. *)
LEMMA PopTyped ==
  ASSUME TypeOK, PopStep
  PROVE  TypeOK'
<1> USE DEF TypeOK, shared, history
<1>1. CASE LoadHead
  BY <1>1 DEF LoadHead, PopPc
<1>2. CASE CheckEntry
  BY <1>2 DEF CheckEntry, PopPc
<1>3. CASE FindEmpty
  BY <1>3 DEF FindEmpty, PopPc
<1> DEFINE s == SlotOf(pop.head)
<1>4. s \in Slot
  BY SlotOfType
<1>5. CASE CopyLo
  BY <1>4, <1>5 DEF CopyLo, PopPc, Content
<1>6. CASE CopyHi
  BY <1>4, <1>6 DEF CopyHi, PopPc, Content
<1>7. CASE Retire
  <2>1. head' \in 0 .. (IndexSpace - 1)
    BY <1>7, UnsignedType DEF Retire
  <2>2. received' \in Seq(Content)
    BY <1>7, AppendProperties DEF Retire
  <2> QED BY <1>7, <2>1, <2>2 DEF Retire, PopPc
<1> QED BY <1>1, <1>2, <1>3, <1>5, <1>6, <1>7 DEF PopStep

(* The counters stay inside the word, every slot holds two halves of entries *)
(* and every local variable a value of its type, however many threads push.  *)
THEOREM TypeCorrect == Spec => []TypeOK
<1>1. Init => TypeOK
  BY IndexAssumption DEF Init, TypeOK, Slot, Content, Whole, PushPc, PopPc
<1>2. TypeOK /\ [Next]_vars => TypeOK'
  <2> SUFFICES ASSUME TypeOK, [Next]_vars PROVE TypeOK'
    OBVIOUS
  <2>1. CASE UNCHANGED vars
    BY <2>1 DEF vars, shared, history, TypeOK
  <2> QED BY <2>1, PushTyped, PopTyped DEF Next
<1> QED BY <1>1, <1>2, PTL DEF Spec

-----------------------------------------------------------------------------
(* The inductive step, for one producer. *)

(* A thread that sees the counters sees them unwrapped. *)
LEMMA Counters ==
  ASSUME TypeOK, Window
  PROVE  /\ head \in Nat /\ tail \in Nat /\ head <= tail /\ tail - head <= Capacity
         /\ Unsigned(tail - head) = tail - head
         /\ tail < IndexSpace
         /\ (head < tail => Unsigned(head + 1) = head + 1)
         /\ (tail < MaxSends => Unsigned(tail + 1) = tail + 1)
<1>1. /\ head \in Nat /\ tail \in Nat /\ head <= tail
      /\ tail - head <= Capacity /\ tail <= MaxSends
  BY CapacityAssumption, IndexAssumption DEF TypeOK, Window
<1>2. tail - head \in 0 .. (IndexSpace - 1)
  BY <1>1, IndexAssumption, CapacityAssumption
<1>3. head < tail => head + 1 \in 0 .. (IndexSpace - 1)
  BY <1>1, IndexAssumption, SendsAssumption
<1>4. tail < MaxSends => tail + 1 \in 0 .. (IndexSpace - 1)
  BY <1>1, IndexAssumption, SendsAssumption
<1> QED BY <1>1, <1>2, <1>3, <1>4, UnsignedSmall, IndexAssumption, SendsAssumption

(* Writing the free slot behind tail leaves every slot that waits alone. *)
LEMMA FreeSlot ==
  ASSUME TypeOK, Window, tail - head < Capacity
  PROVE  \A i \in head .. (tail - 1) : SlotOf(i) # SlotOf(tail)
<1> SUFFICES ASSUME NEW i \in head .. (tail - 1) PROVE SlotOf(i) # SlotOf(tail)
  OBVIOUS
<1>1. i \in Nat /\ tail \in Nat /\ i < tail /\ tail - i < Capacity
  BY Counters, CapacityAssumption
<1> QED BY <1>1, SlotsDiffer

(* shm_push keeps the invariant. *)
LEMMA PushKeeps ==
  ASSUME SingleProducer, TypeOK, RingInv, NEW p \in Producers,
         LoadTail(p) \/ PushStep(p)
  PROVE  RingInv'
<1> USE DEF shared, history
<1>0. Producers = {p}
  BY DEF SingleProducer
<1>c. /\ head \in Nat /\ tail \in Nat /\ head <= tail /\ tail - head <= Capacity
      /\ (tail < MaxSends => Unsigned(tail + 1) = tail + 1)
  BY Counters DEF RingInv
<1>1. CASE LoadTail(p)
  <2>1. Window' /\ Handed' /\ Popping'
    BY <1>1 DEF LoadTail, RingInv, Window, Handed, Popping
  <2>2. Pushing(p)'
    BY <1>1, <1>c DEF LoadTail, RingInv, Window, Pushing, TypeOK
  <2> QED BY <1>0, <2>1, <2>2 DEF RingInv
<1>2. CASE CheckRoom(p)
  <2>1. Window' /\ Handed' /\ Popping'
    BY <1>2 DEF CheckRoom, RingInv, Window, Handed, Popping
  <2>2. tail - head < Capacity
    BY <1>2, Counters DEF CheckRoom, HasRoom, RingInv, Pushing
  <2>3. Pushing(p)'
    BY <1>2, <2>2 DEF CheckRoom, RingInv, Pushing, TypeOK
  <2> QED BY <1>0, <2>1, <2>3 DEF RingInv
<1>3. CASE Refuse(p)
  <2>1. Window' /\ Handed' /\ Popping'
    BY <1>3 DEF Refuse, RingInv, Window, Handed, Popping
  <2>2. Pushing(p)'
    BY <1>3 DEF Refuse, RingInv, Pushing, TypeOK
  <2> QED BY <1>0, <2>1, <2>2 DEF RingInv
<1>4. ASSUME push[p].pc \in {"lo", "hi"}
      PROVE  /\ push[p].tail = tail /\ tail < MaxSends /\ tail - head < Capacity
             /\ SlotOf(tail) \in Slot
             /\ \A i \in head .. (tail - 1) : SlotOf(i) # SlotOf(tail) /\ SlotOf(i) \in Slot
             /\ (head < tail => head \in head .. (tail - 1))
  <2>1. /\ push[p].tail = tail /\ tail < MaxSends /\ tail - head < Capacity
    BY <1>4 DEF RingInv, Pushing
  <2>2. \A i \in head .. (tail - 1) : SlotOf(i) # SlotOf(tail)
    BY <2>1, FreeSlot DEF RingInv
  <2>3. \A i \in head .. (tail - 1) : SlotOf(i) \in Slot
    BY <1>c, SlotOfType
  <2> QED BY <1>c, <2>1, <2>2, <2>3, SlotOfType
<1>5. CASE WriteLo(p)
  <2>1. /\ push[p].tail = tail
        /\ entries' = [entries EXCEPT ![SlotOf(tail)].lo = push[p].entry]
        /\ \A s \in Slot : s # SlotOf(tail) => entries'[s] = entries[s]
    BY <1>4, <1>5 DEF WriteLo, TypeOK
  <2>2. Window' /\ Handed'
    BY <1>4, <1>5, <2>1 DEF WriteLo, RingInv, Window, Handed
  <2>3. Popping'
    BY <1>4, <1>5, <2>1 DEF WriteLo, RingInv, Popping
  <2>4. Pushing(p)'
    BY <1>4, <1>5, <2>1 DEF WriteLo, RingInv, Pushing, TypeOK
  <2> QED BY <1>0, <2>2, <2>3, <2>4 DEF RingInv
<1>6. CASE WriteHi(p)
  <2>1. /\ push[p].tail = tail
        /\ entries' = [entries EXCEPT ![SlotOf(tail)].hi = push[p].entry]
        /\ \A s \in Slot : s # SlotOf(tail) => entries'[s] = entries[s]
    BY <1>4, <1>6 DEF WriteHi, TypeOK
  <2>2. Window' /\ Handed'
    BY <1>4, <1>6, <2>1 DEF WriteHi, RingInv, Window, Handed
  <2>3. Popping'
    BY <1>4, <1>6, <2>1 DEF WriteHi, RingInv, Popping
  <2>4. Pushing(p)'
    BY <1>4, <1>6, <2>1 DEF WriteHi, RingInv, Pushing, TypeOK, Content
  <2> QED BY <1>0, <2>2, <2>3, <2>4 DEF RingInv
<1>7. CASE Publish(p)
  <2>1. /\ push[p].tail = tail /\ tail < MaxSends /\ tail - head < Capacity
        /\ entries[SlotOf(tail)].lo = push[p].entry
        /\ entries[SlotOf(tail)].hi = push[p].entry
    BY <1>7 DEF Publish, RingInv, Pushing
  <2>2. tail' = tail + 1
    BY <1>7, <1>c, <2>1 DEF Publish
  <2>3. Whole(push[p].entry) \in Content
    BY DEF Whole, Content, TypeOK
  <2>4. /\ Len(sent') = Len(sent) + 1
        /\ \A i \in 1 .. Len(sent) : sent'[i] = sent[i]
        /\ sent'[Len(sent) + 1] = Whole(push[p].entry)
    BY <1>7, <2>3, AppendProperties DEF Publish, TypeOK
  <2>5. entries[SlotOf(tail)] = Whole(push[p].entry)
    BY <1>c, <2>1, SlotOfType DEF TypeOK, Content, Whole
  <2>6. Window'
    <3>1. \A i \in head .. tail : entries[SlotOf(i)] = sent'[i + 1]
      <4> SUFFICES ASSUME NEW i \in head .. tail PROVE entries[SlotOf(i)] = sent'[i + 1]
        OBVIOUS
      <4>1. CASE i = tail
        BY <2>4, <2>5, <4>1 DEF RingInv, Window
      <4>2. CASE i # tail
        <5>1. i \in head .. (tail - 1) /\ i + 1 \in 1 .. Len(sent)
          BY <1>c, <4>2 DEF RingInv, Window
        <5> QED BY <2>4, <5>1 DEF RingInv, Window
      <4> QED BY <4>1, <4>2
    <3> QED BY <1>7, <1>c, <2>1, <2>2, <2>4, <3>1, CapacityAssumption, SendsAssumption
            DEF Publish, RingInv, Window
  <2>7. Handed'
    BY <1>7, <2>4 DEF Publish, RingInv, Handed, Window
  <2>8. Popping'
    BY <1>7, <1>c, <2>2 DEF Publish, RingInv, Popping
  <2>9. Pushing(p)'
    BY <1>7 DEF Publish, RingInv, Pushing, TypeOK
  <2> QED BY <1>0, <2>6, <2>7, <2>8, <2>9 DEF RingInv
<1> QED BY <1>1, <1>2, <1>3, <1>5, <1>6, <1>7 DEF PushStep

(* shm_pop keeps the invariant, however many threads push. *)
LEMMA PopKeeps ==
  ASSUME TypeOK, RingInv, PopStep
  PROVE  RingInv'
<1> USE DEF shared, history
<1>c. /\ head \in Nat /\ tail \in Nat /\ head <= tail /\ tail - head <= Capacity
      /\ (head < tail => Unsigned(head + 1) = head + 1)
  BY Counters DEF RingInv
<1>1. ASSUME UNCHANGED <<shared, push, history>>
      PROVE  Window' /\ Handed' /\ \A p \in Producers : Pushing(p)'
  BY <1>1 DEF RingInv, Window, Handed, Pushing
<1>2. CASE LoadHead
  BY <1>1, <1>2 DEF LoadHead, RingInv, Popping, TypeOK
<1>3. CASE CheckEntry
  <2>1. Popping'
    BY <1>3 DEF CheckEntry, HasEntry, RingInv, Popping, TypeOK
  <2> QED BY <1>1, <1>3, <2>1 DEF CheckEntry, RingInv
<1>4. CASE FindEmpty
  <2>1. Popping'
    BY <1>4 DEF FindEmpty, RingInv, Popping, TypeOK
  <2> QED BY <1>4, <2>1 DEF FindEmpty, RingInv, Window, Handed, Pushing
<1>5. CASE CopyLo
  <2>1. Popping'
    BY <1>5 DEF CopyLo, RingInv, Popping, TypeOK, Content
  <2> QED BY <1>1, <1>5, <2>1 DEF CopyLo, RingInv
<1>6. CASE CopyHi
  <2>1. Popping'
    BY <1>6 DEF CopyHi, RingInv, Popping, TypeOK, Content
  <2> QED BY <1>1, <1>6, <2>1 DEF CopyHi, RingInv
<1>7. CASE Retire
  <2>1. /\ pop.head = head /\ head < tail
        /\ pop.entry = entries[SlotOf(head)]
    <3>1. SlotOf(head) \in Slot
      BY <1>c, SlotOfType
    <3> QED BY <1>7, <3>1 DEF Retire, RingInv, Popping, TypeOK, Content
  <2>2. head' = head + 1
    BY <1>7, <1>c, <2>1 DEF Retire
  <2>3. pop.entry = sent[head + 1]
    <3>1. head \in head .. (tail - 1)
      BY <1>c, <2>1
    <3> QED BY <2>1, <3>1 DEF RingInv, Window
  <2>4. /\ Len(received') = Len(received) + 1
        /\ \A i \in 1 .. Len(received) : received'[i] = received[i]
        /\ received'[Len(received) + 1] = pop.entry
    BY <1>7, AppendProperties DEF Retire, TypeOK
  <2>5. Window'
    BY <1>7, <1>c, <2>1, <2>2, <2>4, CapacityAssumption DEF Retire, RingInv, Window
  <2>6. Handed'
    <3> SUFFICES ASSUME NEW i \in 1 .. (Len(received) + 1) PROVE received'[i] = sent[i]
      BY <1>7, <2>4 DEF Retire, Handed
    <3>1. CASE i = Len(received) + 1
      BY <2>3, <2>4, <3>1 DEF RingInv, Window
    <3>2. CASE i # Len(received) + 1
      BY <1>c, <2>4, <3>2 DEF RingInv, Window, Handed
    <3> QED BY <3>1, <3>2
  <2>7. \A p \in Producers : Pushing(p)'
    <3> SUFFICES ASSUME NEW p \in Producers PROVE Pushing(p)'
      OBVIOUS
    <3>1. Pushing(p) /\ UNCHANGED <<tail, entries, push>>
      BY <1>7 DEF Retire, RingInv
    <3>2. tail - head < Capacity => tail' - head' < Capacity
      BY <1>c, <2>2, <3>1, CapacityAssumption
    <3> QED BY <3>1, <3>2 DEF Pushing
  <2>8. Popping'
    BY <1>7 DEF Retire, Popping, TypeOK
  <2> QED BY <2>5, <2>6, <2>7, <2>8 DEF RingInv
<1> QED BY <1>2, <1>3, <1>4, <1>5, <1>6, <1>7 DEF PopStep

(* With one producer the slots between head and tail always hold the         *)
(* accepted entries that wait, and each thread's local counter is current.   *)
THEOREM RingInvariant == SingleProducer => (Spec => []RingInv)
<1> SUFFICES ASSUME SingleProducer PROVE Spec => []RingInv
  OBVIOUS
<1>1. Init => RingInv
  BY CapacityAssumption, SendsAssumption
     DEF Init, RingInv, Window, Handed, Pushing, Popping
<1>2. TypeOK /\ RingInv /\ [Next]_vars => RingInv'
  <2> SUFFICES ASSUME TypeOK, RingInv, [Next]_vars PROVE RingInv'
    OBVIOUS
  <2>1. CASE UNCHANGED vars
    BY <2>1 DEF vars, shared, history, RingInv, Window, Handed, Pushing, Popping
  <2> QED BY <2>1, PushKeeps, PopKeeps DEF Next
<1> QED BY <1>1, <1>2, TypeCorrect, PTL DEF Spec

-----------------------------------------------------------------------------
(* What the invariant gives. *)

(* With one producer the consumer gets a prefix of what was accepted: nothing *)
(* is lost, doubled, reordered or torn, for every capacity below 2^64.        *)
THEOREM InOrder == SingleProducer => (Spec => []DeliveredInOrder)
<1>1. TypeOK /\ RingInv => DeliveredInOrder
  <2> SUFFICES ASSUME TypeOK, RingInv PROVE DeliveredInOrder
    OBVIOUS
  <2>1. /\ Len(received) \in Nat /\ Len(sent) \in Nat /\ Len(received) <= Len(sent)
        /\ received \in Seq(Content) /\ sent \in Seq(Content)
    BY Counters DEF RingInv, Window, TypeOK
  <2>2. \A i \in 1 .. Len(received) : received[i] = sent[i]
    BY DEF RingInv, Handed
  <2>3. received = SubSeq(sent, 1, Len(received))
    BY <2>1, <2>2
  <2> QED BY <2>1, <2>3 DEF DeliveredInOrder, IsPrefix
<1> QED BY <1>1, TypeCorrect, RingInvariant, PTL

(* With one producer the two plain struct copies never touch the same slot    *)
(* at the same time.                                                          *)
THEOREM RaceFree == SingleProducer => (Spec => []NoDataRace)
<1> SUFFICES ASSUME SingleProducer PROVE Spec => []NoDataRace
  OBVIOUS
<1>1. TypeOK /\ RingInv => NoDataRace
  <2> SUFFICES ASSUME TypeOK, RingInv, NEW p \in Producers, Writing(p), Reading
               PROVE  SlotOf(push[p].tail) # SlotOf(pop.head)
    BY DEF NoDataRace, SingleProducer
  <2>1. push[p].tail = tail /\ tail - head < Capacity
    BY DEF RingInv, Pushing, Writing
  <2>2. pop.head = head /\ head < tail
    BY DEF RingInv, Popping, Reading
  <2>3. head \in head .. (tail - 1)
    BY <2>2, Counters DEF RingInv
  <2> QED BY <2>1, <2>2, <2>3, FreeSlot DEF RingInv
<1> QED BY <1>1, TypeCorrect, RingInvariant, PTL

-----------------------------------------------------------------------------
(* Refinement. *)

(* A step of shm_push is a put, a refusal of a full queue, or nothing.  The   *)
(* put happens at the store of tail, long after the check for room: head may  *)
(* only have moved away since.                                                *)
LEMMA PushMaps ==
  ASSUME SingleProducer, TypeOK, RingInv, NEW p \in Producers,
         LoadTail(p) \/ PushStep(p)
  PROVE  Fifo!Next \/ UNCHANGED Fifo!vars
<1> USE DEF shared, history, Fifo!vars
<1>1. /\ tail = Len(sent) /\ head = Len(received)
  BY DEF RingInv, Window
<1>2. CASE Refuse(p)
  <2>1. Unsigned(tail - head) = tail - head /\ head \in Nat /\ tail \in Nat
    BY Counters DEF RingInv
  <2>2. push[p].tail = tail
    BY <1>2 DEF Refuse, RingInv, Pushing
  <2>3. Fifo!Full
    BY <1>1, <1>2, <2>1, <2>2, CapacityAssumption DEF Refuse, HasRoom, Fifo!Full
  <2> QED BY <1>2, <2>3 DEF Refuse, Fifo!Refuse, Fifo!Next
<1>3. CASE Publish(p)
  <2>1. tail - head < Capacity /\ head \in Nat /\ tail \in Nat
    BY <1>3, Counters DEF Publish, RingInv, Pushing
  <2>2. ~Fifo!Full
    BY <1>1, <2>1, CapacityAssumption DEF Fifo!Full
  <2>3. Whole(push[p].entry) \in Content
    BY DEF Whole, Content, TypeOK
  <2> QED BY <1>3, <2>2, <2>3 DEF Publish, Fifo!Put, Fifo!Next
<1>4. CASE LoadTail(p) \/ CheckRoom(p) \/ WriteLo(p) \/ WriteHi(p)
  BY <1>4 DEF LoadTail, CheckRoom, WriteLo, WriteHi
<1> QED BY <1>2, <1>3, <1>4 DEF PushStep

(* A step of shm_pop is a get, an empty answer of an empty queue, or nothing. *)
LEMMA PopMaps ==
  ASSUME TypeOK, RingInv, PopStep
  PROVE  Fifo!Next \/ UNCHANGED Fifo!vars
<1> USE DEF shared, history, Fifo!vars
<1>1. /\ tail = Len(sent) /\ head = Len(received)
  BY DEF RingInv, Window
<1>2. /\ head \in Nat /\ tail \in Nat
  BY Counters DEF RingInv
<1>3. CASE FindEmpty
  <2>1. Fifo!Empty
    BY <1>1, <1>2, <1>3 DEF FindEmpty, HasEntry, RingInv, Popping, Fifo!Empty
  <2> QED BY <1>3, <2>1 DEF FindEmpty, Fifo!FindNothing, Fifo!Next
<1>4. CASE Retire
  <2>1. head < tail /\ SlotOf(head) \in Slot /\ head \in head .. (tail - 1)
    BY <1>2, <1>4, SlotOfType DEF Retire, RingInv, Popping
  <2>2. pop.entry = entries[SlotOf(head)]
    BY <1>4, <2>1 DEF Retire, RingInv, Popping, TypeOK, Content
  <2>3. pop.entry = sent[Len(received) + 1]
    BY <1>1, <2>1, <2>2 DEF RingInv, Window
  <2>4. ~Fifo!Empty
    BY <1>1, <1>2, <2>1 DEF Fifo!Empty
  <2> QED BY <1>4, <2>3, <2>4 DEF Retire, Fifo!Get, Fifo!Next
<1>5. CASE LoadHead \/ CheckEntry \/ CopyLo \/ CopyHi
  BY <1>5 DEF LoadHead, CheckEntry, CopyLo, CopyHi
<1> QED BY <1>3, <1>4, <1>5 DEF PopStep

(* With one producer RingShm implements the bounded queue.                    *)
THEOREM Refinement == SingleProducer => (Spec => ImplementsFifo)
<1> SUFFICES ASSUME SingleProducer PROVE Spec => ImplementsFifo
  OBVIOUS
<1>1. Init => Fifo!Init
  BY DEF Init, Fifo!Init
<1>2. TypeOK /\ RingInv /\ [Next]_vars => [Fifo!Next]_(Fifo!vars)
  <2> SUFFICES ASSUME TypeOK, RingInv, [Next]_vars
               PROVE  Fifo!Next \/ UNCHANGED Fifo!vars
    OBVIOUS
  <2>1. CASE UNCHANGED vars
    BY <2>1 DEF vars, history, Fifo!vars
  <2> QED BY <2>1, PushMaps, PopMaps DEF Next
<1> QED BY <1>1, <1>2, TypeCorrect, RingInvariant, PTL
        DEF Spec, ImplementsFifo, Fifo!Spec
=============================================================================
