--------------------------- MODULE SpscRingProofs ---------------------------
(***************************************************************************)
(* For every capacity, every number of laps of the cursors and every set   *)
(* of values: the ring's slot accesses are sound, the distance errors      *)
(* cannot occur, and the ring implements BoundedChannel.                   *)
(***************************************************************************)
EXTENDS SpscRing, SequenceTheorems, TLAPS

-----------------------------------------------------------------------------
(* Arithmetic of wrapping cursors.                                         *)

(* The cursor range is a positive multiple of the capacity. *)
LEMMA ModulusFacts == /\ Modulus \in Nat
                      /\ Modulus > 2 * Capacity
                      /\ Capacity \in Nat
                      /\ Capacity > 0
<1>1. Capacity * Laps >= Capacity * 3
  BY CapacityAssumption, LapsAssumption, SMT
<1> QED BY <1>1, CapacityAssumption, LapsAssumption, SMT DEF Modulus

(* A multiple of a positive number that lies below it is zero. *)
LEMMA MultipleBelow ==
  ASSUME NEW c \in Nat, c > 0, NEW k \in Int, 0 <= c * k, c * k < c
  PROVE  k = 0
<1>1. CASE k >= 1
  <2>1. c * k >= c BY <1>1, SMT
  <2> QED BY <2>1, SMT
<1>2. CASE k <= -1
  <2>1. c * k <= -c BY <1>2, SMT
  <2> QED BY <2>1, SMT
<1> QED BY <1>1, <1>2, SMT

(* A sequence number is its lap times the capacity plus its slot. *)
LEMMA DivMod ==
  ASSUME NEW s \in SeqNo
  PROVE  /\ s \div Capacity \in Int
         /\ Index(s) \in Slots
         /\ s = Capacity * (s \div Capacity) + Index(s)
BY CapacityAssumption, ModulusFacts, SMT DEF SeqNo, Slots, Index

(* Two sequence numbers less than a capacity apart use different slots. *)
LEMMA IndexInjective ==
  ASSUME NEW a \in SeqNo, NEW b \in SeqNo,
         Distance(a, b) < Capacity, Index(a) = Index(b)
  PROVE  a = b
<1> DEFINE qa == a \div Capacity
           qb == b \div Capacity
<1>1. /\ qa \in Int /\ qb \in Int
      /\ a = Capacity * qa + Index(a)
      /\ b = Capacity * qb + Index(b)
      /\ Index(a) \in Int
  BY DivMod DEF Slots
<1> HIDE DEF qa, qb
<1>2. CASE a >= b
  <2>1. a - b = Capacity * (qa - qb)
    BY <1>1, CapacityAssumption, SMT
  <2>2. 0 <= a - b /\ a - b < Capacity
    BY <1>2, SMT DEF Distance, SeqNo
  <2>3. qa - qb = 0
    BY <2>1, <2>2, <1>1, CapacityAssumption, MultipleBelow
  <2> QED BY <2>3, <1>1, SMT
<1>3. CASE a < b
  <2>1. a - b + Modulus = Capacity * (qa - qb + Laps)
    BY <1>1, CapacityAssumption, LapsAssumption, SMT DEF Modulus
  <2>2. 0 < a - b + Modulus /\ a - b + Modulus < Capacity
    BY <1>3, ModulusFacts, SMT DEF Distance, SeqNo
  <2>3. qa - qb + Laps = 0
    BY <2>1, <2>2, <1>1, CapacityAssumption, LapsAssumption, MultipleBelow
  <2> QED BY <2>1, <2>2, <2>3, CapacityAssumption, SMT
<1> QED BY <1>2, <1>3, SMT DEF SeqNo

(* Sequence numbers a whole capacity apart share a slot. *)
LEMMA IndexPeriodic ==
  ASSUME NEW a \in SeqNo, NEW b \in SeqNo, Distance(a, b) = Capacity
  PROVE  Index(a) = Index(b)
<1> DEFINE qa == a \div Capacity
           qb == b \div Capacity
<1>1. /\ qa \in Int /\ qb \in Int
      /\ a = Capacity * qa + Index(a)
      /\ b = Capacity * qb + Index(b)
      /\ Index(a) \in 0 .. (Capacity - 1) /\ Index(b) \in 0 .. (Capacity - 1)
  BY DivMod DEF Slots
<1> HIDE DEF qa, qb
<1>2. PICK k \in Int : Index(a) - Index(b) = Capacity * k
  <2>1. CASE a >= b
    <3>1. Index(a) - Index(b) = Capacity * (1 - qa + qb)
      BY <1>1, <2>1, CapacityAssumption, SMT DEF Distance, SeqNo
    <3> QED BY <3>1, <1>1
  <2>2. CASE a < b
    <3>1. Index(a) - Index(b) = Capacity * (1 - qa + qb - Laps)
      BY <1>1, <2>2, CapacityAssumption, LapsAssumption, SMT DEF Distance, SeqNo, Modulus
    <3>2. 1 - qa + qb - Laps \in Int BY <1>1, LapsAssumption
    <3> QED BY <3>1, <3>2
  <2> QED BY <2>1, <2>2, SMT DEF SeqNo
<1>3. CASE Index(a) >= Index(b)
  <2>1. 0 <= Capacity * k /\ Capacity * k < Capacity
    BY <1>1, <1>2, <1>3, CapacityAssumption, SMT
  <2>2. k = 0 BY <2>1, CapacityAssumption, MultipleBelow
  <2> QED BY <2>2, <1>2, <1>1, CapacityAssumption, SMT
<1>4. CASE Index(a) < Index(b)
  <2>1. Capacity * (-k) = Index(b) - Index(a)
    BY <1>1, <1>2, CapacityAssumption, SMT
  <2>2. 0 <= Capacity * (-k) /\ Capacity * (-k) < Capacity
    BY <2>1, <1>1, <1>4, CapacityAssumption, SMT
  <2>3. -k = 0 BY <2>2, CapacityAssumption, MultipleBelow
  <2> QED BY <2>3, <1>2, <1>1, CapacityAssumption, SMT
<1> QED BY <1>1, <1>3, <1>4, SMT

(* The slot of a lap's i-th sequence number is i. *)
LEMMA IndexOfLap ==
  ASSUME NEW q \in Int, NEW i \in Slots, Capacity * q + i \in SeqNo
  PROVE  Index(Capacity * q + i) = i
<1> DEFINE s == Capacity * q + i
           r == s \div Capacity
<1>1. /\ r \in Int
      /\ s = Capacity * r + Index(s)
      /\ Index(s) \in 0 .. (Capacity - 1) /\ i \in 0 .. (Capacity - 1)
  BY DivMod DEF Slots
<1>2. s = Capacity * q + i
  OBVIOUS
<1> HIDE DEF s, r
<1>3. Index(s) - i = Capacity * (q - r) /\ i - Index(s) = Capacity * (r - q)
  BY <1>1, <1>2, CapacityAssumption, SMT
<1>4. Index(s) = i
  <2>1. CASE Index(s) >= i
    <3>1. 0 <= Capacity * (q - r) /\ Capacity * (q - r) < Capacity
      BY <1>1, <1>3, <2>1, CapacityAssumption, SMT
    <3>2. q - r = 0 BY <1>1, <3>1, CapacityAssumption, MultipleBelow
    <3> QED BY <1>1, <1>3, <3>2, CapacityAssumption, SMT
  <2>2. CASE Index(s) < i
    <3>1. 0 <= Capacity * (r - q) /\ Capacity * (r - q) < Capacity
      BY <1>1, <1>3, <2>2, CapacityAssumption, SMT
    <3>2. r - q = 0 BY <1>1, <3>1, CapacityAssumption, MultipleBelow
    <3> QED BY <1>1, <1>3, <3>2, CapacityAssumption, SMT
  <2> QED BY <1>1, <2>1, <2>2, SMT
<1> QED BY <1>2, <1>4

(* Any Capacity consecutive sequence numbers use every slot. *)
LEMMA IndexOnto ==
  ASSUME NEW b \in SeqNo, NEW i \in Slots
  PROVE  \E s \in SeqNo : Distance(s, b) < Capacity /\ Index(s) = i
<1> DEFINE q == b \div Capacity
<1>1. /\ q \in Int
      /\ b = Capacity * q + Index(b)
      /\ Index(b) \in 0 .. (Capacity - 1) /\ i \in 0 .. (Capacity - 1)
  BY DivMod DEF Slots
<1> HIDE DEF q
<1>2. q >= 0 /\ q < Laps
  <2>1. CASE q < 0
    <3>1. Capacity * q <= -Capacity BY <1>1, <2>1, CapacityAssumption, SMT
    <3> QED BY <1>1, <3>1, CapacityAssumption, SMT DEF SeqNo
  <2>2. CASE q >= Laps
    <3>1. Capacity * q >= Capacity * Laps
      BY <1>1, <2>2, CapacityAssumption, LapsAssumption, SMT
    <3> QED BY <1>1, <3>1, ModulusFacts, CapacityAssumption, LapsAssumption, SMT
            DEF SeqNo, Modulus
  <2> QED BY <1>1, <2>1, <2>2, LapsAssumption, SMT
<1>3. \A k \in 0 .. (Laps - 1) : Capacity * k + i \in SeqNo
  <2> SUFFICES ASSUME NEW k \in 0 .. (Laps - 1) PROVE Capacity * k + i \in SeqNo
    OBVIOUS
  <2>1. Capacity * k >= 0 /\ Capacity * k <= Capacity * (Laps - 1)
    BY CapacityAssumption, LapsAssumption, SMT
  <2>2. Capacity * (Laps - 1) = Modulus - Capacity
    BY CapacityAssumption, LapsAssumption, SMT DEF Modulus
  <2> QED BY <1>1, <2>1, <2>2, CapacityAssumption, ModulusFacts, SMT DEF SeqNo
<1>4. CASE i >= Index(b)
  <2>1. Capacity * q + i \in SeqNo BY <1>1, <1>2, <1>3, LapsAssumption
  <2>2. Distance(Capacity * q + i, b) < Capacity
    BY <1>1, <1>4, CapacityAssumption, SMT DEF Distance
  <2> QED BY <1>1, <2>1, <2>2, IndexOfLap
<1>5. CASE i < Index(b) /\ q + 1 < Laps
  <2>1. Capacity * (q + 1) + i \in SeqNo BY <1>1, <1>2, <1>3, <1>5, LapsAssumption
  <2>2. Capacity * (q + 1) = Capacity * q + Capacity BY <1>1, CapacityAssumption, SMT
  <2>3. Distance(Capacity * (q + 1) + i, b) < Capacity
    BY <1>1, <1>5, <2>2, CapacityAssumption, SMT DEF Distance
  <2>4. q + 1 \in Int BY <1>1
  <2> QED BY <2>1, <2>3, <2>4, IndexOfLap
<1>6. CASE i < Index(b) /\ q + 1 = Laps
  <2>1. Capacity * 0 + i \in SeqNo BY <1>3, LapsAssumption
  <2>2. Capacity * q = Modulus - Capacity
    <3>1. q = Laps - 1 BY <1>1, <1>6, LapsAssumption, SMT
    <3> QED BY <3>1, CapacityAssumption, LapsAssumption, SMT DEF Modulus
  <2>3. Distance(Capacity * 0 + i, b) < Capacity
    BY <1>1, <1>6, <2>2, CapacityAssumption, ModulusFacts, SMT DEF Distance
  <2> QED BY <2>1, <2>3, IndexOfLap
<1> QED BY <1>1, <1>2, <1>4, <1>5, <1>6, LapsAssumption, SMT

(* Cursor facts, with SeqNo and Modulus out of the provers' sight. *)
LEMMA CursorFacts ==
  /\ \A s \in SeqNo : Succ(s) \in SeqNo
  /\ \A a, b \in SeqNo : Distance(a, b) \in 0 .. (Modulus - 1)
BY ModulusFacts, SMT DEF SeqNo, Succ, Distance

-----------------------------------------------------------------------------
(* Type correctness.                                                       *)

LEMMA TypeInit == Init => TypeOK
BY DEF Init, TypeOK, ProducerAtRest, ConsumerAtRest

LEMMA TypeProducer == TypeOK /\ ProducerStep => TypeOK'
<1> SUFFICES ASSUME TypeOK, ProducerStep PROVE TypeOK'
  OBVIOUS
<1> USE DEF TypeOK
<1>1. CASE TryReserve
  BY <1>1 DEF TryReserve, BeginAdmit, ReserveVerdict, ProducerAtRest, consumerVars
<1>2. CASE TryPush
  BY <1>2 DEF TryPush, BeginAdmit, ReserveVerdict, ProducerAtRest, consumerVars
<1>3. CASE ReloadTail
  BY <1>3 DEF ReloadTail, Window, ReserveVerdict, ProducerAtRest, consumerVars
<1>4. CASE CancelReservation
  BY <1>4 DEF CancelReservation, ProducerAtRest, consumerVars
<1>5. CASE WriteSlot
  BY <1>5, CursorFacts DEF WriteSlot, ProducerAtRest, consumerVars
<1>6. CASE StoreHead
  BY <1>6 DEF StoreHead, ProducerAtRest, consumerVars
<1>7. CASE CloseProducer
  BY <1>7 DEF CloseProducer, ProducerAtRest, consumerVars
<1> QED BY <1>1, <1>2, <1>3, <1>4, <1>5, <1>6, <1>7 DEF ProducerStep

LEMMA TypeConsumer == TypeOK /\ ConsumerStep => TypeOK'
<1> SUFFICES ASSUME TypeOK, ConsumerStep PROVE TypeOK'
  OBVIOUS
<1> USE DEF TypeOK
<1>1. CASE TryClaim
  BY <1>1 DEF TryClaim, BeginTake, ConsumerGoes, ClaimVerdict, ConsumerAtRest, producerVars
<1>2. CASE TryPop
  BY <1>2 DEF TryPop, BeginTake, ConsumerGoes, ClaimVerdict, ConsumerAtRest, producerVars
<1>3. CASE LoadHead
  BY <1>3 DEF LoadHead, Window, ConsumerGoes, ClaimVerdict, ConsumerAtRest, producerVars
<1>4. CASE LoadProducerClosed
  BY <1>4 DEF LoadProducerClosed, Visible, ConsumerAtRest, producerVars
<1>5. CASE ReloadHead
  BY <1>5 DEF ReloadHead, ConsumerGoes, ClaimVerdict, ConsumerAtRest, producerVars
<1>6. CASE CopyValue
  <2>1. Index(cNext) \in Slots BY DivMod
  <2> QED BY <1>6, <2>1 DEF CopyValue, ConsumerAtRest, producerVars
<1>7. ASSUME NEW closing \in BOOLEAN, ReleaseClaim(closing) PROVE TypeOK'
  BY <1>7 DEF ReleaseClaim, ConsumerAtRest, producerVars
<1>8. CASE MoveValue
  <2>1. Index(cNext) \in Slots BY DivMod
  <2> QED BY <1>8, <2>1, CursorFacts DEF MoveValue, ConsumerAtRest, producerVars
<1>9. CASE StoreTail
  BY <1>9 DEF StoreTail, ConsumerAtRest, producerVars
<1>10. CASE CloseConsumer
  BY <1>10 DEF CloseConsumer, ConsumerAtRest, producerVars
<1> QED BY <1>1, <1>2, <1>3, <1>4, <1>5, <1>6, <1>7, <1>8, <1>9, <1>10 DEF ConsumerStep

LEMMA TypeNext == TypeOK /\ [Next]_vars => TypeOK'
<1> SUFFICES ASSUME TypeOK, [Next]_vars PROVE TypeOK'
  OBVIOUS
<1>1. CASE DropInner
  BY <1>1 DEF DropInner, TypeOK, producerVars, consumerVars
<1>2. CASE Reclaimed \/ UNCHANGED vars
  BY <1>2 DEF Reclaimed, TypeOK, vars
<1> QED BY <1>1, <1>2, TypeProducer, TypeConsumer DEF Next

(* The ring's fields and the phases of its calls keep their types, for     *)
(* every capacity, cursor width and set of values.                         *)
THEOREM TypeCorrect == Spec => []TypeOK
BY TypeInit, TypeNext, PTL DEF Spec

-----------------------------------------------------------------------------
(* The inductive invariant.                                                *)

LEMMA RingInit == Init => RingInv
<1> SUFFICES ASSUME Init PROVE RingInv
  OBVIOUS
<1>1. TypeOK BY TypeInit
<1>2. \A s \in SeqNo : Distance(s, s) = 0
  BY SMT DEF SeqNo, Distance
<1>3. \A s \in SeqNo : /\ Index(s) \in Slots
                        /\ Distance(s, cNext) \in Int
                        /\ Distance(s, cNext) >= 0
  BY <1>1, DivMod, CursorFacts, ModulusFacts DEF TypeOK
<1>4. CursorOrder /\ Phases
  BY <1>2, ModulusFacts DEF Init, CursorOrder, Phases
<1>5. Occupancy
  BY <1>1, <1>2, <1>3 DEF Init, TypeOK, Occupancy
<1> QED BY <1>4, <1>5 DEF Init, RingInv, DistanceNeverExceedsCapacity

(* Steps that leave the cells and both next cursors alone leave Occupancy  *)
(* alone.                                                                  *)
LEMMA OccupancyFrame ==
  Occupancy /\ UNCHANGED <<slots, cNext, pNext, freed>> => Occupancy'
BY DEF Occupancy

(* Seen from any sequence number between the cached tail and the           *)
(* consumer's next, distances are those seen from the cached tail, shifted.*)
LEMMA Rebase ==
  ASSUME NEW b \in SeqNo, NEW t \in SeqNo, NEW s \in SeqNo,
         Distance(t, b) <= Distance(s, b)
  PROVE  Distance(s, t) = Distance(s, b) - Distance(t, b)
BY ModulusFacts, SMT DEF SeqNo, Distance

LEMMA RingProducer == TypeOK /\ RingInv /\ ProducerStep => RingInv'
<1> SUFFICES ASSUME TypeOK, RingInv, ProducerStep PROVE RingInv'
  OBVIOUS
<1> USE DEF RingInv
<1>0. /\ Distance(pNext, pCachedTail) <= Capacity
      /\ publishedHead \in SeqNo /\ consumedTail \in SeqNo /\ pNext \in SeqNo
      /\ pCachedTail \in SeqNo /\ cNext \in SeqNo /\ cCachedHead \in SeqNo
  BY DEF CursorOrder, TypeOK
<1>1. ASSUME NEW op \in {"reserve", "push"}, BeginAdmit(op) PROVE RingInv'
  <2>1. CursorOrder' BY <1>1 DEF BeginAdmit, CursorOrder, consumerVars
  <2>0. /\ pPc' \in {"Disconnected", "reload", "vacant"}
        /\ pPc' = "vacant" => Distance(pNext, pCachedTail) < Capacity
    <3>1. Distance(pNext, pCachedTail) \in Int
      BY <1>0, CursorFacts, ModulusFacts
    <3> QED BY <1>0, <1>1, <3>1, ModulusFacts DEF BeginAdmit, ReserveVerdict
  <2>2. Phases' /\ DistanceNeverExceedsCapacity'
    BY <1>1, <2>0
    DEF BeginAdmit, Phases, DistanceNeverExceedsCapacity, ProducerAtRest, consumerVars
  <2>3. Occupancy' BY <1>1, OccupancyFrame DEF BeginAdmit, consumerVars
  <2> QED BY <1>1, <2>1, <2>2, <2>3 DEF BeginAdmit, consumerVars
<1>2. CASE ReloadTail
  <2>1. PICK t \in Window(pCachedTail, consumedTail) :
          /\ pCachedTail' = t
          /\ pPc' = ReserveVerdict(pOp, Distance(pNext, t), "Full")
    BY <1>2 DEF ReloadTail
  <2>2. t \in SeqNo /\ Distance(t, pCachedTail) <= Distance(consumedTail, pCachedTail)
    BY <2>1 DEF Window
  <2>3. CursorOrder' /\ Distance(pNext, t) <= Capacity
    <3>1. \A s \in SeqNo : /\ Distance(s, pCachedTail) \in Int
                            /\ Distance(s, pCachedTail) >= 0
      BY <1>0, CursorFacts, ModulusFacts
    <3>2. \A s \in {consumedTail, cNext, cCachedHead, publishedHead, pNext} :
            /\ s \in SeqNo
            /\ Distance(s, t) = Distance(s, pCachedTail) - Distance(t, pCachedTail)
      BY <1>0, <2>2, <3>1, Rebase DEF CursorOrder
    <3> QED BY <1>0, <1>2, <2>1, <2>2, <3>1, <3>2, ModulusFacts
            DEF CursorOrder, ReloadTail, consumerVars
  <2>4. Phases' /\ DistanceNeverExceedsCapacity'
    BY <1>0, <1>2, <2>1, <2>2, <2>3, CursorFacts, ModulusFacts
    DEF ReloadTail, Phases, DistanceNeverExceedsCapacity, ReserveVerdict, consumerVars
  <2>5. Occupancy' BY <1>2, OccupancyFrame DEF ReloadTail, consumerVars
  <2> QED BY <1>2, <2>3, <2>4, <2>5 DEF ReloadTail, consumerVars
<1>3. CASE CancelReservation
  <2>1. CursorOrder' BY <1>3 DEF CancelReservation, CursorOrder, consumerVars
  <2>2. Phases' /\ DistanceNeverExceedsCapacity'
    BY <1>3 DEF CancelReservation, Phases, DistanceNeverExceedsCapacity, consumerVars
  <2>3. Occupancy' BY <1>3, OccupancyFrame DEF CancelReservation, consumerVars
  <2> QED BY <1>3, <2>1, <2>2, <2>3 DEF CancelReservation, consumerVars
<1>4. CASE WriteSlot
  <2> USE DEF WriteSlot, consumerVars
  <2>1. /\ pNext = publishedHead
        /\ Distance(pNext, pCachedTail) < Capacity
        /\ ~freed
    BY <1>4 DEF Phases
  <2>2. /\ Succ(pNext) \in SeqNo
        /\ Distance(Succ(pNext), pCachedTail) = Distance(pNext, pCachedTail) + 1
        /\ Distance(Succ(pNext), cNext) = Distance(pNext, cNext) + 1
        /\ Distance(pNext, cNext) < Capacity
        /\ \A s \in SeqNo : Distance(s, cNext) = Distance(pNext, cNext) => s = pNext
    <3>1. Distance(cNext, pCachedTail) <= Distance(pNext, pCachedTail)
      BY <1>0, CursorFacts DEF CursorOrder
    <3> QED BY <1>0, <2>1, <3>1, ModulusFacts, SMT DEF SeqNo, Succ, Distance
  <2>3. CursorOrder'
    BY <1>0, <1>4, <2>1, <2>2, CursorFacts, ModulusFacts DEF CursorOrder
  <2>4. Phases' /\ DistanceNeverExceedsCapacity'
    BY <1>4, <2>1 DEF Phases, DistanceNeverExceedsCapacity
  <2>5. \A s \in SeqNo : Distance(s, cNext) < Capacity /\ s # pNext
                           => slots'[Index(s)] = slots[Index(s)]
    <3> SUFFICES ASSUME NEW s \in SeqNo, Distance(s, cNext) < Capacity, s # pNext
                 PROVE  slots'[Index(s)] = slots[Index(s)]
      OBVIOUS
    <3>1. Index(s) # Index(pNext)
      <4>1. Distance(s, pNext) < Capacity \/ Distance(pNext, s) < Capacity
        BY <1>0, <2>2, ModulusFacts, SMT DEF SeqNo, Distance
      <4> QED BY <1>0, <4>1, IndexInjective
    <3>2. Index(s) \in Slots BY DivMod
    <3> QED BY <1>4, <3>1, <3>2 DEF TypeOK
  <2>6. slots'[Index(pNext)] # Uninit
    <3>1. Index(pNext) \in Slots BY <1>0, DivMod
    <3> QED BY <1>4, <3>1, ValuesAssumption DEF TypeOK
  <2>7. Occupancy'
    <3> SUFFICES ASSUME NEW s \in SeqNo
                 PROVE  /\ Distance(s, cNext) < Distance(pNext, cNext) + 1
                             => slots'[Index(s)] # Uninit
                        /\ Distance(s, cNext) >= Distance(pNext, cNext) + 1
                             /\ Distance(s, cNext) < Capacity
                             => slots'[Index(s)] = Uninit
      BY <1>4, <2>1, <2>2 DEF Occupancy
    <3>1. Distance(s, cNext) \in Int /\ Distance(pNext, cNext) \in Int
      BY <1>0, CursorFacts, ModulusFacts
    <3>2. CASE s = pNext BY <2>6, <3>1, <3>2
    <3>3. CASE s # pNext
      <4>1. Distance(s, cNext) # Distance(pNext, cNext) BY <2>2, <3>3
      <4> QED BY <2>1, <2>2, <2>5, <3>1, <3>3, <4>1, ModulusFacts DEF Occupancy
    <3> QED BY <3>2, <3>3
  <2>8. (cPc = "claimed" => slots[Index(cNext)] = cValue)'
    <3> SUFFICES ASSUME cPc = "claimed" PROVE slots'[Index(cNext)] = cValue
      BY <1>4
    <3>1. cNext # pNext /\ Distance(cNext, cNext) < Capacity
      BY <1>0, <2>1, ModulusFacts, SMT DEF Phases, CursorOrder, SeqNo, Distance
    <3> QED BY <1>0, <2>5, <3>1
  <2> QED BY <2>3, <2>4, <2>7, <2>8
<1>5. CASE StoreHead
  <2> USE DEF StoreHead, consumerVars
  <2>1. CursorOrder'
    BY <1>0, <1>5, CursorFacts, ModulusFacts DEF CursorOrder
  <2>2. Phases' /\ DistanceNeverExceedsCapacity'
    BY <1>5 DEF Phases, DistanceNeverExceedsCapacity
  <2>3. Occupancy' BY <1>5, OccupancyFrame
  <2> QED BY <1>5, <2>1, <2>2, <2>3
<1>6. CASE CloseProducer
  <2> USE DEF CloseProducer, consumerVars
  <2>1. CursorOrder' BY <1>6 DEF CursorOrder
  <2>2. Phases' /\ DistanceNeverExceedsCapacity'
    BY <1>6 DEF Phases, DistanceNeverExceedsCapacity, ProducerAtRest
  <2>3. Occupancy' BY <1>6, OccupancyFrame
  <2> QED BY <1>6, <2>1, <2>2, <2>3
<1> QED BY <1>1, <1>2, <1>3, <1>4, <1>5, <1>6 DEF ProducerStep, TryReserve, TryPush

LEMMA RingConsumer == TypeOK /\ RingInv /\ ConsumerStep => RingInv'
<1> SUFFICES ASSUME TypeOK, RingInv, ConsumerStep PROVE RingInv'
  OBVIOUS
<1> USE DEF RingInv
<1>0. /\ publishedHead \in SeqNo /\ consumedTail \in SeqNo /\ pNext \in SeqNo
      /\ pCachedTail \in SeqNo /\ cNext \in SeqNo /\ cCachedHead \in SeqNo
      /\ \A a, b \in SeqNo : Distance(a, b) \in Int /\ Distance(a, b) >= 0
  BY CursorFacts, ModulusFacts DEF TypeOK
(* What the consumer may find ahead of it: any head between the cached and *)
(* the published one is at most a capacity away, and none iff it is next.  *)
<1>a. ASSUME NEW h \in SeqNo,
             Distance(cCachedHead, pCachedTail) <= Distance(h, pCachedTail),
             Distance(h, pCachedTail) <= Distance(publishedHead, pCachedTail)
      PROVE  /\ Distance(h, cNext) <= Capacity
             /\ Distance(h, cNext) = 0 <=> h = cNext
  <2>1. /\ Distance(cNext, pCachedTail) <= Distance(h, pCachedTail)
        /\ Distance(h, pCachedTail) <= Capacity
    BY <1>0, <1>a, ModulusFacts DEF CursorOrder
  <2> QED BY <1>0, <2>1, ModulusFacts, SMT DEF SeqNo, Distance
(* A call that finds nothing wrong only moves the program counter.         *)
<1>b. ASSUME UNCHANGED <<consumedTail, cNext, cCachedHead, slots, freed>>,
             UNCHANGED producerVars,
             cPc # "moved", cPc' # "moved", cPc' # "Invariant",
             cPc' = "claimed" => slots[Index(cNext)] = cValue',
             cPc' \in {"access", "claimed"} => cCachedHead # cNext,
             cPc' \in {"reload_head", "Disconnected"} =>
               producerClosed /\ (cPc' = "Disconnected" => publishedHead = consumedTail),
             cPc' = "dropped" => consumerClosed',
             ~freed
      PROVE  RingInv'
  <2> USE DEF producerVars
  <2>1. CursorOrder' BY <1>b DEF CursorOrder
  <2>2. Phases' BY <1>b DEF Phases
  <2>3. Occupancy' BY <1>b, OccupancyFrame
  <2> QED BY <1>b, <2>1, <2>2, <2>3 DEF DistanceNeverExceedsCapacity
<1>c. ~freed
  BY DEF ConsumerStep, TryClaim, TryPop, BeginTake, LoadHead, LoadProducerClosed,
         ReloadHead, CopyValue, ReleaseClaim, MoveValue, StoreTail, CloseConsumer,
         Phases, ConsumerAtRest
<1>1. ASSUME NEW op \in {"claim", "pop"}, BeginTake(op) PROVE RingInv'
  <2>1. /\ Distance(cCachedHead, cNext) <= Capacity
        /\ Distance(cCachedHead, cNext) = 0 <=> cCachedHead = cNext
    BY <1>0, <1>a DEF CursorOrder
  <2>2. /\ cPc' \in {"load_head", "access"}
        /\ cPc' = "access" => cCachedHead # cNext
    BY <1>0, <1>1, <2>1, ModulusFacts DEF BeginTake, ConsumerGoes, ClaimVerdict
  <2> QED BY <1>1, <1>b, <1>c, <2>2 DEF BeginTake, ConsumerAtRest
<1>2. CASE LoadHead
  <2>1. PICK h \in Window(cCachedHead, publishedHead) :
          /\ cCachedHead' = h
          /\ ConsumerGoes(ClaimVerdict(cOp, Distance(h, cNext), "load_closed"))
    BY <1>2 DEF LoadHead
  <2>2. /\ h \in SeqNo
        /\ Distance(cCachedHead, pCachedTail) <= Distance(h, pCachedTail)
        /\ Distance(h, pCachedTail) <= Distance(publishedHead, pCachedTail)
    BY <1>0, <2>1, ModulusFacts, SMT DEF Window, CursorOrder, SeqNo, Distance
  <2>3. /\ Distance(h, cNext) <= Capacity
        /\ Distance(h, cNext) = 0 <=> h = cNext
    BY <1>a, <2>2
  <2>4. /\ cPc' \in {"load_closed", "access"}
        /\ cPc' = "access" => h # cNext
    BY <1>0, <2>1, <2>2, <2>3, ModulusFacts DEF ConsumerGoes, ClaimVerdict
  <2>5. CursorOrder'
    BY <1>0, <1>2, <2>1, <2>2 DEF LoadHead, CursorOrder, producerVars
  <2>6. Phases' /\ DistanceNeverExceedsCapacity'
    BY <1>2, <2>1, <2>4 DEF LoadHead, Phases, DistanceNeverExceedsCapacity, producerVars
  <2>7. Occupancy' BY <1>2, OccupancyFrame DEF LoadHead, producerVars
  <2> QED BY <2>4, <2>5, <2>6, <2>7
<1>3. CASE LoadProducerClosed
  <2>1. cPc' \in {"Empty", "reload_head"} /\ (cPc' = "reload_head" => producerClosed)
    <3>1. PICK seen \in {FALSE, producerClosed} :
            cPc' = IF seen THEN "reload_head" ELSE "Empty"
      BY <1>3 DEF LoadProducerClosed, Visible
    <3>2. CASE seen = FALSE BY <3>1, <3>2
    <3>3. CASE seen = producerClosed
      <4>1. CASE producerClosed = TRUE BY <3>1, <3>3, <4>1
      <4>2. CASE producerClosed = FALSE BY <3>1, <3>3, <4>2
      <4> QED BY <4>1, <4>2 DEF TypeOK
    <3> QED BY <3>1, <3>2, <3>3
  <2> QED BY <1>3, <1>b, <1>c, <2>1 DEF LoadProducerClosed
<1>4. CASE ReloadHead
  <2>1. /\ Distance(publishedHead, cNext) <= Capacity
        /\ Distance(publishedHead, cNext) = 0 <=> publishedHead = cNext
    BY <1>0, <1>a DEF CursorOrder
  <2>2. /\ cPc' \in {"Disconnected", "access"}
        /\ cPc' = "access" => publishedHead # cNext
        /\ cPc' = "Disconnected" => publishedHead = cNext
    BY <1>0, <1>4, <2>1, ModulusFacts DEF ReloadHead, ConsumerGoes, ClaimVerdict
  <2>3. CursorOrder'
    BY <1>0, <1>4 DEF ReloadHead, CursorOrder, producerVars
  <2>4. Phases' /\ DistanceNeverExceedsCapacity'
    BY <1>4, <2>2 DEF ReloadHead, Phases, DistanceNeverExceedsCapacity, producerVars
  <2>5. Occupancy' BY <1>4, OccupancyFrame DEF ReloadHead, producerVars
  <2> QED BY <2>2, <2>3, <2>4, <2>5
<1>5. CASE CopyValue
  BY <1>5, <1>b, <1>c DEF CopyValue, Phases
<1>6. ASSUME NEW closing \in BOOLEAN, ReleaseClaim(closing) PROVE RingInv'
  BY <1>6, <1>b, <1>c DEF ReleaseClaim
<1>7. CASE MoveValue
  <2> USE DEF MoveValue, producerVars
  <2>1. cNext = consumedTail /\ cCachedHead # cNext
    BY <1>7 DEF Phases
  <2>2. /\ Succ(cNext) \in SeqNo
        /\ Distance(Succ(cNext), pCachedTail) = Distance(cNext, pCachedTail) + 1
        /\ Distance(Succ(cNext), pCachedTail) <= Distance(cCachedHead, pCachedTail)
        /\ Distance(pNext, cNext) <= Capacity
        /\ Distance(pNext, Succ(cNext)) = Distance(pNext, cNext) - 1
    <3>1. /\ Distance(cNext, pCachedTail) <= Distance(cCachedHead, pCachedTail)
          /\ Distance(cCachedHead, pCachedTail) <= Distance(pNext, pCachedTail)
          /\ Distance(pNext, pCachedTail) <= Capacity
      BY <1>0, ModulusFacts DEF CursorOrder
    <3> QED BY <1>0, <2>1, <3>1, ModulusFacts, SMT DEF SeqNo, Succ, Distance
  <2>3. CursorOrder'
    BY <1>0, <1>7, <2>1, <2>2 DEF CursorOrder
  <2>4. Phases' /\ DistanceNeverExceedsCapacity'
    BY <1>7, <2>1 DEF Phases, DistanceNeverExceedsCapacity
  <2>5. \A s \in SeqNo : /\ Index(s) \in Slots
                         /\ slots'[Index(s)] = IF Index(s) = Index(cNext) THEN Uninit
                                               ELSE slots[Index(s)]
    BY <1>0, <1>7, DivMod DEF TypeOK
  <2>6. Occupancy'
    <3> SUFFICES ASSUME NEW s \in SeqNo
                 PROVE  /\ Distance(s, Succ(cNext)) < Distance(pNext, Succ(cNext))
                             => slots'[Index(s)] # Uninit
                        /\ Distance(s, Succ(cNext)) >= Distance(pNext, Succ(cNext))
                             /\ Distance(s, Succ(cNext)) < Capacity
                             => slots'[Index(s)] = Uninit
      BY <1>7, <1>c DEF Occupancy
    <3>1. ASSUME Distance(s, Succ(cNext)) < Distance(pNext, Succ(cNext))
          PROVE  slots'[Index(s)] # Uninit
      <4>1. /\ Distance(s, cNext) = Distance(s, Succ(cNext)) + 1
            /\ Distance(s, cNext) < Distance(pNext, cNext)
            /\ s # cNext
        BY <1>0, <2>2, <3>1, ModulusFacts, SMT DEF SeqNo, Succ, Distance
      <4>2. Index(s) # Index(cNext)
        BY <1>0, <2>2, <4>1, IndexInjective, ModulusFacts
      <4> QED BY <1>c, <2>5, <4>1, <4>2 DEF Occupancy
    <3>2. ASSUME Distance(s, Succ(cNext)) >= Distance(pNext, Succ(cNext)),
                 Distance(s, Succ(cNext)) < Capacity,
                 Index(s) # Index(cNext)
          PROVE  slots'[Index(s)] = Uninit
      <4>1. /\ Distance(s, cNext) = Distance(s, Succ(cNext)) + 1
            /\ Distance(s, cNext) >= Distance(pNext, cNext)
            /\ Distance(s, cNext) <= Capacity
        BY <1>0, <2>2, <3>2, ModulusFacts, SMT DEF SeqNo, Succ, Distance
      <4>2. Distance(s, cNext) < Capacity
        BY <1>0, <3>2, <4>1, IndexPeriodic, ModulusFacts
      <4> QED BY <1>c, <2>5, <3>2, <4>1, <4>2 DEF Occupancy
    <3> QED BY <2>5, <3>1, <3>2
  <2> QED BY <1>7, <2>3, <2>4, <2>6
<1>8. CASE StoreTail
  <2> USE DEF StoreTail, producerVars
  <2>1. CursorOrder' BY <1>0, <1>8 DEF CursorOrder
  <2>2. Phases' /\ DistanceNeverExceedsCapacity'
    BY <1>8 DEF Phases, DistanceNeverExceedsCapacity
  <2>3. Occupancy' BY <1>8, OccupancyFrame
  <2> QED BY <1>8, <2>1, <2>2, <2>3
<1>9. CASE CloseConsumer
  BY <1>9, <1>b, <1>c DEF CloseConsumer, ConsumerAtRest, Phases, DistanceNeverExceedsCapacity
<1> QED BY <1>1, <1>2, <1>3, <1>4, <1>5, <1>6, <1>7, <1>8, <1>9
        DEF ConsumerStep, TryClaim, TryPop

(* The final drop finds the values of the published range, all of them and *)
(* nothing else.                                                           *)
LEMMA DropFindsPublished ==
  ASSUME TypeOK, RingInv, pPc = "closed", cPc = "dropped", ~freed
  PROVE  /\ {i \in Slots : slots[i] # Uninit} = StillPublished
         /\ Distance(publishedHead, consumedTail) <= Capacity
<1>1. /\ pNext = publishedHead /\ cNext = consumedTail
      /\ pNext \in SeqNo /\ cNext \in SeqNo
  BY DEF RingInv, Phases, TypeOK
<1>2. Distance(pNext, cNext) \in Int /\ Distance(pNext, cNext) <= Capacity
  <2>1. pCachedTail \in SeqNo /\ cCachedHead \in SeqNo BY DEF TypeOK
  <2>2. /\ Distance(cNext, pCachedTail) <= Distance(pNext, pCachedTail)
        /\ Distance(pNext, pCachedTail) <= Capacity
    BY <1>1, <2>1, CursorFacts, ModulusFacts DEF RingInv, CursorOrder
  <2> QED BY <1>1, <2>1, <2>2, ModulusFacts, SMT DEF SeqNo, Distance
<1>3. ASSUME NEW i \in Slots, slots[i] # Uninit PROVE i \in StillPublished
  <2>1. PICK s \in SeqNo : Distance(s, cNext) < Capacity /\ Index(s) = i
    BY <1>1, IndexOnto
  <2>2. Distance(s, cNext) < Distance(pNext, cNext)
    BY <1>1, <1>2, <1>3, <2>1, CursorFacts, ModulusFacts DEF RingInv, Occupancy
  <2> QED BY <1>1, <2>1, <2>2 DEF StillPublished
<1>4. ASSUME NEW i \in StillPublished PROVE i \in Slots /\ slots[i] # Uninit
  <2>1. PICK s \in SeqNo : i = Index(s) /\ Distance(s, cNext) < Distance(pNext, cNext)
    BY <1>1, <1>4 DEF StillPublished
  <2> QED BY <2>1, DivMod DEF RingInv, Occupancy
<1> QED BY <1>1, <1>2, <1>3, <1>4

LEMMA RingDrop == TypeOK /\ RingInv /\ DropInner => RingInv'
<1> SUFFICES ASSUME TypeOK, RingInv, DropInner PROVE RingInv'
  OBVIOUS
<1> USE DEF DropInner, producerVars, consumerVars
<1>1. /\ {i \in Slots : slots[i] # Uninit} = StillPublished
      /\ Distance(publishedHead, consumedTail) <= Capacity
  BY DropFindsPublished
<1>2. Distance(publishedHead, consumedTail) \in Int
  BY CursorFacts, ModulusFacts DEF TypeOK
<1>3. \A i \in Slots : slots'[i] = Uninit
  BY <1>1, <1>2, ModulusFacts
<1>4. CursorOrder' /\ Phases' BY DEF RingInv, CursorOrder, Phases
<1>5. Occupancy' BY <1>3 DEF Occupancy
<1> QED BY <1>4, <1>5 DEF RingInv, DistanceNeverExceedsCapacity

LEMMA RingNext == TypeOK /\ RingInv /\ [Next]_vars => RingInv'
<1> SUFFICES ASSUME TypeOK, RingInv, [Next]_vars PROVE RingInv'
  OBVIOUS
<1>1. CASE Reclaimed \/ UNCHANGED vars
  <2>1. UNCHANGED vars BY <1>1 DEF Reclaimed
  <2> QED BY <2>1 DEF vars, RingInv, CursorOrder, Phases, Occupancy,
                     DistanceNeverExceedsCapacity
<1> QED BY <1>1, RingProducer, RingConsumer, RingDrop DEF Next

(* The cursors stay in order within one capacity of each other and the     *)
(* occupied cells are those between the two next cursors.                  *)
THEOREM RingInvariant == Spec => []RingInv
<1>1. Init => RingInv BY RingInit
<1>2. TypeOK /\ RingInv /\ [Next]_vars => RingInv' BY RingNext
<1> QED BY <1>1, <1>2, TypeCorrect, PTL DEF Spec

-----------------------------------------------------------------------------
(* The producer writes only empty cells and the consumer copies and moves  *)
(* only initialized ones, for every capacity, under stale loads and        *)
(* wrapping cursors: the proof obligation of ring.rs's unsafe blocks.      *)
THEOREM SlotAccessIsSound == Spec => []SlotAccessSound
<1>1. TypeOK /\ RingInv => SlotAccessSound
  <2> SUFFICES ASSUME TypeOK, RingInv PROVE SlotAccessSound
    OBVIOUS
  <2>0. /\ pNext \in SeqNo /\ cNext \in SeqNo /\ pCachedTail \in SeqNo
        /\ cCachedHead \in SeqNo /\ publishedHead \in SeqNo
        /\ \A a, b \in SeqNo : Distance(a, b) \in Int
    BY CursorFacts, ModulusFacts DEF TypeOK
  <2>1. /\ Distance(cNext, pCachedTail) <= Distance(cCachedHead, pCachedTail)
        /\ Distance(cCachedHead, pCachedTail) <= Distance(pNext, pCachedTail)
        /\ Distance(pNext, pCachedTail) <= Capacity
    BY <2>0, ModulusFacts DEF RingInv, CursorOrder
  <2>2. ASSUME pPc = "vacant" PROVE slots[Index(pNext)] = Uninit
    <3>1. Distance(pNext, pCachedTail) < Capacity /\ ~freed
      BY <2>2 DEF RingInv, Phases
    <3>2. Distance(pNext, cNext) < Capacity
      BY <2>0, <2>1, <3>1, ModulusFacts, SMT DEF SeqNo, Distance
    <3> QED BY <2>0, <3>1, <3>2 DEF RingInv, Occupancy
  <2>3. ASSUME cPc \in {"access", "claimed"} PROVE slots[Index(cNext)] # Uninit
    <3>1. cCachedHead # cNext /\ ~freed
      BY <2>3 DEF RingInv, Phases
    <3>2. Distance(cNext, cNext) < Distance(pNext, cNext)
      BY <2>0, <2>1, <3>1, ModulusFacts, SMT DEF SeqNo, Distance
    <3> QED BY <2>0, <3>1, <3>2 DEF RingInv, Occupancy
  <2> QED BY <2>2, <2>3 DEF SlotAccessSound, RingInv
<1> QED BY <1>1, TypeCorrect, RingInvariant, PTL

(* No schedule makes try_reserve or try_claim report a cursor distance     *)
(* above the capacity.                                                     *)
THEOREM DistanceIsBounded == Spec => []DistanceNeverExceedsCapacity
<1>1. RingInv => DistanceNeverExceedsCapacity BY DEF RingInv
<1> QED BY <1>1, RingInvariant, PTL

(* Inner::drop neither leaks a published value nor drops an empty cell.    *)
THEOREM DropIsExact == Spec => []ExactDrop
<1>1. TypeOK /\ RingInv => ExactDrop
  <2> SUFFICES ASSUME TypeOK, RingInv, pPc = "closed", cPc = "dropped"
               PROVE  {i \in Slots : slots[i] # Uninit}
                        = IF freed THEN {} ELSE StillPublished
    BY DEF ExactDrop
  <2>1. CASE freed BY <2>1 DEF RingInv, Occupancy
  <2>2. CASE ~freed BY <2>2, DropFindsPublished
  <2> QED BY <2>1, <2>2
<1> QED BY <1>1, TypeCorrect, RingInvariant, PTL

-----------------------------------------------------------------------------
(* The refinement of BoundedChannel.                                       *)

(* One lap of the counter further the slot is the same. *)
LEMMA IndexWraps ==
  ASSUME NEW x \in Nat
  PROVE  Index(x + Modulus) = Index(x)
<1> DEFINE y == x + Modulus
           p == x \div Capacity
           q == y \div Capacity
<1>1. /\ p \in Int /\ q \in Int
      /\ x = Capacity * p + Index(x) /\ y = Capacity * q + Index(y)
      /\ Index(x) \in 0 .. (Capacity - 1) /\ Index(y) \in 0 .. (Capacity - 1)
  BY CapacityAssumption, ModulusFacts, SMT DEF Index
<1>2. y = x + Capacity * Laps
  BY DEF Modulus
<1> HIDE DEF y, p, q
<1>3. /\ Index(y) - Index(x) = Capacity * (p - q + Laps)
      /\ Index(x) - Index(y) = Capacity * (q - p - Laps)
      /\ p - q + Laps \in Int /\ q - p - Laps \in Int
  BY <1>1, <1>2, CapacityAssumption, LapsAssumption, SMT
<1>4. CASE Index(y) >= Index(x)
  <2>1. 0 <= Capacity * (p - q + Laps) /\ Capacity * (p - q + Laps) < Capacity
    BY <1>1, <1>3, <1>4, CapacityAssumption, SMT
  <2>2. p - q + Laps = 0 BY <1>3, <2>1, CapacityAssumption, MultipleBelow
  <2> QED BY <1>1, <1>3, <2>2, CapacityAssumption, SMT DEF y
<1>5. CASE Index(y) < Index(x)
  <2>1. 0 <= Capacity * (q - p - Laps) /\ Capacity * (q - p - Laps) < Capacity
    BY <1>1, <1>3, <1>5, CapacityAssumption, SMT
  <2>2. q - p - Laps = 0 BY <1>3, <2>1, CapacityAssumption, MultipleBelow
  <2> QED BY <1>1, <1>3, <2>2, <1>5, CapacityAssumption, SMT
<1> QED BY <1>1, <1>4, <1>5, SMT

(* The slot k places ahead of t is that of a sequence number k ahead of t. *)
LEMMA IndexAhead ==
  ASSUME NEW t \in SeqNo, NEW k \in 0 .. Capacity
  PROVE  /\ Index(t + k) \in Slots
         /\ \E s \in SeqNo : Distance(s, t) = k /\ Index(s) = Index(t + k)
<1>1. CASE t + k < Modulus
  <2>1. t + k \in SeqNo /\ Distance(t + k, t) = k
    BY <1>1, ModulusFacts, SMT DEF SeqNo, Distance
  <2> QED BY <2>1, DivMod
<1>2. CASE t + k >= Modulus
  <2> DEFINE s == t + k - Modulus
  <2>1. s \in SeqNo /\ s \in Nat /\ Distance(s, t) = k /\ s + Modulus = t + k
    BY <1>2, ModulusFacts, SMT DEF SeqNo, Distance
  <2>2. Index(s + Modulus) = Index(s)
    <3> HIDE DEF s
    <3> QED BY <2>1, IndexWraps
  <2> HIDE DEF s
  <2> QED BY <2>1, <2>2, DivMod
<1> QED BY <1>1, <1>2, ModulusFacts, SMT DEF SeqNo

(* How many values are published and not returned, and where each is. *)
Flying == Distance(publishedHead, consumedTail)
Cell(i) == IF i = 1 /\ cPc = "moved" THEN cValue ELSE slots[Index(consumedTail + i - 1)]

(* At most a capacity is published, the consumer works on what is, and the *)
(* producer's next cell is the one behind it.                              *)
LEMMA FlyingBounds ==
  ASSUME TypeOK, RingInv
  PROVE  /\ Flying \in 0 .. Capacity
         /\ cPc \in {"access", "claimed", "moved"} => Flying > 0
         /\ pPc = "vacant" => Flying < Capacity
         /\ pPc = "written" => Flying < Capacity /\ Distance(pNext, consumedTail) = Flying + 1
         /\ cPc = "moved" => Distance(publishedHead, cNext) = Flying - 1
         /\ publishedHead = consumedTail => Flying = 0
<1>1. /\ publishedHead \in SeqNo /\ consumedTail \in SeqNo /\ pNext \in SeqNo
      /\ pCachedTail \in SeqNo /\ cNext \in SeqNo /\ cCachedHead \in SeqNo
      /\ \A a, b \in SeqNo : Distance(a, b) \in Int /\ Distance(a, b) >= 0
  BY CursorFacts, ModulusFacts DEF TypeOK
<1>2. /\ Distance(consumedTail, pCachedTail) <= Distance(cNext, pCachedTail)
      /\ Distance(cNext, pCachedTail) <= Distance(cCachedHead, pCachedTail)
      /\ Distance(cCachedHead, pCachedTail) <= Distance(publishedHead, pCachedTail)
      /\ Distance(publishedHead, pCachedTail) <= Distance(pNext, pCachedTail)
      /\ Distance(pNext, pCachedTail) <= Capacity
  BY DEF RingInv, CursorOrder
<1>3. Flying \in 0 .. Capacity /\ (publishedHead = consumedTail => Flying = 0)
  BY <1>1, <1>2, ModulusFacts, SMT DEF Flying, Distance, SeqNo
<1>4. cPc \in {"access", "claimed"} => Flying > 0
  <2>1. cPc \in {"access", "claimed"} => cNext = consumedTail /\ cCachedHead # cNext
    BY DEF RingInv, Phases
  <2> QED BY <1>1, <1>2, <2>1, ModulusFacts, SMT DEF Flying, Distance, SeqNo
<1>5. cPc = "moved" => Flying > 0 /\ Distance(publishedHead, cNext) = Flying - 1
  <2>1. cPc = "moved" => cNext = Succ(consumedTail)
    BY DEF RingInv, Phases
  <2> QED BY <1>1, <1>2, <2>1, ModulusFacts, SMT DEF Flying, Distance, SeqNo, Succ
<1>6. pPc = "vacant" => Flying < Capacity
  <2>1. pPc = "vacant" => pNext = publishedHead /\ Distance(pNext, pCachedTail) < Capacity
    BY DEF RingInv, Phases
  <2> QED BY <1>1, <1>2, <2>1, ModulusFacts, SMT DEF Flying, Distance, SeqNo
<1>7. pPc = "written" => Flying < Capacity /\ Distance(pNext, consumedTail) = Flying + 1
  <2>1. pPc = "written" => pNext = Succ(publishedHead)
    BY DEF RingInv, Phases
  <2> QED BY <1>1, <1>2, <2>1, ModulusFacts, SMT DEF Flying, Distance, SeqNo, Succ
<1> QED BY <1>3, <1>4, <1>5, <1>6, <1>7

(* Until the drop the abstract queue is the sequence of these cells. *)
FlightIsCells ==
  /\ InFlight \in Seq(Values \cup {Uninit})
  /\ Len(InFlight) = Flying
  /\ \A i \in 1 .. Flying : InFlight[i] = Cell(i)

LEMMA FlightFacts == TypeOK /\ RingInv /\ ~freed => FlightIsCells
<1> SUFFICES ASSUME TypeOK, RingInv, ~freed PROVE FlightIsCells
  OBVIOUS
<1>1. Flying \in Nat /\ Flying <= Capacity BY FlyingBounds, CapacityAssumption
<1>2. consumedTail \in SeqNo BY DEF TypeOK
<1>3. InFlight = [i \in 1 .. Flying |-> Cell(i)]
  BY DEF InFlight, Flying, Cell
<1>4. \A i \in 1 .. Flying : Cell(i) \in Values \cup {Uninit}
  <2> SUFFICES ASSUME NEW i \in 1 .. Flying PROVE Cell(i) \in Values \cup {Uninit}
    OBVIOUS
  <2>1. i - 1 \in 0 .. Capacity /\ consumedTail + (i - 1) = consumedTail + i - 1
    BY <1>1, <1>2, CapacityAssumption, SMT DEF SeqNo
  <2>2. Index(consumedTail + i - 1) \in Slots
    BY <1>2, <2>1, IndexAhead
  <2> QED BY <2>2 DEF Cell, TypeOK
<1>5. InFlight \in [1 .. Flying -> Values \cup {Uninit}]
  BY <1>3, <1>4
<1>6. InFlight \in Seq(Values \cup {Uninit})
  BY <1>1, <1>5, SeqDef
<1>7. Len(InFlight) = Flying
  <2>1. Len(InFlight) \in Nat /\ DOMAIN InFlight = 1 .. Len(InFlight)
    BY <1>6, LenProperties
  <2>2. 1 .. Len(InFlight) = 1 .. Flying BY <1>5, <2>1
  <2>3. \A m, n \in Nat : m < n => n \in 1 .. n /\ n \notin 1 .. m
    BY SMT
  <2>4. PICK m, n \in Nat : m = Len(InFlight) /\ n = Flying
    BY <1>1, <2>1
  <2>5. ~(m < n) /\ ~(n < m)
    BY <2>2, <2>3, <2>4
  <2>6. m = n BY <2>5, SMT
  <2> QED BY <2>4, <2>6
<1> QED BY <1>3, <1>6, <1>7 DEF FlightIsCells

LEMMA FlightFactsNext == (TypeOK /\ RingInv /\ ~freed)' => FlightIsCells'
BY FlightFacts, PTL

(* A step that moves neither shared cursor nor any published value leaves  *)
(* the abstract queue alone.                                               *)
LEMMA FlightFrame ==
  ASSUME UNCHANGED <<publishedHead, consumedTail, freed>>,
         \A i \in 1 .. Flying : Cell(i)' = Cell(i)
  PROVE  InFlight' = InFlight
BY DEF InFlight, Flying, Cell

-----------------------------------------------------------------------------
(* Every step of the ring is a step of the channel or leaves it alone.     *)

(* The producer writes behind the last published value. *)
LEMMA WriteStutters ==
  ASSUME TypeOK, RingInv, ~freed, WriteSlot
  PROVE  InFlight' = InFlight
<1>1. /\ publishedHead \in SeqNo /\ consumedTail \in SeqNo /\ pNext = publishedHead
      /\ Flying \in 0 .. Capacity /\ Flying < Capacity
  BY FlyingBounds DEF TypeOK, RingInv, Phases, WriteSlot
<1>2. ASSUME NEW i \in 1 .. Flying PROVE Cell(i)' = Cell(i)
  <2>1. i - 1 \in 0 .. Capacity /\ consumedTail + (i - 1) = consumedTail + i - 1
    BY <1>1, CapacityAssumption, SMT DEF SeqNo
  <2>2. PICK s \in SeqNo : /\ Distance(s, consumedTail) = i - 1
                           /\ Index(s) = Index(consumedTail + i - 1)
    BY <1>1, <2>1, IndexAhead
  <2>3. s # publishedHead /\ Distance(publishedHead, s) < Capacity
    BY <1>1, <2>2, ModulusFacts, CapacityAssumption, SMT DEF Flying, Distance, SeqNo
  <2>4. Index(s) # Index(publishedHead)
    BY <1>1, <2>3, IndexInjective
  <2>5. Index(s) \in Slots BY DivMod
  <2>6. slots'[Index(s)] = slots[Index(s)]
    BY <1>1, <2>4, <2>5 DEF WriteSlot, TypeOK
  <2>7. UNCHANGED <<consumedTail, cPc, cValue>>
    BY DEF WriteSlot, consumerVars
  <2> QED BY <2>2, <2>6, <2>7 DEF Cell
<1> QED BY <1>2, FlightFrame DEF WriteSlot, consumerVars

(* The consumer's move takes the first value out of its cell only. *)
LEMMA MoveStutters ==
  ASSUME TypeOK, RingInv, ~freed, MoveValue
  PROVE  InFlight' = InFlight
<1>1. /\ consumedTail \in SeqNo /\ cNext = consumedTail /\ cPc # "moved"
      /\ Flying \in 0 .. Capacity
  BY FlyingBounds DEF TypeOK, RingInv, Phases, MoveValue
<1>2. ASSUME NEW i \in 1 .. Flying PROVE Cell(i)' = Cell(i)
  <2>1. i - 1 \in 0 .. Capacity /\ consumedTail + (i - 1) = consumedTail + i - 1
    BY <1>1, CapacityAssumption, SMT DEF SeqNo
  <2>2. PICK s \in SeqNo : /\ Distance(s, consumedTail) = i - 1
                           /\ Index(s) = Index(consumedTail + i - 1)
    BY <1>1, <2>1, IndexAhead
  <2>3. UNCHANGED consumedTail /\ cPc' = "moved" /\ cValue' = slots[Index(consumedTail)]
    BY <1>1 DEF MoveValue
  <2>4. CASE i = 1
    <3>1. s = consumedTail
      BY <1>1, <2>2, <2>4, ModulusFacts, SMT DEF Distance, SeqNo
    <3> QED BY <1>1, <2>2, <2>3, <2>4, <3>1 DEF Cell
  <2>5. CASE i # 1
    <3>1. s # consumedTail /\ Distance(s, consumedTail) < Capacity
      BY <1>1, <2>2, <2>5, ModulusFacts, CapacityAssumption, SMT DEF Distance, SeqNo
    <3>2. Index(s) # Index(consumedTail) /\ Index(s) \in Slots
      BY <1>1, <3>1, IndexInjective, DivMod
    <3>3. slots'[Index(s)] = slots[Index(s)]
      BY <1>1, <3>2 DEF MoveValue, TypeOK
    <3> QED BY <2>2, <2>3, <2>5, <3>3 DEF Cell
  <2> QED BY <2>4, <2>5
<1> QED BY <1>2, FlightFrame DEF MoveValue, producerVars

(* Storing the head is the channel's Send. *)
LEMMA StoreHeadSends ==
  ASSUME TypeOK, RingInv, TypeOK', RingInv', ~freed, StoreHead
  PROVE  Channel!Send
<1> DEFINE V == Values \cup {Uninit}
           v == slots[Index(publishedHead)]
<1>1. /\ publishedHead \in SeqNo /\ consumedTail \in SeqNo /\ pNext \in SeqNo /\ cNext \in SeqNo
      /\ pNext = Succ(publishedHead)
      /\ Flying \in 0 .. Capacity /\ Flying < Capacity
      /\ Distance(pNext, consumedTail) = Flying + 1
      /\ cPc = "moved" => Flying > 0 /\ Distance(publishedHead, cNext) = Flying - 1
      /\ cPc # "moved" => cNext = consumedTail
      /\ cPc = "moved" => cNext = Succ(consumedTail)
      /\ ~producerClosed
  BY FlyingBounds DEF TypeOK, RingInv, Phases, StoreHead
<1>2. /\ publishedHead' = pNext /\ ~freed'
      /\ UNCHANGED <<consumedTail, slots, producerClosed, consumerClosed, cPc, cValue, taken>>
  BY DEF StoreHead, consumerVars
<1>3. Flying' = Flying + 1
  BY <1>1, <1>2 DEF Flying
<1>4. /\ InFlight \in Seq(V) /\ Len(InFlight) = Flying
      /\ \A i \in 1 .. Flying : InFlight[i] = Cell(i)
  BY FlightFacts DEF FlightIsCells
<1>5. /\ InFlight' \in Seq(V) /\ Len(InFlight') = Flying + 1
      /\ \A i \in 1 .. Flying + 1 : InFlight'[i] = Cell(i)'
  <2>1. /\ InFlight' \in Seq(V) /\ Len(InFlight') = Flying'
        /\ \A i \in 1 .. Flying' : InFlight'[i] = Cell(i)'
    BY <1>2, FlightFactsNext DEF FlightIsCells
  <2> QED BY <1>3, <2>1
<1>6. v \in Values
  <2>1. Distance(publishedHead, cNext) < Distance(pNext, cNext)
    BY <1>1, ModulusFacts, SMT DEF Flying, Distance, SeqNo, Succ
  <2>2. v # Uninit BY <1>1, <2>1 DEF RingInv, Occupancy
  <2>3. v \in V BY <1>1, DivMod DEF TypeOK
  <2> QED BY <2>2, <2>3
<1>n. PICK n \in Nat : n = Flying BY <1>1, CapacityAssumption
<1>7. Cell(n + 1)' = v
  <2>1. PICK s \in SeqNo : Distance(s, consumedTail) = Flying /\ Index(s) = Index(consumedTail + Flying)
    BY <1>1, IndexAhead
  <2>2. s = publishedHead
    BY <1>1, <2>1, ModulusFacts, SMT DEF Flying, Distance, SeqNo
  <2>3. /\ consumedTail + (n + 1) - 1 = consumedTail + n
        /\ ~(n + 1 = 1 /\ cPc = "moved")
    BY <1>1, <1>n, SMT DEF SeqNo
  <2> QED BY <1>2, <1>n, <2>1, <2>2, <2>3 DEF Cell
<1>8. InFlight' = Append(InFlight, v)
  <2>1. /\ Append(InFlight, v) \in Seq(V) /\ Len(Append(InFlight, v)) = n + 1
        /\ \A i \in 1 .. n : Append(InFlight, v)[i] = InFlight[i]
        /\ Append(InFlight, v)[n + 1] = v
    <3>1. v \in V BY <1>6
    <3> QED BY <1>4, <1>n, <3>1, AppendProperties
  <2>2. ASSUME NEW i \in 1 .. n + 1 PROVE InFlight'[i] = Append(InFlight, v)[i]
    <3>1. InFlight'[i] = Cell(i)' BY <1>5, <1>n
    <3>2. CASE i = n + 1
      <4>1. Cell(i)' = Cell(n + 1)' BY <3>2
      <4> QED BY <1>7, <2>1, <3>1, <3>2, <4>1
    <3>3. CASE i \in 1 .. n
      <4>1. Cell(i)' = Cell(i) BY <1>2 DEF Cell
      <4> QED BY <1>4, <1>n, <2>1, <3>1, <3>3, <4>1
    <3>4. i = n + 1 \/ i \in 1 .. n BY <1>n, SMT
    <3> QED BY <3>2, <3>3, <3>4
  <2> QED BY <1>5, <1>n, <2>1, <2>2, SeqEqual
<1> HIDE DEF v
<1>9. (cPc = "Disconnected")' = (cPc = "Disconnected")
  BY <1>2
<1>10. Len(InFlight) < Capacity BY <1>1, <1>4
<1> QED BY <1>1, <1>2, <1>6, <1>8, <1>9, <1>10 DEF Channel!Send

(* Storing the tail is the channel's Receive. *)
LEMMA StoreTailReceives ==
  ASSUME TypeOK, RingInv, TypeOK', RingInv', ~freed, StoreTail
  PROVE  Channel!Receive
<1> DEFINE V == Values \cup {Uninit}
<1>1. /\ publishedHead \in SeqNo /\ consumedTail \in SeqNo /\ cNext \in SeqNo
      /\ cPc = "moved" /\ cNext = Succ(consumedTail)
      /\ Flying \in 0 .. Capacity /\ Flying > 0
      /\ Distance(publishedHead, cNext) = Flying - 1
  BY FlyingBounds DEF TypeOK, RingInv, Phases, StoreTail
<1>2. /\ consumedTail' = cNext /\ cPc' = "idle" /\ taken' = cValue /\ ~freed'
      /\ UNCHANGED <<publishedHead, slots, producerClosed, consumerClosed>>
  BY DEF StoreTail, producerVars
<1>3. Flying' = Flying - 1
  BY <1>1, <1>2 DEF Flying
<1>4. /\ InFlight \in Seq(V) /\ Len(InFlight) = Flying
      /\ \A i \in 1 .. Flying : InFlight[i] = Cell(i)
  BY FlightFacts DEF FlightIsCells
<1>5. /\ InFlight' \in Seq(V) /\ Len(InFlight') = Flying - 1
      /\ \A i \in 1 .. Flying - 1 : InFlight'[i] = Cell(i)'
  <2>1. /\ InFlight' \in Seq(V) /\ Len(InFlight') = Flying'
        /\ \A i \in 1 .. Flying' : InFlight'[i] = Cell(i)'
    BY <1>2, FlightFactsNext DEF FlightIsCells
  <2> QED BY <1>3, <2>1
<1>6. PICK n \in Nat : n = Flying /\ n > 0 /\ n <= Capacity
  BY <1>1, CapacityAssumption
<1>7. InFlight # <<>> BY <1>4, <1>6, EmptySeq
<1>8. Head(InFlight) = cValue
  <2>1. InFlight[1] = cValue BY <1>1, <1>4, <1>6 DEF Cell
  <2>2. Head(InFlight) = InFlight[1] BY <1>4, <1>7
  <2> QED BY <2>1, <2>2
<1>9. InFlight' = Tail(InFlight)
  <2>1. /\ Tail(InFlight) \in Seq(V) /\ Len(Tail(InFlight)) = n - 1
        /\ \A i \in 1 .. n - 1 : Tail(InFlight)[i] = InFlight[i + 1]
    BY <1>4, <1>6, <1>7, HeadTailProperties
  <2>2. ASSUME NEW i \in 1 .. n - 1 PROVE InFlight'[i] = Tail(InFlight)[i]
    <3>1. InFlight'[i] = Cell(i)' BY <1>5, <1>6
    <3>2. i + 1 \in 1 .. n /\ i + 1 # 1 BY <1>6, SMT
    <3>3. InFlight[i + 1] = Cell(i + 1) BY <1>4, <1>6, <3>2
    <3>4. Index(cNext + i - 1) = Index(consumedTail + (i + 1) - 1)
      <4>1. CASE consumedTail = Modulus - 1
        <5>1. cNext = 0 BY <1>1, <4>1 DEF Succ
        <5>2. PICK x \in Nat : x = i - 1 BY <1>6, SMT
        <5>3. Index(x + Modulus) = Index(x) BY IndexWraps
        <5>4. cNext + i - 1 = x /\ consumedTail + (i + 1) - 1 = x + Modulus
          BY <1>6, <4>1, <5>1, <5>2, ModulusFacts, SMT
        <5> QED BY <5>3, <5>4
      <4>2. CASE consumedTail # Modulus - 1
        <5>1. cNext = consumedTail + 1 BY <1>1, <4>2 DEF Succ
        <5>2. cNext + i - 1 = consumedTail + (i + 1) - 1
          BY <1>1, <1>6, <5>1, SMT DEF SeqNo
        <5> QED BY <5>2
      <4> QED BY <4>1, <4>2
    <3>5. Cell(i)' = slots[Index(cNext + i - 1)]
      BY <1>2 DEF Cell
    <3>6. Cell(i + 1) = slots[Index(consumedTail + (i + 1) - 1)]
      BY <3>2 DEF Cell
    <3> QED BY <2>1, <3>1, <3>3, <3>4, <3>5, <3>6
  <2> QED BY <1>5, <1>6, <2>1, <2>2, SeqEqual
<1>10. (cPc = "Disconnected")' = (cPc = "Disconnected") /\ cPc # "Disconnected"
  BY <1>1, <1>2
<1> QED BY <1>2, <1>7, <1>8, <1>9, <1>10 DEF Channel!Receive

LEMMA ChannelStep ==
  ASSUME TypeOK, RingInv, TypeOK', RingInv', [Next]_vars
  PROVE  [Channel!Next]_<<InFlight, producerClosed, consumerClosed, cPc = "Disconnected", taken>>
<1> DEFINE same == UNCHANGED <<InFlight, producerClosed, consumerClosed,
                               cPc = "Disconnected", taken>>
(* Calls that only move the endpoint or its private cursors. *)
<1>a. ASSUME UNCHANGED <<publishedHead, consumedTail, freed, slots>>,
             cPc # "moved", cPc' # "moved"
      PROVE  InFlight' = InFlight
  <2>1. \A i \in 1 .. Flying : Cell(i)' = Cell(i) BY <1>a DEF Cell
  <2> QED BY <1>a, <2>1, FlightFrame
<1>b. ASSUME UNCHANGED <<publishedHead, consumedTail, freed, slots, cPc, cValue>>
      PROVE  InFlight' = InFlight
  <2>1. \A i \in 1 .. Flying : Cell(i)' = Cell(i) BY <1>b DEF Cell
  <2> QED BY <1>b, <2>1, FlightFrame
<1>1. CASE ProducerStep
  <2>0. ~freed
    BY <1>1 DEF ProducerStep, TryReserve, TryPush, BeginAdmit, ReloadTail, CancelReservation,
                WriteSlot, StoreHead, CloseProducer, ProducerAtRest, RingInv, Phases
  <2>1. ASSUME NEW op \in {"reserve", "push"}, BeginAdmit(op) PROVE same
    BY <2>1, <1>b DEF BeginAdmit, consumerVars
  <2>2. CASE ReloadTail
    BY <2>2, <1>b DEF ReloadTail, consumerVars
  <2>3. CASE CancelReservation
    BY <2>3, <1>b DEF CancelReservation, consumerVars
  <2>4. CASE WriteSlot
    BY <2>0, <2>4, WriteStutters DEF WriteSlot, consumerVars
  <2>5. CASE StoreHead
    BY <2>0, <2>5, StoreHeadSends DEF Channel!Next
  <2>6. CASE CloseProducer
    <3>1. Channel!CloseSender
      BY <2>6, <1>b DEF CloseProducer, consumerVars, Channel!CloseSender
    <3> QED BY <3>1 DEF Channel!Next
  <2> QED BY <1>1, <2>1, <2>2, <2>3, <2>4, <2>5, <2>6 DEF ProducerStep, TryReserve, TryPush
<1>2. CASE ConsumerStep
  <2>0. ~freed
    BY <1>2 DEF ConsumerStep, TryClaim, TryPop, BeginTake, LoadHead, LoadProducerClosed,
                ReloadHead, CopyValue, ReleaseClaim, MoveValue, StoreTail, CloseConsumer,
                RingInv, Phases, ConsumerAtRest
  <2>c. cPc' # "Invariant" BY DEF RingInv, DistanceNeverExceedsCapacity
  <2>1. ASSUME NEW op \in {"claim", "pop"}, BeginTake(op) PROVE Channel!ForgetEnd
    <3>1. cPc' \in {"load_head", "access"}
      BY <2>1, <2>c DEF BeginTake, ConsumerGoes, ClaimVerdict
    <3>2. InFlight' = InFlight
      BY <2>1, <3>1, <1>a DEF BeginTake, producerVars, ConsumerAtRest
    <3>3. consumerClosed' = consumerClosed
      BY <2>1, <2>c DEF BeginTake, ConsumerGoes, TypeOK
    <3> QED BY <2>1, <3>1, <3>2, <3>3 DEF BeginTake, producerVars, Channel!ForgetEnd
  <2>2. CASE LoadHead
    <3>1. cPc' \in {"load_closed", "access"} /\ consumerClosed' = consumerClosed
      BY <2>2, <2>c DEF LoadHead, ConsumerGoes, ClaimVerdict, TypeOK
    <3> QED BY <2>2, <3>1, <1>a DEF LoadHead, producerVars
  <2>3. CASE LoadProducerClosed
    <3>1. cPc' \in {"reload_head", "Empty"}
      BY <2>3 DEF LoadProducerClosed
    <3> QED BY <2>3, <3>1, <1>a DEF LoadProducerClosed, producerVars
  <2>4. CASE ReloadHead
    <3>1. cPc' \in {"Disconnected", "access"} /\ consumerClosed' = consumerClosed
      BY <2>4, <2>c DEF ReloadHead, ConsumerGoes, ClaimVerdict, TypeOK
    <3>2. InFlight' = InFlight
      BY <2>4, <3>1, <1>a DEF ReloadHead, producerVars
    <3>3. CASE cPc' = "access"
      BY <2>4, <3>1, <3>2, <3>3 DEF ReloadHead, producerVars
    <3>4. CASE cPc' = "Disconnected"
      <4>1. producerClosed /\ publishedHead = consumedTail
        BY <2>4, <3>4 DEF ReloadHead, producerVars, RingInv, Phases
      <4>2. InFlight = <<>>
        <5>1. Flying = 0 BY <4>1, FlyingBounds
        <5> QED BY <2>0, <5>1, FlightFacts, EmptySeq DEF FlightIsCells
      <4>3. Channel!ReportEnd
        BY <2>4, <3>1, <3>2, <3>4, <4>1, <4>2 DEF ReloadHead, producerVars, Channel!ReportEnd
      <4> QED BY <4>3 DEF Channel!Next
    <3> QED BY <3>1, <3>3, <3>4
  <2>5. CASE CopyValue
    BY <2>5, <1>a DEF CopyValue, producerVars
  <2>6. ASSUME NEW closing \in BOOLEAN, ReleaseClaim(closing) PROVE Channel!ForgetEnd
    <3>1. InFlight' = InFlight /\ cPc' # "Disconnected"
      BY <2>6, <1>a DEF ReleaseClaim, producerVars
    <3>2. consumerClosed' \in {consumerClosed, TRUE}
      <4>1. CASE closing = TRUE BY <2>6, <4>1 DEF ReleaseClaim
      <4>2. CASE closing = FALSE BY <2>6, <4>2 DEF ReleaseClaim, TypeOK
      <4> QED BY <4>1, <4>2
    <3> QED BY <2>6, <3>1, <3>2 DEF ReleaseClaim, producerVars, Channel!ForgetEnd
  <2>7. CASE MoveValue
    BY <2>0, <2>7, MoveStutters DEF MoveValue, producerVars
  <2>8. CASE StoreTail
    BY <2>0, <2>8, StoreTailReceives DEF Channel!Next
  <2>9. CASE CloseConsumer
    <3>1. InFlight' = InFlight
      BY <2>9, <1>a DEF CloseConsumer, producerVars, ConsumerAtRest
    <3>2. CASE cPc' = cPc
      <4>1. Channel!CloseReceiver
        BY <2>9, <3>1, <3>2 DEF CloseConsumer, producerVars, Channel!CloseReceiver
      <4> QED BY <4>1 DEF Channel!Next
    <3>3. CASE cPc' = "dropped"
      <4>1. Channel!ForgetEnd
        BY <2>9, <3>1, <3>3 DEF CloseConsumer, producerVars, Channel!ForgetEnd
      <4> QED BY <4>1 DEF Channel!Next
    <3> QED BY <2>9, <3>2, <3>3 DEF CloseConsumer
  <2>10. Channel!ForgetEnd => Channel!Next BY DEF Channel!Next
  <2> QED BY <1>2, <2>1, <2>2, <2>3, <2>4, <2>5, <2>6, <2>7, <2>8, <2>9, <2>10
          DEF ConsumerStep, TryClaim, TryPop
<1>3. CASE DropInner
  <2>1. producerClosed /\ consumerClosed BY <1>3 DEF DropInner, RingInv, Phases
  <2>2. InFlight' = <<>> BY <1>3 DEF DropInner, InFlight
  <2>3. Channel!Reclaim
    BY <1>3, <2>1, <2>2 DEF DropInner, producerVars, consumerVars, Channel!Reclaim
  <2> QED BY <2>3 DEF Channel!Next
<1>4. CASE Reclaimed \/ UNCHANGED vars
  <2>1. UNCHANGED vars BY <1>4 DEF Reclaimed
  <2> QED BY <2>1, <1>b DEF vars
<1> QED BY <1>1, <1>2, <1>3, <1>4 DEF Next

(* ring.rs promises a bounded FIFO with closing ends.  For every capacity, *)
(* cursor width and value set, with stale loads and wrapping cursors, the  *)
(* ring implements BoundedChannel: storing the head is the one step that   *)
(* sends, storing the tail the one that receives, and Disconnected is      *)
(* reported only when the sender has closed and nothing is left.           *)
THEOREM Refinement == Spec => ImplementsChannel
<1>1. Init => Channel!Init
  <2> SUFFICES ASSUME Init PROVE Channel!Init
    OBVIOUS
  <2>1. TypeOK /\ RingInv /\ ~freed BY TypeInit, RingInit DEF Init
  <2>2. Flying = 0 BY <2>1, FlyingBounds DEF Init
  <2>3. InFlight = <<>> BY <2>1, <2>2, FlightFacts, EmptySeq DEF FlightIsCells
  <2> QED BY <2>3 DEF Init, Channel!Init
<1>2. TypeOK /\ RingInv /\ TypeOK' /\ RingInv' /\ [Next]_vars
        => [Channel!Next]_<<InFlight, producerClosed, consumerClosed,
                            cPc = "Disconnected", taken>>
  BY ChannelStep
<1> QED BY <1>1, <1>2, TypeCorrect, RingInvariant, PTL
        DEF Spec, ImplementsChannel, Channel!Spec, Channel!channelVars
=============================================================================
