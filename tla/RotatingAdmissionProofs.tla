----------------------- MODULE RotatingAdmissionProofs -----------------------
(***************************************************************************)
(* Page rotation for any pool, page and ring size, any generation range    *)
(* larger than the pool and any payload lengths.                           *)
(*                                                                         *)
(* The argument follows page epochs, not slots.  The epochs in use are     *)
(* cEpoch .. pEpoch; the released-epoch quota keeps them fewer than the    *)
(* pool, so that no two of them share a slot and the successor's slot is   *)
(* nobody's.  Each page continues the numbering of the one before, and the *)
(* ring holds the descriptors of the frames from the consumer's cursor on, *)
(* each in a page in use.                                                  *)
(***************************************************************************)
EXTENDS RotatingAdmission, TLAPS, SequenceTheorems, WellFoundedInduction

Pg(e) == pages[SlotOf(e)]

\* Epochs in use, and the readers on their way to the consumer.
EpochInv ==
  /\ cEpoch <= pEpoch /\ pEpoch < cEpoch + Pool /\ pEpoch < released + Pool
  /\ Len(handoff) = pEpoch - cEpoch
  /\ \A i \in 1 .. Len(handoff) : handoff[i] = SlotOf(cEpoch + i)

\* A page of epoch e: its frames are numbered from its first and within its bytes.
PageOK(pg, e) ==
  /\ pg.gen = GenOf(e)
  /\ pg.cells = <<>> => pg.bytes = 0
  /\ \A i \in 1 .. Len(pg.cells) :
       /\ pg.cells[i].seq = pg.first + i - 1 /\ pg.cells[i].gen = GenOf(e)
       /\ pg.cells[i].offset + pg.cells[i].len <= pg.bytes

\* Every payload the producer takes fits an empty page.
FramesFitAPage == \A len \in Lengths : len <= MaxFrameBytes => len <= ByteCapacity

\* A sealed page is closed, continued by the next one and not empty.
PageInv ==
  /\ \A e \in cEpoch .. pEpoch : PageOK(Pg(e), e)
  /\ \A e \in cEpoch .. (pEpoch - 1) :
       /\ Pg(e).closed /\ Pg(e + 1).first = Pg(e).first + Len(Pg(e).cells)
       /\ FramesFitAPage => Pg(e).cells # <<>>

\* d describes a frame of the page of epoch e.
InPage(d, e) ==
  /\ d.seq - Pg(e).first \in 0 .. (Len(Pg(e).cells) - 1)
  /\ Pg(e).cells[d.seq - Pg(e).first + 1] = d

Appended == Pg(pEpoch).first + Len(Pg(pEpoch).cells)

StreamInv ==
  /\ cEpochCommitted <= Len(Pg(cEpoch).cells)
  /\ Pg(cEpoch).first + cEpochCommitted = cExpected
  /\ cTotal = cExpected
  /\ \A i \in 1 .. Len(ring) :
       /\ ring[i].seq = cExpected + i - 1
       /\ \E e \in cEpoch .. pEpoch : InPage(ring[i], e)
  /\ Appended - (cExpected + Len(ring)) \in {0, 1}

Rotating == {"reserve_handoff", "seal", "rebind", "publish_reader"}
Closing == {"close_slab", "store_terminal", "close_ring", "close_handoff", "finished"}

\* What the producer knows at each point of a call.
ProducerInv ==
  /\ Appended <= MaxFrames
  /\ pEnd = "OPEN" <=> pPc \notin Closing
  /\ terminal = IF pPc \in {"close_ring", "close_handoff", "finished"} THEN pEnd ELSE "OPEN"
  /\ ringClosed => pPc \in {"close_handoff", "finished"}
  /\ pPc \notin Closing \cup {"idle"} =>
       pLen \in Lengths /\ pLen > 0 /\ pLen <= MaxFrameBytes
  /\ pPc \in Rotating \cup {"quota", "reserve", "append"} => Appended < MaxFrames
  /\ pPc \in Rotating \cup {"quota"} => (FramesFitAPage => Pg(pEpoch).cells # <<>>)
  /\ pPc \in Rotating => pEpoch + 1 < released + Pool
  /\ pPc \in {"rebind", "publish_reader", "store_terminal", "close_ring", "close_handoff",
              "finished"} => Pg(pEpoch).closed
  /\ pPc \in {"seal", "rebind", "publish_reader"} => Len(handoff) < Pool
  /\ pPc = "publish_reader" => Pg(pEpoch + 1) = FreshPage(GenOf(pEpoch + 1), Appended)
  /\ pPc \in {"reserve", "append"} => Fits(Pg(pEpoch), pLen)
  /\ pPc \in {"append", "publish"} => Len(ring) < RingCapacity
  /\ pPc = "publish" => Pg(pEpoch).cells # <<>> /\ Appended = cExpected + Len(ring) + 1
  /\ (pPc # "publish" /\ pEnd # "FAULTED") => Appended = cExpected + Len(ring)
  /\ pResult \notin ProducerFaults

\* What the consumer knows at each point of a call.
ConsumerInv ==
  /\ cSlot = IF cPc = "dropped" THEN NoSlot ELSE SlotOf(cEpoch)
  /\ cPc \in {"boundary", "pop_reader"} =>
       /\ cState = "Open" /\ ring # <<>> /\ cClaim = Head(ring)
       /\ cEpoch < pEpoch /\ InPage(cClaim, cEpoch + 1)
       /\ cEpochCommitted = Len(Pg(cEpoch).cells)
  /\ cPc \in {"release", "resolve", "lease"} =>
       cState = "Open" /\ ring # <<>> /\ cClaim = Head(ring) /\ InPage(cClaim, cEpoch)
  /\ cState \notin ConsumerFaults \ {"EpochIdentityMismatch"}
  /\ cState # "CleanEnd" => released <= cEpoch
  /\ cState = "CleanEnd" => terminal = "CLEAN" /\ ring = <<>>
  /\ (FramesFitAPage \/ Pool = 2) => cState # "EpochIdentityMismatch"

IndInv == TypeOK /\ EpochInv /\ PageInv /\ StreamInv /\ ProducerInv /\ ConsumerInv

-----------------------------------------------------------------------------
(* Slots and generations of epochs. *)

LEMMA PoolFacts == /\ Pool \in Nat \ {0} /\ GenModulus \in Nat \ {0} /\ Pool < GenModulus
                   /\ Slots = 0 .. (Pool - 1) /\ NoSlot \notin Slots
  BY PoolAssumption, GenAssumption DEF Slots, NoSlot

LEMMA ModTyped ==
  ASSUME NEW n \in Nat, n > 0, NEW a \in Nat
  PROVE  a \div n \in Int /\ a % n \in 0 .. (n - 1) /\ a = n * (a \div n) + (a % n)
  <1>1. a \div n \in Int
    BY SMT
  <1>2. a % n \in 0 .. (n - 1)
    BY SMT
  <1>3. a = n * (a \div n) + (a % n)
    BY SMT
  <1> QED  BY <1>1, <1>2, <1>3

\* Numbers less than n apart differ modulo n.
LEMMA ModDistinct ==
  ASSUME NEW n \in Nat, n > 0, NEW a \in Nat, NEW b \in Nat, a < b, b < a + n
  PROVE  a % n # b % n
  <1> SUFFICES ASSUME a % n = b % n  PROVE FALSE
    OBVIOUS
  <1> DEFINE p == a \div n
             q == b \div n
             m == a % n
  <1>1. p \in Int /\ q \in Int /\ m \in Int /\ a = n * p + m /\ b = n * q + m
    BY ModTyped
  <1> HIDE DEF p, q, m
  <1>2. n * (q - p) = b - a
    BY <1>1
  <1>3. 0 < n * (q - p) /\ n * (q - p) < n
    BY <1>2
  <1>4. q - p \in Int
    BY <1>1
  <1>5. CASE q - p <= 0
    BY <1>3, <1>4, <1>5
  <1>6. CASE q - p >= 1
    BY <1>3, <1>4, <1>6
  <1> QED  BY <1>4, <1>5, <1>6

LEMMA SlotFacts ==
  /\ \A e \in Nat : SlotOf(e) \in Slots /\ GenOf(e) \in 0 .. (GenModulus - 1)
  /\ \A a, b \in Nat : a < b /\ b < a + Pool => SlotOf(a) # SlotOf(b)
  /\ \A a, b \in Nat : a < b /\ b < a + GenModulus => GenOf(a) # GenOf(b)
  <1>1. \A e \in Nat : SlotOf(e) \in Slots /\ GenOf(e) \in 0 .. (GenModulus - 1)
    BY PoolFacts, ModTyped DEF SlotOf, GenOf
  <1>2. \A a, b \in Nat : a < b /\ b < a + Pool => SlotOf(a) # SlotOf(b)
    BY PoolFacts, ModDistinct DEF SlotOf
  <1>3. \A a, b \in Nat : a < b /\ b < a + GenModulus => GenOf(a) # GenOf(b)
    BY PoolFacts, ModDistinct DEF GenOf
  <1> QED  BY <1>1, <1>2, <1>3

LEMMA SlotApart ==
  ASSUME NEW a \in Nat, NEW b \in Nat, a # b, a < b + Pool, b < a + Pool
  PROVE  SlotOf(a) # SlotOf(b)
  <1>1. CASE a < b
    BY <1>1, SlotFacts
  <1>2. CASE b < a
    BY <1>2, SlotFacts
  <1> QED  BY <1>1, <1>2

LEMMA PageTyped ==
  ASSUME TypeOK, NEW e \in Nat
  PROVE  /\ Pg(e) \in PageStates /\ Pg(e).cells \in Seq(Descriptors) /\ Len(Pg(e).cells) \in Nat
         /\ Pg(e).first \in Nat /\ Pg(e).bytes \in Nat /\ Pg(e).bytes <= ByteCapacity
         /\ Len(Pg(e).cells) <= DescriptorCapacity /\ Pg(e).closed \in BOOLEAN
         /\ SlotOf(e) \in Slots
  <1>1. SlotOf(e) \in Slots
    BY SlotFacts
  <1>2. Pg(e) \in PageStates /\ Len(Pg(e).cells) <= DescriptorCapacity
    BY <1>1 DEF TypeOK, Pg
  <1>3. Pg(e).cells \in Seq(Descriptors) /\ Pg(e).first \in Nat /\ Pg(e).bytes \in Nat
        /\ Pg(e).bytes <= ByteCapacity /\ Pg(e).closed \in BOOLEAN
    BY <1>2, FrameAssumption, PageAssumption DEF PageStates
  <1> QED
    BY <1>1, <1>2, <1>3, LenProperties

LEMMA DescriptorTyped ==
  ASSUME NEW d \in Descriptors
  PROVE  /\ d.seq \in Nat /\ d.seq <= MaxFrames /\ d.gen \in 0 .. (GenModulus - 1)
         /\ d.offset \in Nat /\ d.len \in Nat /\ d # NoClaim
  <1>1. /\ d.seq \in 0 .. MaxFrames /\ d.gen \in 0 .. (GenModulus - 1)
        /\ d.offset \in 0 .. ByteCapacity /\ d.len \in 1 .. MaxFrameBytes
    BY DEF Descriptors
  <1> QED
    BY <1>1 DEF NoClaim

-----------------------------------------------------------------------------
(* Producer steps that touch neither page, ring, handoff nor epoch. *)

LEMMA CoreKept ==
  ASSUME IndInv, UNCHANGED <<pages, ring, handoff, pEpoch, released, cEpoch, cExpected,
                             cEpochCommitted, cTotal>>
  PROVE  /\ EpochInv' /\ PageInv' /\ StreamInv'
         /\ Appended' = Appended /\ Pg(pEpoch)' = Pg(pEpoch) /\ Pg(pEpoch + 1)' = Pg(pEpoch + 1)
         /\ Pg(cEpoch)' = Pg(cEpoch)
         /\ \A d, e : InPage(d, e)' <=> InPage(d, e)
  <1>1. \A e : Pg(e)' = Pg(e)
    BY DEF Pg
  <1>2. Appended' = Appended /\ Pg(pEpoch)' = Pg(pEpoch) /\ Pg(pEpoch + 1)' = Pg(pEpoch + 1)
        /\ Pg(cEpoch)' = Pg(cEpoch)
    BY DEF Appended, Pg
  <1>3. \A d, e : InPage(d, e)' <=> InPage(d, e)
    BY <1>1 DEF InPage
  <1>4. EpochInv'
    BY DEF IndInv, EpochInv
  <1>5. PageInv'
    BY <1>1 DEF IndInv, PageInv
  <1>6. StreamInv'
    BY <1>2, <1>3 DEF IndInv, StreamInv
  <1> QED
    BY <1>2, <1>3, <1>4, <1>5, <1>6

LEMMA ConsumerAlone ==
  ASSUME IndInv, UNCHANGED consumerVars
  PROVE  /\ released' = released /\ cPc' = cPc /\ cSlot' = cSlot /\ cEpoch' = cEpoch
         /\ cExpected' = cExpected /\ cEpochCommitted' = cEpochCommitted /\ cTotal' = cTotal
         /\ cClaim' = cClaim /\ cState' = cState
         /\ ringAbandoned' = ringAbandoned /\ handoffAbandoned' = handoffAbandoned
  BY DEF consumerVars

LEMMA ProducerQuiet ==
  ASSUME IndInv, UNCHANGED <<pages, ring, handoff, pEpoch, consumerVars>>,
         ringClosed' \in BOOLEAN, handoffClosed' \in BOOLEAN,
         terminal' \in {"OPEN", "CLEAN", "FAULTED"}, pEnd' \in {"OPEN", "CLEAN", "FAULTED"},
         pPc' \in ProducerPcs, pLen' \in Lengths \cup {0},
         terminal = "CLEAN" => terminal' = "CLEAN",
         ProducerInv'
  PROVE  IndInv'
  <1>1. /\ released' = released /\ cPc' = cPc /\ cSlot' = cSlot /\ cEpoch' = cEpoch
        /\ cExpected' = cExpected /\ cEpochCommitted' = cEpochCommitted /\ cTotal' = cTotal
        /\ cClaim' = cClaim /\ cState' = cState
        /\ ringAbandoned' = ringAbandoned /\ handoffAbandoned' = handoffAbandoned
    BY ConsumerAlone
  <1>2. TypeOK'
    BY <1>1 DEF IndInv, TypeOK
  <1>3. /\ EpochInv' /\ PageInv' /\ StreamInv' /\ Pg(cEpoch)' = Pg(cEpoch)
        /\ \A d, e : InPage(d, e)' <=> InPage(d, e)
    BY <1>1, CoreKept
  <1>4. ConsumerInv'
    <2>1. InPage(cClaim, cEpoch)' <=> InPage(cClaim, cEpoch)
      BY <1>1 DEF InPage, Pg
    <2>2. InPage(cClaim, cEpoch + 1)' <=> InPage(cClaim, cEpoch + 1)
      BY <1>1 DEF InPage, Pg
    <2> QED
      BY <1>1, <1>3, <2>1, <2>2 DEF IndInv, ConsumerInv
  <1> QED
    BY <1>2, <1>3, <1>4 DEF IndInv

\* What a quiet step leaves of the producer's knowledge to show.
LEMMA ProducerKnows ==
  ASSUME IndInv, UNCHANGED <<pages, ring, handoff, pEpoch, consumerVars>>
  PROVE  /\ Appended' = Appended /\ Pg(pEpoch)' = Pg(pEpoch) /\ Pg(pEpoch + 1)' = Pg(pEpoch + 1)
         /\ released' = released /\ cExpected' = cExpected /\ ring' = ring
         /\ handoff' = handoff /\ pEpoch' = pEpoch
         /\ pPc \in ProducerPcs /\ pLen \in Lengths \cup {0} /\ Lengths \subseteq Nat
         /\ ringClosed \in BOOLEAN /\ handoffClosed \in BOOLEAN
         /\ terminal \in {"OPEN", "CLEAN", "FAULTED"} /\ pEnd \in {"OPEN", "CLEAN", "FAULTED"}
  <1>1. released' = released /\ cExpected' = cExpected /\ cEpoch' = cEpoch
        /\ cEpochCommitted' = cEpochCommitted /\ cTotal' = cTotal
    BY ConsumerAlone
  <1>2. Appended' = Appended /\ Pg(pEpoch)' = Pg(pEpoch) /\ Pg(pEpoch + 1)' = Pg(pEpoch + 1)
    BY <1>1, CoreKept
  <1> QED
    BY <1>1, <1>2, FrameAssumption DEF IndInv, TypeOK

LEMMA TryAdmitStep == ASSUME IndInv, NEW len \in Lengths, TryAdmit(len) PROVE IndInv'
  <1>1. /\ UNCHANGED <<pages, ring, handoff, pEpoch, consumerVars>>
        /\ ringClosed' = ringClosed /\ handoffClosed' = handoffClosed /\ terminal' = terminal
        /\ pPc = "idle" /\ pLen' = len /\ pEnd' = pEnd
    BY DEF TryAdmit, sharedEnds, Return, Proceed
  <1>2. Appended < MaxFrames
    BY DEF TryAdmit, NextSequence, active, Appended, Pg
  <1>3. pEpoch \in Nat
    BY DEF IndInv, TypeOK
  <1>4. \/ pPc' = "idle" /\ pResult' = "Slab"
        \/ /\ len > 0 /\ len <= MaxFrameBytes /\ pResult' = pResult
           /\ \/ pPc' = "reserve" /\ Fits(Pg(pEpoch), len)
              \/ pPc' = "quota" /\ ~Fits(Pg(pEpoch), len)
    BY FrameAssumption DEF TryAdmit, Return, Proceed, active, Pg
  <1>5. ASSUME FramesFitAPage, len <= MaxFrameBytes, ~Fits(Pg(pEpoch), len)
        PROVE  Pg(pEpoch).cells # <<>>
    <2>1. len <= ByteCapacity /\ len \in Nat /\ ByteCapacity \in Nat /\ DescriptorCapacity > 0
      BY <1>5, FrameAssumption, PageAssumption DEF FramesFitAPage
    <2>2. PageOK(Pg(pEpoch), pEpoch)
      <3>1. pEpoch \in cEpoch .. pEpoch
        BY <1>3 DEF IndInv, EpochInv, TypeOK
      <3> QED  BY <3>1 DEF IndInv, PageInv
    <2>3. ASSUME Pg(pEpoch).cells = <<>>  PROVE FALSE
      <3>1. Pg(pEpoch).bytes = 0 /\ Len(Pg(pEpoch).cells) = 0
        BY <2>2, <2>3 DEF PageOK
      <3> QED  BY <1>5, <2>1, <3>1 DEF Fits
    <2> QED  BY <2>3
  <1>6. ProducerInv'
    BY <1>1, <1>2, <1>4, <1>5, ProducerKnows
    DEF IndInv, ProducerInv, Rotating, Closing, ProducerFaults
  <1>7. pPc' \in ProducerPcs /\ pLen' \in Lengths \cup {0}
    BY <1>1, <1>4 DEF ProducerPcs
  <1> QED
    BY <1>1, <1>6, <1>7, ProducerKnows, ProducerQuiet

LEMMA CheckQuotaStep == ASSUME IndInv, CheckQuota PROVE IndInv'
  <1>1. /\ UNCHANGED <<pages, ring, handoff, pEpoch, consumerVars>>
        /\ ringClosed' = ringClosed /\ handoffClosed' = handoffClosed /\ terminal' = terminal
        /\ pPc = "quota" /\ pLen' = pLen /\ pEnd' = pEnd
    BY DEF CheckQuota, sharedEnds, Return, Proceed
  <1>2. \/ pPc' = "idle" /\ pResult' = "PageQuotaExhausted"
        \/ pPc' = "reserve_handoff" /\ pResult' = pResult /\ QuotaAllows
    BY DEF CheckQuota, Return, Proceed
  <1>3. QuotaAllows => pEpoch + 1 < released + Pool
    <2>1. pEpoch \in Nat /\ released \in Nat /\ Pool \in Nat
      BY PoolFacts DEF IndInv, TypeOK
    <2> QED  BY <2>1 DEF QuotaAllows
  <1>4. ProducerInv'
    BY <1>1, <1>2, <1>3, ProducerKnows
    DEF IndInv, ProducerInv, Rotating, Closing, ProducerFaults
  <1>5. pPc' \in ProducerPcs
    BY <1>2 DEF ProducerPcs
  <1> QED
    BY <1>1, <1>4, <1>5, ProducerKnows, ProducerQuiet

LEMMA ReserveHandoffStep == ASSUME IndInv, ReserveHandoff PROVE IndInv'
  <1>1. /\ UNCHANGED <<pages, ring, handoff, pEpoch, consumerVars>>
        /\ ringClosed' = ringClosed /\ handoffClosed' = handoffClosed /\ terminal' = terminal
        /\ pPc = "reserve_handoff" /\ pLen' = pLen
    BY DEF ReserveHandoff, sharedEnds
  <1>2. Len(handoff) < Pool /\ ~(Len(handoff) >= Pool)
    <2>1. Len(handoff) \in Nat /\ Pool \in Nat /\ Len(handoff) < Pool
      BY PoolFacts, LenProperties DEF IndInv, TypeOK
    <2> QED  BY <2>1
  <1>3. /\ pEnd' = pEnd
        /\ \/ pPc' = "idle" /\ pResult' = "ConsumerDisconnected"
           \/ pPc' = "seal" /\ pResult' = pResult
    BY <1>2 DEF ReserveHandoff, Return, Proceed
  <1>4. ProducerInv'
    BY <1>1, <1>2, <1>3, ProducerKnows
    DEF IndInv, ProducerInv, Rotating, Closing, ProducerFaults
  <1>5. pPc' \in ProducerPcs
    BY <1>3 DEF ProducerPcs
  <1> QED
    BY <1>1, <1>3, <1>4, <1>5, ProducerKnows, ProducerQuiet

LEMMA ReserveRingStep == ASSUME IndInv, ReserveRing PROVE IndInv'
  <1>0. NextSequence = RingSequence
    <2>1. pPc = "reserve"
      BY DEF ReserveRing
    <2>2. pEnd # "FAULTED"
      BY <2>1 DEF IndInv, ProducerInv, Closing
    <2> QED
      BY <2>1, <2>2
      DEF IndInv, ProducerInv, StreamInv, Appended, Pg, NextSequence, active, RingSequence
  <1>1. /\ UNCHANGED <<pages, ring, handoff, pEpoch, consumerVars>>
        /\ ringClosed' = ringClosed /\ handoffClosed' = handoffClosed /\ terminal' = terminal
        /\ pPc = "reserve" /\ pLen' = pLen /\ pEnd' = pEnd
    BY <1>0 DEF ReserveRing, sharedEnds, Return, Proceed
  <1>2. \/ pPc' = "idle" /\ pResult' \in {"ConsumerDisconnected", "RingFull"}
        \/ pPc' = "append" /\ pResult' = pResult /\ ~(Len(ring) >= RingCapacity)
    BY <1>0 DEF ReserveRing, Return, Proceed
  <1>3. ~(Len(ring) >= RingCapacity) => Len(ring) < RingCapacity
    <2>1. Len(ring) \in Nat /\ RingCapacity \in Nat
      BY RingAssumption, LenProperties DEF IndInv, TypeOK
    <2> QED  BY <2>1
  <1>4. ProducerInv'
    BY <1>1, <1>2, <1>3, ProducerKnows
    DEF IndInv, ProducerInv, Rotating, Closing, ProducerFaults
  <1>5. pPc' \in ProducerPcs
    BY <1>2 DEF ProducerPcs
  <1> QED
    BY <1>1, <1>4, <1>5, ProducerKnows, ProducerQuiet

\* A panic, finish, a drop: the producer starts to close.
LEMMA BeginCloseStep ==
  ASSUME IndInv, Unwind \/ Finish \/ DropProducer
  PROVE  IndInv'
  <1>1. /\ UNCHANGED <<pages, ring, handoff, pEpoch, consumerVars>>
        /\ ringClosed' = ringClosed /\ handoffClosed' = handoffClosed /\ terminal' = terminal
        /\ pPc \in {"idle", "rebind", "append", "publish"} /\ pLen' = pLen
        /\ pPc' = "close_slab" /\ pEnd' \in {"CLEAN", "FAULTED"}
        /\ pPc # "idle" => pEnd' = "FAULTED"
        /\ pResult' \in {pResult, "panic"}
    BY DEF Unwind, Finish, DropProducer, BeginClose, Fault, sharedEnds
  <1>2. ProducerInv'
    BY <1>1, ProducerKnows
    DEF IndInv, ProducerInv, Rotating, Closing, ProducerFaults
  <1>3. pPc' \in ProducerPcs
    BY <1>1 DEF ProducerPcs
  <1> QED
    BY <1>1, <1>2, <1>3, ProducerKnows, ProducerQuiet

LEMMA CloseSteps ==
  ASSUME IndInv, StoreTerminal \/ CloseRing \/ CloseHandoff \/ AdmitPoisoned \/ UNCHANGED vars
  PROVE  IndInv'
  <1>1. /\ UNCHANGED <<pages, ring, handoff, pEpoch, consumerVars>>
        /\ pLen' = pLen /\ pEnd' = pEnd
    BY DEF StoreTerminal, CloseRing, CloseHandoff, AdmitPoisoned, Proceed, sharedEnds,
           vars, producerVars
  <1>2. \/ /\ pPc = "store_terminal" /\ pPc' = "close_ring" /\ terminal' = pEnd
           /\ pResult' = pResult /\ ringClosed' = ringClosed /\ handoffClosed' = handoffClosed
        \/ /\ pPc = "close_ring" /\ pPc' = "close_handoff" /\ terminal' = terminal
           /\ pResult' = pResult /\ ringClosed' = TRUE /\ handoffClosed' = handoffClosed
        \/ /\ pPc = "close_handoff" /\ pPc' = "finished" /\ terminal' = terminal
           /\ pResult' = pResult /\ ringClosed' = ringClosed /\ handoffClosed' = TRUE
        \/ /\ pPc' = pPc /\ terminal' = terminal /\ pResult' \in {pResult, "ProducerPoisoned"}
           /\ ringClosed' = ringClosed /\ handoffClosed' = handoffClosed
    BY DEF StoreTerminal, CloseRing, CloseHandoff, AdmitPoisoned, Proceed, sharedEnds,
           vars, producerVars
  <1>3. ProducerInv'
    BY <1>1, <1>2, ProducerKnows
    DEF IndInv, ProducerInv, Rotating, Closing, ProducerFaults
  <1>4. /\ pPc' \in ProducerPcs /\ (terminal = "CLEAN" => terminal' = "CLEAN")
        /\ terminal' \in {"OPEN", "CLEAN", "FAULTED"}
        /\ ringClosed' \in BOOLEAN /\ handoffClosed' \in BOOLEAN
    BY <1>1, <1>2, ProducerKnows DEF ProducerPcs, IndInv, ProducerInv
  <1> QED
    BY <1>1, <1>3, <1>4, ProducerKnows, ProducerQuiet

-----------------------------------------------------------------------------
(* Producer steps on pages, ring and handoff. *)

\* Same frames; a closed page stays closed.
Agrees(e) ==
  /\ Pg(e)'.gen = Pg(e).gen /\ Pg(e)'.first = Pg(e).first /\ Pg(e)'.cells = Pg(e).cells
  /\ Pg(e)'.bytes = Pg(e).bytes /\ (Pg(e).closed => Pg(e)'.closed)

\* A step that leaves the frames of the pages in use alone.
LEMMA FramesKept ==
  ASSUME IndInv, UNCHANGED <<ring, handoff, pEpoch, sharedEnds, pLen, consumerVars>>,
         \A e \in cEpoch .. pEpoch : Agrees(e),
         pages' \in [Slots -> PageStates], \A s \in Slots : Len(pages'[s].cells) <= DescriptorCapacity,
         pEnd' \in {"OPEN", "CLEAN", "FAULTED"}, pPc' \in ProducerPcs,
         ProducerInv'
  PROVE  IndInv'
  <1>1. /\ released' = released /\ cPc' = cPc /\ cSlot' = cSlot /\ cEpoch' = cEpoch
        /\ cExpected' = cExpected /\ cEpochCommitted' = cEpochCommitted /\ cTotal' = cTotal
        /\ cClaim' = cClaim /\ cState' = cState
        /\ ringAbandoned' = ringAbandoned /\ handoffAbandoned' = handoffAbandoned
        /\ ring' = ring /\ handoff' = handoff /\ pEpoch' = pEpoch /\ pLen' = pLen
        /\ ringClosed' = ringClosed /\ handoffClosed' = handoffClosed /\ terminal' = terminal
    BY ConsumerAlone DEF sharedEnds
  <1>2. TypeOK'
    BY <1>1 DEF IndInv, TypeOK
  <1>3. cEpoch \in Nat /\ pEpoch \in Nat /\ cEpoch <= pEpoch
    BY DEF IndInv, TypeOK, EpochInv
  <1>4. cEpoch \in cEpoch .. pEpoch /\ pEpoch \in cEpoch .. pEpoch
    BY <1>3
  <1>5. /\ Pg(cEpoch)'.first = Pg(cEpoch).first /\ Pg(cEpoch)'.cells = Pg(cEpoch).cells
        /\ Pg(pEpoch)'.first = Pg(pEpoch).first /\ Pg(pEpoch)'.cells = Pg(pEpoch).cells
        /\ Appended' = Appended
    <2>1. \A e : (e = cEpoch \/ e = pEpoch) =>
            Pg(e)'.first = Pg(e).first /\ Pg(e)'.cells = Pg(e).cells
      BY <1>4 DEF Agrees
    <2>2. Pg(cEpoch)' = pages'[SlotOf(cEpoch)] /\ Pg(pEpoch)' = pages'[SlotOf(pEpoch)]
      BY <1>1 DEF Pg
    <2>3. \A e : Pg(e)' = pages'[SlotOf(e)]
      BY DEF Pg
    <2>4. /\ Pg(cEpoch)'.first = Pg(cEpoch).first /\ Pg(cEpoch)'.cells = Pg(cEpoch).cells
          /\ Pg(pEpoch)'.first = Pg(pEpoch).first /\ Pg(pEpoch)'.cells = Pg(pEpoch).cells
      BY <2>1, <2>2, <2>3
    <2> QED
      BY <2>4 DEF Appended
  <1>6. \A d : \A e \in cEpoch .. pEpoch : InPage(d, e)' <=> InPage(d, e)
    BY DEF Agrees, InPage
  <1>7. EpochInv'
    BY <1>1 DEF IndInv, EpochInv
  <1>8. PageInv'
    <2>1. ASSUME NEW e \in cEpoch .. pEpoch  PROVE PageOK(Pg(e)', e)
      <3>1. PageOK(Pg(e), e)
        BY DEF IndInv, PageInv
      <3> QED  BY <3>1 DEF PageOK, Agrees
    <2>2. ASSUME NEW e \in cEpoch .. (pEpoch - 1)
          PROVE  /\ Pg(e)'.closed /\ Pg(e + 1)'.first = Pg(e)'.first + Len(Pg(e)'.cells)
                 /\ FramesFitAPage => Pg(e)'.cells # <<>>
      <3>1. e \in cEpoch .. pEpoch /\ e + 1 \in cEpoch .. pEpoch
        BY <1>3
      <3> QED
        BY <3>1 DEF IndInv, PageInv, Agrees
    <2> QED
      BY <1>1, <2>1, <2>2 DEF PageInv
  <1>9. StreamInv'
    BY <1>1, <1>5, <1>6 DEF IndInv, StreamInv
  <1>10. ConsumerInv'
    <2>1. InPage(cClaim, cEpoch)' <=> InPage(cClaim, cEpoch)
      BY <1>1, <1>4, <1>6 DEF InPage, Pg
    <2>2. cEpoch < pEpoch => (InPage(cClaim, cEpoch + 1)' <=> InPage(cClaim, cEpoch + 1))
      <3> SUFFICES ASSUME cEpoch < pEpoch PROVE InPage(cClaim, cEpoch + 1)' <=> InPage(cClaim, cEpoch + 1)
        OBVIOUS
      <3>1. cEpoch + 1 \in cEpoch .. pEpoch
        BY <1>3
      <3> QED  BY <1>1, <1>6, <3>1 DEF InPage, Pg
    <2> QED
      BY <1>1, <1>5, <2>1, <2>2 DEF IndInv, ConsumerInv
  <1> QED
    BY <1>2, <1>7, <1>8, <1>9, <1>10 DEF IndInv

LEMMA SealStep == ASSUME IndInv, Seal \/ CloseSlab PROVE IndInv'
  <1>1. /\ pages' = [pages EXCEPT ![SlotOf(pEpoch)].closed = TRUE]
        /\ UNCHANGED <<ring, handoff, pEpoch, sharedEnds, pLen, consumerVars>>
        /\ pEnd' = pEnd /\ pResult' = pResult
        /\ \/ pPc = "seal" /\ pPc' = "rebind"
           \/ pPc = "close_slab" /\ pPc' = "store_terminal"
    BY DEF Seal, CloseSlab, Proceed
  <1>2. pEpoch \in Nat /\ cEpoch \in Nat /\ SlotOf(pEpoch) \in Slots
    BY SlotFacts DEF IndInv, TypeOK
  <1>3. PICK pg : pg = [Pg(pEpoch) EXCEPT !.closed = TRUE]
    OBVIOUS
  <1>4. pages' = [pages EXCEPT ![SlotOf(pEpoch)] = pg]
    BY <1>1, <1>3 DEF Pg
  <1>5. /\ pg \in PageStates /\ pg.gen = Pg(pEpoch).gen /\ pg.first = Pg(pEpoch).first
        /\ pg.cells = Pg(pEpoch).cells /\ pg.bytes = Pg(pEpoch).bytes /\ pg.closed = TRUE
    <2>1. PICK q \in PageStates : q = Pg(pEpoch)
      BY <1>2, PageTyped DEF IndInv
    <2>2. pg = [q EXCEPT !.closed = TRUE]
      BY <1>3, <2>1
    <2>3. pg \in PageStates
      BY <2>2 DEF PageStates
    <2>4. pg.gen = q.gen /\ pg.first = q.first /\ pg.cells = q.cells /\ pg.bytes = q.bytes
          /\ pg.closed = TRUE
      BY <2>2 DEF PageStates
    <2> QED  BY <2>1, <2>3, <2>4
  <1>6. \A s \in Slots : pages'[s] = IF s = SlotOf(pEpoch) THEN pg ELSE pages[s]
    BY <1>2, <1>4 DEF IndInv, TypeOK
  <1>7. \A e \in Nat : Agrees(e)
    <2> SUFFICES ASSUME NEW e \in Nat  PROVE Agrees(e)
      OBVIOUS
    <2>1. SlotOf(e) \in Slots
      BY SlotFacts
    <2>2. CASE SlotOf(e) = SlotOf(pEpoch)
      BY <1>5, <1>6, <2>1, <2>2 DEF Agrees, Pg
    <2>3. CASE SlotOf(e) # SlotOf(pEpoch)
      BY <1>6, <2>1, <2>3 DEF Agrees, Pg
    <2> QED  BY <2>2, <2>3
  <1>8. /\ pages' \in [Slots -> PageStates] /\ \A s \in Slots : Len(pages'[s].cells) <= DescriptorCapacity
    <2>1. pages' \in [Slots -> PageStates]
      BY <1>4, <1>5 DEF IndInv, TypeOK
    <2>2. Len(pg.cells) <= DescriptorCapacity
      BY <1>2, <1>5, PageTyped DEF IndInv
    <2> QED
      BY <1>6, <2>1, <2>2 DEF IndInv, TypeOK
  <1>9. ProducerInv'
    <2>1. /\ released' = released /\ cExpected' = cExpected /\ ring' = ring /\ handoff' = handoff
          /\ pEpoch' = pEpoch /\ pLen' = pLen /\ terminal' = terminal /\ ringClosed' = ringClosed
      BY <1>1, ConsumerAlone DEF sharedEnds
    <2>2. Pg(pEpoch)' = pg
      BY <1>2, <1>6, <2>1 DEF Pg
    <2>3. Appended' = Appended
      BY <1>5, <2>2 DEF Appended
    <2> QED
      BY <1>1, <1>5, <2>1, <2>2, <2>3
      DEF IndInv, ProducerInv, Rotating, Closing
  <1>10. pPc' \in ProducerPcs /\ pEnd' \in {"OPEN", "CLEAN", "FAULTED"}
    BY <1>1 DEF ProducerPcs, IndInv, TypeOK
  <1>11. \A e \in cEpoch .. pEpoch : Agrees(e)
    BY <1>2, <1>7
  <1> QED
    BY <1>1, <1>8, <1>9, <1>10, <1>11, FramesKept

\* While the producer rotates, the successor's slot is nobody's.
LEMMA SuccessorIsFree ==
  ASSUME IndInv, pPc \in Rotating
  PROVE  /\ pEpoch + 1 < cEpoch + Pool
         /\ \A e \in cEpoch .. pEpoch : SlotOf(pEpoch + 1) # SlotOf(e)
         /\ SlotOf(pEpoch + 1) \notin Held
  <1>1. /\ pEpoch \in Nat /\ cEpoch \in Nat /\ released \in Nat /\ Pool \in Nat \ {0}
        /\ pEpoch + 1 \in Nat /\ cEpoch <= pEpoch
    BY PoolFacts DEF IndInv, TypeOK, EpochInv
  <1>2. released <= cEpoch
    BY DEF IndInv, ProducerInv, ConsumerInv, Rotating
  <1>3. pEpoch + 1 < cEpoch + Pool
    <2>1. pEpoch + 1 < released + Pool
      BY DEF IndInv, ProducerInv
    <2> QED  BY <1>1, <1>2, <2>1
  <1>4. \A e \in cEpoch .. pEpoch : SlotOf(pEpoch + 1) # SlotOf(e)
    <2> TAKE e \in cEpoch .. pEpoch
    <2>1. e \in Nat /\ e < pEpoch + 1 /\ pEpoch + 1 < e + Pool
      BY <1>1, <1>3
    <2> QED  BY <1>1, <2>1, SlotFacts
  <1>5. \A i \in 1 .. Len(handoff) : handoff[i] # SlotOf(pEpoch + 1)
    <2> TAKE i \in 1 .. Len(handoff)
    <2>1. handoff[i] = SlotOf(cEpoch + i) /\ Len(handoff) = pEpoch - cEpoch
      BY DEF IndInv, EpochInv
    <2>2. cEpoch + i \in cEpoch .. pEpoch
      BY <1>1, <2>1
    <2> QED  BY <1>4, <2>1, <2>2
  <1>6. cSlot # SlotOf(pEpoch + 1)
    <2>1. SlotOf(pEpoch + 1) \in Slots
      BY <1>1, SlotFacts
    <2>2. cSlot \in {NoSlot, SlotOf(cEpoch)}
      BY DEF IndInv, ConsumerInv
    <2>3. cEpoch \in cEpoch .. pEpoch
      BY <1>1
    <2> QED  BY <1>4, <2>1, <2>2, <2>3, PoolFacts
  <1>7. SlotOf(pEpoch + 1) \notin Held
    <2>1. SlotOf(pEpoch) # SlotOf(pEpoch + 1)
      <3>1. pEpoch \in cEpoch .. pEpoch
        BY <1>1
      <3> QED  BY <1>4, <3>1
    <2>2. DOMAIN handoff = 1 .. Len(handoff)
      BY LenProperties DEF IndInv, TypeOK
    <2>3. SlotOf(pEpoch + 1) \notin ToSet(handoff)
      BY <1>5, <2>2 DEF ToSet
    <2> QED
      BY <1>6, <2>1, <2>3 DEF Held
  <1> QED  BY <1>3, <1>4, <1>7

LEMMA RebindStep == ASSUME IndInv, Rebind PROVE IndInv'
  <1>1. pPc = "rebind" /\ pPc \in Rotating
    BY DEF Rebind, Rotating
  <1>2. /\ \A e \in cEpoch .. pEpoch : SlotOf(pEpoch + 1) # SlotOf(e)
        /\ SlotOf(pEpoch + 1) \notin Held
    BY <1>1, SuccessorIsFree
  <1>3. PICK pg : pg = FreshPage(GenOf(pEpoch + 1), Appended)
    OBVIOUS
  <1>4. /\ pages' = [pages EXCEPT ![SlotOf(pEpoch + 1)] = pg]
        /\ UNCHANGED <<ring, handoff, pEpoch, sharedEnds, pLen, consumerVars>>
        /\ pEnd' = pEnd /\ pResult' = pResult /\ pPc' = "publish_reader"
    BY <1>2, <1>3 DEF Rebind, Proceed, NextSequence, active, Appended, Pg
  <1>5. /\ pEpoch \in Nat /\ cEpoch \in Nat /\ cEpoch <= pEpoch /\ pEpoch + 1 \in Nat
        /\ SlotOf(pEpoch + 1) \in Slots /\ GenOf(pEpoch + 1) \in 0 .. (GenModulus - 1)
    <2>1. pEpoch \in Nat /\ cEpoch \in Nat /\ cEpoch <= pEpoch /\ pEpoch + 1 \in Nat
      BY DEF IndInv, TypeOK, EpochInv
    <2> QED  BY <2>1, SlotFacts
  <1>6. /\ pg \in PageStates /\ Len(pg.cells) = 0
    <2>1. Appended \in 0 .. MaxFrames
      <3>1. Appended < MaxFrames
        BY <1>1 DEF IndInv, ProducerInv
      <3>2. Appended \in Nat
        BY <1>5, PageTyped DEF Appended, IndInv
      <3> QED  BY <3>1, <3>2, FrameAssumption
    <2>2. 0 \in 0 .. ByteCapacity
      BY PageAssumption
    <2>3. <<>> \in Seq(Descriptors) /\ Len(<<>>) = 0
      OBVIOUS
    <2> QED
      BY <1>3, <1>5, <2>1, <2>2, <2>3 DEF FreshPage, PageStates
  <1>7. \A s \in Slots : pages'[s] = IF s = SlotOf(pEpoch + 1) THEN pg ELSE pages[s]
    BY <1>4, <1>5 DEF IndInv, TypeOK
  <1>8. \A e \in cEpoch .. pEpoch : Pg(e)' = Pg(e) /\ Agrees(e)
    <2> TAKE e \in cEpoch .. pEpoch
    <2>1. SlotOf(e) \in Slots
      BY <1>5, SlotFacts
    <2>2. Pg(e)' = Pg(e)
      BY <1>2, <1>7, <2>1 DEF Pg
    <2> QED  BY <2>2 DEF Agrees
  <1>9. /\ pages' \in [Slots -> PageStates] /\ \A s \in Slots : Len(pages'[s].cells) <= DescriptorCapacity
    <2>1. pages' \in [Slots -> PageStates]
      BY <1>4, <1>6 DEF IndInv, TypeOK
    <2>2. Len(pg.cells) <= DescriptorCapacity
      BY <1>6, PageAssumption
    <2> QED
      BY <1>7, <2>1, <2>2 DEF IndInv, TypeOK
  <1>10. ProducerInv'
    <2>1. /\ released' = released /\ cExpected' = cExpected /\ ring' = ring /\ handoff' = handoff
          /\ pEpoch' = pEpoch /\ pLen' = pLen /\ terminal' = terminal /\ ringClosed' = ringClosed
      BY <1>4, ConsumerAlone DEF sharedEnds
    <2>2. Pg(pEpoch)' = Pg(pEpoch)
      <3>1. pEpoch \in cEpoch .. pEpoch /\ \A e : Pg(e)' = pages'[SlotOf(e)]
        BY <1>5 DEF Pg
      <3>2. Pg(pEpoch)' = pages'[SlotOf(pEpoch)]
        BY <2>1 DEF Pg
      <3> QED  BY <1>8, <3>1, <3>2
    <2>3. Appended' = Appended
      BY <2>2 DEF Appended
    <2>4. Pg(pEpoch + 1)' = pg
      BY <1>5, <1>7, <2>1 DEF Pg
    <2> QED
      BY <1>1, <1>3, <1>4, <2>1, <2>2, <2>3, <2>4
      DEF IndInv, ProducerInv, Rotating, Closing
  <1>11. pPc' \in ProducerPcs /\ pEnd' \in {"OPEN", "CLEAN", "FAULTED"}
    BY <1>4 DEF ProducerPcs, IndInv, TypeOK
  <1> QED
    BY <1>4, <1>8, <1>9, <1>10, <1>11, FramesKept

LEMMA PublishReaderStep == ASSUME IndInv, PublishReader PROVE IndInv'
  <1>1. /\ UNCHANGED <<pages, ring, sharedEnds, pLen, consumerVars>>
        /\ handoff' = Append(handoff, SlotOf(pEpoch + 1)) /\ pEpoch' = pEpoch + 1
        /\ pPc = "publish_reader" /\ pPc \in Rotating /\ pEnd' = pEnd
        /\ \/ pPc' = "reserve" /\ pResult' = pResult /\ Fits(Pg(pEpoch + 1), pLen)
           \/ pPc' = "idle" /\ pResult' = "Slab"
    BY DEF PublishReader, Proceed, Return, Rotating, Pg
  <1>2. /\ released' = released /\ cPc' = cPc /\ cSlot' = cSlot /\ cEpoch' = cEpoch
        /\ cExpected' = cExpected /\ cEpochCommitted' = cEpochCommitted /\ cTotal' = cTotal
        /\ cClaim' = cClaim /\ cState' = cState
        /\ ringAbandoned' = ringAbandoned /\ handoffAbandoned' = handoffAbandoned
        /\ ring' = ring /\ pages' = pages /\ pLen' = pLen
        /\ ringClosed' = ringClosed /\ handoffClosed' = handoffClosed /\ terminal' = terminal
    BY <1>1, ConsumerAlone DEF sharedEnds
  <1>3. PICK n \in Nat : n = pEpoch + 1
    BY DEF IndInv, TypeOK
  <1>4. /\ pEpoch \in Nat /\ cEpoch \in Nat /\ released \in Nat /\ Pool \in Nat
        /\ cEpoch <= pEpoch /\ pEpoch < n /\ pEpoch' = n /\ pEpoch = n - 1
        /\ n < cEpoch + Pool /\ n < released + Pool
    <2>1. pEpoch \in Nat /\ cEpoch \in Nat /\ released \in Nat /\ Pool \in Nat /\ cEpoch <= pEpoch
      BY PoolFacts DEF IndInv, TypeOK, EpochInv
    <2>2. pEpoch + 1 < cEpoch + Pool
      BY <1>1, SuccessorIsFree
    <2>3. pEpoch + 1 < released + Pool
      BY <1>1 DEF IndInv, ProducerInv
    <2> QED  BY <1>1, <1>3, <2>1, <2>2, <2>3
  <1>5. Pg(n) = FreshPage(GenOf(n), Appended) /\ Pg(pEpoch).closed /\ Appended < MaxFrames
        /\ (FramesFitAPage => Pg(pEpoch).cells # <<>>)
    BY <1>1, <1>3 DEF IndInv, ProducerInv
  <1>6. /\ Pg(n).gen = GenOf(n) /\ Pg(n).first = Appended /\ Pg(n).cells = <<>> /\ Pg(n).bytes = 0
    BY <1>5 DEF FreshPage
  <1>7. Appended \in Nat
    BY <1>4, PageTyped DEF Appended, IndInv
  <1>8. Appended' = Appended
    <2>1. Pg(pEpoch)' = Pg(n)
      BY <1>2, <1>4 DEF Pg
    <2> QED  BY <1>6, <1>7, <2>1 DEF Appended
  <1>9. \A e : Pg(e)' = Pg(e)
    BY <1>2 DEF Pg
  <1>10. \A d, e : InPage(d, e)' <=> InPage(d, e)
    BY <1>9 DEF InPage
  <1>11. /\ handoff' \in Seq(Slots) /\ Len(handoff') = Len(handoff) + 1
         /\ \A i \in 1 .. Len(handoff) : handoff'[i] = handoff[i]
         /\ handoff'[Len(handoff) + 1] = SlotOf(n) /\ Len(handoff) \in Nat
    BY <1>1, <1>3, SlotFacts, AppendProperties, LenProperties DEF IndInv, TypeOK
  <1>12. EpochInv'
    <2>1. Len(handoff) = pEpoch - cEpoch /\ \A i \in 1 .. Len(handoff) : handoff[i] = SlotOf(cEpoch + i)
      BY DEF IndInv, EpochInv
    <2>2. ASSUME NEW i \in 1 .. Len(handoff')  PROVE handoff'[i] = SlotOf(cEpoch + i)
      <3>1. CASE i = Len(handoff) + 1
        <4>1. cEpoch + i = n
          BY <1>4, <2>1, <3>1
        <4> QED  BY <1>11, <3>1, <4>1
      <3>2. CASE i # Len(handoff) + 1
        BY <1>11, <2>1, <3>2
      <3> QED  BY <3>1, <3>2
    <2>3. cEpoch <= n /\ Len(handoff') = n - cEpoch
      BY <1>4, <1>11, <2>1
    <2> QED
      BY <1>2, <1>4, <2>2, <2>3 DEF EpochInv
  <1>13. TypeOK'
    <2>1. Len(handoff') < Pool
      BY <1>4, <1>11, <1>12, <1>2 DEF EpochInv
    <2> QED
      BY <1>1, <1>2, <1>4, <1>11, <2>1 DEF IndInv, TypeOK, ProducerPcs
  <1>14. PageInv'
    <2>1. ASSUME NEW e \in cEpoch .. n  PROVE PageOK(Pg(e), e)
      <3>1. CASE e = n
        BY <1>6, <3>1 DEF PageOK
      <3>2. CASE e # n
        <4>1. e \in cEpoch .. pEpoch
          BY <1>4, <3>2
        <4> QED  BY <4>1 DEF IndInv, PageInv
      <3> QED  BY <3>1, <3>2
    <2>2. ASSUME NEW e \in cEpoch .. (n - 1)
          PROVE  /\ Pg(e).closed /\ Pg(e + 1).first = Pg(e).first + Len(Pg(e).cells)
                 /\ FramesFitAPage => Pg(e).cells # <<>>
      <3>1. CASE e = pEpoch
        BY <1>3, <1>5, <1>6, <3>1 DEF Appended
      <3>2. CASE e # pEpoch
        <4>1. e \in cEpoch .. (pEpoch - 1)
          BY <1>4, <3>2
        <4> QED  BY <4>1 DEF IndInv, PageInv
      <3> QED  BY <3>1, <3>2
    <2> QED
      BY <1>2, <1>4, <1>9, <2>1, <2>2 DEF PageInv
  <1>15. StreamInv'
    <2>1. Pg(cEpoch)' = Pg(cEpoch)
      BY <1>2 DEF Pg
    <2>2. ASSUME NEW i \in 1 .. Len(ring)  PROVE \E e \in cEpoch .. n : InPage(ring[i], e)
      <3>1. PICK e \in cEpoch .. pEpoch : InPage(ring[i], e)
        BY DEF IndInv, StreamInv
      <3>2. e \in cEpoch .. n
        BY <1>4
      <3> QED  BY <3>1, <3>2
    <2>3. /\ cEpochCommitted <= Len(Pg(cEpoch)'.cells) /\ Pg(cEpoch)'.first + cEpochCommitted = cExpected
          /\ cTotal = cExpected /\ Appended' - (cExpected + Len(ring)) \in {0, 1}
      BY <1>8, <2>1 DEF IndInv, StreamInv
    <2>4. \A i \in 1 .. Len(ring) :
            ring[i].seq = cExpected + i - 1 /\ \E e \in cEpoch .. n : InPage(ring[i], e)'
      <3>1. \A i \in 1 .. Len(ring) : ring[i].seq = cExpected + i - 1
        BY DEF IndInv, StreamInv
      <3> QED  BY <1>2, <2>2, <3>1 DEF InPage, Pg
    <2> QED
      BY <1>2, <1>4, <2>3, <2>4 DEF StreamInv
  <1>16. ProducerInv'
    <2>1. Pg(pEpoch)' = Pg(n)
      BY <1>2, <1>4 DEF Pg
    <2>2. pEnd = "OPEN" /\ Appended = cExpected + Len(ring) /\ pLen \in Lengths /\ pLen > 0
          /\ pLen <= MaxFrameBytes /\ terminal = "OPEN" /\ ~ringClosed /\ pResult \notin ProducerFaults
      BY <1>1 DEF IndInv, ProducerInv, Closing
    <2>3. Appended' <= MaxFrames
      BY <1>8 DEF IndInv, ProducerInv
    <2> QED
      BY <1>1, <1>2, <1>3, <1>5, <1>8, <2>1, <2>2, <2>3
      DEF ProducerInv, Rotating, Closing, ProducerFaults
  <1>17. ConsumerInv'
    <2>1. InPage(cClaim, cEpoch)' <=> InPage(cClaim, cEpoch)
      BY <1>2 DEF InPage, Pg
    <2>2. InPage(cClaim, cEpoch + 1)' <=> InPage(cClaim, cEpoch + 1)
      BY <1>2 DEF InPage, Pg
    <2>3. cEpoch < pEpoch => cEpoch < n
      BY <1>4
    <2>4. Pg(cEpoch)' = Pg(cEpoch)
      BY <1>2 DEF Pg
    <2> QED
      BY <1>2, <1>4, <2>1, <2>2, <2>3, <2>4 DEF IndInv, ConsumerInv
  <1> QED
    BY <1>12, <1>13, <1>14, <1>15, <1>16, <1>17 DEF IndInv

LEMMA AppendFrameStep == ASSUME IndInv, AppendFrame PROVE IndInv'
  <1>1. /\ UNCHANGED <<ring, handoff, pEpoch, sharedEnds, pLen, consumerVars>>
        /\ pPc = "append" /\ pPc' = "publish" /\ pEnd' = pEnd /\ pResult' = pResult
    BY DEF AppendFrame, Proceed
  <1>2. /\ released' = released /\ cPc' = cPc /\ cSlot' = cSlot /\ cEpoch' = cEpoch
        /\ cExpected' = cExpected /\ cEpochCommitted' = cEpochCommitted /\ cTotal' = cTotal
        /\ cClaim' = cClaim /\ cState' = cState
        /\ ringAbandoned' = ringAbandoned /\ handoffAbandoned' = handoffAbandoned
        /\ ring' = ring /\ handoff' = handoff /\ pEpoch' = pEpoch /\ pLen' = pLen
        /\ ringClosed' = ringClosed /\ handoffClosed' = handoffClosed /\ terminal' = terminal
    BY <1>1, ConsumerAlone DEF sharedEnds
  <1>3. /\ pEpoch \in Nat /\ cEpoch \in Nat /\ cEpoch <= pEpoch /\ Pool \in Nat
        /\ pEpoch < cEpoch + Pool /\ pEpoch \in cEpoch .. pEpoch
    BY PoolFacts DEF IndInv, TypeOK, EpochInv
  <1>4. PICK q \in PageStates : q = Pg(pEpoch)
    BY <1>3, PageTyped DEF IndInv
  <1>5. /\ q.cells \in Seq(Descriptors) /\ Len(q.cells) \in Nat /\ q.first \in Nat
        /\ q.bytes \in Nat /\ q.bytes <= ByteCapacity /\ q.gen \in 0 .. (GenModulus - 1)
        /\ PageOK(q, pEpoch) /\ Appended = q.first + Len(q.cells)
    <2>1. q.gen \in 0 .. (GenModulus - 1)
      BY DEF PageStates
    <2> QED
      BY <1>3, <1>4, <2>1, PageTyped DEF IndInv, PageInv, Appended
  <1>6. /\ Appended < MaxFrames /\ pLen \in Nat /\ pLen > 0 /\ pLen <= MaxFrameBytes
        /\ q.bytes + pLen <= ByteCapacity /\ Len(q.cells) < DescriptorCapacity
        /\ Len(ring) < RingCapacity /\ Appended = cExpected + Len(ring) /\ pEnd = "OPEN"
        /\ terminal = "OPEN" /\ ~ringClosed /\ pResult \notin ProducerFaults /\ pLen \in Lengths
    BY <1>1, <1>4, FrameAssumption DEF IndInv, ProducerInv, Closing, Fits
  <1>7. PICK d : d = [seq |-> Appended, gen |-> q.gen, offset |-> q.bytes, len |-> pLen]
    OBVIOUS
  <1>8. d \in Descriptors /\ d.seq = Appended /\ d.gen = q.gen /\ d.offset = q.bytes /\ d.len = pLen
    <2>1. Appended \in 0 .. MaxFrames /\ pLen \in 1 .. MaxFrameBytes
      BY <1>5, <1>6, FrameAssumption
    <2>2. q.bytes \in 0 .. ByteCapacity
      BY <1>5, PageAssumption
    <2> QED
      BY <1>5, <1>7, <2>1, <2>2 DEF Descriptors
  <1>9. PICK pg : pg = [q EXCEPT !.cells = Append(q.cells, d), !.bytes = q.bytes + pLen]
    OBVIOUS
  <1>10. pages' = [pages EXCEPT ![SlotOf(pEpoch)] = pg]
    <2>1. q = pages[SlotOf(pEpoch)] /\ q = active
      BY <1>4 DEF Pg, active
    <2>2. d = [seq |-> NextSequence, gen |-> active.gen, offset |-> active.bytes, len |-> pLen]
      BY <1>5, <1>7, <2>1 DEF NextSequence
    <2>3. pages' = [pages EXCEPT ![SlotOf(pEpoch)].cells = Append(@, d),
                                 ![SlotOf(pEpoch)].bytes = @ + pLen]
      BY <2>2 DEF AppendFrame
    <2>4. SlotOf(pEpoch) \in Slots /\ pages \in [Slots -> PageStates]
      BY <1>3, SlotFacts DEF IndInv, TypeOK
    <2> QED  BY <1>9, <2>1, <2>3, <2>4 DEF PageStates
  <1>11. Append(q.cells, d) \in Seq(Descriptors) /\ Len(Append(q.cells, d)) = Len(q.cells) + 1
         /\ Append(q.cells, d)[Len(q.cells) + 1] = d
         /\ \A i \in 1 .. Len(q.cells) : Append(q.cells, d)[i] = q.cells[i]
    BY <1>5, <1>8, AppendProperties
  <1>12. /\ pg.cells = Append(q.cells, d) /\ pg.bytes = q.bytes + pLen /\ pg.gen = q.gen
         /\ pg.first = q.first /\ pg.closed = q.closed
    BY <1>9 DEF PageStates
  <1>13. pg \in PageStates
    <2>1. q.bytes + pLen \in 0 .. ByteCapacity
      BY <1>5, <1>6, PageAssumption
    <2> QED  BY <1>9, <1>11, <2>1 DEF PageStates
  <1>14. \A s \in Slots : pages'[s] = IF s = SlotOf(pEpoch) THEN pg ELSE pages[s]
    BY <1>10, <1>3, SlotFacts DEF IndInv, TypeOK
  <1>15. \A e \in cEpoch .. (pEpoch - 1) : Pg(e)' = Pg(e)
    <2> TAKE e \in cEpoch .. (pEpoch - 1)
    <2>1. e \in Nat /\ e < pEpoch /\ pEpoch < e + Pool
      BY <1>3
    <2>2. SlotOf(e) # SlotOf(pEpoch) /\ SlotOf(e) \in Slots
      BY <1>3, <2>1, SlotFacts
    <2> QED  BY <1>14, <2>2 DEF Pg
  <1>16. Pg(pEpoch)' = pg /\ pages'[SlotOf(pEpoch)] = pg
    BY <1>2, <1>3, <1>14, SlotFacts DEF Pg
  <1>17. Appended' = Appended + 1
    <2>1. Appended' = pg.first + Len(pg.cells)
      BY <1>16 DEF Appended
    <2>2. Len(pg.cells) = Len(q.cells) + 1 /\ pg.first = q.first
      BY <1>11, <1>12
    <2> QED  BY <1>5, <2>1, <2>2
  <1>18. TypeOK'
    <2>1. pages' \in [Slots -> PageStates]
      BY <1>10, <1>13 DEF IndInv, TypeOK
    <2>2. Len(pg.cells) <= DescriptorCapacity
      BY <1>5, <1>6, <1>11, <1>12, PageAssumption
    <2>3. \A s \in Slots : Len(pages'[s].cells) <= DescriptorCapacity
      BY <1>14, <2>2 DEF IndInv, TypeOK
    <2> QED
      BY <1>1, <1>2, <2>1, <2>3 DEF IndInv, TypeOK, ProducerPcs
  <1>19. EpochInv'
    BY <1>2 DEF IndInv, EpochInv
  <1>20. \A e \in cEpoch .. pEpoch :
           /\ pages'[SlotOf(e)].first = Pg(e).first
           /\ pages'[SlotOf(e)].closed = Pg(e).closed
           /\ Len(pages'[SlotOf(e)].cells) >= Len(Pg(e).cells)
           /\ Len(pages'[SlotOf(e)].cells) \in Nat
           /\ Len(Pg(e).cells) \in Nat
           /\ \A i \in 1 .. Len(Pg(e).cells) : pages'[SlotOf(e)].cells[i] = Pg(e).cells[i]
    <2> TAKE e \in cEpoch .. pEpoch
    <2>1. CASE e = pEpoch
      <3>1. Pg(e) = q /\ pages'[SlotOf(e)] = pg
        BY <1>4, <1>16, <2>1
      <3>2. pg.first = q.first /\ pg.closed = q.closed /\ Len(pg.cells) = Len(q.cells) + 1
            /\ Len(q.cells) \in Nat /\ \A i \in 1 .. Len(q.cells) : pg.cells[i] = q.cells[i]
        BY <1>5, <1>11, <1>12
      <3> QED  BY <3>1, <3>2
    <2>2. CASE e # pEpoch
      <3>1. e \in cEpoch .. (pEpoch - 1) /\ e \in Nat
        BY <1>3, <2>2
      <3>2. pages'[SlotOf(e)] = Pg(e)
        BY <1>15, <3>1 DEF Pg
      <3>3. Len(Pg(e).cells) \in Nat
        BY <3>1, PageTyped DEF IndInv
      <3> QED  BY <3>2, <3>3
    <2> QED  BY <2>1, <2>2
  <1>21. ASSUME NEW x, NEW e \in cEpoch .. pEpoch, InPage(x, e), x.seq \in Nat
         PROVE  InPage(x, e)'
    <2>1. Pg(e).first \in Nat
      BY <1>3, PageTyped DEF IndInv
    <2>2. PICK k \in Int : k = x.seq - Pg(e).first
      BY <1>21, <2>1
    <2>3. k \in 0 .. (Len(Pg(e).cells) - 1) /\ Pg(e).cells[k + 1] = x
      BY <1>21, <2>2 DEF InPage
    <2>4. k \in 0 .. (Len(pages'[SlotOf(e)].cells) - 1) /\ k + 1 \in 1 .. Len(Pg(e).cells)
      BY <1>20, <2>3
    <2>5. pages'[SlotOf(e)].cells[k + 1] = x /\ x.seq - pages'[SlotOf(e)].first = k
      BY <1>20, <2>2, <2>3, <2>4
    <2> QED  BY <2>4, <2>5 DEF InPage, Pg
  <1>22. PageInv'
    <2>1. PageOK(pg, pEpoch)
      <3>1. ASSUME NEW i \in 1 .. Len(pg.cells)
            PROVE  /\ pg.cells[i].seq = pg.first + i - 1 /\ pg.cells[i].gen = GenOf(pEpoch)
                   /\ pg.cells[i].offset + pg.cells[i].len <= pg.bytes
        <4>1. CASE i = Len(q.cells) + 1
          BY <1>5, <1>6, <1>8, <1>11, <1>12, <4>1 DEF PageOK
        <4>2. CASE i # Len(q.cells) + 1
          <5>1. i \in 1 .. Len(q.cells)
            BY <1>5, <1>11, <1>12, <4>2
          <5>2. q.cells[i] \in Descriptors
            BY <1>5, <5>1, ElementOfSeq
          <5>3. q.cells[i].offset \in Nat /\ q.cells[i].len \in Nat
            BY <5>2, DescriptorTyped
          <5>4. pg.cells[i] = q.cells[i]
            BY <1>11, <1>12, <5>1
          <5>5. /\ q.cells[i].seq = q.first + i - 1 /\ q.cells[i].gen = GenOf(pEpoch)
                /\ q.cells[i].offset + q.cells[i].len <= q.bytes
            BY <1>5, <5>1 DEF PageOK
          <5>6. q.cells[i].offset + q.cells[i].len <= pg.bytes
            <6>1. PICK o \in Nat, l \in Nat : o = q.cells[i].offset /\ l = q.cells[i].len
              BY <5>3
            <6>2. o + l <= q.bytes /\ q.bytes \in Nat /\ pLen \in Nat /\ pg.bytes = q.bytes + pLen
              BY <1>5, <1>6, <1>12, <5>5, <6>1
            <6>3. o + l <= pg.bytes
              BY <6>2
            <6> QED  BY <6>1, <6>3
          <5> QED  BY <1>12, <5>4, <5>5, <5>6
        <4> QED  BY <4>1, <4>2
      <3>2. pg.cells # <<>>
        BY <1>5, <1>11, <1>12
      <3> QED  BY <1>5, <1>12, <3>1, <3>2 DEF PageOK
    <2>2. ASSUME NEW e \in cEpoch .. pEpoch  PROVE PageOK(pages'[SlotOf(e)], e)
      <3>1. CASE e = pEpoch
        BY <1>16, <2>1, <3>1
      <3>2. CASE e # pEpoch
        <4>1. e \in cEpoch .. (pEpoch - 1)
          BY <1>3, <3>2
        <4> QED  BY <1>15, <4>1 DEF IndInv, PageInv, Pg
      <3> QED  BY <3>1, <3>2
    <2>3. ASSUME NEW e \in cEpoch .. (pEpoch - 1)
          PROVE  /\ pages'[SlotOf(e)].closed
                 /\ pages'[SlotOf(e + 1)].first = pages'[SlotOf(e)].first + Len(pages'[SlotOf(e)].cells)
                 /\ FramesFitAPage => pages'[SlotOf(e)].cells # <<>>
      <3>1. e + 1 \in cEpoch .. pEpoch
        BY <1>3
      <3>2. pages'[SlotOf(e)] = Pg(e)
        BY <1>15 DEF Pg
      <3> QED  BY <1>20, <3>1, <3>2 DEF IndInv, PageInv
    <2> QED
      BY <1>2, <2>2, <2>3 DEF PageInv, Pg
  <1>23. StreamInv'
    <2>1. /\ Pg(cEpoch)'.first = Pg(cEpoch).first /\ Len(Pg(cEpoch)'.cells) >= Len(Pg(cEpoch).cells)
          /\ Len(Pg(cEpoch)'.cells) \in Nat /\ Len(Pg(cEpoch).cells) \in Nat
      <3>1. cEpoch \in cEpoch .. pEpoch /\ Pg(cEpoch)' = pages'[SlotOf(cEpoch)]
        BY <1>2, <1>3 DEF Pg
      <3> QED  BY <1>20, <3>1
    <2>2. ASSUME NEW i \in 1 .. Len(ring)
          PROVE  ring[i].seq = cExpected + i - 1 /\ \E e \in cEpoch .. pEpoch : InPage(ring[i], e)'
      <3>1. PICK e \in cEpoch .. pEpoch : InPage(ring[i], e)
        BY DEF IndInv, StreamInv
      <3>2. ring[i] \in Descriptors
        BY ElementOfSeq DEF IndInv, TypeOK
      <3>3. ring[i].seq \in Nat
        BY <3>2, DescriptorTyped
      <3>4. PICK x : x = ring[i]
        OBVIOUS
      <3>5. InPage(x, e)'
        BY <1>21, <3>1, <3>3, <3>4
      <3>6. InPage(ring[i], e)'
        BY <1>2, <3>4, <3>5 DEF InPage
      <3> QED  BY <3>6 DEF IndInv, StreamInv
    <2>3. cEpochCommitted \in Nat /\ cExpected \in Nat /\ Len(ring) \in Nat
      BY LenProperties DEF IndInv, TypeOK
    <2>4. Appended' - (cExpected + Len(ring)) \in {0, 1}
      BY <1>6, <1>17, <2>3
    <2>5. cEpochCommitted <= Len(Pg(cEpoch)'.cells) /\ Pg(cEpoch)'.first + cEpochCommitted = cExpected
          /\ cTotal = cExpected
      BY <2>1, <2>3 DEF IndInv, StreamInv
    <2> QED
      BY <1>2, <2>2, <2>4, <2>5 DEF StreamInv
  <1>24. ProducerInv'
    <2>1. Pg(pEpoch)'.cells # <<>>
      BY <1>5, <1>11, <1>12, <1>16
    <2>2. Appended' <= MaxFrames
      BY <1>5, <1>6, <1>17, FrameAssumption
    <2> QED
      BY <1>1, <1>2, <1>6, <1>17, <2>1, <2>2 DEF ProducerInv, Rotating, Closing
  <1>25. ConsumerInv'
    <2>1. ASSUME cPc \in {"boundary", "pop_reader"}
          PROVE  InPage(cClaim, cEpoch + 1)' /\ cEpochCommitted = Len(Pg(cEpoch)'.cells)
      <3>1. /\ cEpoch < pEpoch /\ InPage(cClaim, cEpoch + 1) /\ ring # <<>> /\ cClaim = Head(ring)
            /\ cEpochCommitted = Len(Pg(cEpoch).cells)
        BY <2>1 DEF IndInv, ConsumerInv
      <3>2. PICK e \in cEpoch .. pEpoch : e = cEpoch + 1
        BY <1>3, <3>1
      <3>3. PICK x \in Descriptors : x = cClaim
        BY <3>1, HeadTailProperties DEF IndInv, TypeOK
      <3>4. InPage(x, e)'
        BY <1>21, <3>1, <3>2, <3>3, DescriptorTyped
      <3>5. InPage(cClaim, cEpoch + 1)'
        BY <1>2, <3>2, <3>3, <3>4 DEF InPage, Pg
      <3>6. cEpoch \in cEpoch .. (pEpoch - 1)
        BY <1>3, <3>1
      <3>7. Pg(cEpoch)' = Pg(cEpoch)
        BY <1>2, <1>15, <3>6 DEF Pg
      <3> QED  BY <3>1, <3>5, <3>7
    <2>2. ASSUME cPc \in {"release", "resolve", "lease"}
          PROVE  InPage(cClaim, cEpoch)'
      <3>1. /\ InPage(cClaim, cEpoch) /\ ring # <<>> /\ cClaim = Head(ring)
        BY <2>2 DEF IndInv, ConsumerInv
      <3>2. PICK e \in cEpoch .. pEpoch : e = cEpoch
        BY <1>3, <3>1
      <3>3. PICK x \in Descriptors : x = cClaim
        BY <3>1, HeadTailProperties DEF IndInv, TypeOK
      <3>4. InPage(x, e)'
        BY <1>21, <3>1, <3>2, <3>3, DescriptorTyped
      <3> QED
        BY <1>2, <3>2, <3>3, <3>4 DEF InPage, Pg
    <2> QED
      BY <1>2, <2>1, <2>2 DEF IndInv, ConsumerInv
  <1> QED
    BY <1>18, <1>19, <1>22, <1>23, <1>24, <1>25 DEF IndInv

LEMMA PublishDescriptorStep == ASSUME IndInv, PublishDescriptor PROVE IndInv'
  <1>1. /\ UNCHANGED <<pages, handoff, pEpoch, sharedEnds, pLen, consumerVars>>
        /\ pPc = "publish" /\ pPc' = "idle" /\ pEnd' = pEnd /\ pResult' = "Admitted"
        /\ ring' = Append(ring, Last(Pg(pEpoch).cells))
    BY DEF PublishDescriptor, Return, active, Pg
  <1>2. /\ released' = released /\ cPc' = cPc /\ cSlot' = cSlot /\ cEpoch' = cEpoch
        /\ cExpected' = cExpected /\ cEpochCommitted' = cEpochCommitted /\ cTotal' = cTotal
        /\ cClaim' = cClaim /\ cState' = cState
        /\ ringAbandoned' = ringAbandoned /\ handoffAbandoned' = handoffAbandoned
        /\ pages' = pages /\ handoff' = handoff /\ pEpoch' = pEpoch /\ pLen' = pLen
        /\ ringClosed' = ringClosed /\ handoffClosed' = handoffClosed /\ terminal' = terminal
    BY <1>1, ConsumerAlone DEF sharedEnds
  <1>3. /\ pEpoch \in Nat /\ cEpoch \in Nat /\ cEpoch <= pEpoch /\ pEpoch \in cEpoch .. pEpoch
        /\ ring \in Seq(Descriptors) /\ Len(ring) \in Nat /\ cExpected \in Nat
        /\ RingCapacity \in Nat
    BY RingAssumption, LenProperties DEF IndInv, TypeOK, EpochInv
  <1>4. PICK q \in PageStates : q = Pg(pEpoch)
    BY <1>3, PageTyped DEF IndInv
  <1>5. /\ q.cells \in Seq(Descriptors) /\ Len(q.cells) \in Nat /\ q.first \in Nat
        /\ PageOK(q, pEpoch) /\ Appended = q.first + Len(q.cells)
    BY <1>3, <1>4, PageTyped DEF IndInv, PageInv, Appended
  <1>6. /\ Len(ring) < RingCapacity /\ Appended = cExpected + Len(ring) + 1 /\ pEnd = "OPEN"
        /\ terminal = "OPEN" /\ ~ringClosed /\ q.cells # <<>>
    BY <1>1, <1>4 DEF IndInv, ProducerInv, Closing
  <1>7. Len(q.cells) > 0
    BY <1>5, <1>6, EmptySeq
  <1>8. PICK d \in Descriptors : d = q.cells[Len(q.cells)]
    BY <1>5, <1>7, ElementOfSeq
  <1>9. ring' = Append(ring, d)
    BY <1>1, <1>4, <1>8 DEF Last
  <1>10. /\ ring' \in Seq(Descriptors) /\ Len(ring') = Len(ring) + 1 /\ ring'[Len(ring) + 1] = d
         /\ \A i \in 1 .. Len(ring) : ring'[i] = ring[i]
    BY <1>3, <1>9, AppendProperties
  <1>11. d.seq = cExpected + Len(ring) /\ InPage(d, pEpoch)
    <2>1. d.seq = q.first + Len(q.cells) - 1
      <3>1. Len(q.cells) \in 1 .. Len(q.cells)
        BY <1>5, <1>7
      <3> QED  BY <1>5, <1>8, <3>1 DEF PageOK
    <2>2. d.seq - q.first = Len(q.cells) - 1 /\ d.seq - q.first + 1 = Len(q.cells)
          /\ Len(q.cells) - 1 \in 0 .. (Len(q.cells) - 1)
      BY <1>5, <1>7, <2>1
    <2>3. d.seq = cExpected + Len(ring)
      <3>1. PICK a \in Nat, c \in Nat, k \in Nat : a = Appended /\ c = cExpected /\ k = Len(ring)
        <4>1. Appended \in Nat
          BY <1>5
        <4> QED  BY <1>3, <4>1
      <3>2. d.seq = a - 1 /\ a = c + k + 1
        <4>1. a = q.first + Len(q.cells) /\ a = c + k + 1
          BY <1>5, <1>6, <3>1
        <4> QED  BY <1>5, <2>1, <4>1
      <3>3. d.seq = c + k
        BY <3>2
      <3> QED  BY <3>1, <3>3
    <2> QED  BY <1>4, <1>8, <2>2, <2>3 DEF InPage
  <1>12. \A e : Pg(e)' = Pg(e)
    BY <1>2 DEF Pg
  <1>13. Appended' = Appended /\ Pg(pEpoch)' = Pg(pEpoch) /\ Pg(cEpoch)' = Pg(cEpoch)
    BY <1>2 DEF Appended, Pg
  <1>14. TypeOK'
    <2>1. Len(ring') <= RingCapacity
      BY <1>3, <1>6, <1>10
    <2> QED
      BY <1>1, <1>2, <1>10, <2>1 DEF IndInv, TypeOK, ProducerPcs
  <1>15. EpochInv' /\ PageInv'
    BY <1>2, <1>12 DEF IndInv, EpochInv, PageInv
  <1>16. StreamInv'
    <2>1. ASSUME NEW i \in 1 .. Len(ring')
          PROVE  ring'[i].seq = cExpected + i - 1 /\ \E e \in cEpoch .. pEpoch : InPage(ring'[i], e)
      <3>1. CASE i = Len(ring) + 1
        BY <1>3, <1>10, <1>11, <3>1
      <3>2. CASE i # Len(ring) + 1
        <4>1. i \in 1 .. Len(ring) /\ ring'[i] = ring[i]
          BY <1>3, <1>10, <3>2
        <4> QED  BY <4>1 DEF IndInv, StreamInv
      <3> QED  BY <3>1, <3>2
    <2>2. Appended' - (cExpected + Len(ring')) = 0
      BY <1>3, <1>6, <1>10, <1>13
    <2> QED
      BY <1>2, <1>12, <1>13, <2>1, <2>2 DEF IndInv, StreamInv, InPage
  <1>17. ProducerInv'
    <2>1. Appended' = cExpected + Len(ring')
      BY <1>3, <1>6, <1>10, <1>13
    <2>2. Appended' <= MaxFrames
      BY <1>13 DEF IndInv, ProducerInv
    <2> QED
      BY <1>1, <1>2, <1>6, <2>1, <2>2 DEF ProducerInv, Rotating, Closing, ProducerFaults
  <1>18. ConsumerInv'
    <2>1. InPage(cClaim, cEpoch)' <=> InPage(cClaim, cEpoch)
      BY <1>2 DEF InPage, Pg
    <2>2. InPage(cClaim, cEpoch + 1)' <=> InPage(cClaim, cEpoch + 1)
      BY <1>2 DEF InPage, Pg
    <2>3. ring # <<>> => ring' # <<>> /\ Head(ring') = Head(ring)
      <3> SUFFICES ASSUME ring # <<>>  PROVE ring' # <<>> /\ Head(ring') = Head(ring)
        OBVIOUS
      <3>1. Len(ring) > 0
        BY <1>3, EmptySeq
      <3>2. ring'[1] = ring[1] /\ Len(ring') # 0
        BY <1>3, <1>10, <3>1
      <3> QED  BY <1>3, <1>10, <3>2
    <2>4. cState # "CleanEnd"
      BY <1>6 DEF IndInv, ConsumerInv
    <2> QED
      BY <1>2, <1>13, <2>1, <2>2, <2>3, <2>4 DEF IndInv, ConsumerInv
  <1> QED
    BY <1>14, <1>15, <1>16, <1>17, <1>18 DEF IndInv

-----------------------------------------------------------------------------
(* Consumer steps that touch neither ring, handoff nor cursor. *)

LEMMA ConsumerQuiet ==
  ASSUME IndInv, UNCHANGED <<pages, ring, handoff, sharedEnds, producerVars, cEpoch, cExpected,
                             cEpochCommitted, cTotal>>,
         released' \in Nat, released <= released',
         {ringAbandoned', handoffAbandoned'} \subseteq BOOLEAN,
         cPc' \in ConsumerPcs, cSlot' \in Slots \cup {NoSlot},
         cClaim' \in Descriptors \cup {NoClaim},
         ConsumerInv'
  PROVE  IndInv'
  <1>1. /\ pages' = pages /\ ring' = ring /\ handoff' = handoff /\ ringClosed' = ringClosed
        /\ handoffClosed' = handoffClosed /\ terminal' = terminal /\ pPc' = pPc /\ pLen' = pLen
        /\ pEpoch' = pEpoch /\ pEnd' = pEnd /\ pResult' = pResult /\ cEpoch' = cEpoch
        /\ cExpected' = cExpected /\ cEpochCommitted' = cEpochCommitted /\ cTotal' = cTotal
    BY DEF sharedEnds, producerVars
  <1>2. TypeOK'
    BY <1>1 DEF IndInv, TypeOK
  <1>3. /\ pEpoch \in Nat /\ released \in Nat /\ Pool \in Nat
        /\ \A n \in Nat : n < released + Pool => n < released' + Pool
    BY PoolFacts DEF IndInv, TypeOK
  <1>4. \A e : Pg(e)' = Pg(e)
    BY <1>1 DEF Pg
  <1>5. /\ Appended' = Appended /\ Pg(pEpoch)' = Pg(pEpoch) /\ Pg(cEpoch)' = Pg(cEpoch)
        /\ Pg(pEpoch + 1)' = Pg(pEpoch + 1)
    BY <1>1 DEF Appended, Pg
  <1>6. EpochInv'
    <2>1. pEpoch < released' + Pool
      BY <1>3 DEF IndInv, EpochInv
    <2> QED  BY <1>1, <2>1 DEF IndInv, EpochInv
  <1>7. PageInv'
    BY <1>1, <1>4 DEF IndInv, PageInv
  <1>8. StreamInv'
    <2>1. \A i, e : InPage(ring[i], e)' <=> InPage(ring[i], e)
      BY <1>1 DEF InPage, Pg
    <2> QED
      BY <1>1, <1>5, <2>1 DEF IndInv, StreamInv
  <1>9. ProducerInv'
    <2>1. pEpoch + 1 < released + Pool => pEpoch + 1 < released' + Pool
      <3>1. pEpoch + 1 \in Nat
        BY <1>3
      <3> QED  BY <1>3, <3>1
    <2> QED
      BY <1>1, <1>5, <2>1 DEF IndInv, ProducerInv
  <1> QED
    BY <1>2, <1>6, <1>7, <1>8, <1>9 DEF IndInv

LEMMA ConsumerKnows ==
  ASSUME IndInv
  PROVE  /\ released \in Nat /\ {ringAbandoned, handoffAbandoned} \subseteq BOOLEAN
         /\ cSlot \in Slots \cup {NoSlot} /\ cClaim \in Descriptors \cup {NoClaim}
         /\ cEpoch \in Nat /\ pEpoch \in Nat /\ Pool \in Nat /\ cEpoch <= pEpoch
         /\ pEpoch < cEpoch + Pool /\ cExpected \in Nat /\ cEpochCommitted \in Nat
         /\ ring \in Seq(Descriptors) /\ Len(ring) \in Nat /\ Appended \in Nat
  <1>1. cEpoch \in Nat /\ pEpoch \in Nat /\ cExpected \in Nat
    BY DEF IndInv, TypeOK
  <1>2. Appended \in Nat
    BY <1>1, PageTyped DEF Appended, IndInv
  <1> QED
    BY <1>1, <1>2, PoolFacts, LenProperties DEF IndInv, TypeOK, EpochInv

\* The first frame of the ring is the one the consumer expects, in a page in use.
LEMMA HeadOfRing ==
  ASSUME IndInv, ring # <<>>
  PROVE  /\ Head(ring) \in Descriptors /\ Head(ring).seq = cExpected
         /\ \E e \in cEpoch .. pEpoch : InPage(Head(ring), e) /\ Head(ring).gen = GenOf(e)
  <1>1. Head(ring) \in Descriptors /\ Head(ring) = ring[1] /\ Len(ring) > 0
    BY ConsumerKnows, HeadTailProperties, EmptySeq
  <1>2. 1 \in 1 .. Len(ring)
    BY <1>1, ConsumerKnows
  <1>3. ring[1].seq = cExpected + 1 - 1
    BY <1>2 DEF IndInv, StreamInv
  <1>4. PICK e \in cEpoch .. pEpoch : InPage(ring[1], e)
    BY <1>2 DEF IndInv, StreamInv
  <1>5. ring[1].gen = GenOf(e)
    <2>1. PageOK(Pg(e), e)
      BY DEF IndInv, PageInv
    <2>2. e \in Nat
      BY ConsumerKnows
    <2>3. Pg(e).first \in Nat /\ Len(Pg(e).cells) \in Nat
      BY <2>2, PageTyped DEF IndInv
    <2>4. ring[1].seq \in Nat
      BY <1>1, DescriptorTyped
    <2>5. ring[1].seq - Pg(e).first + 1 \in 1 .. Len(Pg(e).cells)
      BY <1>4, <2>3, <2>4 DEF InPage
    <2> QED  BY <1>4, <2>1, <2>5 DEF InPage, PageOK
  <1> QED
    BY <1>1, <1>3, <1>4, <1>5, ConsumerKnows

\* A later page starts where an earlier one ended, or further on.
LEMMA FirstsGrow ==
  ASSUME IndInv, NEW a \in cEpoch .. pEpoch
  PROVE  \A b \in (a + 1) .. pEpoch : Pg(b).first >= Pg(a).first + Len(Pg(a).cells)
  <1> DEFINE S == {b \in (a + 1) .. pEpoch : ~(Pg(b).first >= Pg(a).first + Len(Pg(a).cells))}
  <1>1. a \in Nat /\ pEpoch \in Nat /\ cEpoch \in Nat /\ cEpoch <= a
    BY ConsumerKnows
  <1>2. S \subseteq Nat
    BY <1>1
  <1>3. ASSUME S # {}  PROVE FALSE
    <2>1. PICK b \in S : \A y \in S : ~(<<y, b>> \in OpToRel(<, Nat))
      BY <1>2, <1>3, NatLessThanWellFounded, WFMin
    <2>2. b - 1 \notin S
      <3>1. b - 1 \in S => b - 1 \in Nat /\ b - 1 < b
        BY <1>2
      <3> QED  BY <1>2, <2>1, <3>1 DEF OpToRel
    <2>3. b \in (a + 1) .. pEpoch /\ ~(Pg(b).first >= Pg(a).first + Len(Pg(a).cells))
      OBVIOUS
    <2> HIDE DEF S
    <2>4. b - 1 \in cEpoch .. (pEpoch - 1) /\ b - 1 + 1 = b /\ b - 1 \in Nat /\ b \in Nat
      BY <1>1, <2>3
    <2>5. Pg(b).first = Pg(b - 1).first + Len(Pg(b - 1).cells)
      BY <2>4 DEF IndInv, PageInv
    <2>6. /\ Pg(b - 1).first \in Nat /\ Len(Pg(b - 1).cells) \in Nat
          /\ Pg(a).first \in Nat /\ Len(Pg(a).cells) \in Nat
      BY <1>1, <2>4, PageTyped DEF IndInv
    <2>7. CASE b - 1 = a
      BY <2>3, <2>5, <2>6, <2>7
    <2>8. CASE b - 1 # a
      <3>1. b - 1 \in (a + 1) .. pEpoch
        BY <1>1, <2>3, <2>8
      <3>2. Pg(b - 1).first >= Pg(a).first + Len(Pg(a).cells)
        BY <2>2, <3>1 DEF S
      <3> QED  BY <2>3, <2>5, <2>6, <3>2
    <2> QED  BY <2>7, <2>8
  <1> QED  BY <1>3

LEMMA TryNextStep == ASSUME IndInv, TryNext PROVE IndInv'
  <1>1. PICK d \in Descriptors : d = Head(ring)
    BY HeadOfRing DEF TryNext
  <1>2. /\ UNCHANGED <<pages, ring, handoff, sharedEnds, producerVars, cEpoch, cExpected,
                       cEpochCommitted, cTotal>>
        /\ released' = released /\ handoffAbandoned' = handoffAbandoned /\ cSlot' = cSlot
        /\ cPc = "idle" /\ cState = "Open" /\ ring # <<>>
    BY DEF TryNext
  <1>3. d.seq = cExpected
    BY <1>1, <1>2, HeadOfRing
  <1>4. PICK e \in cEpoch .. pEpoch : InPage(d, e) /\ d.gen = GenOf(e)
    BY <1>1, <1>2, HeadOfRing
  <1>5. \/ /\ cClaim' = d /\ cState' = cState /\ ringAbandoned' = ringAbandoned
           /\ cPc' = "resolve" /\ d.gen = GenOf(cEpoch)
        \/ /\ cClaim' = d /\ cState' = cState /\ ringAbandoned' = ringAbandoned
           /\ cPc' = "boundary" /\ d.gen # GenOf(cEpoch) /\ d.gen = GenOf(cEpoch + 1)
        \/ /\ cClaim' = NoClaim /\ cState' = "EpochIdentityMismatch" /\ ringAbandoned' = TRUE
           /\ cPc' = "idle" /\ d.gen # GenOf(cEpoch) /\ d.gen # GenOf(cEpoch + 1)
    BY <1>1, <1>3 DEF TryNext, RaiseFault
  <1>6. e \in Nat /\ cEpoch <= e /\ e <= pEpoch /\ e < cEpoch + Pool /\ e < cEpoch + GenModulus
        /\ cEpoch \in Nat /\ cEpoch + 1 \in Nat /\ pEpoch \in Nat /\ GenModulus \in Nat
    BY ConsumerKnows, PoolFacts
  <1>7. d.gen = GenOf(cEpoch) => e = cEpoch
    <2>1. cEpoch < e => GenOf(cEpoch) # GenOf(e)
      BY <1>6, SlotFacts
    <2> QED  BY <1>4, <1>6, <2>1
  <1>8. d.gen # GenOf(cEpoch) => cEpoch + 1 <= e
    BY <1>4, <1>6
  <1>9. d.gen # GenOf(cEpoch) /\ d.gen = GenOf(cEpoch + 1) => e = cEpoch + 1
    <2>1. cEpoch + 1 < e => GenOf(cEpoch + 1) # GenOf(e)
      BY <1>6, SlotFacts
    <2> QED  BY <1>4, <1>6, <1>8, <2>1
  \* The frames of the consumer's page are all committed once the ring is past it.
  <1>10. ASSUME cEpoch + 1 <= e  PROVE cEpochCommitted = Len(Pg(cEpoch).cells)
    <2>1. e \in (cEpoch + 1) .. pEpoch /\ cEpoch \in cEpoch .. pEpoch
      BY <1>6, <1>10
    <2>2. Pg(e).first >= Pg(cEpoch).first + Len(Pg(cEpoch).cells)
      BY <2>1, FirstsGrow
    <2>3. Pg(e).first \in Nat /\ Pg(cEpoch).first \in Nat /\ Len(Pg(cEpoch).cells) \in Nat
          /\ Len(Pg(e).cells) \in Nat
      BY <1>6, PageTyped DEF IndInv
    <2>4. cExpected >= Pg(e).first
      <3>1. cExpected - Pg(e).first \in 0 .. (Len(Pg(e).cells) - 1)
        BY <1>3, <1>4 DEF InPage
      <3> QED  BY <2>3, <3>1, ConsumerKnows
    <2>5. cEpochCommitted <= Len(Pg(cEpoch).cells) /\ Pg(cEpoch).first + cEpochCommitted = cExpected
      BY DEF IndInv, StreamInv
    <2>6. PICK f \in Nat, l \in Nat, c \in Nat :
            f = Pg(cEpoch).first /\ l = Len(Pg(cEpoch).cells) /\ c = cEpochCommitted
      BY <2>3, ConsumerKnows
    <2>7. c <= l /\ cExpected = f + c /\ cExpected >= f + l
      <3>1. c <= l /\ cExpected = f + c
        BY <2>5, <2>6
      <3>2. PICK g \in Nat : g = Pg(e).first
        BY <2>3
      <3>3. g >= f + l /\ cExpected >= g /\ cExpected \in Nat
        BY <2>2, <2>4, <2>6, <3>2, ConsumerKnows
      <3> QED  BY <3>1, <3>3
    <2> QED  BY <2>6, <2>7
  <1>11. ASSUME FramesFitAPage \/ Pool = 2  PROVE e <= cEpoch + 1
    <2>1. CASE Pool = 2
      BY <1>6, <2>1
    <2>2. CASE FramesFitAPage
      <3> SUFFICES ASSUME ~(e <= cEpoch + 1)  PROVE FALSE
        OBVIOUS
      <3>1. /\ e \in (cEpoch + 1 + 1) .. pEpoch /\ cEpoch + 1 \in cEpoch .. (pEpoch - 1)
            /\ cEpoch + 1 \in cEpoch .. pEpoch /\ cEpoch \in cEpoch .. pEpoch
            /\ cEpoch + 1 \in (cEpoch + 1) .. pEpoch
        BY <1>6
      <3>2. Pg(cEpoch + 1).cells # <<>>
        BY <2>2, <3>1 DEF IndInv, PageInv
      <3>3. Pg(e).first >= Pg(cEpoch + 1).first + Len(Pg(cEpoch + 1).cells)
        BY <3>1, FirstsGrow
      <3>4. Pg(cEpoch + 1).first >= Pg(cEpoch).first + Len(Pg(cEpoch).cells)
        BY <3>1, FirstsGrow
      <3>5. /\ Pg(e).first \in Nat /\ Pg(cEpoch).first \in Nat /\ Pg(cEpoch + 1).first \in Nat
            /\ Len(Pg(cEpoch).cells) \in Nat /\ Len(Pg(cEpoch + 1).cells) \in Nat
            /\ Pg(cEpoch + 1).cells \in Seq(Descriptors) /\ Len(Pg(e).cells) \in Nat
        BY <1>6, PageTyped DEF IndInv
      <3>6. Len(Pg(cEpoch + 1).cells) > 0
        BY <3>2, <3>5, EmptySeq
      <3>7. cExpected >= Pg(e).first
        <4>1. cExpected - Pg(e).first \in 0 .. (Len(Pg(e).cells) - 1)
          BY <1>3, <1>4 DEF InPage
        <4> QED  BY <3>5, <4>1, ConsumerKnows
      <3>8. cEpochCommitted <= Len(Pg(cEpoch).cells) /\ Pg(cEpoch).first + cEpochCommitted = cExpected
        BY DEF IndInv, StreamInv
      <3>9. PICK a \in Nat, b \in Nat : a = Pg(cEpoch).first + Len(Pg(cEpoch).cells)
                                        /\ b = Pg(cEpoch + 1).first
        BY <3>5
      <3>10. b >= a /\ cExpected <= a
        <4>1. cExpected <= a
          <5>1. PICK f \in Nat, l \in Nat, c \in Nat :
                  f = Pg(cEpoch).first /\ l = Len(Pg(cEpoch).cells) /\ c = cEpochCommitted
            BY <3>5, ConsumerKnows
          <5>2. c <= l /\ cExpected = f + c /\ a = f + l
            BY <3>8, <3>9, <5>1
          <5> QED  BY <5>2
        <4> QED  BY <3>4, <3>9, <4>1
      <3>11. Pg(e).first > b
        BY <3>3, <3>5, <3>6, <3>9
      <3> QED  BY <3>5, <3>7, <3>10, <3>11, ConsumerKnows
    <2> QED  BY <1>11, <2>1, <2>2
  <1>12. d.gen # GenOf(cEpoch) /\ d.gen # GenOf(cEpoch + 1) => ~(FramesFitAPage \/ Pool = 2)
    <2>1. d.gen # GenOf(cEpoch) /\ d.gen # GenOf(cEpoch + 1) => ~(e <= cEpoch + 1)
      BY <1>4, <1>6, <1>8
    <2> QED  BY <1>11, <2>1
  <1>13. ConsumerInv'
    <2>0. /\ ring' = ring /\ pages' = pages /\ cEpoch' = cEpoch /\ pEpoch' = pEpoch
          /\ cEpochCommitted' = cEpochCommitted /\ terminal' = terminal
      BY <1>2 DEF sharedEnds, producerVars
    <2>1. CASE cPc' = "resolve"
      <3>1. cClaim' = d /\ cState' = "Open" /\ InPage(d, cEpoch)
        BY <1>2, <1>4, <1>5, <1>7, <2>1
      <3>2. InPage(cClaim, cEpoch)'
        BY <2>0, <3>1 DEF InPage, Pg
      <3> QED
        BY <1>1, <1>2, <2>0, <2>1, <3>1, <3>2 DEF IndInv, ConsumerInv, ConsumerFaults
    <2>2. CASE cPc' = "boundary"
      <3>1. /\ cClaim' = d /\ cState' = "Open" /\ InPage(d, cEpoch + 1) /\ e = cEpoch + 1
            /\ cEpoch < pEpoch
        BY <1>2, <1>4, <1>5, <1>6, <1>9, <2>2
      <3>2. InPage(cClaim, cEpoch + 1)'
        BY <2>0, <3>1 DEF InPage, Pg
      <3>3. cEpochCommitted' = Len(Pg(cEpoch)'.cells)
        BY <1>6, <1>10, <2>0, <3>1 DEF Pg
      <3> QED
        BY <1>1, <1>2, <2>0, <2>2, <3>1, <3>2, <3>3 DEF IndInv, ConsumerInv, ConsumerFaults
    <2>3. CASE cPc' = "idle"
      BY <1>2, <1>5, <1>12, <2>0, <2>3 DEF IndInv, ConsumerInv, FramesFitAPage
    <2> QED  BY <1>5, <2>1, <2>2, <2>3
  <1>14. cPc' \in ConsumerPcs /\ cClaim' \in Descriptors \cup {NoClaim}
         /\ {ringAbandoned', handoffAbandoned'} \subseteq BOOLEAN
    BY <1>2, <1>5, ConsumerKnows DEF ConsumerPcs
  <1>15. released' \in Nat /\ released <= released' /\ cSlot' \in Slots \cup {NoSlot}
    BY <1>2, ConsumerKnows
  <1> QED
    BY <1>2, <1>13, <1>14, <1>15, ConsumerQuiet

LEMMA CheckSealedStep == ASSUME IndInv, CheckSealed PROVE IndInv'
  <1>1. cPc = "boundary" /\ page = Pg(cEpoch) /\ cEpoch < pEpoch
        /\ cEpochCommitted = Len(Pg(cEpoch).cells)
    BY DEF CheckSealed, IndInv, ConsumerInv, page, Pg
  <1>2. Pg(cEpoch).closed
    <2>1. cEpoch \in cEpoch .. (pEpoch - 1)
      BY <1>1, ConsumerKnows
    <2> QED  BY <2>1 DEF IndInv, PageInv
  <1>3. /\ UNCHANGED <<pages, ring, handoff, sharedEnds, producerVars, cEpoch, cExpected,
                       cEpochCommitted, cTotal>>
        /\ released' = released /\ handoffAbandoned' = handoffAbandoned /\ cSlot' = cSlot
    BY DEF CheckSealed
  <1>4. cPc' = "pop_reader" /\ cState' = cState /\ cClaim' = cClaim /\ ringAbandoned' = ringAbandoned
    BY <1>1, <1>2 DEF CheckSealed
  <1>5. ConsumerInv'
    <2>1. InPage(cClaim, cEpoch + 1)' <=> InPage(cClaim, cEpoch + 1)
      BY <1>3, <1>4 DEF InPage, Pg
    <2>2. pEpoch' = pEpoch /\ terminal' = terminal /\ Pg(cEpoch)' = Pg(cEpoch)
      BY <1>3 DEF sharedEnds, producerVars, Pg
    <2> QED
      BY <1>1, <1>3, <1>4, <2>1, <2>2 DEF IndInv, ConsumerInv
  <1>6. cPc' \in ConsumerPcs
    BY <1>4 DEF ConsumerPcs
  <1>7. released <= released'
    BY <1>3, ConsumerKnows
  <1> QED
    BY <1>3, <1>4, <1>5, <1>6, <1>7, ConsumerKnows, ConsumerQuiet

\* Past a boundary the ring holds no frame of the page left behind.
LEMMA PopReaderStep == ASSUME IndInv, PopReader PROVE IndInv'
  <1>1. /\ cPc = "pop_reader" /\ cState = "Open" /\ ring # <<>> /\ cClaim = Head(ring)
        /\ cEpoch < pEpoch /\ InPage(cClaim, cEpoch + 1)
        /\ cEpochCommitted = Len(Pg(cEpoch).cells)
    BY DEF PopReader, IndInv, ConsumerInv
  <1>2. PICK n \in Nat : n = cEpoch + 1
    BY ConsumerKnows
  <1>3. /\ cEpoch \in Nat /\ pEpoch \in Nat /\ Pool \in Nat /\ cEpoch < n /\ n <= pEpoch
        /\ n \in cEpoch .. pEpoch /\ cEpoch \in cEpoch .. (pEpoch - 1)
        /\ pEpoch < n + Pool /\ SlotOf(n) \in Slots
    <2>1. cEpoch \in Nat /\ pEpoch \in Nat /\ Pool \in Nat /\ pEpoch < cEpoch + Pool
      BY ConsumerKnows
    <2>2. SlotOf(n) \in Slots
      BY SlotFacts
    <2> QED  BY <1>1, <1>2, <2>1, <2>2
  <1>4. /\ handoff \in Seq(Slots) /\ Len(handoff) = pEpoch - cEpoch /\ Len(handoff) \in Nat
        /\ \A i \in 1 .. Len(handoff) : handoff[i] = SlotOf(cEpoch + i)
    BY LenProperties DEF IndInv, TypeOK, EpochInv
  <1>5. /\ handoff # <<>> /\ Head(handoff) = SlotOf(n) /\ Tail(handoff) \in Seq(Slots)
        /\ Len(Tail(handoff)) = Len(handoff) - 1
        /\ \A i \in 1 .. Len(Tail(handoff)) : Tail(handoff)[i] = handoff[i + 1]
    <2>1. Len(handoff) > 0 /\ 1 \in 1 .. Len(handoff)
      BY <1>1, <1>3, <1>4
    <2>2. handoff # <<>>
      BY <2>1, <1>4
    <2> QED  BY <1>2, <1>4, <2>1, <2>2, HeadTailProperties
  <1>6. PageOK(Pg(n), n) /\ Pg(n).first = Pg(cEpoch).first + Len(Pg(cEpoch).cells)
    BY <1>2, <1>3 DEF IndInv, PageInv
  <1>7. pages[Head(handoff)].gen = GenOf(cEpoch + 1)
    BY <1>2, <1>5, <1>6 DEF PageOK, Pg
  <1>8. /\ handoff' = Tail(handoff) /\ cPc' = "release" /\ cSlot' = SlotOf(n) /\ cEpoch' = n
        /\ cEpochCommitted' = 0 /\ cState' = cState /\ cClaim' = cClaim
        /\ ringAbandoned' = ringAbandoned
    BY <1>2, <1>5, <1>7 DEF PopReader
  <1>9. /\ pages' = pages /\ ring' = ring /\ ringClosed' = ringClosed /\ terminal' = terminal
        /\ handoffClosed' = handoffClosed /\ handoffAbandoned' = handoffAbandoned
        /\ released' = released /\ cExpected' = cExpected /\ cTotal' = cTotal /\ pPc' = pPc
        /\ pLen' = pLen /\ pEpoch' = pEpoch /\ pEnd' = pEnd /\ pResult' = pResult
    BY DEF PopReader, sharedEnds, producerVars
  <1>10. \A e : Pg(e)' = Pg(e)
    BY <1>9 DEF Pg
  <1>11. Appended' = Appended /\ Pg(pEpoch)' = Pg(pEpoch) /\ Pg(pEpoch + 1)' = Pg(pEpoch + 1)
         /\ Pg(cEpoch)' = Pg(n)
    BY <1>8, <1>9 DEF Appended, Pg
  <1>12. EpochInv'
    <2>1. ASSUME NEW i \in 1 .. Len(handoff')  PROVE handoff'[i] = SlotOf(n + i)
      <3>1. i + 1 \in 1 .. Len(handoff) /\ cEpoch + (i + 1) = n + i
        <4>1. Len(handoff') = Len(handoff) - 1
          BY <1>5, <1>8
        <4> QED  BY <1>2, <1>3, <1>4, <4>1
      <3> QED  BY <1>4, <1>5, <1>8, <3>1
    <2>2. Len(handoff') = pEpoch - n
      BY <1>2, <1>3, <1>4, <1>5, <1>8
    <2> QED
      BY <1>3, <1>8, <1>9, <2>1, <2>2 DEF IndInv, EpochInv
  <1>13. TypeOK'
    <2>1. Len(handoff') < Pool
      BY <1>4, <1>5, <1>8, <1>3 DEF IndInv, TypeOK
    <2> QED
      BY <1>3, <1>5, <1>8, <1>9, <2>1 DEF IndInv, TypeOK, ConsumerPcs
  <1>14. PageInv'
    <2>1. n .. pEpoch \subseteq cEpoch .. pEpoch /\ n .. (pEpoch - 1) \subseteq cEpoch .. (pEpoch - 1)
      BY <1>3
    <2> QED
      BY <1>8, <1>9, <1>10, <2>1 DEF IndInv, PageInv
  <1>15. StreamInv'
    <2>1. Pg(cEpoch).first + cEpochCommitted = cExpected /\ cTotal = cExpected
          /\ Appended - (cExpected + Len(ring)) \in {0, 1}
      BY DEF IndInv, StreamInv
    <2>2. /\ Pg(n).first \in Nat /\ Len(Pg(n).cells) \in Nat /\ Pg(cEpoch).first \in Nat
          /\ Len(Pg(cEpoch).cells) \in Nat
      BY <1>3, PageTyped DEF IndInv
    <2>3. Pg(n).first + 0 = cExpected /\ 0 <= Len(Pg(n).cells)
      BY <1>1, <1>6, <2>1, <2>2
    <2>4. ASSUME NEW i \in 1 .. Len(ring)
          PROVE  ring[i].seq = cExpected + i - 1 /\ \E e \in n .. pEpoch : InPage(ring[i], e)
      <3>1. ring[i].seq = cExpected + i - 1
        BY DEF IndInv, StreamInv
      <3>2. PICK e \in cEpoch .. pEpoch : InPage(ring[i], e)
        BY DEF IndInv, StreamInv
      <3>3. e # cEpoch
        <4> SUFFICES ASSUME e = cEpoch  PROVE FALSE
          OBVIOUS
        <4>1. ring[i].seq - Pg(cEpoch).first <= Len(Pg(cEpoch).cells) - 1
          BY <3>2 DEF InPage
        <4>2. PICK f \in Nat, l \in Nat : f = Pg(cEpoch).first /\ l = Len(Pg(cEpoch).cells)
          BY <2>2
        <4>3. cExpected = f + l /\ cExpected \in Nat
          BY <1>1, <2>1, <4>2, ConsumerKnows
        <4>4. ring[i].seq >= cExpected /\ ring[i].seq \in Int
          BY <3>1, <4>3, ConsumerKnows
        <4> QED  BY <4>1, <4>2, <4>3, <4>4
      <3>4. e \in n .. pEpoch
        BY <1>2, <1>3, <3>3
      <3> QED  BY <3>1, <3>2, <3>4
    <2> QED
      BY <1>8, <1>9, <1>10, <1>11, <2>1, <2>3, <2>4 DEF StreamInv, InPage
  <1>16. ProducerInv'
    <2>1. Len(handoff) < Pool => Len(handoff') < Pool
      BY <1>3, <1>4, <1>5, <1>8
    <2> QED
      BY <1>9, <1>11, <2>1 DEF IndInv, ProducerInv
  <1>17. ConsumerInv'
    <2>1. InPage(cClaim, cEpoch)'
      BY <1>1, <1>2, <1>8, <1>9 DEF InPage, Pg
    <2>2. released <= n
      <3>1. released <= cEpoch /\ released \in Nat
        BY <1>1, ConsumerKnows DEF IndInv, ConsumerInv
      <3> QED  BY <1>3, <3>1
    <2> QED
      BY <1>1, <1>8, <1>9, <2>1, <2>2 DEF IndInv, ConsumerInv, ConsumerFaults
  <1> QED
    BY <1>12, <1>13, <1>14, <1>15, <1>16, <1>17 DEF IndInv

LEMMA ReleasePageStep == ASSUME IndInv, ReleasePage PROVE IndInv'
  <1>1. /\ UNCHANGED <<pages, ring, handoff, sharedEnds, producerVars, cEpoch, cExpected,
                       cEpochCommitted, cTotal>>
        /\ released' = cEpoch /\ handoffAbandoned' = handoffAbandoned /\ cSlot' = cSlot
        /\ ringAbandoned' = ringAbandoned /\ cClaim' = cClaim /\ cState' = cState
        /\ cPc = "release" /\ cPc' = "resolve"
    BY DEF ReleasePage
  <1>2. released <= cEpoch /\ cEpoch <= cEpoch
    BY <1>1, ConsumerKnows DEF IndInv, ConsumerInv
  <1>3. ConsumerInv'
    <2>1. InPage(cClaim, cEpoch)' <=> InPage(cClaim, cEpoch)
      BY <1>1 DEF InPage, Pg
    <2>2. pEpoch' = pEpoch /\ terminal' = terminal
      BY <1>1 DEF sharedEnds, producerVars
    <2> QED
      BY <1>1, <1>2, <2>1, <2>2 DEF IndInv, ConsumerInv
  <1>4. cPc' \in ConsumerPcs
    BY <1>1 DEF ConsumerPcs
  <1> QED
    BY <1>1, <1>2, <1>3, <1>4, ConsumerKnows, ConsumerQuiet

\* The frame a consumer has claimed is in its page, byte for byte.
LEMMA ClaimResolves ==
  ASSUME IndInv, cPc \in {"resolve", "lease"}
  PROVE  Resolves(cClaim)
  <1>1. /\ InPage(cClaim, cEpoch) /\ page = Pg(cEpoch) /\ ring # <<>> /\ cClaim = Head(ring)
    BY DEF IndInv, ConsumerInv, page, Pg
  <1>2. PICK d \in Descriptors : d = cClaim
    BY <1>1, HeadOfRing
  <1>3. /\ PageOK(Pg(cEpoch), cEpoch) /\ Pg(cEpoch).first \in Nat /\ Len(Pg(cEpoch).cells) \in Nat
    <2>1. cEpoch \in cEpoch .. pEpoch /\ cEpoch \in Nat
      BY ConsumerKnows
    <2> QED  BY <2>1, PageTyped DEF IndInv, PageInv
  <1>4. PICK k \in 1 .. Len(Pg(cEpoch).cells) : k = d.seq - Pg(cEpoch).first + 1
    <2>1. d.seq \in Nat
      BY DescriptorTyped
    <2> QED  BY <1>1, <1>2, <1>3, <2>1 DEF InPage
  <1>5. Pg(cEpoch).cells[k] = d
    BY <1>1, <1>2, <1>4 DEF InPage
  <1>6. d.gen = Pg(cEpoch).gen /\ d.offset + d.len <= Pg(cEpoch).bytes
    BY <1>3, <1>5 DEF PageOK
  <1> QED
    BY <1>1, <1>2, <1>6 DEF Resolves, InPage

LEMMA ResolveStep == ASSUME IndInv, Resolve PROVE IndInv'
  <1>1. Resolves(cClaim)
    BY ClaimResolves DEF Resolve
  <1>2. /\ UNCHANGED <<pages, ring, handoff, sharedEnds, producerVars, cEpoch, cExpected,
                       cEpochCommitted, cTotal>>
        /\ released' = released /\ handoffAbandoned' = handoffAbandoned /\ cSlot' = cSlot
        /\ ringAbandoned' = ringAbandoned /\ cClaim' = cClaim /\ cState' = cState
        /\ cPc = "resolve" /\ cPc' = "lease"
    BY <1>1 DEF Resolve
  <1>3. ConsumerInv'
    <2>1. InPage(cClaim, cEpoch)' <=> InPage(cClaim, cEpoch)
      BY <1>2 DEF InPage, Pg
    <2>2. pEpoch' = pEpoch /\ terminal' = terminal
      BY <1>2 DEF sharedEnds, producerVars
    <2> QED
      BY <1>2, <2>1, <2>2 DEF IndInv, ConsumerInv
  <1>4. cPc' \in ConsumerPcs /\ released <= released'
    BY <1>2, ConsumerKnows DEF ConsumerPcs
  <1> QED
    BY <1>2, <1>3, <1>4, ConsumerKnows, ConsumerQuiet

\* A lease given back, and the three steps of dropping the consumer.
LEMMA DropSteps ==
  ASSUME IndInv, DropLease \/ DropConsumer \/ DropHandoff \/ DropReader
  PROVE  IndInv'
  <1>1. /\ UNCHANGED <<pages, ring, handoff, sharedEnds, producerVars, cEpoch, cExpected,
                       cEpochCommitted, cTotal>>
        /\ released' = released /\ cState' = cState
        /\ cPc # "dropped"
        /\ ringAbandoned' \in {ringAbandoned, TRUE} /\ handoffAbandoned' \in {handoffAbandoned, TRUE}
        /\ cClaim' \in {cClaim, NoClaim}
        /\ \/ cPc' \in {"idle", "drop_handoff", "drop_reader"} /\ cSlot' = cSlot
           \/ cPc' = "dropped" /\ cSlot' = NoSlot
    BY DEF DropLease, DropConsumer, DropHandoff, DropReader
  <1>2. ConsumerInv'
    <2>1. pEpoch' = pEpoch /\ terminal' = terminal
      BY <1>1 DEF sharedEnds, producerVars
    <2> QED
      BY <1>1, <2>1 DEF IndInv, ConsumerInv
  <1>3. /\ cPc' \in ConsumerPcs /\ released <= released' /\ cSlot' \in Slots \cup {NoSlot}
        /\ cClaim' \in Descriptors \cup {NoClaim}
        /\ {ringAbandoned', handoffAbandoned'} \subseteq BOOLEAN
    <2>1. cPc' \in ConsumerPcs /\ cSlot' \in Slots \cup {NoSlot}
      BY <1>1, ConsumerKnows DEF ConsumerPcs
    <2>2. cClaim' \in Descriptors \cup {NoClaim} /\ released <= released'
      BY <1>1, ConsumerKnows
    <2>3. {ringAbandoned', handoffAbandoned'} \subseteq BOOLEAN
      BY <1>1, ConsumerKnows
    <2> QED  BY <2>1, <2>2, <2>3
  <1> QED
    BY <1>1, <1>2, <1>3, ConsumerKnows, ConsumerQuiet

LEMMA CommitStep == ASSUME IndInv, Commit PROVE IndInv'
  <1>1. /\ cPc = "lease" /\ cState = "Open" /\ ring # <<>> /\ cClaim = Head(ring)
        /\ InPage(cClaim, cEpoch)
    BY DEF Commit, IndInv, ConsumerInv
  <1>2. cClaim \in Descriptors /\ cClaim.seq = cExpected
    BY <1>1, HeadOfRing
  <1>3. PICK x \in Nat : x = cExpected + 1
    BY ConsumerKnows
  <1>4. /\ ring' = Tail(ring) /\ cExpected' = x /\ cEpochCommitted' = cEpochCommitted + 1
        /\ cTotal' = cTotal + 1 /\ cClaim' = NoClaim /\ cPc' = "idle"
    BY <1>2, <1>3 DEF Commit
  <1>5. /\ pages' = pages /\ handoff' = handoff /\ ringClosed' = ringClosed /\ terminal' = terminal
        /\ handoffClosed' = handoffClosed /\ handoffAbandoned' = handoffAbandoned
        /\ ringAbandoned' = ringAbandoned /\ released' = released /\ cSlot' = cSlot
        /\ cEpoch' = cEpoch /\ cState' = cState /\ pPc' = pPc
        /\ pLen' = pLen /\ pEpoch' = pEpoch /\ pEnd' = pEnd /\ pResult' = pResult
    BY DEF Commit, sharedEnds, producerVars
  <1>6. /\ Tail(ring) \in Seq(Descriptors) /\ Len(Tail(ring)) = Len(ring) - 1 /\ Len(ring) \in Nat
        /\ \A i \in 1 .. Len(Tail(ring)) : Tail(ring)[i] = ring[i + 1]
        /\ Len(ring) > 0
    BY <1>1, ConsumerKnows, HeadTailProperties, EmptySeq
  <1>7. \A e : Pg(e)' = Pg(e)
    BY <1>5 DEF Pg
  <1>8. Appended' = Appended /\ Pg(pEpoch)' = Pg(pEpoch) /\ Pg(pEpoch + 1)' = Pg(pEpoch + 1)
        /\ Pg(cEpoch)' = Pg(cEpoch)
    BY <1>5 DEF Appended, Pg
  <1>9. x + Len(ring') = cExpected + Len(ring) /\ Len(ring') <= Len(ring)
    <2>1. Len(ring') = Len(ring) - 1
      BY <1>4, <1>6
    <2>2. cExpected \in Nat
      BY ConsumerKnows
    <2> QED  BY <1>3, <1>6, <2>1, <2>2
  <1>10. x <= MaxFrames /\ cTotal = cExpected
    <2>1. /\ Appended <= MaxFrames /\ Appended - (cExpected + Len(ring)) \in {0, 1}
          /\ cTotal = cExpected
      BY DEF IndInv, ProducerInv, StreamInv
    <2>2. PICK k \in Nat, c \in Nat, a \in Nat : k = Len(ring) /\ c = cExpected /\ a = Appended
      BY ConsumerKnows
    <2>3. c + k <= a /\ k > 0 /\ a <= MaxFrames
      BY <1>6, <2>1, <2>2
    <2> QED  BY <1>3, <2>1, <2>2, <2>3, FrameAssumption
  <1>11. TypeOK'
    <2>1. cExpected' \in 0 .. MaxFrames /\ cTotal' \in 0 .. MaxFrames
      BY <1>3, <1>4, <1>10, FrameAssumption
    <2>2. Len(ring') <= RingCapacity
      BY <1>4, <1>6, <1>9, RingAssumption DEF IndInv, TypeOK
    <2>3. cEpochCommitted' \in Nat
      BY <1>4, ConsumerKnows
    <2> QED
      BY <1>4, <1>5, <1>6, <2>1, <2>2, <2>3 DEF IndInv, TypeOK, ConsumerPcs
  <1>12. EpochInv' /\ PageInv'
    BY <1>5, <1>7 DEF IndInv, EpochInv, PageInv
  <1>13. StreamInv'
    <2>1. cEpochCommitted + 1 <= Len(Pg(cEpoch).cells) /\ Pg(cEpoch).first + (cEpochCommitted + 1) = x
      <3>1. PICK f \in Nat, l \in Nat, c \in Nat :
              f = Pg(cEpoch).first /\ l = Len(Pg(cEpoch).cells) /\ c = cEpochCommitted
        BY ConsumerKnows, PageTyped DEF IndInv
      <3>2. f + c = cExpected
        BY <3>1 DEF IndInv, StreamInv
      <3>3. cExpected - f <= l - 1
        BY <1>1, <1>2, <3>1 DEF InPage
      <3>4. c + 1 <= l /\ f + (c + 1) = x
        BY <1>3, <3>2, <3>3
      <3> QED  BY <3>1, <3>4
    <2>2. ASSUME NEW i \in 1 .. Len(ring')
          PROVE  ring'[i].seq = x + i - 1 /\ \E e \in cEpoch .. pEpoch : InPage(ring'[i], e)
      <3>1. i + 1 \in 1 .. Len(ring) /\ ring'[i] = ring[i + 1]
        BY <1>4, <1>6
      <3>2. ring[i + 1].seq = cExpected + (i + 1) - 1 /\ \E e \in cEpoch .. pEpoch : InPage(ring[i + 1], e)
        BY <3>1 DEF IndInv, StreamInv
      <3>3. cExpected + (i + 1) - 1 = x + i - 1
        BY <1>3, ConsumerKnows
      <3> QED  BY <3>1, <3>2, <3>3
    <2>3. Appended' - (x + Len(ring')) \in {0, 1}
      BY <1>8, <1>9 DEF IndInv, StreamInv
    <2>4. cTotal' = x
      BY <1>3, <1>4, <1>10
    <2> QED
      BY <1>4, <1>5, <1>7, <1>8, <2>1, <2>2, <2>3, <2>4 DEF StreamInv, InPage
  <1>14. ProducerInv'
    <2>1. Len(ring) < RingCapacity => Len(ring') < RingCapacity
      BY <1>4, <1>6, RingAssumption
    <2> QED
      BY <1>4, <1>5, <1>8, <1>9, <2>1 DEF IndInv, ProducerInv
  <1>15. ConsumerInv'
    BY <1>1, <1>4, <1>5 DEF IndInv, ConsumerInv
  <1> QED
    BY <1>11, <1>12, <1>13, <1>14, <1>15 DEF IndInv

LEMMA ClassifyEndStep == ASSUME IndInv, ClassifyEnd PROVE IndInv'
  <1>1. /\ UNCHANGED <<pages, ring, handoff, sharedEnds, producerVars, cEpoch, cExpected,
                       cEpochCommitted, cTotal>>
        /\ handoffAbandoned' = handoffAbandoned /\ cSlot' = cSlot
        /\ ringAbandoned' = ringAbandoned /\ cClaim' = cClaim /\ cState' = EndVerdict
        /\ released' = IF EndVerdict = "CleanEnd" THEN cEpoch + 1 ELSE released
        /\ cPc = "idle" /\ cPc' = cPc /\ cState = "Open" /\ ring = <<>> /\ ringClosed
    BY DEF ClassifyEnd
  <1>2. pPc \in {"close_handoff", "finished"} /\ Pg(pEpoch).closed /\ terminal = pEnd
        /\ pEnd \in {"CLEAN", "FAULTED"}
    BY <1>1 DEF IndInv, ProducerInv, TypeOK, Closing
  <1>3. page = Pg(cEpoch)
    BY <1>1 DEF IndInv, ConsumerInv, page, Pg
  <1>4. Pg(cEpoch).closed
    <2>1. CASE cEpoch = pEpoch
      BY <1>2, <2>1
    <2>2. CASE cEpoch # pEpoch
      <3>1. cEpoch \in cEpoch .. (pEpoch - 1)
        BY <2>2, ConsumerKnows
      <3> QED  BY <3>1 DEF IndInv, PageInv
    <2> QED  BY <2>1, <2>2
  \* A frame left in the page was never published, so the producer did not finish.
  <1>5. Len(Pg(cEpoch).cells) # cEpochCommitted =>
          Len(Pg(cEpoch).cells) > cEpochCommitted /\ terminal = "FAULTED"
    <2> SUFFICES ASSUME Len(Pg(cEpoch).cells) # cEpochCommitted
                 PROVE  Len(Pg(cEpoch).cells) > cEpochCommitted /\ terminal = "FAULTED"
      OBVIOUS
    <2>1. PICK f \in Nat, l \in Nat, c \in Nat :
            f = Pg(cEpoch).first /\ l = Len(Pg(cEpoch).cells) /\ c = cEpochCommitted
      BY ConsumerKnows, PageTyped DEF IndInv
    <2>2. c <= l /\ f + c = cExpected
      BY <2>1 DEF IndInv, StreamInv
    <2>3. Appended >= f + l
      <3>1. CASE cEpoch = pEpoch
        BY <2>1, <3>1 DEF Appended
      <3>2. CASE cEpoch # pEpoch
        <4>1. cEpoch \in cEpoch .. pEpoch /\ pEpoch \in (cEpoch + 1) .. pEpoch /\ pEpoch \in Nat
          BY <3>2, ConsumerKnows
        <4>2. Pg(pEpoch).first >= f + l
          BY <2>1, <4>1, FirstsGrow
        <4>3. Pg(pEpoch).first \in Nat /\ Len(Pg(pEpoch).cells) \in Nat
          BY <4>1, PageTyped DEF IndInv
        <4> QED  BY <4>2, <4>3 DEF Appended
      <3> QED  BY <3>1, <3>2
    <2>4. pEnd # "FAULTED" => Appended = cExpected + 0
      <3>1. Len(ring) = 0
        BY <1>1
      <3> QED  BY <1>2, <3>1 DEF IndInv, ProducerInv
    <2>5. c < l
      BY <2>1, <2>2
    <2>6. pEnd = "FAULTED"
      <3> SUFFICES ASSUME pEnd # "FAULTED" PROVE FALSE
        OBVIOUS
      <3>1. f + c >= f + l
        BY <2>2, <2>3, <2>4, ConsumerKnows
      <3> QED  BY <2>5, <3>1
    <2> QED  BY <1>2, <2>1, <2>5, <2>6
  <1>6. /\ EndVerdict \in {"OrphanedPublishedPrefix", "CleanEnd", "ProducerFaulted"}
        /\ EndVerdict = "CleanEnd" => terminal = "CLEAN"
    BY <1>2, <1>3, <1>4, <1>5 DEF EndVerdict
  <1>7. released <= cEpoch /\ released' \in Nat /\ released <= released'
        /\ (EndVerdict # "CleanEnd" => released' <= cEpoch)
    <2>1. released <= cEpoch
      BY <1>1 DEF IndInv, ConsumerInv
    <2> QED  BY <1>1, <2>1, ConsumerKnows
  <1>8. ConsumerInv'
    <2>1. pEpoch' = pEpoch /\ terminal' = terminal
      BY <1>1 DEF sharedEnds, producerVars
    <2> QED
      BY <1>1, <1>6, <1>7, <2>1 DEF IndInv, ConsumerInv, ConsumerFaults
  <1>9. cPc' \in ConsumerPcs
    BY <1>1 DEF ConsumerPcs
  <1> QED
    BY <1>1, <1>7, <1>8, <1>9, ConsumerKnows, ConsumerQuiet

-----------------------------------------------------------------------------
(* The invariant holds. *)

LEMMA InitIndInv == Init => IndInv
  <1> SUFFICES ASSUME Init  PROVE IndInv
    OBVIOUS
  <1>1. 0 \in Nat /\ SlotOf(0) \in Slots /\ SlotOf(0) = 0 /\ GenOf(0) = 0
        /\ Pool \in Nat /\ Pool > 0 /\ Slots \subseteq 0 .. (GenModulus - 1)
    <2>1. SlotOf(0) = 0 /\ GenOf(0) = 0
      <3>1. \A n \in Nat : n > 0 => 0 % n = 0
        <4> TAKE n \in Nat
        <4> HAVE n > 0
        <4> QED  BY SMT
      <3> QED  BY <3>1, PoolFacts DEF SlotOf, GenOf
    <2> QED  BY <2>1, PoolFacts, SlotFacts
  <1>2. pages = [s \in Slots |-> FreshPage(s, 0)] /\ pEpoch = 0 /\ cEpoch = 0
    BY DEF Init
  <1>3. ASSUME NEW s \in Slots
        PROVE  /\ pages[s] \in PageStates /\ Len(pages[s].cells) = 0 /\ pages[s].gen = s
               /\ pages[s].first = 0 /\ pages[s].cells = <<>> /\ pages[s].bytes = 0
    <2>1. s \in 0 .. (GenModulus - 1) /\ 0 \in 0 .. MaxFrames /\ 0 \in 0 .. ByteCapacity
      BY <1>1, FrameAssumption, PageAssumption
    <2>2. <<>> \in Seq(Descriptors) /\ Len(<<>>) = 0
      OBVIOUS
    <2> QED
      BY <1>2, <2>1, <2>2 DEF FreshPage, PageStates
  <1>4. Pg(0).gen = GenOf(0) /\ Pg(0).first = 0 /\ Pg(0).cells = <<>> /\ Pg(0).bytes = 0
        /\ Len(Pg(0).cells) = 0
    BY <1>1, <1>3 DEF Pg
  <1>5. Appended = 0
    BY <1>2, <1>4 DEF Appended
  <1>6. TypeOK
    <2>1. pages \in [Slots -> PageStates] /\ \A s \in Slots : Len(pages[s].cells) <= DescriptorCapacity
      BY <1>2, <1>3, PageAssumption
    <2>2. /\ ring \in Seq(Descriptors) /\ Len(ring) <= RingCapacity
          /\ handoff \in Seq(Slots) /\ Len(handoff) < Pool
      BY <1>1, RingAssumption DEF Init
    <2>3. cExpected \in 0 .. MaxFrames /\ cTotal \in 0 .. MaxFrames /\ cSlot \in Slots \cup {NoSlot}
      BY <1>1, FrameAssumption DEF Init
    <2> QED
      BY <2>1, <2>2, <2>3 DEF Init, TypeOK, ProducerPcs, ConsumerPcs
  <1>7. EpochInv
    BY <1>1 DEF Init, EpochInv
  <1>8. PageInv
    <2>1. PageOK(Pg(0), 0)
      BY <1>4 DEF PageOK
    <2>2. \A e \in cEpoch .. pEpoch : e = 0
      BY <1>2
    <2>3. cEpoch .. (pEpoch - 1) = {}
      BY <1>2
    <2> QED  BY <2>1, <2>2, <2>3 DEF PageInv
  <1>9. StreamInv
    <2>1. ring = <<>> /\ Len(ring) = 0 /\ cExpected = 0 /\ cEpochCommitted = 0 /\ cTotal = 0
      BY DEF Init
    <2>2. Pg(cEpoch).first = 0 /\ Len(Pg(cEpoch).cells) = 0
      BY <1>2, <1>4
    <2>3. 1 .. Len(ring) = {} /\ Appended - (cExpected + Len(ring)) = 0
      <3>1. PICK a \in Nat, c \in Nat, k \in Nat : a = Appended /\ c = cExpected /\ k = Len(ring)
                                              /\ a = 0 /\ c = 0 /\ k = 0
        BY <1>5, <2>1
      <3>2. 1 .. k = {} /\ a - (c + k) = 0
        BY <3>1
      <3> QED  BY <3>1, <3>2
    <2> QED  BY <2>1, <2>2, <2>3 DEF StreamInv
  <1>10. ProducerInv
    BY <1>5, FrameAssumption DEF Init, ProducerInv, Rotating, Closing, ProducerFaults
  <1>11. ConsumerInv
    BY <1>1 DEF Init, ConsumerInv, ConsumerFaults
  <1> QED
    BY <1>6, <1>7, <1>8, <1>9, <1>10, <1>11 DEF IndInv

LEMMA Inductive == IndInv /\ [Next]_vars => IndInv'
  <1> SUFFICES ASSUME IndInv, [Next]_vars  PROVE IndInv'
    OBVIOUS
  <1>1. CASE \E len \in Lengths : TryAdmit(len)
    BY <1>1, TryAdmitStep
  <1>2. CASE ProducerInCall
    BY <1>2, CheckQuotaStep, ReserveHandoffStep, SealStep, RebindStep, PublishReaderStep,
       ReserveRingStep, AppendFrameStep, PublishDescriptorStep, CloseSteps DEF ProducerInCall
  <1>3. CASE Unwind \/ Finish \/ DropProducer
    BY <1>3, BeginCloseStep
  <1>4. CASE AdmitPoisoned \/ Done \/ UNCHANGED vars
    BY <1>4, CloseSteps DEF Done
  <1>5. CASE TryNext
    BY <1>5, TryNextStep
  <1>6. CASE ConsumerInCall
    BY <1>6, CheckSealedStep, PopReaderStep, ReleasePageStep, ResolveStep, DropSteps
    DEF ConsumerInCall
  <1>7. CASE Commit
    BY <1>7, CommitStep
  <1>8. CASE DropLease \/ DropConsumer
    BY <1>8, DropSteps
  <1>9. CASE ClassifyEnd
    BY <1>9, ClassifyEndStep
  <1> QED
    BY <1>1, <1>2, <1>3, <1>4, <1>5, <1>6, <1>7, <1>8, <1>9 DEF Next

LEMMA IndInvHolds == Spec => []IndInv
  BY InitIndInv, Inductive, PTL DEF Spec

\* Every variable keeps its type, and no page, ring or handoff is ever over
\* its capacity.
THEOREM TypeCorrect == Spec => []TypeOK
  <1>1. IndInv => TypeOK
    BY DEF IndInv
  <1> QED  BY <1>1, IndInvHolds, PTL

\* Whatever the pool, page and ring sizes: the frames between the consumer's
\* cursor and the producer's are the ring, in order, plus at most one frame
\* appended and not yet published, so none is lost, duplicated or reordered
\* by a page rotation.
THEOREM StreamContiguous == Spec => []StreamIsContiguous
  <1>1. IndInv => StreamIsContiguous
    <2> SUFFICES ASSUME IndInv  PROVE StreamIsContiguous
      OBVIOUS
    <2>1. NextSequence = Appended
      BY DEF NextSequence, active, Appended, Pg
    <2>2. PICK u : u = Appended - (cExpected + Len(ring))
      OBVIOUS
    <2>3. u \in {0, 1} /\ \A i \in 1 .. Len(ring) : ring[i].seq = cExpected + i - 1
      BY <2>2 DEF IndInv, StreamInv
    <2>4. u = 1 => pPc = "publish" \/ pEnd = "FAULTED"
      <3> SUFFICES ASSUME pPc # "publish", pEnd # "FAULTED"  PROVE u = 0
        BY <2>3
      <3>1. Appended = cExpected + Len(ring)
        BY DEF IndInv, ProducerInv
      <3> QED  BY <2>2, <3>1, ConsumerKnows
    <2>5. cTotal = cExpected
      BY DEF IndInv, StreamInv
    <2> QED
      BY <2>1, <2>2, <2>3, <2>4, <2>5 DEF StreamIsContiguous
  <1> QED  BY <1>1, IndInvHolds, PTL

\* While the consumer holds a lease the page still holds that very
\* descriptor within its published bytes: rebind never touches it.
THEOREM LeaseStable == Spec => []LeaseIsStable
  <1>1. IndInv => LeaseIsStable
    BY ClaimResolves DEF LeaseIsStable
  <1> QED  BY <1>1, IndInvHolds, PTL

\* A clean end is reported only after finish, and only when the consumer
\* has committed every frame the producer admitted.
THEOREM CleanEndComplete == Spec => []CleanEndIsComplete
  <1>1. IndInv => CleanEndIsComplete
    <2> SUFFICES ASSUME IndInv, cState = "CleanEnd"
                 PROVE  pEnd = "CLEAN" /\ ring = <<>> /\ cTotal = NextSequence
      BY DEF CleanEndIsComplete
    <2>1. terminal = "CLEAN" /\ ring = <<>>
      BY DEF IndInv, ConsumerInv
    <2>2. pEnd = "CLEAN" /\ pPc # "publish"
      BY <2>1 DEF IndInv, ProducerInv
    <2>3. Appended = cExpected + 0
      <3>1. Len(ring) = 0
        BY <2>1
      <3> QED  BY <2>2, <3>1 DEF IndInv, ProducerInv
    <2>4. cTotal = Appended
      BY <2>3, ConsumerKnows DEF IndInv, StreamInv
    <2> QED
      BY <2>1, <2>2, <2>4 DEF NextSequence, active, Appended, Pg
  <1> QED  BY <1>1, IndInvHolds, PTL

\* With payloads that fit an empty page, or a pool of two, neither endpoint
\* ever reports one of its broken-invariant faults.
THEOREM NoUndeclaredFault ==
  ASSUME FramesFitAPage \/ Pool = 2
  PROVE  Spec => []OnlyDeclaredFaults
  <1>1. IndInv => OnlyDeclaredFaults
    BY DEF IndInv, ProducerInv, ConsumerInv, OnlyDeclaredFaults
  <1> QED  BY <1>1, IndInvHolds, PTL

\* Without that hypothesis the identity of the epoch is the only check of
\* the consumer that can fail, and no check of the producer can.
THEOREM FaultsOnlyFromOversize ==
  Spec => [](/\ cState \notin ConsumerFaults \ {"EpochIdentityMismatch"}
             /\ pResult \notin ProducerFaults)
  <1>1. IndInv => /\ cState \notin ConsumerFaults \ {"EpochIdentityMismatch"}
                  /\ pResult \notin ProducerFaults
    BY DEF IndInv, ProducerInv, ConsumerInv
  <1> QED  BY <1>1, IndInvHolds, PTL
=============================================================================
