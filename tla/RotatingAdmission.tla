------------------------- MODULE RotatingAdmission -------------------------
(***************************************************************************)
(* Page rotation over slab and ring: lib/event/src/rotating.rs on top of   *)
(* published_slab.rs.  A producer appends frames to the active page and    *)
(* publishes their descriptors on a ring; when the page is full it seals   *)
(* it, rebinds a free page of the pool and hands its reader over on a      *)
(* second ring.  A consumer leases frames in order, crosses page epochs    *)
(* and releases each page it is done with.                                 *)
(*                                                                         *)
(* The two rings are atomic bounded channels, which is what SpscRing is    *)
(* shown to implement.  Every other access to shared memory is a step.     *)
(* Frame bytes are abstracted to their length: two frames differ in their  *)
(* descriptor.                                                             *)
(***************************************************************************)
EXTENDS Integers, Sequences, FiniteSets, SequencesExt

CONSTANTS
  RingCapacity,        \* N
  Pool,                \* P, the number of pages
  DescriptorCapacity,  \* frames a page can hold
  ByteCapacity,        \* bytes a page can hold
  MaxFrameBytes,       \* MAX_FRAME_BYTES
  GenModulus,          \* 2^32, the range of arena_generation
  Lengths,             \* the payload lengths callers use
  MaxFrames            \* bound: frames admitted in a behaviour

ASSUME PoolAssumption == Pool \in Nat /\ \E k \in 1 .. Pool : Pool = 2^k
ASSUME RingAssumption == RingCapacity \in Nat /\ RingCapacity > 0
ASSUME PageAssumption == /\ DescriptorCapacity \in Nat /\ DescriptorCapacity > 0
                         /\ ByteCapacity \in Nat /\ ByteCapacity > 0
ASSUME GenAssumption == GenModulus \in Nat /\ GenModulus > Pool
ASSUME FrameAssumption == Lengths \subseteq Nat /\ MaxFrameBytes \in Nat /\ MaxFrames \in Nat

VARIABLES
  pages,             \* the pool: what each PublishedInner holds
  ring, ringClosed, ringAbandoned,           \* descriptors; closed by producer, consumer
  handoff, handoffClosed, handoffAbandoned,  \* page readers in transit
  released, terminal,
  pPc, pLen, pEpoch, pEnd, pResult,          \* RotatingProducer
  cPc, cSlot, cEpoch, cExpected, cEpochCommitted, cTotal, cClaim, cState
                                             \* RotatingConsumer

sharedEnds == <<ringClosed, handoffClosed, terminal>>
producerVars == <<pPc, pLen, pEpoch, pEnd, pResult>>
consumerVars == <<ringAbandoned, handoffAbandoned, released, cPc, cSlot, cEpoch,
                  cExpected, cEpochCommitted, cTotal, cClaim, cState>>
vars == <<pages, ring, handoff, sharedEnds, producerVars, consumerVars>>

Slots == 0 .. (Pool - 1)
SlotOf(epoch) == epoch % Pool
GenOf(epoch) == epoch % GenModulus
NoSlot == -1
NoClaim == [seq |-> -1, gen |-> -1, offset |-> 0, len |-> 0]

FreshPage(gen, first) ==
  [gen |-> gen, first |-> first, cells |-> <<>>, bytes |-> 0, closed |-> FALSE]

active == pages[SlotOf(pEpoch)]
NextSequence == active.first + Len(active.cells)

Init ==
  /\ pages = [s \in Slots |-> FreshPage(s, 0)]
  /\ ring = <<>> /\ handoff = <<>>
  /\ ringClosed = FALSE /\ handoffClosed = FALSE /\ terminal = "OPEN"
  /\ ringAbandoned = FALSE /\ handoffAbandoned = FALSE
  /\ released = 0
  /\ pPc = "idle" /\ pLen = 0 /\ pEpoch = 0 /\ pEnd = "OPEN" /\ pResult = "none"
  /\ cPc = "idle" /\ cSlot = 0 /\ cEpoch = 0 /\ cExpected = 0
  /\ cEpochCommitted = 0 /\ cTotal = 0 /\ cClaim = NoClaim /\ cState = "Open"

-----------------------------------------------------------------------------
(* Producer.                                                               *)

Return(result) == pPc' = "idle" /\ pResult' = result /\ UNCHANGED pEnd
Fault(result) == pPc' = "close_slab" /\ pResult' = result /\ pEnd' = "FAULTED"
Proceed(pc) == pPc' = pc /\ UNCHANGED <<pResult, pEnd>>

(* append_plan on page: whether a payload of this length fits. *)
Fits(page, len) ==
  /\ Len(page.cells) < DescriptorCapacity
  /\ page.bytes + len <= ByteCapacity

(* try_admit_inner up to the first preflight. *)
TryAdmit(len) ==
  /\ pPc = "idle"
  /\ NextSequence < MaxFrames
  /\ pLen' = len
  /\ IF len = 0 \/ len > MaxFrameBytes THEN Return("Slab")
     ELSE Proceed(IF Fits(active, len) THEN "reserve" ELSE "quota")
  /\ UNCHANGED <<pages, ring, handoff, sharedEnds, pEpoch, consumerVars>>

(* Mutant: one epoch too many may be live. *)
QuotaAllowsOneMore == pEpoch + 1 < Pool \/ released >= pEpoch + 1 - Pool
(* The successor's slot was never used, or its last epoch is released. *)
QuotaAllows == pEpoch + 1 < Pool \/ released >= pEpoch + 1 - Pool + 1

(* rotate: the quota. *)
CheckQuota ==
  /\ pPc = "quota"
  /\ IF QuotaAllows THEN Proceed("reserve_handoff")
     ELSE Return("PageQuotaExhausted")
  /\ UNCHANGED <<pages, ring, handoff, sharedEnds, pLen, pEpoch, consumerVars>>

(* rotate: a place for the new page's reader. *)
ReserveHandoff ==
  /\ pPc = "reserve_handoff"
  /\ IF handoffAbandoned THEN Return("ConsumerDisconnected")
     ELSE IF Len(handoff) >= Pool THEN Fault("HandoffInvariant")
     ELSE Proceed("seal")
  /\ UNCHANGED <<pages, ring, handoff, sharedEnds, pLen, pEpoch, consumerVars>>

(* rotate: PublishedSlabWriter::close on the active page. *)
Seal ==
  /\ pPc = "seal"
  /\ pages' = [pages EXCEPT ![SlotOf(pEpoch)].closed = TRUE]
  /\ Proceed("rebind")
  /\ UNCHANGED <<ring, handoff, sharedEnds, pLen, pEpoch, consumerVars>>

(* The pages some endpoint still refers to: Arc::get_mut fails on these. *)
Held == {SlotOf(pEpoch), cSlot} \cup ToSet(handoff)

(* rotate: rebind the successor's page in place. *)
Rebind ==
  /\ pPc = "rebind"
  /\ IF SlotOf(pEpoch + 1) \in Held
     THEN Fault("Rebind") /\ UNCHANGED pages
     ELSE /\ Proceed("publish_reader")
          /\ pages' = [pages EXCEPT ![SlotOf(pEpoch + 1)] =
                         FreshPage(GenOf(pEpoch + 1), NextSequence)]
  /\ UNCHANGED <<ring, handoff, sharedEnds, pLen, pEpoch, consumerVars>>

(* rotate: publish the reader, adopt the writer; then the second           *)
(* preflight of try_admit_inner.                                           *)
PublishReader ==
  /\ pPc = "publish_reader"
  /\ handoff' = Append(handoff, SlotOf(pEpoch + 1))
  /\ pEpoch' = pEpoch + 1
  /\ IF Fits(pages[SlotOf(pEpoch + 1)], pLen) THEN Proceed("reserve")
     ELSE Return("Slab")
  /\ UNCHANGED <<pages, ring, sharedEnds, pLen, consumerVars>>

(* admit_on_active: page and ring must agree on the frame's sequence, then *)
(* the descriptor ring's reservation, whose permit carries the ring's own. *)
RingSequence == cTotal + Len(ring)

ReserveRing ==
  /\ pPc = "reserve"
  /\ IF NextSequence # RingSequence THEN Fault("SequenceDiverged")
     ELSE IF ringAbandoned THEN Return("ConsumerDisconnected")
     ELSE IF Len(ring) >= RingCapacity THEN Return("RingFull")
     ELSE Proceed("append")
  /\ UNCHANGED <<pages, ring, handoff, sharedEnds, pLen, pEpoch, consumerVars>>

(* admit_on_active: try_append's Release publication of the frame. *)
AppendFrame ==
  /\ pPc = "append"
  /\ pages' = [pages EXCEPT
       ![SlotOf(pEpoch)].cells = Append(@, [seq |-> NextSequence,
            gen |-> active.gen, offset |-> active.bytes, len |-> pLen]),
       ![SlotOf(pEpoch)].bytes = @ + pLen]
  /\ Proceed("publish")
  /\ UNCHANGED <<ring, handoff, sharedEnds, pLen, pEpoch, consumerVars>>

(* Mutant: the reservation is cancelled after the frame was appended. *)
PublishNothing ==
  /\ pPc = "publish"
  /\ Return("Admitted")
  /\ UNCHANGED <<pages, ring, handoff, sharedEnds, pLen, pEpoch, consumerVars>>

(* admit_on_active: the descriptor becomes visible to the consumer. *)
PublishDescriptor ==
  /\ pPc = "publish"
  /\ ring' = Append(ring, Last(active.cells))
  /\ Return("Admitted")
  /\ UNCHANGED <<pages, handoff, sharedEnds, pLen, pEpoch, consumerVars>>

(* A panic inside try_admit, caught and turned into a faulted closure.     *)
(* The points are those of the code's fault injection.                     *)
Unwind ==
  /\ pPc \in {"rebind", "append", "publish"}
  /\ Fault("panic")
  /\ UNCHANGED <<pages, ring, handoff, sharedEnds, pLen, pEpoch, consumerVars>>

(* finish, or dropping a producer that is still open. *)
BeginClose(end) ==
  /\ pPc = "idle"
  /\ pPc' = "close_slab"
  /\ pEnd' = end
  /\ UNCHANGED <<pages, ring, handoff, sharedEnds, pLen, pEpoch, pResult, consumerVars>>

Finish == BeginClose("CLEAN")
DropProducer == BeginClose("FAULTED")

(* finish and close_faulted close the shared endpoints in one order. *)
CloseSlab ==
  /\ pPc = "close_slab"
  /\ pages' = [pages EXCEPT ![SlotOf(pEpoch)].closed = TRUE]
  /\ Proceed("store_terminal")
  /\ UNCHANGED <<ring, handoff, sharedEnds, pLen, pEpoch, consumerVars>>

StoreTerminal ==
  /\ pPc = "store_terminal"
  /\ terminal' = pEnd
  /\ Proceed("close_ring")
  /\ UNCHANGED <<pages, ring, handoff, ringClosed, handoffClosed, pLen, pEpoch,
                 consumerVars>>

(* Mutant: the descriptor ring is left open. *)
LeaveRingOpen ==
  /\ pPc = "close_ring"
  /\ Proceed("close_handoff")
  /\ UNCHANGED <<pages, ring, handoff, sharedEnds, pLen, pEpoch, consumerVars>>

CloseRing ==
  /\ pPc = "close_ring"
  /\ ringClosed' = TRUE
  /\ Proceed("close_handoff")
  /\ UNCHANGED <<pages, ring, handoff, handoffClosed, terminal, pLen, pEpoch,
                 consumerVars>>

CloseHandoff ==
  /\ pPc = "close_handoff"
  /\ handoffClosed' = TRUE
  /\ Proceed("finished")
  /\ UNCHANGED <<pages, ring, handoff, ringClosed, terminal, pLen, pEpoch,
                 consumerVars>>

(* A caller that kept the producer after a caught panic tries again. *)
AdmitPoisoned ==
  /\ pPc = "finished"
  /\ pResult = "panic"
  /\ pResult' = "ProducerPoisoned"
  /\ UNCHANGED <<pages, ring, handoff, sharedEnds, pPc, pLen, pEpoch, pEnd,
                 consumerVars>>

-----------------------------------------------------------------------------
(* Consumer.  A fault closes the consumer side of the descriptor ring.     *)

page == pages[cSlot]
RaiseFault(reason) ==
  /\ cPc' = "idle"
  /\ cState' = reason
  /\ cClaim' = NoClaim
  /\ ringAbandoned' = TRUE

(* try_next on a ring with a descriptor: claim it and place its epoch. *)
TryNext ==
  /\ cPc = "idle" /\ cState = "Open" /\ ring # <<>>
  /\ LET d == Head(ring)
     IN  IF d.seq # cExpected THEN RaiseFault("SequenceMismatch")
         ELSE IF d.gen \notin {GenOf(cEpoch), GenOf(cEpoch + 1)}
              THEN RaiseFault("EpochIdentityMismatch")
         ELSE /\ cClaim' = d
              /\ cPc' = IF d.gen = GenOf(cEpoch) THEN "resolve" ELSE "boundary"
              /\ UNCHANGED <<cState, ringAbandoned>>
  /\ UNCHANGED <<pages, ring, handoff, sharedEnds, producerVars, handoffAbandoned,
                 released, cSlot, cEpoch, cExpected, cEpochCommitted, cTotal>>

(* cross_epoch_boundary: the sealed page must be complete. *)
CheckSealed ==
  /\ cPc = "boundary"
  /\ IF ~page.closed THEN RaiseFault("ClosureOrderViolation")
     ELSE IF Len(page.cells) # cEpochCommitted THEN RaiseFault("EpochBoundaryShortfall")
     ELSE cPc' = "pop_reader" /\ UNCHANGED <<cState, cClaim, ringAbandoned>>
  /\ UNCHANGED <<pages, ring, handoff, sharedEnds, producerVars, handoffAbandoned,
                 released, cSlot, cEpoch, cExpected, cEpochCommitted, cTotal>>

(* cross_epoch_boundary: take the successor's reader; the old one is       *)
(* dropped by the assignment.                                              *)
PopReader ==
  /\ cPc = "pop_reader"
  /\ IF handoff = <<>>
     THEN /\ RaiseFault("HandoffMissing")
          /\ UNCHANGED <<handoff, cSlot, cEpoch, cEpochCommitted>>
     ELSE /\ handoff' = Tail(handoff)
          /\ IF pages[Head(handoff)].gen # GenOf(cEpoch + 1)
             THEN /\ RaiseFault("HandoffIdentityMismatch")
                  /\ UNCHANGED <<cSlot, cEpoch, cEpochCommitted>>
             ELSE /\ cPc' = "release"
                  /\ cSlot' = Head(handoff)
                  /\ cEpoch' = cEpoch + 1
                  /\ cEpochCommitted' = 0
                  /\ UNCHANGED <<cState, cClaim, ringAbandoned>>
  /\ UNCHANGED <<pages, ring, sharedEnds, producerVars, handoffAbandoned, released,
                 cExpected, cTotal>>

(* Mutant: the boundary is crossed and the sealed page never released. *)
KeepPage ==
  /\ cPc = "release"
  /\ cPc' = "resolve"
  /\ UNCHANGED <<pages, ring, handoff, sharedEnds, producerVars, ringAbandoned,
                 handoffAbandoned, released, cSlot, cEpoch, cExpected,
                 cEpochCommitted, cTotal, cClaim, cState>>

(* cross_epoch_boundary: the Release store that frees the sealed page. *)
ReleasePage ==
  /\ cPc = "release"
  /\ released' = cEpoch
  /\ cPc' = "resolve"
  /\ UNCHANGED <<pages, ring, handoff, sharedEnds, producerVars, ringAbandoned,
                 handoffAbandoned, cSlot, cEpoch, cExpected, cEpochCommitted, cTotal,
                 cClaim, cState>>

(* PublishedSlabReader::resolve: the page holds this exact descriptor. *)
Resolves(d) ==
  /\ d.gen = page.gen
  /\ d.seq - page.first \in 0 .. (Len(page.cells) - 1)
  /\ page.cells[d.seq - page.first + 1] = d
  /\ d.offset + d.len <= page.bytes

Resolve ==
  /\ cPc = "resolve"
  /\ IF Resolves(cClaim) THEN cPc' = "lease" /\ UNCHANGED <<cState, cClaim, ringAbandoned>>
     ELSE RaiseFault("Page")
  /\ UNCHANGED <<pages, ring, handoff, sharedEnds, producerVars, handoffAbandoned,
                 released, cSlot, cEpoch, cExpected, cEpochCommitted, cTotal>>

(* RotatingAdmittedEvent::commit. *)
Commit ==
  /\ cPc = "lease"
  /\ ring' = Tail(ring)
  /\ cExpected' = cClaim.seq + 1
  /\ cEpochCommitted' = cEpochCommitted + 1
  /\ cTotal' = cTotal + 1
  /\ cClaim' = NoClaim
  /\ cPc' = "idle"
  /\ UNCHANGED <<pages, handoff, sharedEnds, producerVars, ringAbandoned,
                 handoffAbandoned, released, cSlot, cEpoch, cState>>

(* The lease is dropped uncommitted: the frame stays claimed by nobody. *)
DropLease ==
  /\ cPc = "lease"
  /\ cClaim' = NoClaim
  /\ cPc' = "idle"
  /\ UNCHANGED <<pages, ring, handoff, sharedEnds, producerVars, ringAbandoned,
                 handoffAbandoned, released, cSlot, cEpoch, cExpected,
                 cEpochCommitted, cTotal, cState>>

(* Mutant: an incomplete page ends the stream like a complete one. *)
EndVerdictIgnoresCounts ==
  IF ~page.closed \/ terminal = "OPEN" THEN "ClosureOrderViolation" ELSE "CleanEnd"

(* classify_end: what the end of the stream was. *)
EndVerdict ==
  IF ~page.closed THEN "ClosureOrderViolation"
  ELSE IF Len(page.cells) # cEpochCommitted
       THEN IF terminal = "FAULTED" /\ Len(page.cells) > cEpochCommitted
            THEN "OrphanedPublishedPrefix" ELSE "CountMismatch"
  ELSE IF terminal = "CLEAN" THEN "CleanEnd"
  ELSE IF terminal = "FAULTED" THEN "ProducerFaulted"
  ELSE "ClosureOrderViolation"

(* try_next on an empty ring the producer has closed. *)
ClassifyEnd ==
  /\ cPc = "idle" /\ cState = "Open" /\ ring = <<>> /\ ringClosed
  /\ cState' = EndVerdict
  /\ released' = IF EndVerdict = "CleanEnd" THEN cEpoch + 1 ELSE released
  /\ UNCHANGED <<pages, ring, handoff, sharedEnds, producerVars, ringAbandoned,
                 handoffAbandoned, cPc, cSlot, cEpoch, cExpected, cEpochCommitted,
                 cTotal, cClaim>>

(* Dropping the consumer drops its fields in order: ring, handoff, reader. *)
DropConsumer ==
  /\ cPc = "idle"
  /\ ringAbandoned' = TRUE
  /\ cPc' = "drop_handoff"
  /\ UNCHANGED <<pages, ring, handoff, sharedEnds, producerVars, handoffAbandoned,
                 released, cSlot, cEpoch, cExpected, cEpochCommitted, cTotal, cClaim,
                 cState>>

DropHandoff ==
  /\ cPc = "drop_handoff"
  /\ handoffAbandoned' = TRUE
  /\ cPc' = "drop_reader"
  /\ UNCHANGED <<pages, ring, handoff, sharedEnds, producerVars, ringAbandoned,
                 released, cSlot, cEpoch, cExpected, cEpochCommitted, cTotal, cClaim,
                 cState>>

DropReader ==
  /\ cPc = "drop_reader"
  /\ cSlot' = NoSlot
  /\ cPc' = "dropped"
  /\ UNCHANGED <<pages, ring, handoff, sharedEnds, producerVars, ringAbandoned,
                 handoffAbandoned, released, cEpoch, cExpected, cEpochCommitted,
                 cTotal, cClaim, cState>>

-----------------------------------------------------------------------------
ProducerInCall ==
  \/ CheckQuota \/ ReserveHandoff \/ Seal \/ Rebind \/ PublishReader
  \/ ReserveRing \/ AppendFrame \/ PublishDescriptor
  \/ CloseSlab \/ StoreTerminal \/ CloseRing \/ CloseHandoff

ConsumerInCall ==
  \/ CheckSealed \/ PopReader \/ ReleasePage \/ Resolve
  \/ DropHandoff \/ DropReader

(* Both endpoints are gone. *)
Done == pPc = "finished" /\ cPc = "dropped" /\ UNCHANGED vars

Next ==
  \/ \E len \in Lengths : TryAdmit(len)
  \/ ProducerInCall
  \/ Unwind
  \/ Finish
  \/ DropProducer
  \/ AdmitPoisoned
  \/ TryNext
  \/ ConsumerInCall
  \/ Commit
  \/ DropLease
  \/ ClassifyEnd
  \/ DropConsumer
  \/ Done

Spec == Init /\ [][Next]_vars

(* A thread inside a call finishes it; the consumer keeps calling try_next *)
(* and does not drop every lease; the producer keeps offering frames that  *)
(* fit a page, whatever else it offers in between.                         *)
Fairness ==
  /\ WF_vars(ProducerInCall)
  /\ SF_vars(\E len \in Lengths \cap 1 .. ByteCapacity : TryAdmit(len))
  /\ WF_vars(TryNext)
  /\ WF_vars(ConsumerInCall)
  /\ SF_vars(Commit)
  /\ WF_vars(ClassifyEnd)

FairSpec == Spec /\ Fairness

-----------------------------------------------------------------------------
(* Properties.                                                             *)

ConsumerFaults == {"SequenceMismatch", "EpochIdentityMismatch",
  "ClosureOrderViolation", "EpochBoundaryShortfall", "HandoffMissing",
  "HandoffIdentityMismatch", "Page", "CountMismatch"}
ProducerFaults == {"HandoffInvariant", "Rebind", "SequenceDiverged"}

Descriptors ==
  [seq : 0 .. MaxFrames, gen : 0 .. (GenModulus - 1), offset : 0 .. ByteCapacity,
   len : 1 .. MaxFrameBytes]

PageStates ==
  [gen : 0 .. (GenModulus - 1), first : 0 .. MaxFrames, cells : Seq(Descriptors),
   bytes : 0 .. ByteCapacity, closed : BOOLEAN]

ProducerPcs == {"idle", "quota", "reserve_handoff", "seal", "rebind", "publish_reader",
  "reserve", "append", "publish", "close_slab", "store_terminal", "close_ring",
  "close_handoff", "finished"}
ConsumerPcs == {"idle", "boundary", "pop_reader", "release", "resolve", "lease",
  "drop_handoff", "drop_reader", "dropped"}

(* Every variable has its type, and no page, ring or pool is ever over its *)
(* capacity.                                                               *)
TypeOK ==
  /\ pages \in [Slots -> PageStates]
  /\ \A s \in Slots : Len(pages[s].cells) <= DescriptorCapacity
  /\ ring \in Seq(Descriptors) /\ Len(ring) <= RingCapacity
  /\ handoff \in Seq(Slots) /\ Len(handoff) < Pool
  /\ {ringClosed, ringAbandoned, handoffClosed, handoffAbandoned} \subseteq BOOLEAN
  /\ released \in Nat /\ pEpoch \in Nat /\ cEpoch \in Nat /\ cEpochCommitted \in Nat
  /\ terminal \in {"OPEN", "CLEAN", "FAULTED"} /\ pEnd \in {"OPEN", "CLEAN", "FAULTED"}
  /\ pPc \in ProducerPcs /\ cPc \in ConsumerPcs
  /\ pLen \in Lengths \cup {0}
  /\ cSlot \in Slots \cup {NoSlot}
  /\ cClaim \in Descriptors \cup {NoClaim}
  /\ cExpected \in 0 .. MaxFrames /\ cTotal \in 0 .. MaxFrames

(* Neither endpoint ever reports one of its broken-invariant errors: the   *)
(* terminal faults of try_next and of rotate are unreachable, whatever the *)
(* callers do.  In particular a page the consumer may still read is never  *)
(* rebound and no reader is missing at an epoch boundary.  It takes two    *)
(* pages, or payloads that fit an empty page: see                          *)
(* OversizeIsOnlyAnInputError.                                             *)
OnlyDeclaredFaults ==
  /\ cState \notin ConsumerFaults
  /\ pResult \notin ProducerFaults

(* CleanEnd is reported only for a stream that finish closed and of which  *)
(* every published frame was committed; a panic or a drop is never clean.  *)
CleanEndIsComplete ==
  cState = "CleanEnd" =>
    /\ pEnd = "CLEAN"
    /\ ring = <<>>
    /\ cTotal = NextSequence

(* The frames between the consumer's cursor and the producer's are exactly *)
(* the ring, plus one the producer has appended and not yet published: no  *)
(* frame is lost, duplicated or reordered across page epochs.              *)
StreamIsContiguous ==
  LET unpublished == NextSequence - (cExpected + Len(ring))
  IN  /\ \A i \in 1 .. Len(ring) : ring[i].seq = cExpected + i - 1
      /\ unpublished \in {0, 1}
      /\ unpublished = 1 => pPc = "publish" \/ pEnd = "FAULTED"
      /\ cTotal = cExpected

(* While a frame is leased its page is neither rebound nor overwritten:    *)
(* the bytes the caller reads are those of the leased descriptor.          *)
LeaseIsStable == cPc = "lease" => Resolves(cClaim)

(* A consumer that stays learns how the stream ended once the producer has *)
(* finished, was dropped or panicked.                                      *)
EndIsReached ==
  terminal # "OPEN" ~> cState # "Open" \/ cPc = "dropped"

(* A payload larger than an empty page is the caller's input error and     *)
(* nothing more (try_admit_inner): the consumer does not pay for it with a *)
(* terminal fault on a later, valid frame.                                 *)
OversizeIsOnlyAnInputError == cState # "EpochIdentityMismatch"

(* RingFull and PageQuotaExhausted are transient: a producer that retries  *)
(* while its consumer goes on committing gets through.                     *)
BackpressureIsTransient ==
  pResult \in {"RingFull", "PageQuotaExhausted"} ~>
    pResult = "Admitted" \/ terminal # "OPEN" \/ ringAbandoned

=============================================================================
