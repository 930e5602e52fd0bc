------------------------------ MODULE SpscRing ------------------------------
(***************************************************************************)
(* The single-producer/single-consumer ring of lib/event/src/ring.rs.      *)
(*                                                                         *)
(* One action is one access to shared memory (an atomic load or store, or  *)
(* a slot access) with the endpoint-local work around it.  Cursors are     *)
(* wrapping counters: 2^64 is Modulus here, a multiple of Capacity.        *)
(*                                                                         *)
(* Atomic loads are modelled as Acquire loads of the memory model, not as  *)
(* sequentially consistent ones: a load may return any value the location  *)
(* has held since the value this thread last read from it.  Acquiring the  *)
(* producer's closure is what forces the next load of the head to be the   *)
(* final one.                                                              *)
(***************************************************************************)
EXTENDS Integers

CONSTANTS
  Capacity,   \* N, the number of slots
  Laps,       \* how often Capacity divides the counter's range
  Values,     \* the payloads
  Uninit      \* content of a slot that holds no value

ASSUME CapacityAssumption == Capacity \in Nat /\ Capacity > 0
\* Capacity is a power of two below 2^63, so 2^64 holds it at least four times.
ASSUME LapsAssumption == Laps \in Nat /\ Laps > 2
ASSUME ValuesAssumption == Uninit \notin Values

VARIABLES
  publishedHead, consumedTail,      \* the two shared cursors
  producerClosed, consumerClosed,   \* the endpoint state
  slots,                            \* the cells
  pPc, pOp, pNext, pCachedTail,     \* Producer: where it is, which call, fields
  cPc, cOp, cNext, cCachedHead,     \* Consumer: likewise
  cValue,                           \* the copy an OccupiedSlot holds, the value moved
  taken,                            \* what the last commit or pop returned
  freed                             \* Inner::drop has run

producerVars == <<publishedHead, producerClosed, pPc, pOp, pNext, pCachedTail>>
consumerVars == <<consumedTail, consumerClosed, cPc, cOp, cNext, cCachedHead,
                  cValue, taken>>
vars == <<publishedHead, consumedTail, producerClosed, consumerClosed, slots,
          pPc, pOp, pNext, pCachedTail, cPc, cOp, cNext, cCachedHead, cValue,
          taken, freed>>

-----------------------------------------------------------------------------
(* Sequence arithmetic: wrapping_add(1), wrapping_sub and the slot mask.   *)

Modulus == Capacity * Laps
SeqNo == 0 .. (Modulus - 1)
Slots == 0 .. (Capacity - 1)

Succ(s) == IF s = Modulus - 1 THEN 0 ELSE s + 1
Distance(a, b) == IF a >= b THEN a - b ELSE a - b + Modulus
Index(s) == s % Capacity

(* What an Acquire load may return: a cursor value between the one last    *)
(* read and the current one; a closed flag that may not have arrived yet.  *)
Window(seen, current) ==
  {s \in SeqNo : Distance(s, seen) <= Distance(current, seen)}
Visible(flag) == {FALSE, flag}

-----------------------------------------------------------------------------
ProducerAtRest == {"idle", "Full", "Disconnected", "Invariant"}
ConsumerAtRest == {"idle", "Empty", "Disconnected", "Invariant"}

Init ==
  /\ publishedHead \in SeqNo
  /\ consumedTail = publishedHead
  /\ pNext = publishedHead
  /\ pCachedTail = publishedHead
  /\ cNext = publishedHead
  /\ cCachedHead = publishedHead
  /\ producerClosed = FALSE
  /\ consumerClosed = FALSE
  /\ slots = [i \in Slots |-> Uninit]
  /\ pPc = "idle"
  /\ pOp = "reserve"
  /\ cPc = "idle"
  /\ cOp = "claim"
  /\ cValue = Uninit
  /\ taken = Uninit
  /\ freed = FALSE

-----------------------------------------------------------------------------
(* Producer.  try_reserve reports a distance above the capacity as a       *)
(* broken invariant; try_push treats it as a full ring.                    *)

(* Mutant: the capacity check is off by one. *)
ReserveVerdictOffByOne(op, distance, whenFull) ==
  IF distance > Capacity /\ op = "reserve" THEN "Invariant"
  ELSE IF distance > Capacity THEN whenFull
  ELSE "vacant"

ReserveVerdict(op, distance, whenFull) ==
  IF distance > Capacity /\ op = "reserve" THEN "Invariant"
  ELSE IF distance >= Capacity THEN whenFull
  ELSE "vacant"

(* try_reserve and try_push up to the first decision: load consumer_closed *)
(* and compare the local cursors.                                          *)
BeginAdmit(op) ==
  /\ pPc \in ProducerAtRest
  /\ \E seen \in Visible(consumerClosed) :
       pPc' = IF seen THEN "Disconnected"
              ELSE ReserveVerdict(op, Distance(pNext, pCachedTail), "reload")
  /\ pOp' = op
  /\ UNCHANGED <<publishedHead, producerClosed, pNext, pCachedTail, slots, freed>>
  /\ UNCHANGED consumerVars

TryReserve == BeginAdmit("reserve")
TryPush == BeginAdmit("push")

(* The cached tail says full: reload the consumer's cursor and decide. *)
ReloadTail ==
  /\ pPc = "reload"
  /\ \E t \in Window(pCachedTail, consumedTail) :
       /\ pCachedTail' = t
       /\ pPc' = ReserveVerdict(pOp, Distance(pNext, t), "Full")
  /\ UNCHANGED <<publishedHead, producerClosed, pOp, pNext, slots, freed>>
  /\ UNCHANGED consumerVars

(* VacantSlot::cancel, or its drop: nothing but the borrow ends. *)
CancelReservation ==
  /\ pPc = "vacant"
  /\ pOp = "reserve"
  /\ pPc' = "idle"
  /\ UNCHANGED <<publishedHead, producerClosed, pOp, pNext, pCachedTail, slots, freed>>
  /\ UNCHANGED consumerVars

(* First half of VacantSlot::publish and of try_push's success path. *)
WriteSlot ==
  /\ pPc = "vacant"
  /\ \E v \in Values : slots' = [slots EXCEPT ![Index(pNext)] = v]
  /\ pNext' = Succ(pNext)
  /\ pPc' = "written"
  /\ UNCHANGED <<publishedHead, producerClosed, pOp, pCachedTail, freed>>
  /\ UNCHANGED consumerVars

(* Second half: the Release store that publishes. *)
StoreHead ==
  /\ pPc = "written"
  /\ publishedHead' = pNext
  /\ pPc' = "idle"
  /\ UNCHANGED <<producerClosed, pOp, pNext, pCachedTail, slots, freed>>
  /\ UNCHANGED consumerVars

(* Producer::close and Drop.  The borrow rules exclude an outstanding      *)
(* VacantSlot, and no caller admits after closing.                         *)
CloseProducer ==
  /\ pPc \in ProducerAtRest
  /\ pPc' = "closed"
  /\ producerClosed' = TRUE
  /\ UNCHANGED <<publishedHead, pOp, pNext, pCachedTail, slots, freed>>
  /\ UNCHANGED consumerVars

-----------------------------------------------------------------------------
(* Consumer.  try_claim reports an impossible distance and closes; try_pop *)
(* only compares for equality.                                             *)

ClaimVerdict(op, available, whenEmpty) ==
  IF available > Capacity /\ op = "claim" THEN "Invariant"
  ELSE IF available = 0 THEN whenEmpty
  ELSE "access"

(* Move to verdict; a broken invariant also closes the consumer. *)
ConsumerGoes(verdict) ==
  /\ cPc' = verdict
  /\ consumerClosed' = (consumerClosed \/ verdict = "Invariant")

BeginTake(op) ==
  /\ cPc \in ConsumerAtRest
  /\ ConsumerGoes(ClaimVerdict(op, Distance(cCachedHead, cNext), "load_head"))
  /\ cOp' = op
  /\ UNCHANGED <<consumedTail, cNext, cCachedHead, cValue, taken, slots, freed>>
  /\ UNCHANGED producerVars

TryClaim == BeginTake("claim")
TryPop == BeginTake("pop")

LoadHead ==
  /\ cPc = "load_head"
  /\ \E h \in Window(cCachedHead, publishedHead) :
       /\ cCachedHead' = h
       /\ ConsumerGoes(ClaimVerdict(cOp, Distance(h, cNext), "load_closed"))
  /\ UNCHANGED <<consumedTail, cOp, cNext, cValue, taken, slots, freed>>
  /\ UNCHANGED producerVars

LoadProducerClosed ==
  /\ cPc = "load_closed"
  /\ \E seen \in Visible(producerClosed) :
       cPc' = IF seen THEN "reload_head" ELSE "Empty"
  /\ UNCHANGED <<consumedTail, consumerClosed, cOp, cNext, cCachedHead, cValue,
                 taken, slots, freed>>
  /\ UNCHANGED producerVars

(* Mutant: Disconnected is returned without the second load of the head. *)
NoReloadHead ==
  /\ cPc = "reload_head"
  /\ cPc' = "Disconnected"
  /\ UNCHANGED <<consumedTail, consumerClosed, cOp, cNext, cCachedHead, cValue,
                 taken, slots, freed>>
  /\ UNCHANGED producerVars

(* The second load of the head: closure was acquired, so it is the final   *)
(* head.                                                                   *)
ReloadHead ==
  /\ cPc = "reload_head"
  /\ cCachedHead' = publishedHead
  /\ ConsumerGoes(ClaimVerdict(cOp, Distance(publishedHead, cNext), "Disconnected"))
  /\ UNCHANGED <<consumedTail, cOp, cNext, cValue, taken, slots, freed>>
  /\ UNCHANGED producerVars

(* copy_value: the OccupiedSlot carries a validation copy. *)
CopyValue ==
  /\ cPc = "access"
  /\ cOp = "claim"
  /\ cValue' = slots[Index(cNext)]
  /\ cPc' = "claimed"
  /\ UNCHANGED <<consumedTail, consumerClosed, cOp, cNext, cCachedHead, taken,
                 slots, freed>>
  /\ UNCHANGED producerVars

(* Dropping an OccupiedSlot; close_consumer also closes the endpoint. *)
ReleaseClaim(closing) ==
  /\ cPc = "claimed"
  /\ cPc' = "idle"
  /\ cValue' = Uninit
  /\ consumerClosed' = (consumerClosed \/ closing)
  /\ UNCHANGED <<consumedTail, cOp, cNext, cCachedHead, taken, slots, freed>>
  /\ UNCHANGED producerVars

(* First half of OccupiedSlot::commit and of try_pop's success path: the   *)
(* value is moved out of the cell.                                         *)
MoveValue ==
  /\ \/ cPc = "claimed"
     \/ cPc = "access" /\ cOp = "pop"
  /\ cValue' = slots[Index(cNext)]
  /\ slots' = [slots EXCEPT ![Index(cNext)] = Uninit]
  /\ cNext' = Succ(cNext)
  /\ cPc' = "moved"
  /\ UNCHANGED <<consumedTail, consumerClosed, cOp, cCachedHead, taken, freed>>
  /\ UNCHANGED producerVars

(* Mutant: the tail is not stored. *)
KeepTail ==
  /\ cPc = "moved"
  /\ taken' = cValue
  /\ cValue' = Uninit
  /\ cPc' = "idle"
  /\ UNCHANGED <<consumedTail, consumerClosed, cOp, cNext, cCachedHead, slots, freed>>
  /\ UNCHANGED producerVars

(* Second half: the Release store that returns the slot to the producer. *)
StoreTail ==
  /\ cPc = "moved"
  /\ consumedTail' = cNext
  /\ taken' = cValue
  /\ cValue' = Uninit
  /\ cPc' = "idle"
  /\ UNCHANGED <<consumerClosed, cOp, cNext, cCachedHead, slots, freed>>
  /\ UNCHANGED producerVars

(* Consumer::close leaves the endpoint usable; Drop ends it. *)
CloseConsumer ==
  /\ cPc \in ConsumerAtRest
  /\ cPc' \in {cPc, "dropped"}
  /\ consumerClosed' = TRUE
  /\ UNCHANGED <<consumedTail, cOp, cNext, cCachedHead, cValue, taken, slots, freed>>
  /\ UNCHANGED producerVars

-----------------------------------------------------------------------------
(* Inner::drop, once both endpoints are gone: the range still published is *)
(* dropped, or leaked if its length is impossible.                         *)

(* Mutant: the dropped range misses the last published sequence. *)
StillPublishedShort ==
  {Index(s) : s \in {x \in SeqNo :
     Distance(x, consumedTail) + 1 < Distance(publishedHead, consumedTail)}}

StillPublished ==
  {Index(s) : s \in {x \in SeqNo :
     Distance(x, consumedTail) < Distance(publishedHead, consumedTail)}}

DropInner ==
  /\ pPc = "closed"
  /\ cPc = "dropped"
  /\ ~freed
  /\ slots' = IF Distance(publishedHead, consumedTail) > Capacity THEN slots
              ELSE [i \in Slots |-> IF i \in StillPublished THEN Uninit ELSE slots[i]]
  /\ freed' = TRUE
  /\ UNCHANGED producerVars
  /\ UNCHANGED consumerVars

(* Nothing is left to run. *)
Reclaimed == freed /\ UNCHANGED vars

ProducerStep ==
  \/ TryReserve
  \/ TryPush
  \/ ReloadTail
  \/ CancelReservation
  \/ WriteSlot
  \/ StoreHead
  \/ CloseProducer

ConsumerStep ==
  \/ TryClaim
  \/ TryPop
  \/ LoadHead
  \/ LoadProducerClosed
  \/ ReloadHead
  \/ CopyValue
  \/ ReleaseClaim(FALSE)
  \/ ReleaseClaim(TRUE)
  \/ MoveValue
  \/ StoreTail
  \/ CloseConsumer

Next == ProducerStep \/ ConsumerStep \/ DropInner \/ Reclaimed

Spec == Init /\ [][Next]_vars

(* Each endpoint keeps calling and finishes the call it is in, a store     *)
(* becomes visible to the other thread in finite time (fresh loads happen  *)
(* again and again), and a consumer that claims does not cancel forever.   *)
(* Closing is never forced.                                                *)
Fairness ==
  /\ WF_vars(TryReserve \/ TryPush)
  /\ WF_vars(ReloadTail)
  /\ SF_vars(ReloadTail /\ pCachedTail' = consumedTail)
  /\ WF_vars(WriteSlot)
  /\ WF_vars(StoreHead)
  /\ WF_vars(TryClaim \/ TryPop)
  /\ WF_vars(LoadHead)
  /\ SF_vars(LoadHead /\ cCachedHead' = publishedHead)
  /\ WF_vars(LoadProducerClosed)
  /\ SF_vars(LoadProducerClosed /\ cPc' = "reload_head")
  /\ WF_vars(ReloadHead)
  /\ WF_vars(CopyValue)
  /\ SF_vars(MoveValue)
  /\ WF_vars(StoreTail)

FairSpec == Spec /\ Fairness

-----------------------------------------------------------------------------
(* Properties.                                                             *)

(* Every variable has its type; pc labels are those of the code's calls. *)
TypeOK ==
  /\ publishedHead \in SeqNo
  /\ consumedTail \in SeqNo
  /\ producerClosed \in BOOLEAN
  /\ consumerClosed \in BOOLEAN
  /\ slots \in [Slots -> Values \cup {Uninit}]
  /\ pPc \in ProducerAtRest \cup {"reload", "vacant", "written", "closed"}
  /\ pOp \in {"reserve", "push"}
  /\ pNext \in SeqNo
  /\ pCachedTail \in SeqNo
  /\ cPc \in ConsumerAtRest \cup {"load_head", "load_closed", "reload_head",
                                  "access", "claimed", "moved", "dropped"}
  /\ cOp \in {"claim", "pop"}
  /\ cNext \in SeqNo
  /\ cCachedHead \in SeqNo
  /\ cValue \in Values \cup {Uninit}
  /\ taken \in Values \cup {Uninit}
  /\ freed \in BOOLEAN

(* The unsafe cell accesses are sound (ring.rs module comment): a slot the *)
(* producer is about to write holds no value, a slot the consumer is about *)
(* to copy or move holds one, and the value a commit moves is the one the  *)
(* claim showed, whatever stale cursors either side has cached.            *)
SlotAccessSound ==
  /\ pPc = "vacant" => slots[Index(pNext)] = Uninit
  /\ cPc \in {"access", "claimed"} => slots[Index(cNext)] # Uninit
  /\ cPc = "claimed" => slots[Index(cNext)] = cValue

(* The CursorDistanceExceedsCapacity errors cannot occur: neither stale    *)
(* cursors nor wrap-around make try_reserve or try_claim see a distance    *)
(* above the capacity.                                                     *)
DistanceNeverExceedsCapacity == pPc # "Invariant" /\ cPc # "Invariant"

(* Inner::drop releases exactly the values nobody took: once both          *)
(* endpoints are gone the cells that hold a value are those of the         *)
(* published range, and after the drop no cell holds one.                  *)
ExactDrop ==
  pPc = "closed" /\ cPc = "dropped" =>
    {i \in Slots : slots[i] # Uninit} = IF freed THEN {} ELSE StillPublished

(* The inductive invariant behind the properties above, in four parts.     *)
(* Seen from the producer's cached tail, the cursors are in this order,    *)
(* all within one capacity.                                                *)
CursorOrder ==
  LET Ahead(s) == Distance(s, pCachedTail)
  IN  /\ Ahead(consumedTail) <= Ahead(cNext)
      /\ Ahead(cNext) <= Ahead(cCachedHead)
      /\ Ahead(cCachedHead) <= Ahead(publishedHead)
      /\ Ahead(publishedHead) <= Ahead(pNext)
      /\ Ahead(pNext) <= Capacity

(* Where the private cursors stand in each phase of a call. *)
Phases ==
  /\ pNext = IF pPc = "written" THEN Succ(publishedHead) ELSE publishedHead
  /\ cNext = IF cPc = "moved" THEN Succ(consumedTail) ELSE consumedTail
  /\ pPc = "vacant" => Distance(pNext, pCachedTail) < Capacity
  /\ cPc \in {"access", "claimed"} => cCachedHead # cNext
  /\ pPc = "closed" <=> producerClosed
  /\ cPc = "reload_head" => producerClosed
  /\ cPc = "Disconnected" => producerClosed /\ publishedHead = consumedTail
  /\ cPc = "dropped" => consumerClosed
  /\ freed => pPc = "closed" /\ cPc = "dropped"

(* The sequence numbers from the consumer's next up to the producer's next *)
(* are exactly the ones whose cell holds a value.                          *)
Occupancy ==
  /\ freed => \A i \in Slots : slots[i] = Uninit
  /\ ~freed => \A s \in SeqNo :
       /\ Distance(s, cNext) < Distance(pNext, cNext) => slots[Index(s)] # Uninit
       /\ Distance(s, cNext) >= Distance(pNext, cNext) /\ Distance(s, cNext) < Capacity
            => slots[Index(s)] = Uninit

(* CursorOrder, Phases, Occupancy and what a claim shows: every step of    *)
(* either endpoint keeps their conjunction.                                *)
RingInv ==
  /\ CursorOrder
  /\ Phases
  /\ Occupancy
  /\ cPc = "claimed" => slots[Index(cNext)] = cValue
  /\ DistanceNeverExceedsCapacity

(* The abstract queue: the published range, with a value already moved out *)
(* of its cell still counted until the tail is stored.                     *)
InFlight ==
  IF freed THEN <<>>
  ELSE [i \in 1 .. Distance(publishedHead, consumedTail) |->
          IF i = 1 /\ cPc = "moved" THEN cValue
          ELSE slots[Index(consumedTail + i - 1)]]

Channel == INSTANCE BoundedChannel WITH
  queue <- InFlight,
  senderClosed <- producerClosed,
  receiverClosed <- consumerClosed,
  ended <- cPc = "Disconnected"

(* The ring implements the bounded FIFO channel: exactly-once, in-order    *)
(* delivery, at most Capacity in flight, Disconnected only when drained.   *)
ImplementsChannel == Channel!Spec

(* A full ring is transient: a producer told Full that keeps trying gets a *)
(* slot, unless an endpoint closes.                                        *)
FullIsTransient ==
  pPc = "Full" ~> (pPc = "vacant" \/ producerClosed \/ consumerClosed)

=============================================================================
