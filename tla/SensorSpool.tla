---------------------------- MODULE SensorSpool ----------------------------
(***************************************************************************)
(* The node sensor's durable spool (bins/aegis-node-sensor/src/spool.rs)   *)
(* under its only user, the select loop of main.rs: collectors enqueue, a  *)
(* ship tick drains each lane through shipper.rs and compacts it.  The     *)
(* loop is one task, so calls do not overlap; the process may die between  *)
(* any two writes and start again from what is on disk.                    *)
(*                                                                         *)
(* A log is a sequence of cells, one per unit of length; a frame of size n *)
(* is n cells of its record.  A cell sequence that is not a whole frame is *)
(* what the checksum rejects.                                              *)
(***************************************************************************)
EXTENDS Integers, Sequences, FiniteSets, FiniteSetsExt

CONSTANTS
  Sizes,               \* the frame sizes collectors produce
  Budget,              \* spool_max_bytes_per_lane
  Threshold,           \* SPOOL_COMPACT_THRESHOLD_BYTES
  ScanLimit,           \* RESYNC_SCAN_LIMIT_BYTES
  MaxRecords,          \* bound: records enqueued
  MaxCrashes           \* bound: times the process dies

ASSUME SizesAssumption == Sizes \subseteq Nat \ {0}
ASSUME BoundsAssumption == /\ Budget \in Nat /\ Threshold \in Nat /\ ScanLimit \in Nat
                           /\ MaxRecords \in Nat /\ MaxCrashes \in Nat

VARIABLES
  log, ackDisk,               \* on disk: the lane's log and its state file
  ackMem,                     \* LaneState::ack_offset
  pc, after, lane,            \* where the task is, where a persist returns to
  incoming, reading,          \* the record being enqueued, the one read
  nextId, crashes,
  accepted, evicted, delivered, \* history: enqueue said Ok; dropped; ingested
  mispaired                   \* history: lanes whose compacted log a crash left
                              \* with the watermark of the log before

disk == <<log, ackDisk>>
records == <<accepted, evicted, delivered>>
history == <<records, mispaired>>
spoolVars == <<disk, ackMem, pc, after, lane, incoming, reading, nextId, crashes, history>>

Lanes == {"critical", "normal"}
NoRecord == [id |-> 0, size |-> 0]

-----------------------------------------------------------------------------
(* read_frame_at: a whole frame starts at this offset. *)
FrameAt(l, offset) ==
  /\ offset < Len(log[l])
  /\ LET size == log[l][offset + 1].size
     IN  /\ offset + size <= Len(log[l])
         /\ \A k \in 1 .. size : /\ log[l][offset + k].id = log[l][offset + 1].id
                                 /\ log[l][offset + k].part = k

(* Where read_next looks: at the offset, then at every one behind it up    *)
(* to the scan limit.                                                      *)
Candidates(l, offset) ==
  {o \in offset .. Len(log[l]) : o = offset \/ o < offset + ScanLimit}

(* Mutant: the scan takes the last frame it finds. *)
NextFrameLast(l, offset) ==
  LET found == {o \in Candidates(l, offset) : FrameAt(l, o)}
  IN  IF found = {} THEN -1 ELSE Max(found)

(* read_next: the frame at the offset, or the first one a scan finds; -1   *)
(* for none.                                                               *)
NextFrame(l, offset) ==
  LET found == {o \in Candidates(l, offset) : FrameAt(l, o)}
  IN  IF found = {} THEN -1 ELSE Min(found)

Pending(l) == IF Len(log[l]) > ackMem[l] THEN Len(log[l]) - ackMem[l] ELSE 0
OverBudget(l, size) == Pending(l) + size > Budget

Frame(record) ==
  [k \in 1 .. record.size |-> [id |-> record.id, part |-> k, size |-> record.size]]

SpoolInit ==
  /\ log = [l \in Lanes |-> <<>>]
  /\ ackDisk = [l \in Lanes |-> 0]
  /\ ackMem = [l \in Lanes |-> 0]
  /\ pc = "idle" /\ after = "idle" /\ lane = "critical"
  /\ incoming = NoRecord /\ reading = NoRecord
  /\ nextId = 1 /\ crashes = 0
  /\ accepted = [l \in Lanes |-> {}]
  /\ evicted = {}
  /\ delivered = [l \in Lanes |-> {}]
  /\ mispaired = {}

-----------------------------------------------------------------------------
(* enqueue.  The critical lane refuses what is over budget; the normal     *)
(* lane drops its oldest records until the new one fits, then compacts.    *)
Enqueue(l, size) ==
  /\ pc = "idle"
  /\ nextId <= MaxRecords
  /\ ~(l = "critical" /\ OverBudget(l, size))
  /\ lane' = l
  /\ incoming' = [id |-> nextId, size |-> size]
  /\ nextId' = nextId + 1
  /\ pc' = IF OverBudget(l, size) THEN "evict" ELSE "append"
  /\ UNCHANGED <<disk, ackMem, after, reading, crashes, history>>

(* read_next; a re-synchronisation moves the offset and persists it. *)
ReadNext(whenSome, whenNone) ==
  LET at == NextFrame(lane, ackMem[lane])
  IN  /\ IF at = -1
         THEN pc' = whenNone /\ UNCHANGED <<after, reading, ackMem>>
         ELSE /\ reading' = [id |-> log[lane][at + 1].id,
                             size |-> log[lane][at + 1].size]
              /\ ackMem' = [ackMem EXCEPT ![lane] = at]
              /\ IF at = ackMem[lane] THEN pc' = whenSome /\ UNCHANGED after
                 ELSE pc' = "persist" /\ after' = whenSome
      /\ UNCHANGED <<disk, lane, incoming, nextId, crashes, history>>

(* ack: past the record that was read; it starts at the offset. *)
Ack(return) ==
  /\ ackMem' = [ackMem EXCEPT ![lane] = @ + reading.size]
  /\ pc' = "persist"
  /\ after' = return
  /\ reading' = NoRecord
  /\ UNCHANGED <<disk, lane, incoming, nextId, crashes, accepted, delivered, mispaired>>

EvictOldest ==
  /\ pc = "evict"
  /\ IF OverBudget(lane, incoming.size)
     THEN ReadNext("drop", "compact_then_append")
     ELSE /\ pc' = "compact_then_append"
          /\ UNCHANGED <<disk, ackMem, after, lane, incoming, reading, nextId,
                         crashes, history>>

DropOldest ==
  /\ pc = "drop"
  /\ evicted' = evicted \cup {reading.id}
  /\ Ack("evict")

(* compact's rewrite: the acked prefix goes, by a rename over the log. *)
DropAckedPrefix ==
  /\ log' = [log EXCEPT ![lane] = SubSeq(@, ackMem[lane] + 1, Len(@))]
  /\ ackMem' = [ackMem EXCEPT ![lane] = 0]

(* compact, on the way to append or at the end of a lane's ship tick.  A   *)
(* watermark beyond the end of the file underflows a length: it panics.    *)
Compact ==
  /\ pc \in {"compact_then_append", "compact_then_next"}
  /\ LET return == IF pc = "compact_then_append" THEN "append" ELSE "next_lane"
     IN  IF ackMem[lane] = 0
         THEN pc' = return /\ UNCHANGED <<log, ackMem, after>>
         ELSE IF Len(log[lane]) < ackMem[lane]
         THEN pc' = "panicked" /\ UNCHANGED <<log, ackMem, after>>
         ELSE /\ DropAckedPrefix
              /\ pc' = "persist"
              /\ after' = return
  /\ UNCHANGED <<ackDisk, lane, incoming, reading, nextId, crashes, history>>

(* persist_ack_offset. *)
Persist ==
  /\ pc = "persist"
  /\ ackDisk' = [ackDisk EXCEPT ![lane] = ackMem[lane]]
  /\ pc' = after
  /\ after' = "idle"
  /\ UNCHANGED <<log, ackMem, lane, incoming, reading, nextId, crashes, history>>

(* append, and enqueue returns Ok. *)
AppendFrame ==
  /\ pc = "append"
  /\ log' = [log EXCEPT ![lane] = @ \o Frame(incoming)]
  /\ accepted' = [accepted EXCEPT ![lane] = @ \cup {incoming.id}]
  /\ incoming' = NoRecord
  /\ pc' = "idle"
  /\ UNCHANGED <<ackDisk, ackMem, after, lane, reading, nextId, crashes, evicted, delivered,
                 mispaired>>

-----------------------------------------------------------------------------
(* The ship tick: each lane in turn, ship_lane and compact_if_reclaimable. *)
BeginShipTick ==
  /\ pc = "idle"
  /\ pc' = "ship"
  /\ lane' = "critical"
  /\ UNCHANGED <<disk, ackMem, after, incoming, reading, nextId, crashes, history>>

ShipNext == pc = "ship" /\ ReadNext("send", "reclaim")

(* Mutant: a record that cannot be shipped is skipped. *)
GivenUpSkips ==
  /\ pc = "send"
  /\ pc' = "ack"
  /\ UNCHANGED <<disk, ackMem, after, lane, incoming, reading, nextId, crashes, history>>

(* ship_with_retries: the gateway confirms (also for a duplicate), or all  *)
(* attempts fail, though one of them may have reached it.                  *)
Confirmed ==
  /\ pc = "send"
  /\ delivered' = [delivered EXCEPT ![lane] = @ \cup {reading.id}]
  /\ pc' = "ack"
  /\ UNCHANGED <<disk, ackMem, after, lane, incoming, reading, nextId, crashes,
                 accepted, evicted, mispaired>>

(* Also for a payload that does not parse: ship_lane stops at the record   *)
(* and it stays.                                                           *)
GivenUp ==
  /\ pc = "send"
  /\ delivered' \in {delivered, [delivered EXCEPT ![lane] = @ \cup {reading.id}]}
  /\ pc' = "reclaim"
  /\ reading' = NoRecord
  /\ UNCHANGED <<disk, ackMem, after, lane, incoming, nextId, crashes, accepted, evicted,
                 mispaired>>

AckShipped == pc = "ack" /\ Ack("ship") /\ UNCHANGED evicted

Reclaim ==
  /\ pc = "reclaim"
  /\ pc' = IF ackMem[lane] = 0 \/ ackMem[lane] < Threshold THEN "next_lane"
           ELSE "compact_then_next"
  /\ UNCHANGED <<disk, ackMem, after, lane, incoming, reading, nextId, crashes, history>>

NextLane ==
  /\ pc = "next_lane"
  /\ pc' = IF lane = "critical" THEN "ship" ELSE "idle"
  /\ lane' = "normal"
  /\ UNCHANGED <<disk, ackMem, after, incoming, reading, nextId, crashes, history>>

-----------------------------------------------------------------------------
(* The process dies.  An append in progress leaves any prefix of its       *)
(* frame; a state file in progress is old, new or truncated, which reads   *)
(* as zero.  Between compaction's rename and its write of the watermark    *)
(* the old watermark belongs to a log that is no longer there.             *)
Compacted == pc = "persist" /\ after \in {"append", "next_lane"}

TruncatedReadsAs == 0

Crash ==
  /\ pc \notin {"down", "panicked"}
  /\ crashes < MaxCrashes
  /\ \E n \in 0 .. (IF pc = "append" THEN incoming.size ELSE 0) :
       log' = [log EXCEPT ![lane] = @ \o SubSeq(Frame(incoming), 1, n)]
  /\ \E offset \in IF pc = "persist" THEN {ackDisk[lane], TruncatedReadsAs}
                   ELSE {ackDisk[lane]} :
       /\ ackDisk' = [ackDisk EXCEPT ![lane] = offset]
       /\ mispaired' = IF Compacted /\ offset # 0 THEN mispaired \cup {lane} ELSE mispaired
  /\ pc' = "down"
  /\ crashes' = crashes + 1
  /\ incoming' = NoRecord
  /\ reading' = NoRecord
  /\ ackMem' = [l \in Lanes |-> 0]
  /\ after' = "idle"
  /\ UNCHANGED <<lane, nextId, records>>

(* Mutant: a restart takes the log to be consumed. *)
ReopenAtEnd ==
  /\ pc \in {"down", "panicked"}
  /\ ackMem' = [l \in Lanes |-> Len(log[l])]
  /\ pc' = "idle"
  /\ UNCHANGED <<disk, after, lane, incoming, reading, nextId, crashes, history>>

(* LaneState::open. *)
Reopen ==
  /\ pc \in {"down", "panicked"}
  /\ ackMem' = ackDisk
  /\ pc' = "idle"
  /\ UNCHANGED <<disk, after, lane, incoming, reading, nextId, crashes, history>>

-----------------------------------------------------------------------------
Step ==
  \/ EvictOldest \/ DropOldest \/ Compact \/ Persist \/ AppendFrame
  \/ ShipNext \/ Confirmed \/ GivenUp \/ AckShipped \/ Reclaim \/ NextLane

SpoolNext ==
  \/ \E l \in Lanes, size \in Sizes : Enqueue(l, size)
  \/ BeginShipTick
  \/ Step
  \/ Crash
  \/ Reopen

SpoolSpec == SpoolInit /\ [][SpoolNext]_spoolVars

(* The task runs, the tick fires, the supervisor restarts the process, and *)
(* a record that is sent again and again is confirmed at last.  Crashes    *)
(* are bounded, never forced.                                              *)
SpoolFairness ==
  /\ WF_spoolVars(BeginShipTick)
  /\ WF_spoolVars(Step)
  /\ SF_spoolVars(Confirmed)
  /\ WF_spoolVars(Reopen)

SpoolFairSpec == SpoolSpec /\ SpoolFairness

-----------------------------------------------------------------------------
(* Properties.                                                             *)

Ids == 1 .. MaxRecords
Offset(l) == IF pc = "down" THEN ackDisk[l] ELSE ackMem[l]
Readable(l) == {log[l][o + 1].id : o \in {x \in Offset(l) .. Len(log[l]) : FrameAt(l, x)}}

Cells == [id : Ids, part : Nat, size : Sizes]
Records == [id : Ids \cup {0}, size : Sizes \cup {0}]
Returns == {"evict", "drop", "append", "send", "ship", "next_lane"}
Labels == Returns \cup {"idle", "persist", "compact_then_append", "compact_then_next", "ack",
                       "reclaim", "down", "panicked"}

(* Every variable has its type. *)
SpoolTypeOK ==
  /\ log \in [Lanes -> Seq(Cells)]
  /\ {ackDisk, ackMem} \subseteq [Lanes -> Nat]
  /\ pc \in Labels /\ after \in Returns \cup {"idle"} /\ lane \in Lanes
  /\ {incoming, reading} \subseteq Records
  /\ nextId \in 1 .. MaxRecords + 1 /\ crashes \in 0 .. MaxCrashes
  /\ {accepted, delivered} \subseteq [Lanes -> SUBSET Ids]
  /\ evicted \subseteq Ids /\ mispaired \subseteq Lanes

(* What the module's own comment claims: "a sensor restart naturally       *)
(* replays anything that was read but never acked".  A crash between       *)
(* compaction's two writes refutes it.                                     *)
RestartReplays == accepted["critical"] \subseteq delivered["critical"] \cup Readable("critical")

(* A record enqueue accepted on the critical lane has been ingested by the *)
(* gateway or is still on disk beyond the watermark, through torn appends, *)
(* lost watermarks and replays, unless a crash between compaction's rename *)
(* and its write of the watermark has mispaired this lane's two files.     *)
CriticalNeverLost == "critical" \notin mispaired => RestartReplays

(* The normal lane loses accepted records only by dropping them over       *)
(* budget or, again, in a mispaired pair of files; what befalls the other  *)
(* lane never matters.                                                     *)
NormalLostOnlyByEviction ==
  "normal" \notin mispaired =>
    accepted["normal"] \subseteq delivered["normal"] \cup evicted \cup Readable("normal")

(* The gateway sees the critical lane in the order it was enqueued: a      *)
(* record is ingested only after every accepted one before it, unless the  *)
(* lane was mispaired, whose watermark may skip some.                      *)
CriticalInOrder ==
  "critical" \notin mispaired =>
    \A i \in delivered["critical"], j \in accepted["critical"] :
      j < i => j \in delivered["critical"]

(* Every accepted critical record is ingested in the end, also beside a    *)
(* normal lane that panics over its mispaired files in every tick; only    *)
(* the critical lane's own files mispaired can prevent it.                 *)
CriticalDelivered ==
  \A i \in Ids :
    i \in accepted["critical"] ~> i \in delivered["critical"] \/ "critical" \in mispaired

=============================================================================
