---------------------------- MODULE SplunkExport ----------------------------
(***************************************************************************)
(* Gateway instances that share one database elect a leader through the    *)
(* single row of leader_lock, and the leader's Splunk job forwards new     *)
(* decision, alert and incident rows (the Streams) to the HTTP Event       *)
(* Collector.                                                              *)
(*                                                                         *)
(* run_leader_election_loop renews or claims the lease every Interval and  *)
(* copies the result into is_leader, which stays as it was when storage    *)
(* fails.  run_splunk_export_job reads is_leader ONCE at the top of a      *)
(* tick; the reads of the database and the POST that follow may run past   *)
(* the loss of the lease.  Its cursors live in the process: one process    *)
(* keeps them while it is on standby, and a restart forgets them.          *)
(*                                                                         *)
(* One clock: instances whose clocks disagree are not modelled.  Election  *)
(* timers fire on time unless a fault delays one; the export job, whose    *)
(* own timer only spaces its ticks, may start a tick at any moment.  Row   *)
(* ids are SQLite's: a row with a larger id is never visible before one    *)
(* with a smaller id.  A fault is a storage or HTTP error, or a delay      *)
(* of an election past its tick; MaxFaults bounds them.                    *)
(***************************************************************************)
EXTENDS Integers, FiniteSetsExt, Functions

CONSTANTS Instances,    \* the slots a gateway process runs in
          Streams,      \* decisions, soc_alerts, soc_incidents
          Lease,        \* AEGIS_LEADER_LEASE_SECS
          Interval,     \* AEGIS_LEADER_ELECTION_INTERVAL_SECS
          Batch,        \* SOC_WATCH_BATCH_LIMIT
          MaxTime,      \* bound: the clock
          MaxRows,      \* bound: rows of all streams together
          MaxFaults,    \* bound: errors and delays
          MaxCrashes,   \* bound: process deaths
          NULL

ASSUME TimesAssumption ==
    /\ Interval \in Nat \ {0}
    /\ Lease \in Nat
    /\ Lease >= Interval
    /\ Batch \in Nat \ {0}

Gone == "gone"       \* the instance id of a process that no longer exists

(***************************************************************************)
(* NULL, for no row, no clock reading and no cursor, is none of these, and *)
(* the instance id of a dead process is never a live one's.                *)
(***************************************************************************)
ASSUME IdsAssumption ==
    /\ NULL \notin Nat /\ NULL \notin [holder : Instances \cup {Gone}, until : Nat]
    /\ Gone \notin Instances

VARIABLES
    now,        \* the clock
    lock,       \* leader_lock's row, or NULL: [holder, until]
    up,         \* the instance slots with a live process
    upAt,       \* history: when that process started
    isLeader,   \* the instances whose is_leader flag is set
    due,        \* the next tick of an instance's election timer
    election,   \* "idle", or the statement its tick is about to run
    asked,      \* Utc::now() as the election in progress read it
    held,       \* history: the expiry of the last lease an instance was told it has
    lastLed,    \* history: the last instant at which a live process held the lease
    rows,       \* the highest row id of each stream
    job,        \* export job: "idle", or "gather" (the reads and the POST)
    todo,       \* the streams this tick has still to read
    cursor,     \* decision_cursors and the like: forwarded up to here, or NULL
    seed,       \* history: where the process's cursor began
    batch,      \* events and *_advances: the <<s, r>> this tick has gathered
    forwarded,  \* history: <<i, s, r>>, row r of s reached Splunk from i
    faults, crashes

lease  == <<lock, isLeader, due, election, asked, held>>
export == <<job, todo, cursor, seed, batch, forwarded>>
vars   == <<now, up, upAt, lastLed, rows, faults, crashes, lease, export>>

(***************************************************************************)
(* A live process holds the lease, whether or not it knows.                *)
(***************************************************************************)
Led(l, procs, t) == l # NULL /\ l.holder \in procs /\ t <= l.until

Fault == faults < MaxFaults /\ faults' = faults + 1

Init ==
    /\ now = 0 /\ lock = NULL
    /\ up = Instances /\ upAt = [i \in Instances |-> 0]
    /\ isLeader = {} /\ due = [i \in Instances |-> 0]
    /\ election = [i \in Instances |-> "idle"]
    /\ asked = [i \in Instances |-> NULL] /\ held = [i \in Instances |-> -1]
    /\ lastLed = 0
    /\ rows = [s \in Streams |-> 0]
    /\ job = [i \in Instances |-> "idle"] /\ todo = [i \in Instances |-> {}]
    /\ cursor = [i \in Instances |-> [s \in Streams |-> NULL]]
    /\ seed = [i \in Instances |-> [s \in Streams |-> NULL]]
    /\ batch = [i \in Instances |-> {}]
    /\ forwarded = {}
    /\ faults = 0 /\ crashes = 0

-----------------------------------------------------------------------------
(* The election *)

(***************************************************************************)
(* The election timer fires and the lease's new expiry is computed from    *)
(* the clock as it is now.                                                 *)
(***************************************************************************)
ElectionTick(i) ==
    /\ i \in up /\ election[i] = "idle" /\ due[i] <= now
    /\ election' = [election EXCEPT ![i] = "update"]
    /\ asked' = [asked EXCEPT ![i] = now]
    /\ due' = [due EXCEPT ![i] = @ + Interval]
    /\ UNCHANGED <<now, up, upAt, lastLed, rows, faults, crashes, lock, isLeader, held, export>>

(***************************************************************************)
(* The WHERE clause of the UPDATE.                                         *)
(***************************************************************************)
MayTakeOnExpiry(i) == lock # NULL /\ (lock.holder = i \/ lock.until <= asked[i])
MayTakeOwn(i) == lock # NULL /\ lock.holder = i
MayTake(i) == lock # NULL /\ (lock.holder = i \/ lock.until < asked[i])

Write(i) ==
    /\ lock' = [holder |-> i, until |-> asked[i] + Lease]
    /\ lastLed' = IF Led(lock', up, now) THEN now ELSE lastLed

(***************************************************************************)
(* The statement wrote the row: its caller is the leader.                  *)
(***************************************************************************)
Won(i) ==
    /\ Write(i)
    /\ isLeader' = isLeader \cup {i}
    /\ held' = [held EXCEPT ![i] = asked[i] + Lease]
    /\ election' = [election EXCEPT ![i] = "idle"]
    /\ asked' = [asked EXCEPT ![i] = NULL]
    /\ UNCHANGED <<now, up, upAt, rows, faults, crashes, due, export>>

(***************************************************************************)
(* UPDATE leader_lock.  No row affected: the INSERT is tried next.         *)
(***************************************************************************)
Renew(i) ==
    /\ election[i] = "update"
    /\ \/ MayTake(i) /\ Won(i)
       \/ /\ ~MayTake(i)
          /\ election' = [election EXCEPT ![i] = "insert"]
          /\ UNCHANGED <<now, up, upAt, lastLed, rows, faults, crashes, lock, isLeader, due,
                         asked, held, export>>

(***************************************************************************)
(* INSERT ... ON CONFLICT DO NOTHING: the first boot.  Anyone else is told *)
(* that it is on standby.                                                  *)
(***************************************************************************)
ClaimFirst(i) ==
    /\ election[i] = "insert"
    /\ \/ lock = NULL /\ Won(i)
       \/ /\ lock # NULL
          /\ isLeader' = isLeader \ {i}
          /\ election' = [election EXCEPT ![i] = "idle"]
          /\ asked' = [asked EXCEPT ![i] = NULL]
          /\ UNCHANGED <<now, up, upAt, lastLed, rows, faults, crashes, lock, due, held, export>>

(***************************************************************************)
(* Either statement fails, or its answer is lost after it took effect: the *)
(* tick is logged and is_leader is left alone.                             *)
(***************************************************************************)
ElectionFails(i) ==
    /\ election[i] # "idle" /\ Fault
    /\ \/ UNCHANGED <<lock, lastLed>>
       \/ /\ IF election[i] = "update" THEN MayTake(i) ELSE lock = NULL
          /\ Write(i)
    /\ election' = [election EXCEPT ![i] = "idle"]
    /\ asked' = [asked EXCEPT ![i] = NULL]
    /\ UNCHANGED <<now, up, upAt, rows, crashes, isLeader, due, held, export>>

-----------------------------------------------------------------------------
(* The export job *)

(***************************************************************************)
(* A tick of the export job: the only place that reads is_leader.          *)
(***************************************************************************)
ExportTick(i) ==
    /\ i \in up /\ job[i] = "idle" /\ i \in isLeader
    /\ job' = [job EXCEPT ![i] = "gather"]
    /\ todo' = [todo EXCEPT ![i] = Streams]
    /\ batch' = [batch EXCEPT ![i] = {}]
    /\ UNCHANGED <<now, up, upAt, lastLed, rows, faults, crashes, lease, cursor, seed, forwarded>>

(***************************************************************************)
(* A stream's first sight in this process: its cursor starts at the        *)
(* highest row, or at 0 when that query fails (unwrap_or(0)).              *)
(***************************************************************************)
Seed(i, s) ==
    /\ job[i] = "gather" /\ s \in todo[i] /\ cursor[i][s] = NULL
    /\ \E from \in {rows[s], 0} :
          /\ \/ from = rows[s] /\ UNCHANGED faults
             \/ from # rows[s] /\ Fault
          /\ cursor' = [cursor EXCEPT ![i][s] = from]
          /\ seed' = [seed EXCEPT ![i][s] = from]
    /\ UNCHANGED <<now, up, upAt, lastLed, rows, crashes, lease, job, todo, batch, forwarded>>

(***************************************************************************)
(* list_decisions_since and its siblings: the rows above the cursor,       *)
(* oldest first, at most Batch of them.                                    *)
(***************************************************************************)
Since(i, s) == {r \in cursor[i][s] + 1 .. rows[s] : r <= cursor[i][s] + Batch}

(***************************************************************************)
(* A stream is read into the batch.  When its query fails, or returns      *)
(* nothing, the batch goes on without it.                                  *)
(***************************************************************************)
List(i, s) ==
    /\ job[i] = "gather" /\ s \in todo[i] /\ cursor[i][s] # NULL
    /\ \/ /\ batch' = [batch EXCEPT ![i] = @ \cup ({s} \X Since(i, s))]
          /\ UNCHANGED faults
       \/ Fault /\ UNCHANGED batch
    /\ todo' = [todo EXCEPT ![i] = @ \ {s}]
    /\ UNCHANGED <<now, up, upAt, lastLed, rows, crashes, lease, job, cursor, seed, forwarded>>

(***************************************************************************)
(* A process's cursors after its POST: on success each moves to the        *)
(* highest row of its stream in the batch (max_seen).                      *)
(***************************************************************************)
MaxSeen(i, s) == Max({cursor[i][s]} \cup {e[2] : e \in {e \in batch[i] : e[1] = s}})
CursorsAfterAny(i, ok) == [s \in Streams |-> MaxSeen(i, s)]
CursorsAfter(i, ok) == IF ok THEN [s \in Streams |-> MaxSeen(i, s)] ELSE cursor[i]

DispatchOrExit(i) ==
    /\ job[i] = "gather" /\ todo[i] = {}
    /\ \/ /\ forwarded' = forwarded \cup {<<i, e[1], e[2]>> : e \in batch[i]}
          /\ cursor' = [cursor EXCEPT ![i] = CursorsAfter(i, TRUE)]
          /\ job' = [job EXCEPT ![i] = "idle"]
          /\ UNCHANGED faults
       \/ Fault /\ job' = [job EXCEPT ![i] = "ended"] /\ UNCHANGED <<forwarded, cursor>>
    /\ batch' = [batch EXCEPT ![i] = {}]
    /\ UNCHANGED <<now, up, upAt, lastLed, rows, crashes, lease, todo, seed>>

(***************************************************************************)
(* One POST for the whole batch, none for an empty one; the cursors move   *)
(* only on success.  A timeout or error may leave the rows at Splunk.      *)
(***************************************************************************)
Dispatch(i) ==
    /\ job[i] = "gather" /\ todo[i] = {}
    /\ \E ok, stored \in BOOLEAN :
          /\ ok => stored
          /\ \/ ok /\ UNCHANGED faults
             \/ ~ok /\ batch[i] # {} /\ Fault
          /\ forwarded' = IF stored THEN forwarded \cup {<<i, e[1], e[2]>> : e \in batch[i]} ELSE forwarded
          /\ cursor' = [cursor EXCEPT ![i] = CursorsAfter(i, ok)]
    /\ job' = [job EXCEPT ![i] = "idle"]
    /\ batch' = [batch EXCEPT ![i] = {}]
    /\ UNCHANGED <<now, up, upAt, lastLed, rows, crashes, lease, todo, seed>>

-----------------------------------------------------------------------------
(* The environment *)

InsertRow(s) ==
    /\ SumFunction(rows) < MaxRows
    /\ rows' = [rows EXCEPT ![s] = @ + 1]
    /\ UNCHANGED <<now, up, upAt, lastLed, faults, crashes, lease, export>>

(***************************************************************************)
(* Time passes.  An election that is due, or under way, goes first unless  *)
(* a fault delays it.                                                      *)
(***************************************************************************)
Tick ==
    /\ now < MaxTime
    /\ \/ /\ \A i \in up : election[i] = "idle" /\ due[i] > now
          /\ UNCHANGED faults
       \/ /\ \E i \in up : election[i] # "idle" \/ due[i] <= now
          /\ Fault
    /\ now' = now + 1
    /\ lastLed' = IF Led(lock, up, now') THEN now' ELSE lastLed
    /\ UNCHANGED <<up, upAt, rows, crashes, lease, export>>

(***************************************************************************)
(* A process dies.  Its instance id dies with it, its lease does not.      *)
(***************************************************************************)
Crash(i) ==
    /\ i \in up /\ crashes < MaxCrashes
    /\ crashes' = crashes + 1
    /\ up' = up \ {i}
    /\ lock' = IF lock # NULL /\ lock.holder = i THEN [lock EXCEPT !.holder = Gone] ELSE lock
    /\ isLeader' = isLeader \ {i}
    /\ election' = [election EXCEPT ![i] = "idle"]
    /\ asked' = [asked EXCEPT ![i] = NULL]
    /\ held' = [held EXCEPT ![i] = -1]
    /\ job' = [job EXCEPT ![i] = "idle"]
    /\ todo' = [todo EXCEPT ![i] = {}]
    /\ cursor' = [cursor EXCEPT ![i] = [s \in Streams |-> NULL]]
    /\ seed' = [seed EXCEPT ![i] = [s \in Streams |-> NULL]]
    /\ batch' = [batch EXCEPT ![i] = {}]
    /\ UNCHANGED <<now, upAt, lastLed, rows, faults, due, forwarded>>

(***************************************************************************)
(* main: a new instance id, is_leader false, and an election timer whose   *)
(* first tick is immediate.                                                *)
(***************************************************************************)
Start(i) ==
    /\ i \notin up
    /\ up' = up \cup {i}
    /\ upAt' = [upAt EXCEPT ![i] = now]
    /\ due' = [due EXCEPT ![i] = now]
    /\ UNCHANGED <<now, lastLed, rows, faults, crashes, lock, isLeader, election, asked, held,
                   export>>

Elect(i) == ElectionTick(i) \/ Renew(i) \/ ClaimFirst(i)
Export(i) == Dispatch(i) \/ \E s \in Streams : Seed(i, s) \/ List(i, s)

Next ==
    \/ Tick
    \/ \E s \in Streams : InsertRow(s)
    \/ \E i \in Instances :
          Elect(i) \/ ElectionFails(i) \/ ExportTick(i) \/ Export(i) \/ Crash(i) \/ Start(i)

(***************************************************************************)
(* The export task of a live process keeps running, and its timer fires    *)
(* again after every tick; election and clock need no fairness.            *)
(***************************************************************************)
Fairness == \A i \in Instances : WF_vars(ExportTick(i)) /\ WF_vars(Export(i))

Spec == Init /\ [][Next]_vars /\ Fairness

-----------------------------------------------------------------------------
LeaseTypeOK ==
    /\ {now, lastLed, faults} \subseteq Nat
    /\ lock = NULL \/ lock \in [holder : Instances \cup {Gone}, until : Nat]
    /\ up \subseteq Instances /\ isLeader \subseteq up
    /\ {upAt, due} \subseteq [Instances -> Nat]
    /\ election \in [Instances -> {"idle", "update", "insert"}]
    /\ asked \in [Instances -> Nat \cup {NULL}]
    /\ held \in [Instances -> Int]

ExportTypeOK ==
    /\ rows \in [Streams -> Nat]
    /\ job \in [Instances -> {"idle", "gather"}] /\ todo \in [Instances -> SUBSET Streams]
    /\ {cursor, seed} \subseteq [Instances -> [Streams -> Nat \cup {NULL}]]
    /\ batch \in [Instances -> SUBSET (Streams \X Nat)]
    /\ forwarded \subseteq Instances \X Streams \X Nat

TypeOK == LeaseTypeOK /\ ExportTypeOK

(***************************************************************************)
(* try_acquire_or_renew_leadership hands out one lease at a time: until    *)
(* the lease an instance was last given has run out, the row is still that *)
(* instance's, whatever statements were in flight, failed or were delayed  *)
(* with an old clock reading.                                              *)
(***************************************************************************)
LeaseIsExclusive ==
    \A i \in isLeader : now <= held[i] => lock # NULL /\ lock.holder = i

(***************************************************************************)
(* DEFAULT_LEADER_LEASE_SECS: with storage healthy, some live process has  *)
(* the lease again at most Lease + Interval after the last one that held   *)
(* it (or after the first surviving process started).                      *)
(***************************************************************************)
TransferInTime ==
    faults = 0 =>
        \A i \in up : now - Max({lastLed, upAt[i]}) <= Lease + Interval

(***************************************************************************)
(* run_splunk_export_job: no cursor passes a row that this process did not *)
(* get through to Splunk, whatever part of a tick failed.                  *)
(***************************************************************************)
CursorIsDelivered ==
    \A i \in Instances, s \in Streams :
        cursor[i][s] # NULL =>
            \A r \in seed[i][s] + 1 .. cursor[i][s] : <<i, s, r>> \in forwarded

CaughtUp(i) ==
    \A s \in Streams : seed[i][s] # NULL
                         /\ \A r \in seed[i][s] + 1 .. rows[s] : <<i, s, r>> \in forwarded

(***************************************************************************)
(* A process that keeps the lead catches up: it forwards every row above   *)
(* its cursors' start, and no error, batch limit or failing neighbour      *)
(* stream strands one.  One that never catches up again has lost the lead  *)
(* again and again.                                                        *)
(***************************************************************************)
StableLeaderDelivers == \A i \in Instances : []<>(i \in isLeader => CaughtUp(i))

(***************************************************************************)
(* What run_splunk_export_job's comment asks of leadership: instances that *)
(* share a database do not each forward the same event.                    *)
(***************************************************************************)
ForwardedByOne ==
    \A i, j \in Instances, s \in Streams : \A r \in 1 .. MaxRows :
        <<i, s, r>> \in forwarded /\ <<j, s, r>> \in forwarded => i = j
=============================================================================
