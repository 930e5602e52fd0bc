# AegisAgent: TLA+ models, checks and proofs

AegisAgent is a policy gateway for AI agents. An agent's SDK asks the gateway
whether a tool call may run; the gateway answers from policy, records the
decision, appends evidence to a per-tenant hash chain, and for risky calls opens
an approval that a human grants and the SDK then spends, once, on exactly the
call that was approved. Around the gateway run a node sensor that spools host
events to disk and ships them, a cage runner that runs agents in containers, an
egress proxy, an LLM gateway and a tool broker. `lib/event` is a lock-free
telemetry channel.

This directory holds TLA+ modules translated from that source, TLC
configurations that check them on small instances, and TLAPS proofs for every
value of the constants. `PROJECT.json` lists the runs, maps every definition to
the lines it models, lists the hazards the properties are aimed at, the findings
and the theorems. Source paths below are relative to `src/`.

    tlc -workers 2 -config SpscRing.cfg SpscRing
    tlapm SpscRingProofs.tla

## 1. Inventory

For each part: the state it keeps, its operations, whom it interacts with, what
is hard about it, and what makes it correct. Parts marked (no) are not modelled;
section 8 says why.

**SPSC ring** (`lib/event/src/ring.rs`). State: two shared 64-bit cursors, two
closed flags, N cells of possibly uninitialized memory, and each endpoint's
cached copy of the other's cursor. Operations: reserve, push, publish, cancel on
one thread; claim, pop, commit, release on the other; close by drop; reclamation
by `Inner::drop`. Hard: every cell access is `unsafe` and its soundness is an
argument over interleavings, stale Acquire loads and cursor wrap. Correct: no
cell is read before it is written or overwritten before it is read, values come
out once and in order, the last value survives the producer's close, nothing
leaks or is dropped twice.

**Page rotation** (`rotating.rs`, `published_slab.rs`, `descriptor.rs`). State:
a pool of P pages, a ring of descriptors, a ring of page readers, a released
counter and a terminal state. Operations: `try_admit` (which may seal a page,
rebind a freed one and hand its reader over), `finish`, drop, `try_next`,
`commit`, lease drop. Uses the ring twice. Hard: a page is reused under a
generation number that itself wraps, and a call can end by error or panic
between any two of its effects. Correct: the consumer's stream is contiguous, a
lease stays readable, only a complete stream ends clean.
The single-page channel (`admission.rs`, `slab.rs`) (no) is its ancestor.

**Node sensor spool and shipper** (`bins/aegis-node-sensor/src/spool.rs`,
`shipper.rs`, `main.rs`). State: per lane an append-only log, a watermark file
and the watermark in memory. Operations: enqueue, read, ack, evict, compact,
ship tick. Interacts with collectors (in the same select loop) and the gateway
over HTTP. Hard: a crash between any two writes, torn appends, lost answers, the
disk budget. Correct: a critical record that was accepted is eventually ingested
and never lost; a normal one is lost only by eviction; order is kept.

**Node sensor commands and enforcement** (`command_receiver.rs`,
`process_enforcer.rs`, `process_collector.rs`, `main.rs`). State: the nonces the
receiver has seen (in memory), the enforcer's map from run to pid and state, the
host's processes, the command table at the gateway. Operations: scan /proc and
register, poll a page of commands, verify, signal, escalate, report. Hard: the
map is as old as the last scan and pids are reused; signals and probes fail one
by one; a report is lost after the deed; a restart empties the nonce set.
Correct: an ack is true of the process it is about, and every command gets an
answer. The other collectors (no) only produce records.

**Approvals** (`routes/approval.rs`, `lib/storage/src/db/approvals.rs`, the SDK
wrappers). State: one row per approval (status, hashes, expiry, consumed_at), a
chain of tamper receipts, and each SDK call's progress. Operations: approve,
reject, edit, display, consume, poll, retention sweep. Hard: every handler reads
in one statement and writes in another; several reviewers and several executors
race; a consume's answer may be lost; the window may close in between. Correct:
one verdict, never overwritten; one execution; of the action that was approved;
a wrong hash spends nothing.

**Authorize pipeline** (`lib/decision`, `src/src/decision_runtime.rs`,
`routes/authorize_*.rs`). State: the decision row under a unique
(tenant, agent, request_id), audit events, receipts, approvals, replay nonces,
the agent's status, a canonical-hash cache, the queue of best-effort receipts.
Operations: the five phases admit, preflight, guard, metadata, evaluate, and the
retry path that answers from the stored row. Hard: retries overlap the original
at every await, each of four writes can fail, the request can be dropped at an
await, the process can restart. Correct: one attempt is the original and all the
evidence is its own; an answer comes after row, protected receipt and approval
are stored; a high-risk call is never let through without a stored row that says
so; two uses of a nonce are a window apart. The audit event of most decisions goes
through a batch writer in memory (`audit_batch.rs`), which loses it when a flush
fails or the process dies.

**Receipt chain** (`lib/storage/src/db/receipts.rs`, `receipt_batch.rs`). State:
the `action_receipts` table, SQLite's write lock, a bounded channel and a
writer's buffer. Operations: single append, batch append, sink emit with
synchronous fallback, writer loop with flush and single-row fallback, shutdown.
Used by authorize, approvals, broker and export. Hard: head read and insert must
be one critical section; a batch fails half way; the channel is full; the
process stops. Correct: the chain verifies, each receipt is in it once and in
order, none is dropped silently.

**Cage runs, bans and run control** (`db/agent_runs.rs`,
`db/control_commands.rs`, `db/agent_bans.rs`, `db/quarantine.rs`,
`routes/{runtime,control}.rs`, `aegis-cage-runner`). State: runs with a claim
and a heartbeat lease, signed commands with a status, bans and quarantines, each
runner's nonce set, the sandboxes as Docker sees them. Operations: register,
claim, heartbeat, stall sweep, status reports, pause/resume/kill/quarantine, ban
and its propagation, the runner's scan, watch, control and teardown loops. Hard:
claim races, a sweep against a slow runner, a ban whose insert and listing are
two statements around a registration or a claim, lost answers, failed docker
calls. Correct: a sandbox runs once and never unsupervised; a ban reaches every
run its listing can hold; an acked kill means dead; a kill on the page arrives.

**Tool broker** (`routes/broker.rs`, `tool_broker_client.rs`,
`aegis-tool-broker`, `lib/tool-broker-connectors`). State: registered tools, bars
on them, the approval rows, each call's place in the route, what the broker is
doing, receipts. Operations: register, enable/disable, execute: look the tool
up, read ban and quarantine, consume the approval, call the broker, append the
receipt. Hard: the effect is outside, the client times out while the broker goes
on, the approval is shared with the SDK route, both processes die anywhere.
Correct: no write without a grant of exactly that write, none twice; a definite
refusal is one; a reported success has its evidence.

**Leader lease and Splunk export** (`db/leader.rs`, `jobs.rs`,
`splunk_export.rs`). State: the lease row, each instance's `is_leader` flag and
per-table cursors in memory, what Splunk stored. Operations: acquire or renew,
seed, list, one POST for all tables, advance the cursors. Hard: a renewal that
fails leaves the flag, statements are delayed past the clock they read, one
listing or the POST fails beside others that succeed. Correct: the lease is one
instance's at a time and passes on in time; no cursor passes an undelivered row.

**Tenant bloom filter** (no), **risk escalation** (no), **rate limits and quotas** (no):
small shared state with a clock or a staleness window each.

**Policy engine, SOC, egress, LLM gateway, wire and API types, UI, deployment**
(no): pure evaluation, text heuristics, forwarding or presentation.

How the parts meet: the authorize pipeline opens approvals and appends receipts;
approvals append tamper receipts; the SDK wrapper polls and consumes approvals;
the broker route consumes the same approvals and appends to the same chain; a ban
bars authorize, registration, claims and broker calls, and issues kill commands
that a runner or a sensor polls for; the sensor ships to the gateway's ingest
route; rotation runs on two rings; the leader lease gates the jobs, among them
the export, the sweep of approvals and the integrity check of the chain.

## 2. Modules

| module | models | composes |
|---|---|---|
| `BoundedChannel` | what a bounded FIFO channel with closing ends promises | - |
| `SpscRing` | `ring.rs`, per atomic access | implements `BoundedChannel` |
| `SpscRingProofs` | theorems about `SpscRing`, its refinement among them | |
| `RotatingAdmission` | `rotating.rs` over `published_slab.rs` | rings taken as `BoundedChannel`s |
| `RotatingAdmissionProofs` | theorems about `RotatingAdmission` | |
| `SensorSpool` | `spool.rs`, `shipper.rs` and the select loop | |
| `Approval`, `MCApproval` | one approval row, reviewers, executors, sweep | implements `GrantedEffects` |
| `AuthorizePipeline`, `MCAuthorizePipeline` | all attempts with one request_id | |
| `AuthorizeProofs` | theorems about `Approval`, its refinement among them, and `AuthorizePipeline` | |
| `ReceiptChain`, `MCReceiptChain` | appends, sink and batch writer | |
| `ReceiptChainProofs` | theorems about `ReceiptChain` | |
| `CageRun`, `MCCageRun` | runs, bans, commands, runners, sandboxes | gateway handlers with runner processes |
| `CageRunProofs` | theorems about `CageRun` | |
| `GrantedEffects` | what an approval permits: one write, the granted one | - |
| `BrokerExecute`, `MCBrokerExecute` | the execute route and the tool broker | implements `GrantedEffects` |
| `BrokerExecuteProofs` | theorems about `BrokerExecute`, its refinement among them | |
| `SplunkExport` | leader lease, election loop, export job | lease with the job it gates |
| `SplunkExportProofs` | theorems about `SplunkExport` | |
| `HostEnforcer` | the sensor's commands, process map and signals | sensor with the command table |
| `SensorProofs` | theorems about `SensorSpool` and `HostEnforcer` | |

A definition whose name extends another's and says what is wrong with it
(`ConsumableTwice`, `BeginDeferred`, `EscalateNever`...) is a mutant: a
plausible bug in the code. `PROJECT.json` pairs each property with the mutant
that must violate it.

### SpscRing

`publishedHead`, `consumedTail`, the closed flags and `slots` are the fields of
`Inner`; `pNext`, `pCachedTail`, `cNext`, `cCachedHead` those of the endpoints;
`pPc`, `cPc` say where a call is. One action is one shared access:
`BeginAdmit` the closed-flag load and the cached-distance test of `try_reserve`
and `try_push`, `ReloadTail` the Acquire load when that finds the ring full,
`WriteSlot` and `StoreHead` the publish; `LoadHead`, `LoadProducerClosed`,
`ReloadHead`, `CopyValue`, `MoveValue`, `StoreTail` the consumer's. An Acquire
load returns any value of the location's history that is not older than what the
thread last read, so staleness is explored and not only interleaving.
The cursor width is a constant (`Capacity * Laps`), so wrap happens.

### RotatingAdmission

`pages` is the pool, `ring`/`handoff` the two channels, `released` and
`terminal` the shared atomics. `TryAdmit` decides as `try_admit_inner` does;
`CheckQuota`, `ReserveHandoff`, `Seal`, `Rebind`, `PublishReader`,
`ReserveRing`, `AppendFrame`, `PublishDescriptor` are its effects in order;
`Unwind` is a panic between them, which leaves the producer InFlight and
poisoned. `CloseSlab`, `StoreTerminal`, `CloseRing`, `CloseHandoff` are the
closing order on which the consumer's `EndVerdict` relies.
`TryNext`, `CheckSealed`, `PopReader`, `ReleasePage`, `Resolve`, `Commit`,
`DropLease`, `ClassifyEnd` are the consumer's.

### SensorSpool

A log is a sequence of cells and a frame of size n is n of them, so that a torn
append and a watermark inside a frame are states. `Enqueue`, `EvictOldest`,
`Compact`, `Persist`, `AppendFrame` are the writes of `Spool::enqueue`;
`BeginShipTick`, `ShipNext`, `Confirmed`/`GivenUp`, `AckShipped`, `Reclaim`,
`NextLane` the ship tick. `Crash` may happen in every state, between compaction's
rename and its watermark write too, and tears the append or truncates the state
file that was being written. The history variable `mispaired` names the lanes a
crash in that window left with a new log and an old watermark: the code loses
records there, and the four properties exempt exactly those lanes. A re-sync scan
stops at `ScanLimit`; a record behind a tear longer than that stays on disk unread,
so the run's limit is the longest tear its crashes can leave. A payload that does
not parse ends the lane's tick like one that cannot be shipped (everything
enqueued is serialized from that very type). Disk errors other than the crash are
not modelled.

### Approval

`status`, `effective`, `consumer` are columns (`status`, `effective_call_hash`,
`consumed_at`). `RequestApprove/Reject/Edit` are the handlers' reads and checks,
`UpdateStatus`/`Edit` their conditional UPDATEs, `Confirm`/`Conflict` what
follows. An executor's `CallConsume`, `ConsumeUpdate`, `Reread`, `Diagnose` is
the consume handler, `Poll`, `Receive`, `GiveUp` the SDK wrapper around it.
`ConsumeLost` drops the answer, `Tick` moves the clock past `expires_at`,
`Sweep` is retention. `claims[e]` says whether the call sends a claimed hash.
`Capability` maps the row to `GrantedEffects`: an approve that takes effect
grants, the UPDATE that sets `consumed_at` spends, and the wrapper that receives
a 200 with its own hash performs.

### AuthorizePipeline

`pc[a]` walks attempt a through the awaits: `Admit`, `Lookup`, `Preflight`,
`Replay`, `Guard`, `CacheHash`, `Enforce`, `Metadata`, `Evaluate`, `Write`,
`Audit`, `Receipt`, `Effects`. `Cancel` drops the request at an await (the
global timeout, a disconnect), `Crash` restarts the process, `Flush` is the
receipt writer seen from here, `SetStatus` an operator freezing the agent.
Verdict, registered risk, bans and limits are free choices at the step that
reads them.

The audit event of a critical denial is inserted; any other goes into `buffered`,
the batch writer's memory, unless its queue is full. `FlushAudit` stores the
buffer or, on a failed insert, clears it all the same, and `Crash` empties it.
`audited` is what is stored; the history variable `emitted` is what was written or
handed over, and is all that an answered client may rely on for most decisions.
`HighRiskIsAudited` (section 6) is the stronger statement and is false.

`Lookup` reads the clock for the timestamp and for the row to come, `Preflight`
records the nonce in a later step, so a slow statement stores a row that lapses
early. `seenUntil[n]` is `expires_at`; an expired row is as good as none. With
`DurableNonces` FALSE the store is the process's LRU, which may have evicted any
nonce, so its check says nothing. `NonceOnce` is what the row's lifetime gives: two
passes of one nonce are `Window` apart. That a repeat after that is stale is the
timestamp's business, and it is not when the request is undated, dated ahead, or
waits for its statement.

### ReceiptChain

`tx[c]` is connection c's transaction: the statement it is at, the receipts it
has to insert and the tenants done, the head it read and its uncommitted rows. `Begin` waits for the
write lock when `Locking` (SQLite); `ReadHead`, `Insert` alternate over the
tenants of a batch; `Commit`, `Abort` end it and `Answer` its caller.
`Emit`, `Receive`, `Tick`, `Single`, `Stop` are the sink and the writer task.
A tokio channel and SQL transactions are modelled from their use.

### CageRun

`run[r]` is the agent_runs row (status, claimed_by, whether its lease is past the
threshold), `cmds` the command table in order of issue, `gate` what bars the
agent, `box[r]` the container. `reg`, `ban`, `quarantining` are the handlers that
take several statements: `RegisterCheck`/`RegisterInsert`,
`BanInsert`/`BanList`/`BanIssue`, `QuarantineIssue`/`QuarantineRecord`/
`QuarantineStatus`, `ClaimGate`/`ClaimRecord`/`ClaimUpdate`. `rn[p]` is a
runner's place and locals: `Poll`, `Scan`, `Ack` find a start command; `Create`,
`Start`, `SayRunning` bring the sandbox up; `WaitReturns`, `TimesOut`,
`WaitFails`, `Shutdown`, `Heartbeat`, `ControlPoll`, `Control`, `Say` are the
supervision loop; `Destroy`, `Report` the end. `Lose` drops the answer of any
call the runner waits for, `Crash` ends the process, `Expire` a command. Kills
whose result the code ignores (lost lease, shutdown) may fail and are followed
by the removal all the same. A ban's listing takes the oldest `ListLimit` active
runs (`OldestFirst`; SOC_MAX_LIMIT, 200 in the code); the active runs beyond it
are kept in `ban.beyond`. `BanReachesRuns` promises them nothing and says that
there are none unless the agent has more runs than the limit. `Listed` is the
newest page of `PageLimit` commands (SOC_DEFAULT_LIMIT, 50 in the code).
Docker is modelled from its use: what state a call needs and leaves.

### BrokerExecute and GrantedEffects

`pc[k]` walks call k through the route; `tool`, `bars`, `row` are the tables;
`done` is the history of effects. `Receive` and `Timeout` race: the client gives
up while the broker (`Admit`, `Act`, `Cancel`) goes on. `ConsumeElsewhere` is
the SDK's route on the same row. `Mutates` are the actions the caller labels as
mutating, which need an approval; `Writes` those that change the outside world.
A tool's row names its connector: http, github and filesystem ("checked") refuse
a write labelled as a read, the shell never looks at the label and runs the
command (`Labelled`). `GrantedEffects` knows grants, spends and performed writes
only; the mapping keeps `row`'s grant and consumer and the writes in `done` that
need a grant (`NeedsGrant`): all but shell commands sent as reads, for which the
code asks for no approval and the refinement promises nothing.

### SplunkExport

`lock` is the lease row, `asked[i]` the clock reading with which i's pending
statement will be judged, `isLeader` the flags, `cursor[i][s]` its place in table
s. `ElectionTick`, `Renew`, `ClaimFirst`, `ElectionFails` are
`try_acquire_or_renew_leadership` and its loop; `ExportTick`, `Seed`, `List`,
`Dispatch` one tick of the job. A POST may fail before or after Splunk stored
the batch. One clock serves all instances; skew is not modelled. Rows become
visible in rowid order, as SQLite's single writer guarantees; Postgres
sequences may commit out of order and are not modelled.

### HostEnforcer

`host[x]` is a process with its pid, `tracked` the enforcer's map, `seenAs[r]` the
process a registration was made for, `cmds` the table, `seen` the nonce set.
`Collect` is the scan (`Rescan` what it writes, `Dropped` what it unregisters);
`PollCommands` fetches a page, and `Skip`, `Refuse`, `Accept` take the newest
command that is left of it (`Turn`); `SignalRun` is pause and resume;
`BeginKill`, `PassKilled`, `Terminate`, `Escalate`, `EndKill` the kill with
SIGTERM, grace period, probe and SIGKILL, run by run; `Report` the status call.
Signals and pids are modelled from their use.

## 3. Runs

| run | bounds | shows |
|---|---|---|
| `ring` | 2 slots, 4 laps, 2 values | cell accesses sound, drop exact, FIFO refinement, full ring drains |
| `rotating` | 2 pages of 2 frames, 2 bytes, generations mod 3, 5 frames, lengths 0..4 | no undeclared fault, contiguous stream, complete clean ends, transient back-pressure, end reached |
| `spool` | 3 records of size 1 or 2, budget 3, 2 crashes | nothing accepted is lost but by eviction, order, delivery |
| `approval` | 2 reviewers, 2 executors, 2 actions | one execution, a decision stays, implements `GrantedEffects` |
| `authorize` | 2 attempts, reads and mutations, dry runs, 1 nonce, window 1, time 1, 1 restart | one original, evidence before answer, high risk recorded, nonce uses a window apart |
| `authorize_receipt` | 2 attempts | violation, the finding of section 6 |
| `chain` | 4 receipts of 2 tenants, batch 2, channel 2, 1 restart | chain verifies, once, nothing dropped, all resolved |
| `cage` | 1 run, 2 runners, 3 commands on pages of 2, 2 operator requests, 1 fault | one execution, supervised, bans reach runs, acked kills are dead |
| `cage_kill` | 1 run, 1 runner, 4 commands on pages of 2, 3 requests (kill, quarantine, resume), 1 fault, fair | a kill of a supervised run ends it unless it expires or is pushed off the page |
| `broker` | 2 calls, 1 approval, 3 actions, 1 operator step, 1 fault | refusals definite, success evidenced, bars hold, implements `GrantedEffects` |
| `export` | 2 gateways, 2 tables, lease 2, interval 1, batch 1, 2 rows, time 4, 1 fault, 1 crash | exclusive lease, timely takeover, no skipped row, a stable leader catches up |
| `enforcer` | 2 runs, 2 processes on 1 pid, 2 commands, 1 fault | honest acks, every command answered |

Why these bounds are enough. Ring: two slots give empty, one and full, and
eight cursor values wrap them twice around; the theorems lift the safety part to
any capacity and width. Rotation: five frames of two per page use each of two
pages at least twice and wrap the generation; lengths cover empty, exact fit,
larger than a page and larger than the frame limit. Spool: a budget of 3 with
sizes 1 and 2 makes eviction of one and of two records happen, and the second
crash meets the state the first one left. Approval: two of everything gives
every race between two reviewers, two executors and one of each; the theorems
hold for any number. Authorize: attempts interact only through the shared rows,
pairwise; a third adds no new pair; time 1 with a window of 1 lets a nonce row
lapse and be used again, and a timestamp of 2 is refused before and accepted
after. Two risk levels, one of each side of every test but "critical", which the
early denials bring. Chain: one tenant with three receipts, two
of them batched and one written by a request, meets one tenant with one. Cage:
runs share only the command page and the ban's listing, so one run with a page
shorter than the table has the races of its row, and two runners those of the
claim; two requests pair every operator action with every other. In `cage_kill`
four commands on a page of two let newer commands push a kill off the page, and
a resume of a running sandbox is one that ends nothing. One run never exceeds
the ban's listing limit: `CageRun_limit.cfg`, with two runs, one runner and a
limit of one, checks `BanReachesRuns` where it is exceeded (it passes in half a
minute), and the theorem holds for every limit. Broker: two
calls race for one row beside the SDK route, the three actions are a labelled
write, a read, and a write labelled as a read, and the tool has no connector, one
that checks labels or the shell; the theorems hold for any number. Export: a lease of two intervals allows one missed renewal, the
second row exceeds the batch, and time 4 is a full expiry and takeover after a
first term. The code's defaults are 20 s and 5 s; only Lease >= Interval is
assumed. Enforcer: one pid for two processes makes every second registration a
reuse; the run also passes with two pids.

`approval` uses a VIEW that leaves out `tampers`, `viewed` and `shown`: no guard and
no property of that run reads them. `authorize`, `cage` and `broker` use symmetry over
attempts, runners and calls; they have no liveness property. `chain`, `cage`,
`cage_kill`, `broker`, `export` and `enforcer` do not check deadlock: a behaviour
ends when every request was answered, every run is over and the bounds on faults,
commands and time are used up. The other runs check it; modules whose system may end have an explicit final step
(`Reclaimed`, `Done`).

## 4. Fairness

Safety runs of `Approval`, `AuthorizePipeline`, `CageRun` and `BrokerExecute` assume none, and no liveness is
claimed there: a reviewer or a client may walk away.

- Ring: each endpoint keeps calling and finishes its calls (its caller's poll
  loop). Strong fairness of "the load returns the current value" is the
  language's guarantee that stores become visible in finite time; strong
  fairness of `MoveValue` says that a consumer does not cancel every claim.
- Rotation: both endpoints finish their calls (no call blocks); the consumer
  keeps calling and does not drop every lease; the producer keeps offering
  payloads that fit. `EndIsReached` does not need the producer to stop.
- Spool: the ship timer ticks, the task runs, the sensor is restarted, and the
  gateway confirms infinitely often if asked infinitely often. The last is an
  assumption about the network, and delivery cannot hold without it.
- Chain: the runtime polls every task, statements return (the busy timeout
  bounds the wait for the lock), the interval ticks. Nothing is assumed of
  requests, shutdown or crashes.
- `cage_kill`: a runner keeps running its loop (its select has a timer in every
  state). Nothing is assumed of operators, Docker's processes or the gateway's
  handlers; a runner's crash, a failed docker call, and a command that expired or
  left the newest page are the property's exceptions.
- Export: an instance's export timer ticks and a tick under way proceeds. The
  property says that an instance is caught up, or not the leader, again and
  again; elections need no fairness for it.
- Enforcer: the poll timer ticks and the loop works through what it fetched. No
  scan, signal, report success or process exit is assumed.

## 5. What is proved

For every value of the constants that satisfies the modules' ASSUMEs.

**SpscRingProofs** (`TypeCorrect`, `RingInvariant`, `SlotAccessIsSound`,
`DistanceIsBounded`, `DropIsExact`, `Refinement`). The properties speak of a cell at a moment
of access and are not inductive. `RingInv` adds: the order
tail <= cached tail, cached head <= head around the wrapping counter, with all
distances at most the capacity (`CursorOrder`); what each program counter knows
about its endpoint's cursors (`Phases`); and that exactly the cells between tail
and head hold a value, up to the one being written or moved (`Occupancy`). The
arithmetic lemmas prove that the slot mask is injective on any window of
`Capacity` consecutive cursors, across the wrap, from `Capacity` dividing the
counter's range. `Refinement` shows that the ring implements `BoundedChannel`:
the abstract queue is the sequence of cells from the tail to the head, with a
value being moved still counted; storing the head is the step that sends,
storing the tail the one that receives, and writing a cell or moving a value out
of one stutters because the masks of the window's cursors differ. Assumptions:
capacity positive, at least three laps.

**RotatingAdmissionProofs** (`TypeCorrect`, `StreamContiguous`, `LeaseStable`,
`CleanEndComplete`, `NoUndeclaredFault`, `FaultsOnlyFromOversize`), for any pool,
page, ring and payload sizes. `IndInv` follows epochs, not slots: those in use
run from the consumer's to the producer's and are fewer than the pool, which is
what the released-epoch quota is for, so that the slot a rotation rebinds is
nobody's (`EpochInv`); each page continues the numbering of the one before and
is closed once it is not the last (`PageInv`); the ring holds the frames from the
consumer's cursor on, each in a page in use, and the producer is at most one
frame ahead of it (`StreamInv`); and what either endpoint knows at each point of
a call (`ProducerInv`, `ConsumerInv`). `NoUndeclaredFault` assumes that every
payload the frame limit admits fits an empty page, or a pool of two; the
`rotating` run has the second, and the oversize observation of section 6 shows
that without either it is false. `FaultsOnlyFromOversize` says without any
assumption how far it can be false: one check of the consumer, none of the
producer.

**AuthorizeProofs, the approval row** (`Inductive`, `SingleUse`,
`ApprovedThenExecuted`, `MismatchDoesNotSpend`, `SingleVerdict`, `DecisionStays`,
`OneShotCapability`), for any reviewers, callers and actions. `ApprovalInv` is
`ApprovalTypeOK` with: an approved row's effective hash is the one granted
(`BoundStays`); an executor that is past its consume, or an answer on its way,
belongs to the consumer in the row (`SpentByOne`); who consumed by hash did so
for the bound action (`CalledForTheBound`); a refused caller has not spent it
(`RefusalIsDeserved`); at most one reviewer is between its UPDATE and its answer
with a verdict, and that verdict is the stored one (`OneDecider`,
`OneVerdict`). The proof has one leaf per action and frame lemmas for the half
of the state an action leaves alone. `DecisionStays` is the action property.
`OneShotCapability` is the refinement: `Approve`, `ConsumeUpdate` and `Receive` are
the steps of `GrantedEffects` and everything else stutters. `BoundStays` gives the
action that `Perform` writes, `SpentByOne` that nothing was performed before. With
`BrokerExecuteProofs!Refinement` it says that both routes that spend an approval
keep the same promise.

**AuthorizeProofs, the pipeline** (`PipelineInvariant`, `PipelineTypes`,
`KeyHasOneOriginal`, `EvidenceComesFirst`, `AuditFailsClosed`, `RetriesAgree`,
`NonceIsSpacedOut`). `IndInv` is `TypeOK`, the proved properties and: an attempt
is answered once, at its end (`Answered`), so that an answer is judged against
facts that no longer move; past admit there is a request and a call
(`Admitted`); past the insert the row is the attempt's own, and past each write
its evidence is there (`RowIsOwn`); who answers from the row has one
(`RowIsKnown`). Four frame lemmas carry the proof: a step of one attempt leaves
the others alone (`Frame`), a finished attempt takes none (`StepIsLive`),
stored evidence is only added (`Grows`), and a step of no attempt (flushes,
eviction, the clock, status change, restart) changes no attempt's facts
(`Background`); what is left is one leaf per action. The unique index on decisions
is what makes `Grows` hold of the row. `NonceIsSpacedOut` assumes `DurableNonces`:
with nonces in memory an eviction or a restart forgets them and the statement is
false. It adds that the row of a nonce somebody passed with is live until its
window is over (`NonceIsSpent`), which a row stored late by a slow statement
makes a disjunction.

**BrokerExecuteProofs** (`TypeCorrect`, `Refinement`, `RefusalsAreDefinite`,
`SuccessesAreEvidenced`, `BarsHold`). `IndInv` is `TypeOK`,
`SuccessIsEvidenced` and: a mutating call past its consume owns, for good, the
row that grants its action (`Paid`); where the broker can be while the handler
is somewhere (`Stages`); what was performed and is not a shell command was
labelled for what it is (`Honest`, which the connectors' own classification
gives); an answer ends the
handler and a refusal leaves nothing under way (`Final`); a bar held since a
call's arrival is in force and still to be read (`HeldIsBarred`). The refinement
is then one leaf per action: `Approve`, `Consume`, `ConsumeElsewhere` and `Act`
are steps of `GrantedEffects`, all others stutter. Callers may label any action
either way and a tool may have any connector; writes that go to the shell under
a read's label are outside the refinement mapping, so that "no write without a
grant" is proved of the other three connectors and of what is labelled a write.

**ReceiptChainProofs** (`TypeCorrect`, `ChainAlwaysVerifies`, `ChainNeverForks`,
`ChainedOnce`, `NothingDropped`), for any receipts, tenants, batch and channel
sizes and restarts. "The committed rows verify" is not inductive: a commit makes
rows everybody's that until then only one connection saw. `ChainInv` therefore
speaks of what each connection sees, and adds that a head that was read is still
the head; that holds because only the write lock's holder has rows of its own
(`LockInv`) and rowids only grow (`RowidInv`). `TxInv` says that a transaction's
rows are exactly those of the tenants it is done with, so a commit is all of a
batch and an abort none. The delivery half (`WriterInv`, `PlaceInv`,
`FallbackInv`) gives every receipt one place and keeps what still waits out of
the chain, so that the row-by-row fallback repeats nothing. The first two of the
safety theorems assume `Locking` (SQLite), and on Postgres are false; the other
two hold on both backends.

**CageRunProofs** (`TypeCorrect`, `RunExecutedOnce`, `LiveRunSupervised`,
`BanReaches`, `AckedKillDead`), for any finite set of runs, any runners, page
limit, listing limit, commands and faults. `RunInv` says that only a run nobody claimed is waiting to be claimed and
has never executed; `RunnerOK` what a runner knows at each place, above all that
the row names it for as long as it has a run, so two runners never have the same
one; `CommandInv` what an acked kill promises. `BanInv` is the one that took
finding: while a ban is being issued, every run that executes, or whose claim is
already past the gate (`Passed`), is still to be reached or has its kill. It is
what makes the claim that checked the gate just before the ban harmless. A second
induction (`OnlyBeyondTheLimit`) shows that runs are left beyond the listing only
when more of them are registered than its limit.

**SplunkExportProofs** (`TypeCorrect`, `LeaseExclusive`, `TransferredInTime`,
`CursorDelivered`), for any instances, tables, batch limit and Lease >= Interval.
`LeaseInv`: a lease an instance believes in was granted from a clock reading not
ahead of the clock, and the row outlives what its holder was told; this is why a
delayed statement with an old reading cannot take a row that is in force.
`TimeInv`: without faults no election is late, the row runs out at most Lease
after a live holder, and every live process tries again within Interval of that.
`ExportInv`: what a tick has gathered of a table is the rows from its cursor up
to some m, so the largest rowid is a safe next cursor. The two halves share only
the set of live processes and are proved apart.

**SensorProofs, the spool** (`SpoolTypesHold`, `CriticalIsNeverLost`,
`NormalIsLostOnlyByEviction`, `CriticalStaysInOrder`), for any records, record
sizes, budget and number of crashes. "Nothing is lost" is not inductive, because
what a restart can read depends on bytes that no variable names. `SpoolInv` says
what the bytes are: the log is a row of whole frames and torn prefixes of frames,
with ids that rise along it (`LogInv`); both watermarks, in memory and on disk,
lie on the start of one, and the disk's is not ahead (`MarkInv`), so that reading
from either, or from offset 0 after a truncated state file, meets every frame
behind it and never starts inside one; what the task has read is the whole
frame the watermark is at, and an ack follows its ingestion (`ReadInv`); every
accepted id is ingested, evicted, or a whole frame behind the watermark
(`KeptInv`); and no compaction panics. `ControlInv`, part of the type
invariant's strengthening, says what the task knows at each place.
All of this is claimed of the lanes not `mispaired`, and needs no hypothesis on
where the process dies: a crash between the rename and the new watermark falsifies
`MarkInv` of its lane's files and takes that lane out, and a mispaired lane, panics
included, cannot disturb the other (`MispairedKeeps`).
`SensorSpool_compaction_crash.cfg` shows the loss itself (section 6).

**SensorProofs, the enforcer** (`EnforcerTypesHold`, `AcksAreHonest`), for any
runs, processes, pids, page limit, commands and faults. An ack is decided from the
map alone, so `EnforcerInv` ties the map to the host: live processes have distinct
pids (`HostInv`); a registration's process keeps its pid while it lives, one
marked Killed is dead, botched or the one being killed, one marked Paused is
stopped, dead, botched or shares its pid with another registration (`RegInv`);
and the targets a kill is done with are marked Killed (`JobInv`). The shared pid
is what looking for this invariant found: see `PauseIsHonest` in section 6. The
assumptions on names only say that NULL, the sensor and the mark of a foreign
process are not runs.

The inductive invariants were checked with TLC on the runs' instances before
they were proved. The type invariant of every module is proved.
`ExecutedIsApproved` (which `ImplementsCapability` implies), `OneVerdict`,
`RowAnswersAgree`, `LeaseIsStable`, `NoFork` (on SQLite) and
`FaultsOnlyFromOversize` are proved and no run lists them.

Only model-checked is liveness, which under fairness is out of the prover's
reach: `FullIsTransient`, `EndIsReached`, `BackpressureIsTransient`,
`CriticalDelivered`, `AcceptedIsResolved`, `KillEndsRun`, `StableLeaderDelivers`,
`CommandIsAnswered`. All invariants and action properties of the passing runs, and
the three refinements, are proved.

## 6. Findings and observations

`authorize_receipt` is a violation run: a retry is answered from the decision
row, which is written before the receipt, so an allow is told with no receipt in
the chain. `PROJECT.json` quotes the sentences it contradicts.

The same modules refute nine more statements the repository makes. Each has its
own configuration, which ends with TLC's counterexample:

| `tlc -config` | property | the code does | the repository says |
|---|---|---|---|
| `RotatingAdmission_oversize.cfg RotatingAdmission` | `OversizeIsOnlyAnInputError` | a payload larger than a page, offered twice to four or more pages, rotates over an empty page and the consumer faults for good (`rotating.rs:268`); `NoUndeclaredFault` assumes exactly this away | "the caller's typed input error, never a rotation loop" (`rotating.rs:266`) |
| `SensorSpool_compaction_crash.cfg SensorSpool` | `RestartReplays` | the new log is renamed into place before the new watermark is written; a crash in between skips accepted records (`spool.rs:229`); the spool's properties exempt exactly the lane this happens to | a restart "naturally replays" what was never acked (`spool.rs:12`) |
| `Approval_shown.cfg MCApproval` | `ApproveBindsWhatWasShown` | an approve carries no expected hash and binds an edit made after the display (`approval.rs:516`) | the displayed hash is what an approve binds (`approval.rs:959`) |
| `AuthorizePipeline_hash.cfg MCAuthorizePipeline` | `HashIsOfFinalCall` | the hash cache is keyed by request_id alone (`authorize_canon.rs:119`) | the hash is of the final call (`guard.rs:30`) |
| `ReceiptChain_postgres.cfg MCReceiptChain` | `NoFork` | on Postgres two appends read one head and both commit (`receipts.rs:260`) | concurrent appends cannot fork the chain (`receipts.rs:174`) |
| `CageRun_pause.cfg CageRun` | `PausedSurvives` | the wait loop takes Paused for an exit and the sandbox is destroyed (`docker_runtime.rs:117`) | a paused run remains paused (`docs/AegisAgent_Control_Command_Protocol.md:234`) |
| `CageRun_retry.cfg CageRun` | `FailedClaimIsRetried` | the nonce is recorded before the claim, so the retry is nacked as a replay (`aegis-cage-runner/src/main.rs:221`) | "will retry next tick" (`main.rs:222`) |
| `CageRun_quarantine.cfg CageRun` | `QuarantineStands` | a runner's late report replaces quarantined (`agent_runs.rs:373`) | quarantined is gateway-authoritative (`runtime.rs:610`) |
| `BrokerExecute_evidence.cfg MCBrokerExecute` | `EvidenceSurvivesCrash` | a gateway that dies between effect and receipt leaves no record (`broker.rs:421`) | a crash can never lose the evidence (`broker.rs:390`) |

Observed while modelling:

- Approvals: the consume handler diagnoses a refusal by a second read, so a
  caller with the right hash may be reported as a mismatch when the approve lands
  in between (`routes/approval.rs:363`); at now = expires_at an approval is
  neither open nor expired (`routes/approval.rs:36`).
- Authorize: a repeat after a failed audit write is told the stored allow
  although the original was told deny (`lib/decision/src/evaluate.rs:158`); a
  frozen agent's repeat is answered before the status check (`preflight.rs:151`,
  `guard.rs:121`); a failed `create_approval` leaves a require_approval row that
  repeats are answered from (`evaluate.rs:291`); early denies write no receipt
  although `authorize_receipts.rs:86` counts every non-allow as protected; a dry
  run burns its nonce and fills the hash cache. A high-risk call that was allowed
  may never reach the audit trail: the batch writer clears its buffer when a flush
  fails (`audit_batch.rs:108`), and the client has been answered by then.
  `AuthorizePipeline_audit.cfg` shows it (`HighRiskIsAudited`); the decision row
  and, for a protected decision, the receipt remain. A nonce row lapses 300 s
  after receipt, before a timestamp ahead of the clock does
  (`decision_runtime.rs:118`).
- Broker: the executor's "A state-mutating action requires a consumed approval"
  (`executor.rs:8`) is about the label; the shell connector does not look at it
  (`shell.rs:70`), so a command that writes, sent as a read, runs without an
  approval. `BrokerExecute_shell.cfg` shows it (`EveryWriteIsPaid`). The approval is spent before the route knows whether a broker is
  configured or answers, so a 501 or 503 costs the approval; the read of the
  response body is outside the client's timeout.
- Export: two failed or delayed renewals let an expired leader and its successor
  both forward a row (`ForwardedByOne`, refuted with `MaxFaults = 2`); a failed
  seed counts as cursor 0 and forwards the whole table again.
- Enforcer: a failed signal leaves the run marked Killed, so a second kill acks
  a live process until the next scan (`process_enforcer.rs:125`); a failed probe
  counts as dead; one pid is kept per run although children inherit
  AEGIS_RUN_ID; commands are executed newest first, so a pause and the resume
  that followed it are swapped; a command whose report was lost is nacked
  though executed. A scan drops a registration only when its pid is gone from the
  host (`process_collector.rs:97`), so when the pid of an ended process goes to
  another run's process, two registrations have it; a resume of the stale run
  then continues the other one, which stays marked Paused, and its next pause is
  acked without a signal (`process_enforcer.rs:140`). `HostEnforcer_stale_pid.cfg`
  shows it (`PauseIsHonest`); `AckIsHonest` exempts this case and processes whose
  signal failed, and no other.
- Commands beyond the newest page of 50 are never polled by any receiver
  (`db/control_commands.rs:92`): a kill behind that many newer commands of the
  tenant, its other runs' included, is never executed. `CageRun_page.cfg` shows it
  on a page of two (`KillIsNeverBuried`).
- A ban reaches the agent's 200 oldest active runs and no others; the doc comment
  says that "the caller logs the truncation" (`agent_runs.rs:453`), and
  `create_ban` does not (`routes/control.rs:97`).

## 7. Plan

Done, in this order because evidence and approval are what the program is for
and the ring is where a test is least able to help: ring, rotation, spool,
approval, authorize, chain; then cage runs with bans and commands, the broker on
top of approvals and receipts, the lease with the job it gates, the sensor's
enforcement; and the proofs of ring and broker (with their refinements), rotation,
authorize, chain, cage runs and export, of the approval row with its refinement of
the specification the broker implements, and of spool and enforcer.

Next, in order:

1. The health flag of the audit writer and what readiness makes of it.
2. Pure algorithms against reference definitions: egress rule matching
   (`domain_trie.rs`, `cidr.rs`), trust chain, risk levels.

## 8. Not modelled

Most of the repository's lines are not protocol: route handlers that read, filter
and format one table, the SOC's detectors and narratives, OpenAPI text, the
storage facade that forwards to them, parsing and configuration. They keep no
state across steps that a model could put in a wrong order, and are left to
tests; the modules cover the code that does.

Out of reach or without protocol state: Cedar evaluation, Docker, TLS, OIDC and
Ed25519 (libraries; their verdicts are inputs); SOC detection and narration
(heuristics over text); UI, Helm, CI; API types and serialization; single-row
CRUD. Left out of the modelled parts: metrics, logging, SOC events and GitHub
notifications; wall-clock timestamps (the approval's clock has three values);
`created_at` order in the integrity check; what sqlx does with a pooled
connection whose transaction was opened by a raw BEGIN and whose future was
dropped, or whose COMMIT failed (no ROLLBACK follows it, `receipts.rs:255`; the
model takes the rows for rolled back); rate limits, quotas and the risk tier (free inputs of the verdict).
Recursion over data and liveness stay with TLC.
