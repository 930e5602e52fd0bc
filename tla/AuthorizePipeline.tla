--------------------------- MODULE AuthorizePipeline ---------------------------
(***************************************************************************)
(* POST /v1/authorize for ONE idempotency key: the attempts of an agent    *)
(* that carry the same (tenant, agent, request_id), because the client     *)
(* retried, or sent the request twice, or reused the key.                  *)
(*                                                                         *)
(* Each attempt runs the library pipeline admit -> preflight -> guard ->   *)
(* metadata -> evaluate (lib/decision) on its own tokio task; between two  *)
(* awaits other attempts run.  What the attempts share is the database     *)
(* (the decision row, the audit events, the receipt chain, the approvals,  *)
(* the agent's status, the nonces) and the process's caches (the           *)
(* canonical-hash cache and the queue of best-effort receipts).            *)
(*                                                                         *)
(* The policy verdict and the registered risk are free: policies and       *)
(* registrations may change between two attempts.  A tool call is its      *)
(* parameters and its mutates_state flag; its hash is the call itself      *)
(* (hash_tool_call is injective on canonical calls, SHA-256 collisions     *)
(* aside).  Time is the wall clock every instance reads, assumed not to    *)
(* go back.                                                                *)
(***************************************************************************)
EXTENDS Naturals, FiniteSets

CONSTANTS Attempts,       \* HTTP attempts that carry the key
          NoAttempt,      \* no decision row yet
          Params,         \* parameter values of the tool call
          NoHash,         \* no cached hash
          Nonces, NoNonce,
          Requests,       \* bodies the client may send
          Risks,          \* risk levels the registry may answer
          Verdicts,       \* what policy evaluation and overrides may answer
          DurableNonces,  \* AEGIS_REPLAY_STORE=db
          NoTime,         \* a request without a timestamp
          Window,         \* REPLAY_NONCE_WINDOW_SECS, also the timestamp's tolerance
          MaxTime,        \* bound on the clock
          MaxCrashes      \* bound on process restarts

Calls == [params: Params, mutates: BOOLEAN]
Levels == {"low", "medium", "high", "critical"}

ASSUME RequestsAssumption ==
    Requests \subseteq [call: Calls, nonce: Nonces \cup {NoNonce},
                        ts: Nat \cup {NoTime}, dry: BOOLEAN]
ASSUME SentinelAssumption ==
    /\ NoAttempt \notin Attempts
    /\ NoNonce \notin Nonces
    /\ NoHash \notin Calls
ASSUME VerdictAssumption ==
    /\ Verdicts \subseteq {"allow", "deny", "require_approval", "quarantine", "redact"}
    /\ Risks \subseteq Levels
ASSUME CrashAssumption == MaxCrashes \in Nat /\ DurableNonces \in BOOLEAN
ASSUME TimeAssumption == Window \in Nat /\ MaxTime \in Nat /\ NoTime \notin Nat

VARIABLES
    \* the database
    rowBy, rowVerdict,   \* decisions: whose row holds the key, and its decision
    audited,             \* attempts whose audit event is stored
    receipts,            \* attempts with a receipt in the chain
    approvals,           \* attempts with an approval row
    agentStatus,         \* agents.status
    seenUntil,           \* replay nonces: when each is free again
    \* the process
    hashCache,           \* canonical_hash_cache under this request_id
    buffered,            \* audit events in the batch writer's hands
    queued,              \* best-effort receipts not flushed yet
    time, crashes,
    \* each attempt
    pc, req,
    agent,               \* the agent's status as admit read it
    received,            \* preflight's reading of the clock
    seen,                \* the idempotency lookup's answer
    call,                \* the tool call, after the admission webhook
    hash,                \* action_hash
    risk, verdict,
    early,               \* denied before policy evaluation
    answer,              \* what the client was told
    \* history
    emitted,             \* attempts whose audit event was written or handed over
    passed               \* attempts let past the replay check

decision == <<rowBy, rowVerdict>>
trail == <<audited, buffered, emitted>>
replays == <<seenUntil, passed>>
database == <<decision, trail, receipts, approvals, agentStatus, replays>>
process == <<hashCache, queued, time, crashes>>
facts == <<req, agent, received, seen, call, hash, risk, verdict, early>>
vars == <<database, process, facts, pc, answer>>

NoRequest == [call |-> NoHash, nonce |-> NoNonce, ts |-> NoTime, dry |-> FALSE]
Silence == [kind |-> "none", verdict |-> "none", approval |-> FALSE]
InFlight(a) == pc[a] \notin {"idle", "done"}

Init ==
    /\ rowBy = NoAttempt /\ rowVerdict = "none"
    /\ audited = {} /\ buffered = {} /\ emitted = {}
    /\ receipts = {} /\ approvals = {}
    /\ agentStatus = "active"
    /\ seenUntil = [n \in Nonces |-> 0] /\ passed = {}
    /\ hashCache = NoHash /\ queued = {} /\ time = 0 /\ crashes = 0
    /\ pc = [a \in Attempts |-> "idle"]
    /\ req = [a \in Attempts |-> NoRequest]
    /\ agent = [a \in Attempts |-> "none"]
    /\ received = [a \in Attempts |-> 0]
    /\ seen = [a \in Attempts |-> "none"]
    /\ call = [a \in Attempts |-> NoHash]
    /\ hash = [a \in Attempts |-> NoHash]
    /\ risk = [a \in Attempts |-> "low"]
    /\ verdict = [a \in Attempts |-> "none"]
    /\ early = [a \in Attempts |-> FALSE]
    /\ answer = [a \in Attempts |-> Silence]

-----------------------------------------------------------------------------
(* Risk classes (lib/decision/src/risk.rs).                                *)

is_high_risk_for_audit(level, mutates) == mutates \/ level # "low"

decision_requires_durable_receipt(v, level, mutates) ==
    mutates \/ level \in {"high", "critical"} \/ v # "allow"

HighRisk(a) == is_high_risk_for_audit(risk[a], req[a].call.mutates)
NeedsReceipt(a) ==
    decision_requires_durable_receipt(verdict[a], risk[a], req[a].call.mutates)
CriticalDeny(a) == verdict[a] = "deny" /\ risk[a] = "critical"

(* How an attempt ends: with a decision, or with an error status or a      *)
(* partial deny that records nothing ("failed").                           *)
Tell(a, kind, v, approval) ==
    /\ answer' = [answer EXCEPT ![a] = [kind |-> kind, verdict |-> v, approval |-> approval]]
    /\ pc' = [pc EXCEPT ![a] = "done"]

Fail(a) == Tell(a, "failed", "none", FALSE)

Goto(a, label) == pc' = [pc EXCEPT ![a] = label] /\ UNCHANGED answer

-----------------------------------------------------------------------------
(* admit_authorize: the agent lookup leaves out quarantined and deleted    *)
(* agents.  Bad JSON, lockout, a bad token, signature or environment, and  *)
(* a database error all end the attempt.                                   *)
Admit(a, r) ==
    /\ pc[a] = "idle"
    /\ req' = [req EXCEPT ![a] = r]
    /\ call' = [call EXCEPT ![a] = r.call]
    /\ \/ Fail(a) /\ UNCHANGED agent
       \/ /\ agentStatus # "quarantined"
          /\ agent' = [agent EXCEPT ![a] = agentStatus]
          /\ Goto(a, "lookup")
    /\ UNCHANGED <<database, process, received, seen, hash, risk, verdict, early>>

(* A timestamp is optional; one that is sent must be near the clock.       *)
validate_replay_timestamp(now, ts) ==
    ts # NoTime => now <= ts + Window /\ ts <= now + Window

(* preflight: tool permission joined with the idempotency lookup, whose    *)
(* error is held until after the nonce check; then the clock is read for   *)
(* the timestamp, which only a request with a nonce has checked, and for   *)
(* the row to come.                                                        *)
Lookup(a) ==
    /\ pc[a] = "lookup"
    /\ \/ Fail(a) /\ UNCHANGED <<seen, received>>
       \/ /\ \E result \in {"error", IF rowBy = NoAttempt THEN "none" ELSE "row"} :
                 seen' = [seen EXCEPT ![a] = IF req[a].dry THEN "none" ELSE result]
          /\ \/ req[a].nonce = NoNonce /\ UNCHANGED received
             \/ /\ req[a].nonce # NoNonce
                /\ validate_replay_timestamp(time, req[a].ts)
                /\ received' = [received EXCEPT ![a] = time]
          /\ Goto(a, "nonce")
    /\ UNCHANGED <<database, process, req, agent, call, hash, risk, verdict, early>>

(* check_and_record_nonce.  A row in the database lapses Window after the  *)
(* request was received, whenever the statement runs, and a lapsed row     *)
(* makes room for a new one; the process's own LRU may have evicted any    *)
(* nonce, or lost it in a restart.                                         *)
RecordNonceBlindly(a, n) ==
    seenUntil' = [seenUntil EXCEPT ![n] = received[a] + Window]

RecordNonce(a, n) ==
    /\ DurableNonces => seenUntil[n] <= time
    /\ seenUntil' = [seenUntil EXCEPT ![n] = received[a] + Window]

(* preflight, the rest: the nonce is checked and recorded in one step,     *)
(* then a known decision is replayed, and only otherwise do the rate limit *)
(* and the quota apply.                                                    *)
Preflight(a) ==
    /\ pc[a] = "nonce"
    /\ \/ req[a].nonce # NoNonce /\ Fail(a) /\ UNCHANGED replays
       \/ /\ \/ req[a].nonce = NoNonce /\ UNCHANGED seenUntil
             \/ req[a].nonce # NoNonce /\ RecordNonce(a, req[a].nonce)
          /\ passed' = passed \cup {a}
          /\ \/ seen[a] # "row" /\ Fail(a)
             \/ seen[a] = "row" /\ Goto(a, "replay")
             \/ seen[a] = "none" /\ Goto(a, "guard")
    /\ UNCHANGED <<decision, trail, receipts, approvals, agentStatus, process, facts>>

(* idempotent_replay: answer from the decision row, with its approval if   *)
(* the lookup finds one.  Decision rows are never updated, so the copy the *)
(* lookup read is the row.                                                 *)

Replay(a) ==
    /\ pc[a] = "replay"
    /\ \E found \in BOOLEAN :
           Tell(a, "replayed", rowVerdict,
                /\ rowVerdict = "require_approval"
                /\ rowBy \in approvals
                /\ found)
    /\ UNCHANGED <<database, process, facts>>

-----------------------------------------------------------------------------
(* persist_early_deny and persist_mcp_deny write a decision and an audit   *)
(* event at the given risk; a dry run only answers.                        *)
EarlyDeny(a, level) ==
    IF req[a].dry
    THEN Tell(a, "dry", "deny", FALSE) /\ UNCHANGED <<risk, verdict, early>>
    ELSE /\ risk' = [risk EXCEPT ![a] = level]
         /\ verdict' = [verdict EXCEPT ![a] = "deny"]
         /\ early' = [early EXCEPT ![a] = TRUE]
         /\ Goto(a, "write")

(* guard_authorize up to the action hash: a frozen or revoked agent must   *)
(* be denied and any other may be, by the admission webhook; or the        *)
(* webhook passes or mutates the parameters, and hash_tool_call_cached     *)
(* looks the request_id up first.                                          *)
Guard(a) ==
    /\ pc[a] = "guard"
    /\ \/ EarlyDeny(a, "critical") /\ UNCHANGED <<call, hash>>
       \/ /\ agent[a] # "frozen"
          /\ \E p \in Params :
                 LET final == [call[a] EXCEPT !.params = p]
                 IN  /\ call' = [call EXCEPT ![a] = final]
                     /\ hash' = [hash EXCEPT
                                    ![a] = IF hashCache = NoHash THEN final ELSE hashCache]
          /\ Goto(a, IF hashCache = NoHash THEN "cache" ELSE "enforce")
          /\ UNCHANGED <<risk, verdict, early>>
    /\ UNCHANGED <<database, process, req, agent, received, seen>>

(* hash_tool_call_cached after a miss: insert (a second lock, so another   *)
(* attempt may have missed as well).                                       *)
CacheHash(a) ==
    /\ pc[a] = "cache"
    /\ hashCache' = hash[a]
    /\ Goto(a, "enforce")
    /\ UNCHANGED <<database, queued, time, crashes, facts>>

(* guard_authorize, the rest: bans and quarantine records, read now.       *)
Enforce(a) ==
    /\ pc[a] = "enforce"
    /\ \/ Fail(a) /\ UNCHANGED <<risk, verdict, early>>
       \/ EarlyDeny(a, "critical")
       \/ Goto(a, "metadata") /\ UNCHANGED <<risk, verdict, early>>
    /\ UNCHANGED <<database, process, req, agent, received, seen, call, hash>>

(* metadata_authorize: the registered risk; an MCP server the agent may    *)
(* not call ends the attempt, a quarantined server denies at critical risk *)
(* and an unapproved tool at its own.                                      *)
Metadata(a) ==
    /\ pc[a] = "metadata"
    /\ \/ Fail(a) /\ UNCHANGED <<risk, verdict, early>>
       \/ \E level \in Risks \cup {"critical"} : EarlyDeny(a, level)
       \/ /\ \E level \in Risks : risk' = [risk EXCEPT ![a] = level]
          /\ Goto(a, "evaluate")
          /\ UNCHANGED <<verdict, early>>
    /\ UNCHANGED <<database, process, req, agent, received, seen, call, hash>>

(* evaluate_authorize up to the first write: policy evaluation and the     *)
(* overrides; a high-risk call is denied unrecorded if the SOC stream is   *)
(* full.  A dry run answers here.                                          *)
Evaluate(a) ==
    /\ pc[a] = "evaluate"
    /\ \/ Fail(a) /\ UNCHANGED verdict
       \/ \E v \in Verdicts :
              /\ verdict' = [verdict EXCEPT ![a] = v]
              /\ \/ req[a].dry /\ Tell(a, "dry", v, FALSE)
                 \/ /\ ~req[a].dry /\ HighRisk(a)
                    /\ Tell(a, "unrecorded", "deny", FALSE)
                 \/ ~req[a].dry /\ Goto(a, "write")
    /\ UNCHANGED <<database, process, req, agent, received, seen, call, hash, risk, early>>

-----------------------------------------------------------------------------
(* write_decision_and_audit failed: an early denial becomes an error, a    *)
(* high-risk call is denied, a low-risk one proceeds unrecorded.           *)
WriteFailsOpen(a) ==
    IF early[a] THEN Fail(a) ELSE Tell(a, "unrecorded", verdict[a], FALSE)

WriteFails(a) ==
    IF early[a] THEN Fail(a)
    ELSE Tell(a, "unrecorded", IF HighRisk(a) THEN "deny" ELSE verdict[a], FALSE)

(* insert_decision under the unique index on (tenant, agent, request_id).  *)
InsertDecisionIgnores(a) ==
    IF rowBy = NoAttempt
    THEN rowBy' = a /\ rowVerdict' = verdict[a]
    ELSE UNCHANGED decision

InsertDecision(a) ==
    /\ rowBy = NoAttempt
    /\ rowBy' = a
    /\ rowVerdict' = verdict[a]

Write(a) ==
    /\ pc[a] = "write"
    /\ \/ InsertDecision(a) /\ Goto(a, "audit")
       \/ WriteFails(a) /\ UNCHANGED decision
    /\ UNCHANGED <<trail, receipts, approvals, agentStatus, replays, process, facts>>

(* The audit event: inserted for a critical denial; otherwise handed to    *)
(* the batch writer in memory, or inserted if its queue is full.           *)
EmitAudit(a) ==
    /\ emitted' = emitted \cup {a}
    /\ \/ audited' = audited \cup {a} /\ UNCHANGED buffered
       \/ ~CriticalDeny(a) /\ buffered' = buffered \cup {a} /\ UNCHANGED audited

Audit(a) ==
    /\ pc[a] = "audit"
    /\ \/ /\ EmitAudit(a)
          /\ IF early[a] THEN Tell(a, "early", "deny", FALSE) ELSE Goto(a, "receipt")
       \/ WriteFails(a) /\ UNCHANGED trail
    /\ UNCHANGED <<decision, receipts, approvals, agentStatus, replays, process, facts>>

(* The receipt: appended before the answer for a protected decision, which *)
(* otherwise fails; queued, appended because the queue is full, or lost    *)
(* with a log line for the others.                                         *)
DurableReceiptFailsOpen(a) ==
    /\ receipts' \in {receipts, receipts \cup {a}}
    /\ Goto(a, "effects")

DurableReceipt(a) ==
    \/ /\ receipts' = receipts \cup {a}
       /\ Goto(a, "effects")
    \/ Fail(a) /\ UNCHANGED receipts

Receipt(a) ==
    /\ pc[a] = "receipt"
    /\ \/ NeedsReceipt(a) /\ DurableReceipt(a) /\ UNCHANGED queued
       \/ /\ ~NeedsReceipt(a)
          /\ \/ queued' = queued \cup {a} /\ UNCHANGED receipts
             \/ receipts' = receipts \cup {a} /\ UNCHANGED queued
             \/ UNCHANGED <<queued, receipts>>
          /\ Goto(a, "effects")
    /\ UNCHANGED <<decision, trail, approvals, agentStatus, replays,
                   hashCache, time, crashes, facts>>

(* The decision's consequences: create_approval, whose failure ends the    *)
(* attempt; set_agent_status("quarantined"), whose failure is only logged. *)
(* The agent's risk tier after a denial is an input of the (free) policy   *)
(* verdict and has no state here.                                          *)
Effects(a) ==
    /\ pc[a] = "effects"
    /\ \/ /\ verdict[a] = "require_approval"
          /\ \/ approvals' = approvals \cup {a} /\ Tell(a, "decided", verdict[a], TRUE)
             \/ Fail(a) /\ UNCHANGED approvals
          /\ UNCHANGED agentStatus
       \/ /\ verdict[a] # "require_approval"
          /\ agentStatus' \in IF verdict[a] = "quarantine"
                              THEN {agentStatus, "quarantined"} ELSE {agentStatus}
          /\ Tell(a, "decided", verdict[a], FALSE)
          /\ UNCHANGED approvals
    /\ UNCHANGED <<decision, trail, receipts, replays, process, facts>>

-----------------------------------------------------------------------------
(* The request's future is dropped at an await: the client hung up or the  *)
(* gateway's global request timeout fired.  Nothing is undone.             *)
Cancel(a) ==
    /\ InFlight(a)
    /\ pc' = [pc EXCEPT ![a] = "done"]
    /\ UNCHANGED <<database, process, facts, answer>>

(* The receipt batch writer drains its queue; a row that neither the batch *)
(* nor the single append could write is dropped with a log line.           *)
Flush ==
    /\ queued # {}
    /\ \E written \in SUBSET queued : receipts' = receipts \cup written
    /\ queued' = {}
    /\ UNCHANGED <<decision, trail, approvals, agentStatus, replays,
                   hashCache, time, crashes, facts, pc, answer>>

(* The audit batch writer inserts what it holds in one transaction; if     *)
(* that fails it clears its buffer all the same.                           *)
FlushAudit ==
    /\ buffered # {}
    /\ audited' \in {audited, audited \cup buffered}
    /\ buffered' = {}
    /\ UNCHANGED <<decision, emitted, receipts, approvals, agentStatus, replays,
                   process, facts, pc, answer>>

(* Capacity pressure of other requests on the LRU of canonical hashes.     *)
Evict ==
    /\ hashCache # NoHash
    /\ hashCache' = NoHash
    /\ UNCHANGED <<database, queued, time, crashes, facts, pc, answer>>

(* Time passes.                                                            *)
Elapse ==
    /\ time < MaxTime
    /\ time' = time + 1
    /\ UNCHANGED <<database, hashCache, queued, crashes, facts, pc, answer>>

(* An operator, a playbook or another request of this agent.               *)
SetStatus(status) ==
    /\ agentStatus' = status
    /\ agentStatus # status
    /\ UNCHANGED <<decision, trail, receipts, approvals, replays,
                   process, facts, pc, answer>>

(* The gateway process restarts: caches, queues and buffers are gone.      *)
Crash ==
    /\ crashes < MaxCrashes
    /\ crashes' = crashes + 1
    /\ pc' = [a \in Attempts |-> IF InFlight(a) THEN "done" ELSE pc[a]]
    /\ hashCache' = NoHash
    /\ queued' = {} /\ buffered' = {}
    /\ UNCHANGED <<decision, audited, emitted, receipts, approvals, agentStatus, replays,
                   time, facts, answer>>

Step(a) ==
    \/ \E r \in Requests : Admit(a, r)
    \/ Lookup(a) \/ Preflight(a) \/ Replay(a)
    \/ Guard(a) \/ CacheHash(a) \/ Enforce(a) \/ Metadata(a) \/ Evaluate(a)
    \/ Write(a) \/ Audit(a) \/ Receipt(a) \/ Effects(a)
    \/ Cancel(a)

Next ==
    \/ \E a \in Attempts : Step(a)
    \/ \E status \in {"active", "frozen", "quarantined"} : SetStatus(status)
    \/ Flush \/ FlushAudit \/ Evict \/ Elapse \/ Crash

Spec == Init /\ [][Next]_vars

-----------------------------------------------------------------------------
(* Properties.                                                             *)

Statuses == {"active", "frozen", "quarantined"}
Labels == {"idle", "lookup", "nonce", "replay", "guard", "cache", "enforce",
           "metadata", "evaluate", "write", "audit", "receipt", "effects", "done"}
Kinds == {"none", "failed", "dry", "unrecorded", "early", "decided", "replayed"}

(* Every variable keeps its type.                                          *)
TypeOK ==
    /\ rowBy \in Attempts \cup {NoAttempt}
    /\ rowVerdict \in Verdicts \cup {"none", "deny"}
    /\ audited \subseteq Attempts /\ buffered \subseteq Attempts
    /\ emitted \subseteq Attempts /\ receipts \subseteq Attempts
    /\ approvals \subseteq Attempts /\ queued \subseteq Attempts
    /\ agentStatus \in Statuses
    /\ seenUntil \in [Nonces -> Nat] /\ passed \subseteq Attempts
    /\ time \in Nat /\ received \in [Attempts -> Nat]
    /\ hashCache \in Calls \cup {NoHash}
    /\ crashes \in 0..MaxCrashes
    /\ pc \in [Attempts -> Labels]
    /\ req \in [Attempts -> Requests \cup {NoRequest}]
    /\ agent \in [Attempts -> Statuses \cup {"none"}]
    /\ seen \in [Attempts -> {"none", "row", "error"}]
    /\ call \in [Attempts -> Calls \cup {NoHash}]
    /\ hash \in [Attempts -> Calls \cup {NoHash}]
    /\ risk \in [Attempts -> Levels]
    /\ verdict \in [Attempts -> Verdicts \cup {"none", "deny"}]
    /\ early \in [Attempts -> BOOLEAN]
    /\ answer \in [Attempts -> [kind: Kinds, verdict: Verdicts \cup {"none", "deny"},
                                approval: BOOLEAN]]

(* The idempotency key admits one original: audit events, receipts and the *)
(* approval all belong to the attempt that holds the decision row, however *)
(* many attempts race past the idempotency lookup, and each was emitted    *)
(* after the one before it (no receipt before its audit event was written  *)
(* or handed to the batch writer, which may still lose it; no approval     *)
(* without its receipt in the chain).                                      *)
OneOriginal ==
    /\ emitted \subseteq {rowBy}
    /\ audited \cup buffered \subseteq emitted
    /\ receipts \cup queued \subseteq emitted
    /\ approvals \subseteq receipts

(* An attempt told its decision has its evidence behind it: stored are the *)
(* row with the verdict it was told, the audit event of a critical denial  *)
(* and, past policy evaluation, the receipt if the decision is protected   *)
(* and the approval if one is required.  Any other audit event has been    *)
(* emitted and no more: it may be in the batch writer's buffer, and lost   *)
(* with it.                                                                *)
EvidenceBeforeAnswer ==
    \A a \in Attempts :
        /\ answer[a].kind \in {"decided", "early"} =>
               /\ rowBy = a
               /\ rowVerdict = answer[a].verdict
               /\ a \in emitted
               /\ CriticalDeny(a) => a \in audited
        /\ answer[a].kind = "decided" =>
               /\ NeedsReceipt(a) => a \in receipts
               /\ answer[a].verdict = "require_approval" => a \in approvals

(* A high-risk call fails closed on its record: whoever is told anything   *)
(* but a denial for one, by its own evaluation or by a replay, whichever   *)
(* writes failed and whatever crashed since, is told what a stored         *)
(* decision row says.  The row is the durable record; of the audit event   *)
(* no more is promised than EvidenceBeforeAnswer says.                     *)
HighRiskIsRecorded ==
    \A a \in Attempts :
        ( /\ answer[a].kind \in {"unrecorded", "decided", "replayed"}
          /\ HighRisk(a)
          /\ answer[a].verdict # "deny" )
            => rowBy # NoAttempt /\ rowVerdict = answer[a].verdict

(* Attempts answered from the decision row, by the attempt that wrote it   *)
(* or by a replay, are told the same verdict.                              *)
RowAnswersAgree ==
    \A a, b \in Attempts :
        ({answer[a].kind, answer[b].kind} \subseteq {"decided", "early", "replayed"}) =>
            answer[a].verdict = answer[b].verdict

(* An attempt gets past the replay check with a nonce that another attempt *)
(* got past it with only when the other was received at least Window       *)
(* earlier, over crashes too when the nonces are in the database.  (Past   *)
(* that a repeat is the timestamp check's to refuse, which lets through    *)
(* one that is undated, dated ahead of its first use, or kept waiting for  *)
(* its own statement.)                                                     *)
NonceOnce ==
    [][\A a, b \in Attempts :
          ( /\ a \in passed' \ passed /\ b \in passed
            /\ req[a].nonce # NoNonce /\ req[a].nonce = req[b].nonce )
              => time >= received[b] + Window]_vars

(* What makes the properties above inductive.  Answered: an attempt is     *)
(* answered once, at its end, so what it was told is judged against facts  *)
(* that no longer move.  Admitted: an attempt past admit has a real call.  *)
(* RowIsOwn: past the insert the row is the attempt's own, and past each   *)
(* write its evidence is there.  RowIsKnown: who answers from the row has  *)
(* one to answer from.  NonceIsSpent: the row of a nonce somebody passed   *)
(* with is there for Window.                                               *)
Answered == \A a \in Attempts : answer[a].kind # "none" => pc[a] = "done"

Admitted ==
    \A a \in Attempts : pc[a] # "idle" => req[a] \in Requests /\ call[a] \in Calls

RowIsOwn ==
    \A a \in Attempts :
        /\ early[a] => verdict[a] = "deny" /\ pc[a] \in {"write", "audit", "done"}
        /\ pc[a] \in {"audit", "receipt", "effects"} =>
               rowBy = a /\ rowVerdict = verdict[a]
        /\ pc[a] \in {"receipt", "effects"} =>
               a \in emitted /\ (CriticalDeny(a) => a \in audited)
        /\ pc[a] = "effects" /\ NeedsReceipt(a) => a \in receipts

RowIsKnown ==
    \A a \in Attempts :
        /\ seen[a] = "row" \/ pc[a] = "replay" => rowBy # NoAttempt
        /\ answer[a].kind \in {"decided", "early", "replayed"} =>
               rowBy # NoAttempt /\ answer[a].verdict = rowVerdict

NonceIsSpent ==
    \A a \in passed :
        /\ pc[a] \notin {"idle", "lookup", "nonce"}
        /\ req[a].nonce # NoNonce =>
               \/ seenUntil[req[a].nonce] >= received[a] + Window
               \/ time >= received[a] + Window

IndInv ==
    /\ TypeOK /\ Answered /\ Admitted /\ RowIsOwn /\ RowIsKnown
    /\ OneOriginal /\ EvidenceBeforeAnswer /\ HighRiskIsRecorded

(* What the repository says of this code, or a reader may expect of it,    *)
(* and the code does not do.                                               *)

(* A protected allow is told to a client only with its receipt in the      *)
(* chain, whether the attempt decided it or replayed it.                   *)
AllowHasReceipt ==
    \A a \in Attempts :
        ( /\ answer[a].kind \in {"decided", "replayed"}
          /\ answer[a].verdict = "allow"
          /\ NeedsReceipt(rowBy) )
            => rowBy \in receipts

(* The audit event of an allowed high-risk call is stored or on its way.   *)
HighRiskIsAudited ==
    \A a \in Attempts :
        (answer[a].kind = "decided" /\ HighRisk(a)) => a \in audited \cup buffered

(* The action hash is the hash of the tool call as the webhook left it.    *)
HashIsOfFinalCall ==
    \A a \in Attempts :
        pc[a] \in {"enforce", "metadata", "evaluate", "write", "audit", "receipt", "effects"} =>
            hash[a] \in {NoHash, call[a]}

=============================================================================
