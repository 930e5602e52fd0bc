------------------------------ MODULE Approval ------------------------------
(***************************************************************************)
(* One row of the `approvals` table over its whole life: the reviewers'    *)
(* approve, reject and edit handlers, the consume handler, the SDK         *)
(* wrapper that executes the approved action, the expiry of the approval   *)
(* window and the retention sweep.                                         *)
(*                                                                         *)
(* Every handler reads the row in one statement and writes it in another.  *)
(* Each statement is one step here, so the steps of two reviewers, of      *)
(* several executors, of the clock and of the sweep interleave between     *)
(* them.  A handler addresses one row by its primary key, so one row is    *)
(* all there is to model.  Action hashes are values of Hashes: two calls   *)
(* have the same hash iff they are the same canonical action.              *)
(***************************************************************************)
EXTENDS FiniteSets

CONSTANTS
    Reviewers,      \* human reviewers (REST, gRPC or Slack callers)
    Viewers,        \* those that act on a display of the approval
    Executors,      \* callers of POST /v1/approvals/:id/consume
    Hashes,         \* action hashes
    Original,       \* original_call_hash, written when the row is created
    Want,           \* Want[e]: the hash of the action executor e would run
    Polling,        \* executors that poll for APPROVED first (the SDKs)
    NULL            \* SQL NULL, and "no one"

ASSUME OriginalAssumption == Original \in Hashes
ASSUME NullAssumption == NULL \notin Hashes /\ NULL \notin Executors /\ NULL \notin Reviewers
ASSUME WantAssumption == Want \in [Executors -> Hashes]
ASSUME CallersAssumption ==
    Viewers \subseteq Reviewers /\ Polling \subseteq Executors

VARIABLES
    status,     \* column status; EXPIRED is computed, never stored
    effective,  \* column effective_call_hash
    consumer,   \* column consumed_at: NULL, or who set it
    present,    \* FALSE once the retention sweep has deleted the row
    clock,      \* now relative to expires_at: "before", "at", "after"
    rpc,        \* rpc[r]: where reviewer r's request is
    request,    \* request[r]: what it asks for, and the hash of an edited call
    viewed,     \* viewed[r]: the action_hash displayed to r
    told,       \* decisions the gateway confirmed or audited
    claims,     \* claims[e]: e's call sends its claimed_action_hash
    srv,        \* srv[e]: where the handler of e's consume call is
    reply,      \* reply[e]: action_hash of a 200 response on its way
    cli,        \* cli[e]: where the executor itself is
    tampers,    \* tags of the tamper-attempt receipts
    grant,      \* history: the hash in effect when the row was approved
    shown       \* history: the hash its approver had been shown

row     == <<status, effective, consumer, present>>
review  == <<rpc, request, viewed, told>>
consume == <<claims, srv, reply, cli>>
history == <<grant, shown>>
approvalVars    == <<row, clock, review, consume, tampers, history>>

NoReview == [kind |-> "none", hash |-> Original]
ReviewRequests == [kind : {"none", "approve", "reject", "edit"}, hash : Hashes]
Decided == {"APPROVED", "REJECTED"}
Verdict(kind) == IF kind = "approve" THEN "APPROVED" ELSE "REJECTED"
ExpiredTag(kind) == CASE kind = "approve" -> "approve_expired"
                      [] kind = "reject" -> "reject_expired"
                      [] kind = "edit" -> "edit_expired"
TamperTags == {"approve_expired", "reject_expired", "edit_expired",
               "consume_hash_mismatch", "consume_not_consumable"}

\* One type invariant for all the columns and program counters.
ApprovalTypeOK ==
    /\ status \in {"created"} \cup Decided
    /\ effective \in Hashes \cup {NULL}
    /\ consumer \in Executors \cup {NULL}
    /\ present \in BOOLEAN
    /\ clock \in {"before", "at", "after"}
    /\ rpc \in [Reviewers -> {"idle", "viewing", "update", "audit", "conflict"}]
    /\ request \in [Reviewers -> ReviewRequests]
    /\ viewed \in [Reviewers -> Hashes \cup {NULL}]
    /\ told \subseteq (Reviewers \X Decided)
    /\ claims \in [Executors -> BOOLEAN]
    /\ srv \in [Executors -> {"idle", "update", "reread", "diagnose", "ok", "mismatch", "conflict"}]
    /\ reply \in [Executors -> Hashes \cup {NULL}]
    /\ cli \in [Executors -> {"poll", "waiting", "executed", "refused"}]
    /\ tampers \subseteq TamperTags
    /\ grant \in IF status = "APPROVED" THEN Hashes ELSE {NULL}
    /\ shown \in Hashes \cup {NULL}

ApprovalInit ==
    /\ status = "created" /\ effective = NULL /\ consumer = NULL /\ present = TRUE
    /\ clock = "before"
    /\ rpc = [r \in Reviewers |-> "idle"]
    /\ request = [r \in Reviewers |-> NoReview]
    /\ viewed = [r \in Reviewers |-> NULL]
    /\ told = {}
    /\ claims = [e \in Executors |-> TRUE]
    /\ srv = [e \in Executors |-> "idle"]
    /\ reply = [e \in Executors |-> NULL]
    /\ cli = [e \in Executors |-> "poll"]
    /\ tampers = {}
    /\ grant = NULL /\ shown = NULL

-----------------------------------------------------------------------------
(* The row's predicates, as the SQL and the handlers state them. *)

\* COALESCE(effective_call_hash, original_call_hash).
Effective == IF effective = NULL THEN Original ELSE effective

\* expires_at > now: the window the conditional UPDATEs demand.
Open == clock = "before"

\* approval_is_expired: expires_at < now.  At the instant of expiry the row
\* is neither open nor expired.
IsExpired == clock = "after"

\* The WHERE clause of both reviewer UPDATEs: still pending, still open.
Transitionable == present /\ status = "created" /\ Open

TransitionableNoStatus == present /\ Open

\* The WHERE clause of approval_is_still_consumable.
StillConsumable == present /\ status = "APPROVED" /\ consumer = NULL /\ Open

\* The WHERE clause of consume_approval: consumable, and the claimed hash, if
\* there is one, is the effective hash.
ConsumableTwice(e) == present /\ status = "APPROVED" /\ Open /\ (claims[e] => Want[e] = Effective)
ConsumableByAnyHash(e) == StillConsumable
Consumable(e) == StillConsumable /\ (claims[e] => Want[e] = Effective)

-----------------------------------------------------------------------------
(* Reviewers. *)

\* The action_hash of an entry of list_approvals, the same as get_approval's.
Displayed == Effective

\* get_approval and list_approvals display the effective hash of the row; a
\* reviewer may act on that display, or without one.
View(r) ==
    /\ rpc[r] = "idle" /\ r \in Viewers /\ present
    /\ rpc' = [rpc EXCEPT ![r] = "viewing"]
    /\ viewed' = [viewed EXCEPT ![r] = Displayed]
    /\ UNCHANGED <<row, clock, request, told, consume, tampers, history>>

\* emit_tamper_attempt_receipt: appended best effort, a failure is only logged.
TamperReceipt(tag) == tampers' \in {tampers, tampers \cup {tag}}

\* A handler that answers: the request is over.
Answer(r) ==
    /\ rpc' = [rpc EXCEPT ![r] = "idle"]
    /\ request' = [request EXCEPT ![r] = NoReview]
    /\ viewed' = [viewed EXCEPT ![r] = NULL]

\* A handler whose pre-read lets the request through to its UPDATE.
Proceed(r, kind, h) ==
    /\ rpc' = [rpc EXCEPT ![r] = "update"]
    /\ request' = [request EXCEPT ![r] = [kind |-> kind, hash |-> h]]
    /\ UNCHANGED <<viewed, tampers>>

Refuse(r) == Answer(r) /\ UNCHANGED tampers

\* approve's pre-read: 404 without a row, 409 once it is decided, 409 and a
\* receipt once it is expired.
RequestApprove(r) ==
    /\ rpc[r] \in {"idle", "viewing"}
    /\ IF ~present \/ status # "created" THEN Refuse(r)
       ELSE IF IsExpired THEN Answer(r) /\ TamperReceipt("approve_expired")
       ELSE Proceed(r, "approve", Original)
    /\ UNCHANGED <<row, clock, told, consume, history>>

\* reject's pre-read only asks whether the row exists.
RequestReject(r) ==
    /\ rpc[r] \in {"idle", "viewing"}
    /\ IF ~present THEN Refuse(r) ELSE Proceed(r, "reject", Original)
    /\ UNCHANGED <<row, clock, told, consume, history>>

\* edit's pre-read refuses a decided row but not an expired one; h is the
\* hash of the edited call.
RequestEdit(r, h) ==
    /\ rpc[r] \in {"idle", "viewing"}
    /\ IF ~present \/ status # "created" THEN Refuse(r) ELSE Proceed(r, "edit", h)
    /\ UNCHANGED <<row, clock, told, consume, history>>

\* update_approval_status: the conditional UPDATE that decides the row.
UpdateStatusBlind(r, kind) ==
    /\ rpc[r] = "update" /\ request[r].kind = kind
    /\ IF TransitionableNoStatus
         THEN /\ status' = Verdict(kind)
              /\ rpc' = [rpc EXCEPT ![r] = "audit"]
              /\ grant' = IF kind = "approve" THEN Effective ELSE grant
              /\ shown' = IF kind = "approve" THEN viewed[r] ELSE shown
         ELSE /\ rpc' = [rpc EXCEPT ![r] = "conflict"]
              /\ UNCHANGED <<status, history>>
    /\ UNCHANGED <<effective, consumer, present, clock, request, viewed, told, consume, tampers>>
UpdateStatus(r, kind) ==
    /\ rpc[r] = "update" /\ request[r].kind = kind
    /\ IF Transitionable
         THEN /\ status' = Verdict(kind)
              /\ rpc' = [rpc EXCEPT ![r] = "audit"]
              /\ grant' = IF kind = "approve" THEN Effective ELSE grant
              /\ shown' = IF kind = "approve" THEN viewed[r] ELSE shown
         ELSE /\ rpc' = [rpc EXCEPT ![r] = "conflict"]
              /\ UNCHANGED <<status, history>>
    /\ UNCHANGED <<effective, consumer, present, clock, request, viewed, told, consume, tampers>>

Approve(r) == UpdateStatus(r, "approve")
Reject(r) == UpdateStatus(r, "reject")

\* update_approval_edit: re-binds the row to the edited call and leaves it
\* pending.
Edit(r) ==
    /\ rpc[r] = "update" /\ request[r].kind = "edit"
    /\ effective' = IF Transitionable THEN request[r].hash ELSE effective
    /\ rpc' = [rpc EXCEPT ![r] = IF Transitionable THEN "audit" ELSE "conflict"]
    /\ UNCHANGED <<status, consumer, present, clock, request, viewed, told, consume, tampers, history>>

\* The audit event of a decision (its failure is ignored) and the success
\* response.
Confirm(r) ==
    /\ rpc[r] = "audit" /\ request[r].kind # "edit"
    /\ Answer(r)
    /\ told' = told \cup {<<r, Verdict(request[r].kind)>>}
    /\ UNCHANGED <<row, clock, consume, tampers, history>>

\* The same of an edit, which is recorded as provenance, not as a decision.
ConfirmEdit(r) ==
    /\ rpc[r] = "audit" /\ request[r].kind = "edit"
    /\ Answer(r)
    /\ UNCHANGED <<row, clock, told, consume, tampers, history>>

\* conflict_response_for_failed_transition: re-reads the row to word the 409;
\* a row that is pending but expired also gets a receipt.
Conflict(r) ==
    /\ rpc[r] = "conflict"
    /\ Answer(r)
    /\ IF present /\ status = "created" /\ IsExpired
         THEN TamperReceipt(ExpiredTag(request[r].kind))
         ELSE UNCHANGED tampers
    /\ UNCHANGED <<row, clock, told, consume, history>>

\* The reviewer leaves, or a database error or the gateway stopping ends the
\* request between any two of its statements.
Abandon(r) ==
    /\ rpc[r] # "idle"
    /\ Answer(r)
    /\ UNCHANGED <<row, clock, told, consume, tampers, history>>

-----------------------------------------------------------------------------
(* Executors: the SDK's wrapper and the consume handler it calls. *)

\* One poll of the wrapper.  A missing or still pending row is polled again;
\* an expired window, a rejection or another action's hash fails closed; only
\* APPROVED with the wrapper's own hash goes on to consume.
Poll(e) ==
    /\ cli[e] = "poll" /\ e \in Polling /\ present
    /\ ~Open \/ status # "created"
    /\ IF Open /\ status = "APPROVED" /\ Effective = Want[e]
         THEN cli' = [cli EXCEPT ![e] = "waiting"] /\ srv' = [srv EXCEPT ![e] = "update"]
         ELSE cli' = [cli EXCEPT ![e] = "refused"] /\ UNCHANGED srv
    /\ UNCHANGED <<row, clock, review, claims, reply, tampers, history>>

\* A caller of the endpoint that does not poll first; the body with the
\* claimed hash is optional.
CallConsume(e) ==
    /\ cli[e] = "poll" /\ e \notin Polling
    /\ \E c \in BOOLEAN : claims' = [claims EXCEPT ![e] = c]
    /\ cli' = [cli EXCEPT ![e] = "waiting"]
    /\ srv' = [srv EXCEPT ![e] = "update"]
    /\ UNCHANGED <<row, clock, review, reply, tampers, history>>

\* db::consume_approval: the conditional UPDATE that spends the row.
ConsumeUpdate(e) ==
    /\ srv[e] = "update"
    /\ consumer' = IF Consumable(e) THEN e ELSE consumer
    /\ srv' = [srv EXCEPT ![e] = IF Consumable(e) THEN "reread" ELSE "diagnose"]
    /\ UNCHANGED <<status, effective, present, clock, review, claims, reply, cli, tampers, history>>

\* The handler re-reads the row for the effective hash of its response; a row
\* that is gone by then, or a failed read, makes it the empty string.
Reread(e) ==
    /\ srv[e] = "reread"
    /\ \E h \in IF present THEN {NULL, Effective} ELSE {NULL} :
          reply' = [reply EXCEPT ![e] = h]
    /\ srv' = [srv EXCEPT ![e] = "ok"]
    /\ UNCHANGED <<row, clock, review, claims, cli, tampers, history>>

\* The refused consume: another read, whose failure counts as no, decides
\* which receipt is written and how the 409 is worded.  (The read before it
\* only fills in the receipt's fields.)
Diagnose(e) ==
    /\ srv[e] = "diagnose"
    /\ \E mismatch \in {FALSE, claims[e] /\ StillConsumable} :
           /\ srv' = [srv EXCEPT ![e] = IF mismatch THEN "mismatch" ELSE "conflict"]
           /\ TamperReceipt(IF mismatch THEN "consume_hash_mismatch" ELSE "consume_not_consumable")
    /\ UNCHANGED <<row, clock, review, claims, reply, cli, history>>

\* The handler stops without an answer: a database error, a crash, or a
\* response that is lost on the way.
ConsumeLost(e) ==
    /\ srv[e] # "idle"
    /\ srv' = [srv EXCEPT ![e] = "idle"]
    /\ reply' = [reply EXCEPT ![e] = NULL]
    /\ UNCHANGED <<row, clock, review, claims, cli, tampers, history>>

\* The response reaches a wrapper that still waits: 200 with its own hash
\* runs the tool, anything else fails closed.
ReceiveUnverified(e) ==
    /\ cli[e] = "waiting" /\ srv[e] \in {"ok", "mismatch", "conflict"}
    /\ cli' = [cli EXCEPT ![e] = IF srv[e] = "ok"
                                   THEN "executed" ELSE "refused"]
    /\ srv' = [srv EXCEPT ![e] = "idle"]
    /\ reply' = [reply EXCEPT ![e] = NULL]
    /\ UNCHANGED <<row, clock, review, claims, tampers, history>>
Receive(e) ==
    /\ cli[e] = "waiting" /\ srv[e] \in {"ok", "mismatch", "conflict"}
    /\ cli' = [cli EXCEPT ![e] = IF srv[e] = "ok" /\ reply[e] = Want[e]
                                   THEN "executed" ELSE "refused"]
    /\ srv' = [srv EXCEPT ![e] = "idle"]
    /\ reply' = [reply EXCEPT ![e] = NULL]
    /\ UNCHANGED <<row, clock, review, claims, tampers, history>>

\* The poll deadline or the HTTP timeout passes.  The handler of a call that
\* was already sent goes on at the gateway.
GiveUp(e) ==
    /\ cli[e] \in {"poll", "waiting"}
    /\ cli' = [cli EXCEPT ![e] = "refused"]
    /\ UNCHANGED <<row, clock, review, claims, srv, reply, tampers, history>>

-----------------------------------------------------------------------------
(* Time and retention. *)

\* now passes expires_at.
Tick ==
    /\ clock # "after"
    /\ clock' = IF clock = "before" THEN "at" ELSE "after"
    /\ UNCHANGED <<row, review, consume, tampers, history>>

\* delete_expired_approvals_older_than: decided rows and dead pending ones.
Deletable == present /\ (status # "created" \/ IsExpired)

\* The retention job.  Its cutoff is configured independently of the approval
\* window, so a row may be older than it at any time.
Sweep ==
    /\ Deletable
    /\ present' = FALSE
    /\ UNCHANGED <<status, effective, consumer, clock, review, consume, tampers, history>>

-----------------------------------------------------------------------------
ReviewerNext(r) ==
    \/ View(r)
    \/ RequestApprove(r)
    \/ RequestReject(r)
    \/ \E h \in Hashes : RequestEdit(r, h)
    \/ Approve(r) \/ Reject(r) \/ Edit(r)
    \/ Confirm(r) \/ ConfirmEdit(r) \/ Conflict(r) \/ Abandon(r)

ExecutorNext(e) ==
    \/ Poll(e) \/ CallConsume(e)
    \/ ConsumeUpdate(e) \/ Reread(e) \/ Diagnose(e) \/ ConsumeLost(e)
    \/ Receive(e) \/ GiveUp(e)

ApprovalNext ==
    \/ \E r \in Reviewers : ReviewerNext(r)
    \/ \E e \in Executors : ExecutorNext(e)
    \/ Tick \/ Sweep

ApprovalSpec == ApprovalInit /\ [][ApprovalNext]_approvalVars

-----------------------------------------------------------------------------
(* Properties. *)

\* consume is single-use: however many callers race, with or without a hash,
\* at most one is ever granted the row, be its 200 still in the making, on its
\* way, or the tool already run.
Granted(e) == srv[e] \in {"reread", "ok"} \/ cli[e] = "executed"
ExecutedOnce == \A e, f \in Executors : Granted(e) /\ Granted(f) => e = f

\* What runs is the action whose hash was bound at the moment the reviewer's
\* approve took effect: neither a later edit nor a caller with another action
\* can put itself between approval and execution.
ExecutedIsApproved ==
    \A e \in Executors : cli[e] = "executed" => status = "APPROVED" /\ Want[e] = grant

\* The row is a one-shot capability: what its reviewers granted is performed at
\* most once, by a caller whose consume spent the row, and exactly as granted,
\* whatever is edited, raced, lost, timed out or swept in between.  The broker's
\* route promises the same of its approvals (BrokerExecute).
Rows == {"row"}
Capability == INSTANCE GrantedEffects WITH
    Calls <- Executors, Approvals <- Rows, Actions <- Hashes,
    grant <- [a \in Rows |-> grant],
    spent <- {a \in Rows : consumer # NULL},
    performed <- {<<e, "row", Want[e]>> : e \in {f \in Executors : cli[f] = "executed"}}
ImplementsCapability == Capability!Spec

\* No two reviewers are ever both told, or both audited as, the decider, and
\* what was confirmed is what the row says, however their reads, writes and
\* audit events interleave.
OneVerdict ==
    /\ \A d \in told : d[2] = status
    /\ \A c, d \in told : c = d

\* A caller presenting the wrong hash does not spend the approval: when an
\* executor that saw its own action APPROVED is refused, the window closed,
\* the row was swept, or a caller entitled to it (same action, or one of those
\* that claim no hash) came first.
RefusalIsDeserved ==
    \A e \in Polling : srv[e] \in {"diagnose", "mismatch", "conflict"} =>
        \/ ~Open
        \/ ~present
        \/ consumer # NULL /\ (claims[consumer] => Want[consumer] = Want[e])

\* Once decided, a row keeps its verdict and its bound action, and a spent row
\* stays spent: no handler that read the row while it was pending changes them.
DecisionIsFinal ==
    [][/\ status \in Decided => status' = status /\ effective' = effective
       /\ consumer # NULL => consumer' = consumer]_approvalVars

\* What makes the properties above inductive: the bound action does not move
\* after the decision, a consume handler past its UPDATE is the one consumer
\* and answers with the bound hash, a consumer was entitled to the row, a
\* polling executor's call was made for the bound action, and a confirmation
\* still to be sent is the only one.
Deciding(r) == rpc[r] = "audit" /\ request[r].kind # "edit"
BoundStays == status = "APPROVED" => grant = Effective
SpentByOne ==
    /\ consumer # NULL => status = "APPROVED" /\ (claims[consumer] => Want[consumer] = Effective)
    /\ \A e \in Executors :
          /\ cli[e] = "poll" => srv[e] = "idle" /\ consumer # e
          /\ srv[e] \in {"reread", "ok"} => consumer = e
          /\ srv[e] = "ok" => reply[e] \in {NULL, Effective}
          /\ cli[e] = "executed" => consumer = e /\ Want[e] = Effective
CalledForTheBound ==
    \A e \in Polling : srv[e] # "idle" => status = "APPROVED" /\ Want[e] = Effective
OneDecider ==
    /\ \A r \in Reviewers :
          /\ rpc[r] \in {"update", "audit", "conflict"} => request[r].kind # "none"
          /\ Deciding(r) => status = Verdict(request[r].kind) /\ told = {}
    /\ \A r, s \in Reviewers : Deciding(r) /\ Deciding(s) => r = s
ApprovalInv ==
    /\ ApprovalTypeOK /\ BoundStays /\ SpentByOne /\ CalledForTheBound
    /\ RefusalIsDeserved /\ OneDecider /\ OneVerdict

\* The queue's contract: the hash displayed beside an action is the hash an
\* approve given on that display binds.
ApproveBindsWhatWasShown ==
    shown \in {NULL, grant}
=============================================================================
