---------------------------- MODULE BrokerExecute ----------------------------
(***************************************************************************)
(* POST /v1/broker/execute: the gateway's handler, the aegis-tool-broker   *)
(* process that runs the connector, and everything the handler races with: *)
(* the operator who registers, disables, bans or quarantines the tool, the *)
(* reviewers' approval rows (Approval models their life in full), the SDK  *)
(* route that consumes the same rows, the approval window, the client's    *)
(* 30 s timeout and crashes of either process.                             *)
(*                                                                         *)
(* Each await of the handler is a step boundary.  One tool of one tenant;  *)
(* a call is one HTTP request, so a retry is another call.  An action      *)
(* stands for its canonical string and so for its action_hash.             *)
(***************************************************************************)
EXTENDS Naturals, FiniteSets

CONSTANTS
    Calls,          \* requests to the route
    Approvals,      \* rows of approvals
    Actions,        \* canonical actions
    Mutates,        \* actions sent with mutates_state: true
    Writes,         \* actions whose connector call changes the outside world
    NULL,
    MaxOps,         \* bound on the operator's bans, quarantines and status changes
    MaxFaults       \* bound on crashes and storage or broker errors

ASSUME ActionAssumption == Mutates \subseteq Actions /\ Writes \subseteq Actions
ASSUME NullAssumption == NULL \notin Calls \cup Approvals \cup Actions /\ "sdk" \notin Calls
ASSUME BoundAssumption ==
    MaxOps \in Nat /\ MaxFaults \in Nat /\ NULL # "sdk"

VARIABLES
    configured, \* the gateway was started with a tool broker's URL and token
    tool,       \* the broker_tools row: its status and the connector that serves it
    bars,       \* active ban and quarantine of the tool
    row,        \* row[a]: what an approved row grants, who consumed it, window open
    ask,        \* ask[k]: the action call k asks for and the approval it names
    pc,         \* pc[k]: where k's handler is
    binding,    \* binding[k]: the tool row k's handler read
    clear,      \* clear[k]: the bars it has read as absent
    answer,     \* answer[k]: the status code of its response
    job,        \* job[k]: the call as the tool broker sees it
    done,       \* history: calls whose connector call took effect
    receipts,   \* calls with a broker_execute receipt in the chain
    held,       \* history: held[k]: bars in force from k's arrival until k read them
    ops, faults

operator == <<configured, tool, bars, ops>>
call == <<ask, pc, binding, clear, answer>>
vars == <<operator, row, call, job, done, receipts, held, faults>>

Bars == {"ban", "quarantine"}
\* Which connector a tool's connector_type names: none that is registered, the
\* shell, or one of those that look at an action's label (http, github, filesystem).
Connectors == {"none", "shell", "checked"}
ToolRows == [status : {"absent", "active", "disabled"}, connector : Connectors]
Refusals == {"400", "403", "404", "409", "501"}
Replies == {"200", "403", "501", "503"}
InHandler == {"tool", "bars", "consume", "diagnose", "send", "wait", "receipt"}

\* One type invariant for the tables, the handlers and the broker's jobs.
TypeOK ==
    /\ configured \in BOOLEAN
    /\ tool \in ToolRows
    /\ bars \subseteq Bars
    /\ row \in [Approvals -> [grants : Actions \cup {NULL}, by : Calls \cup {"sdk", NULL},
                              open : BOOLEAN]]
    /\ ask \in [Calls -> [action : Actions \cup {NULL}, approval : Approvals \cup {NULL}]]
    /\ pc \in [Calls -> InHandler \cup {"new", "answered", "dead"}]
    /\ binding \in [Calls -> ToolRows]
    /\ clear \in [Calls -> SUBSET Bars]
    /\ answer \in [Calls -> Refusals \cup {"200", "500", "503", "none"}]
    /\ job \in [Calls -> Replies \cup {"none", "queued", "acting", "lost"}]
    /\ done \subseteq Calls /\ receipts \subseteq Calls
    /\ held \in [Calls -> SUBSET Bars]
    /\ ops \in 0..MaxOps /\ faults \in 0..MaxFaults

NoTool == [status |-> "absent", connector |-> "none"]

Init ==
    /\ configured \in BOOLEAN /\ tool = NoTool /\ bars = {}
    /\ row = [a \in Approvals |-> [grants |-> NULL, by |-> NULL, open |-> TRUE]]
    /\ ask = [k \in Calls |-> [action |-> NULL, approval |-> NULL]]
    /\ pc = [k \in Calls |-> "new"]
    /\ binding = [k \in Calls |-> NoTool]
    /\ clear = [k \in Calls |-> {}]
    /\ answer = [k \in Calls |-> "none"]
    /\ job = [k \in Calls |-> "none"]
    /\ done = {} /\ receipts = {}
    /\ held = [k \in Calls |-> {}]
    /\ ops = 0 /\ faults = 0

Fault == faults < MaxFaults /\ faults' = faults + 1
Op == ops < MaxOps /\ ops' = ops + 1

-----------------------------------------------------------------------------
(* The operator, the reviewers, the SDK and the clock. *)

\* register_broker_tool: the row starts active; a second one is a 409, or the
\* unique constraint's 500, and changes nothing.
Register(c) ==
    /\ tool.status = "absent"
    /\ tool' = [status |-> "active", connector |-> c]
    /\ UNCHANGED <<configured, bars, ops, row, call, job, done, receipts, held, faults>>

\* set_broker_tool_status.
SetStatus(s) ==
    /\ Op /\ tool.status # "absent"
    /\ tool' = [tool EXCEPT !.status = s]
    /\ UNCHANGED <<configured, bars, row, call, job, done, receipts, held, faults>>

\* create_ban or create_quarantine on the tool.
Bar(b) ==
    /\ Op /\ b \notin bars
    /\ bars' = bars \cup {b}
    /\ UNCHANGED <<configured, tool, row, call, job, done, receipts, held, faults>>

\* revoke_ban, its expiry, or release_quarantine: calls that have not read b
\* yet arrived under it no longer.
Unbar(b) ==
    /\ b \in bars
    /\ bars' = bars \ {b}
    /\ held' = [k \in Calls |-> IF pc[k] \in {"tool", "bars"} /\ b \notin clear[k]
                                THEN held[k] \ {b} ELSE held[k]]
    /\ UNCHANGED <<configured, tool, ops, row, call, job, done, receipts, faults>>

\* A row is created, perhaps edited, and approved for the action x.
Approve(a, x) ==
    /\ row[a].grants = NULL
    /\ row' = [row EXCEPT ![a].grants = x]
    /\ UNCHANGED <<operator, call, job, done, receipts, held, faults>>

\* expires_at passes.
Expire(a) ==
    /\ row[a].open
    /\ row' = [row EXCEPT ![a].open = FALSE]
    /\ UNCHANGED <<operator, call, job, done, receipts, held, faults>>

\* The WHERE clauses of approval_is_still_consumable and consume_approval.
StillConsumable(a) == row[a].grants # NULL /\ row[a].by = NULL /\ row[a].open
ConsumableForAny(a, x) == StillConsumable(a)
Consumable(a, x) == StillConsumable(a) /\ row[a].grants = x

\* POST /v1/approvals/:id/consume spends the row for an SDK caller.
ConsumeElsewhere(a) ==
    /\ StillConsumable(a)
    /\ row' = [row EXCEPT ![a].by = "sdk"]
    /\ UNCHANGED <<operator, call, job, done, receipts, held, faults>>

-----------------------------------------------------------------------------
(* execute_broker_action. *)

At(k, step) == pc[k] = step
Go(k, step) == pc' = [pc EXCEPT ![k] = step] /\ UNCHANGED <<ask, binding, clear, answer>>
Answer(k, code) ==
    /\ pc' = [pc EXCEPT ![k] = "answered"]
    /\ answer' = [answer EXCEPT ![k] = code]
    /\ clear' = [clear EXCEPT ![k] = {}]
    /\ UNCHANGED <<ask, binding>>

\* A request arrives.
Arrive(k, x, a) ==
    /\ At(k, "new")
    /\ ask' = [ask EXCEPT ![k] = [action |-> x, approval |-> a]]
    /\ pc' = [pc EXCEPT ![k] = "tool"]
    /\ held' = [held EXCEPT ![k] = bars]
    /\ UNCHANGED <<binding, clear, answer, operator, row, job, done, receipts, faults>>

LookupToolOnly(k) ==
    /\ At(k, "tool")
    /\ \/ tool.status = "absent" /\ Answer(k, "404")
       \/ /\ tool.status # "absent"
          /\ pc' = [pc EXCEPT ![k] = "consume"]
          /\ binding' = [binding EXCEPT ![k] = tool]
          /\ UNCHANGED <<ask, clear, answer>>
    /\ UNCHANGED <<operator, row, job, done, receipts, held, faults>>

\* get_broker_tool_by_name: the row read here is the binding the broker acts on.
LookupTool(k) ==
    /\ At(k, "tool")
    /\ \/ tool.status = "absent" /\ Answer(k, "404")
       \/ /\ tool.status # "absent"
          /\ pc' = [pc EXCEPT ![k] = "bars"]
          /\ binding' = [binding EXCEPT ![k] = tool]
          /\ UNCHANGED <<ask, clear, answer>>
    /\ UNCHANGED <<operator, row, job, done, receipts, held, faults>>

\* is_banned and is_quarantined, joined: two reads in either order.
ReadBar(k, b) ==
    /\ At(k, "bars") /\ b \notin clear[k]
    /\ \/ b \in bars /\ Answer(k, "403")
       \/ /\ b \notin bars
          /\ clear' = [clear EXCEPT ![k] = @ \cup {b}]
          /\ pc' = [pc EXCEPT ![k] = IF clear[k] \cup {b} = Bars THEN "consume" ELSE "bars"]
          /\ UNCHANGED <<ask, binding, answer>>
    /\ UNCHANGED <<operator, row, job, done, receipts, held, faults>>

\* consume_approval for a mutating action: the row is spent and then, perhaps,
\* nothing can be sent.
Consume(k) ==
    LET x == ask[k].action
        a == ask[k].approval IN
    /\ At(k, "consume")
    /\ \/ x \in Mutates /\ a = NULL /\ Answer(k, "403") /\ UNCHANGED row
       \/ x \notin Mutates /\ a # NULL /\ Answer(k, "400") /\ UNCHANGED row
       \/ x \notin Mutates /\ a = NULL /\ Go(k, "send") /\ UNCHANGED row
       \/ /\ x \in Mutates /\ a # NULL /\ Consumable(a, x)
          /\ row' = [row EXCEPT ![a].by = k]
          /\ Go(k, "send")
       \/ x \in Mutates /\ a # NULL /\ ~Consumable(a, x) /\ Go(k, "diagnose") /\ UNCHANGED row
    /\ UNCHANGED <<operator, job, done, receipts, held, faults>>

\* approval_is_still_consumable: the wrong hash, or no longer consumable.
Diagnose(k) ==
    /\ At(k, "diagnose")
    /\ Answer(k, IF StillConsumable(ask[k].approval) THEN "409" ELSE "403")
    /\ UNCHANGED <<operator, row, job, done, receipts, held, faults>>

\* A storage error in any of these statements; a lost answer to the UPDATE of
\* consume_approval leaves the row spent.
StorageError(k) ==
    /\ Fault
    /\ pc[k] \in {"tool", "bars", "consume", "diagnose"}
    /\ Answer(k, "500")
    /\ \/ UNCHANGED row
       \/ /\ At(k, "consume") /\ ask[k].action \in Mutates /\ ask[k].approval # NULL
          /\ Consumable(ask[k].approval, ask[k].action)
          /\ row' = [row EXCEPT ![ask[k].approval].by = k]
    /\ UNCHANGED <<operator, job, done, receipts, held>>

\* ToolBrokerClient::execute posts the request, if there is a broker.
Send(k) ==
    /\ At(k, "send")
    /\ \/ configured /\ Go(k, "wait") /\ job' = [job EXCEPT ![k] = "queued"]
       \/ ~configured /\ Answer(k, "501") /\ UNCHANGED job
    /\ UNCHANGED <<operator, row, done, receipts, held, faults>>

\* The broker's reply; a success whose body does not parse is a 503.
Receive(k) ==
    /\ At(k, "wait") /\ job[k] \in Replies
    /\ \/ job[k] = "200" /\ Go(k, "receipt") /\ UNCHANGED faults
       \/ job[k] # "200" /\ Answer(k, job[k]) /\ UNCHANGED faults
       \/ job[k] = "200" /\ Fault /\ Answer(k, "503")
    /\ UNCHANGED <<operator, row, job, done, receipts, held>>

\* The 30 s timeout, or a connection that breaks: the call is given up, what
\* the broker does with it is not known.
TimeoutAsRefusal(k) ==
    /\ At(k, "wait")
    /\ Answer(k, "501")
    /\ UNCHANGED <<operator, row, job, done, receipts, held, faults>>

Timeout(k) ==
    /\ At(k, "wait")
    /\ Answer(k, "503")
    /\ UNCHANGED <<operator, row, job, done, receipts, held, faults>>

\* append_action_receipt_atomic, then 200; an error is a 500, and its
\* transaction may have committed all the same.
AppendReceiptLax(k) ==
    /\ At(k, "receipt")
    /\ \/ receipts' = receipts \cup {k} /\ UNCHANGED faults
       \/ Fault /\ UNCHANGED receipts
    /\ Answer(k, "200")
    /\ UNCHANGED <<operator, row, job, done, held>>

AppendReceipt(k) ==
    /\ At(k, "receipt")
    /\ \/ receipts' = receipts \cup {k} /\ Answer(k, "200") /\ UNCHANGED faults
       \/ /\ Fault
          /\ receipts' \in {receipts, receipts \cup {k}}
          /\ Answer(k, "500")
    /\ UNCHANGED <<operator, row, job, done, held>>

\* The gateway dies: every handler in progress is gone.
Crash ==
    /\ Fault
    /\ pc' = [k \in Calls |-> IF pc[k] \in InHandler THEN "dead" ELSE pc[k]]
    /\ UNCHANGED <<ask, binding, clear, answer>>
    /\ UNCHANGED <<operator, row, job, done, receipts, held>>

-----------------------------------------------------------------------------
(* aegis-tool-broker. *)

\* BrokerExecutor::execute up to the connector: the status and the connector
\* of the binding it was sent, and the credential.  The approval it was sent
\* carries the hash of the action it was sent.
Admit(k) ==
    LET b == binding[k] IN
    /\ job[k] = "queued"
    /\ \/ b.status # "active" /\ job' = [job EXCEPT ![k] = "403"] /\ UNCHANGED faults
       \/ b.status = "active" /\ b.connector = "none" /\ job' = [job EXCEPT ![k] = "501"] /\ UNCHANGED faults
       \/ /\ b.status = "active" /\ b.connector # "none"
          /\ \/ job' = [job EXCEPT ![k] = "acting"] /\ UNCHANGED faults
             \/ Fault /\ job' = [job EXCEPT ![k] = "503"]
    /\ UNCHANGED <<operator, row, call, done, receipts, held>>

\* The connectors that tell writes from reads refuse a write labelled a read;
\* the shell runs whatever command it is given under either label.
Mislabelled(x) == x \in Writes /\ x \notin Mutates
Labelled(k) == binding[k].connector = "shell" \/ ~Mislabelled(ask[k].action)

\* Connector::execute: refused or failed before the effect, or the effect with
\* its output, or the effect with an error in place of the output (the body is
\* cut off, the command runs out of time).
Act(k) ==
    /\ job[k] = "acting"
    /\ \/ job' = [job EXCEPT ![k] = "503"] /\ UNCHANGED done
       \/ /\ Labelled(k)
          /\ done' = done \cup {k}
          /\ \E reply \in {"200", "503"} : job' = [job EXCEPT ![k] = reply]
    /\ UNCHANGED <<operator, row, call, receipts, held, faults>>

\* The gateway has hung up and the server drops the handler of the request.
Cancel(k) ==
    /\ job[k] \in {"queued", "acting"} /\ ~At(k, "wait")
    /\ job' = [job EXCEPT ![k] = "lost"]
    /\ UNCHANGED <<operator, row, call, done, receipts, held, faults>>

\* The broker dies: its requests and unread replies are gone.
BrokerCrash ==
    /\ Fault
    /\ job' = [k \in Calls |-> IF job[k] = "none" THEN "none" ELSE "lost"]
    /\ UNCHANGED <<operator, row, call, done, receipts, held>>

-----------------------------------------------------------------------------
HandlerStep(k) ==
    \/ LookupTool(k) \/ \E b \in Bars : ReadBar(k, b)
    \/ Consume(k) \/ Diagnose(k) \/ StorageError(k)
    \/ Send(k) \/ Receive(k) \/ Timeout(k) \/ AppendReceipt(k)

BrokerStep(k) == Admit(k) \/ Act(k) \/ Cancel(k)

OperatorStep ==
    \/ \E c \in Connectors : Register(c)
    \/ \E s \in {"active", "disabled"} : SetStatus(s)
    \/ \E b \in Bars : Bar(b) \/ Unbar(b)

RowStep(a) == (\E x \in Actions : Approve(a, x)) \/ Expire(a) \/ ConsumeElsewhere(a)

Next ==
    \/ OperatorStep
    \/ \E a \in Approvals : RowStep(a)
    \/ \E k \in Calls :
          \/ \E x \in Actions, a \in Approvals \cup {NULL} : Arrive(k, x, a)
          \/ HandlerStep(k)
          \/ BrokerStep(k)
    \/ Crash \/ BrokerCrash

Spec == Init /\ [][Next]_vars

-----------------------------------------------------------------------------
(* Properties. *)

\* A write that needs an approval: sent with mutates_state, or to a connector
\* that insists on the label.  A shell command that changes the outside world
\* and is sent as a read needs none, so the promise is not about it.
NeedsGrant(k) ==
    /\ ask[k].action \in Writes
    /\ ask[k].action \in Mutates \/ binding[k].connector # "shell"

\* Every write the broker performs, save a shell command sent as a read
\* (NeedsGrant), was approved, in exactly that form, by a row that this call
\* alone has spent; whatever is retried, raced, timed out or restarted, and
\* although the same rows are spent by the SDK route, no row pays for two
\* effects (consume_approval, the label checks of http.rs, github.rs and
\* filesystem.rs).
Effects == INSTANCE GrantedEffects WITH
    grant <- [a \in Approvals |-> row[a].grants],
    spent <- {a \in Approvals : row[a].by # NULL},
    performed <- {<<k, ask[k].approval, ask[k].action>> :
                     k \in {j \in done : NeedsGrant(j)}}
ImplementsGrants == Effects!Spec

\* A definite refusal is definite: after a 400, 403, 404, 409 or 501 the action
\* was not performed and no broker request still under way will perform it, so
\* the caller may try again (execute_broker_action, tool_broker_error_response,
\* execute_error_response).
RefusedIsUndone ==
    \A k \in Calls : answer[k] \in Refusals => k \notin done /\ job[k] # "acting"

\* A success is evidenced, and evidence is true: a call answered 200 was
\* performed and is in the receipt chain, and no receipt records an action that
\* was not performed ("Written durably and hash-chained BEFORE the success
\* response goes out").
SuccessIsEvidenced ==
    /\ \A k \in Calls : answer[k] = "200" => k \in receipts
    /\ receipts \subseteq done

\* A ban or quarantine that was in force from a call's arrival until the call
\* read it stops the call, and a call so stopped spends no approval ("a ban
\* denial must not burn a still-valid approval").
BarredIsInert ==
    \A k \in Calls : held[k] # {} =>
        pc[k] \in {"tool", "bars", "answered", "dead"}
        /\ k \notin done /\ \A a \in Approvals : row[a].by # k

-----------------------------------------------------------------------------
(* Why they hold. *)

\* A mutating call that has got past consume_approval owns the row that grants
\* its action, for good.
Paid ==
    \A k \in Calls :
        (pc[k] \in {"send", "wait", "receipt"} \/ job[k] # "none") /\ ask[k].action \in Mutates =>
            /\ ask[k].approval \in Approvals
            /\ row[ask[k].approval].by = k
            /\ row[ask[k].approval].grants = ask[k].action

\* Where the broker can be while the handler is somewhere.
Stages ==
    \A k \in Calls :
        /\ pc[k] \in {"new", "tool", "bars", "consume", "diagnose", "send"} => job[k] = "none"
        /\ pc[k] # "new" => ask[k].action \in Actions
        /\ k \in done => job[k] \in {"200", "503", "lost"}
        /\ job[k] = "200" \/ pc[k] = "receipt" => k \in done

\* What was performed was labelled for what it is, but for shell commands.
Honest == \A k \in done : NeedsGrant(k) => ask[k].action \in Mutates

\* An answer ends the handler, and a refusal leaves nothing under way.
Final ==
    \A k \in Calls :
        /\ answer[k] # "none" => pc[k] = "answered"
        /\ answer[k] \in Refusals => k \notin done /\ job[k] \notin {"queued", "acting"}

\* A bar held so far is in force and still to be read.
HeldIsBarred ==
    \A k \in Calls :
        /\ pc[k] \in {"tool", "bars"} => held[k] \subseteq bars \ clear[k]
        /\ pc[k] \in {"consume", "diagnose", "send", "wait", "receipt"} => held[k] = {}
        /\ held[k] # {} => job[k] = "none" /\ \A a \in Approvals : row[a].by # k
        /\ pc[k] = "new" => clear[k] = {} /\ held[k] = {} /\ \A a \in Approvals : row[a].by # k

IndInv == TypeOK /\ Paid /\ Stages /\ Honest /\ Final /\ SuccessIsEvidenced /\ HeldIsBarred

-----------------------------------------------------------------------------
\* The comment's claim: when the gateway dies under a call, what the broker did
\* for it is in the receipt chain ("a crash between execution and receipt write
\* can never lose the evidence for what the broker just did").
EvidenceSurvivesCrash == \A k \in done : At(k, "dead") => k \in receipts

\* "A state-mutating action requires a consumed approval" (executor.rs), taken
\* for what the connector does and not for what the caller calls it.
EveryWriteIsPaid ==
    \A k \in done : ask[k].action \in Writes =>
        ask[k].approval \in Approvals /\ row[ask[k].approval].by = k
=============================================================================
