------------------------------- MODULE CageRun -------------------------------
(***************************************************************************)
(* A cage run from registration to teardown: the gateway's agent_runs,     *)
(* control_commands, agent_bans and quarantine_records tables with the     *)
(* handlers that write them, the aegis-cage-runner processes that poll for *)
(* commands, claim runs and supervise one sandbox each, and the gateway's  *)
(* stall sweep.                                                            *)
(*                                                                         *)
(* Every await of a handler or of the runner is a step boundary: a ban, a  *)
(* quarantine, another runner or a crash may come between any two of them. *)
(* All runs belong to one agent of one tenant.  The gateway has a signing  *)
(* key and every command it issues carries a valid signature, so verify()  *)
(* can only refuse an expired command or a nonce it has seen.  A command   *)
(* is named by its position in the table, which stands for its nonce too.  *)
(***************************************************************************)
EXTENDS Naturals, Sequences, FiniteSets, FiniteSetsExt

CONSTANTS
    Runs,           \* runs that may be registered, each once (unique run_key)
    Runners,        \* runner processes, one runner_id each
    None,           \* no runner, no run, no status
    PageLimit,      \* SOC_DEFAULT_LIMIT: commands a listing returns
    ListLimit,      \* SOC_MAX_LIMIT: active runs a ban's listing returns
    Requests,       \* the requests the operator makes: a ban, a hold, run control
    MaxCommands,    \* bound on the control_commands table
    MaxRequests,    \* bound on their number
    MaxFaults       \* bound on crashes, lost calls, failed calls and expiries

ASSUME NoneAssumption == None \notin Runs \cup Runners /\ None \notin STRING
ASSUME RunsAssumption == IsFiniteSet(Runs)
ASSUME BoundAssumption ==
    /\ PageLimit \in Nat \ {0} /\ ListLimit \in Nat \ {0}
    /\ MaxCommands \in Nat /\ MaxRequests \in Nat /\ MaxFaults \in Nat

VARIABLES
    run,            \* run[r]: its agent_runs row; stale: the lease is past the threshold
    reg,            \* reg[r]: where the create_agent_run request for r is
    cmds,           \* control_commands in the order of issue
    gate,           \* what bars the agent: "ban", an active ban; "hold", its quarantine
                    \* or a ban of its image digest, which send no commands
    ban,            \* the create_ban handler: where it is, runs left to reach,
                    \* Len(cmds) when its row was written, and, a history, the
                    \* active runs beyond the limit of its listing
    quarantined,    \* runs with an active quarantine record
    quarantining,   \* quarantining[r]: where the quarantine_run request for r is
    rn,             \* rn[p]: where runner p is and the locals of its loop
    seen,           \* seen[p]: p's seen_nonces, in memory only
    box,            \* box[r]: the sandbox of r as Docker sees it
    execs,          \* history: how often a sandbox of r was started
    orphaned,       \* history: runs whose runner died holding them
    stuck,          \* history: runs for which a docker call failed
    missed,         \* history: runs that a ban's propagation failed to reach
    requests, faults

gateway == <<run, reg, cmds, gate, ban, quarantined, quarantining, requests>>
control == <<gate, ban, quarantined, quarantining, requests>>
history == <<execs, orphaned, stuck, missed>>
vars == <<gateway, rn, seen, box, history, faults>>

Statuses == {"absent", "started", "claimed", "running", "paused", "finished", "killed",
             "stalled", "quarantined"}

\* ACTIVE_RUN_STATUSES: may still be executing, so a ban must reach it.
Active == {"started", "claimed", "running", "paused", "stalled"}
ActiveRuns == {r \in Runs : run[r].status \in Active}

\* q was registered before r: a run's start_run command is issued with its row.
Before(q, r) ==
    \E c, d \in DOMAIN cmds :
        /\ cmds[c].run = q /\ cmds[c].action = "start_run"
        /\ cmds[d].run = r /\ cmds[d].action = "start_run"
        /\ c < d

\* ORDER BY started_at ASC LIMIT: all the active runs, or the oldest ListLimit.
OldestFirst ==
    {listed \in SUBSET ActiveRuns :
        IF Cardinality(ActiveRuns) <= ListLimit THEN listed = ActiveRuns
        ELSE /\ Cardinality(listed) = ListLimit
             /\ \A r \in listed, q \in ActiveRuns \ listed : ~Before(q, r)}

\* RUNNER_REPORTABLE_STATUSES.
Reportable == {"running", "paused", "finished", "killed", "stalled"}

Idle == [pc |-> "idle", run |-> None, todo |-> {}, cmd |-> 0, say |-> "acked",
         terminal |-> None, final |-> None]

Init ==
    /\ run = [r \in Runs |-> [status |-> "absent", by |-> None, stale |-> FALSE]]
    /\ reg = [r \in Runs |-> "none"]
    /\ cmds = <<>> /\ gate = {} /\ quarantined = {}
    /\ ban = [pc |-> "idle", todo |-> {}, from |-> 0, beyond |-> {}]
    /\ quarantining = [r \in Runs |-> "none"]
    /\ rn = [p \in Runners |-> Idle] /\ seen = [p \in Runners |-> {}]
    /\ box = [r \in Runs |-> "none"]
    /\ execs = [r \in Runs |-> 0] /\ orphaned = {} /\ stuck = {} /\ missed = {}
    /\ requests = 0 /\ faults = 0

Fault == faults < MaxFaults /\ faults' = faults + 1
Request(a) == a \in Requests /\ requests < MaxRequests /\ requests' = requests + 1

-----------------------------------------------------------------------------
(* The gateway: registration, run control, bans, quarantine. *)

\* issue_run_control_command, and the start_run command of create_agent_run.
Issue(r, a) ==
    /\ Len(cmds) < MaxCommands
    /\ cmds' = Append(cmds, [run |-> r, action |-> a, status |-> "issued", expired |-> FALSE])

\* create_agent_run: agent_ban_denial and image_digest_ban_denial, ...
RegisterCheck(r) ==
    /\ reg[r] = "none" /\ run[r].status = "absent" /\ gate = {}
    /\ reg' = [reg EXCEPT ![r] = "checked"]
    /\ UNCHANGED <<run, cmds, control, rn, seen, box, history, faults>>

\* ... then the row and its start_run command in one transaction.
RegisterInsert(r) ==
    /\ reg[r] = "checked"
    /\ Issue(r, "start_run")
    /\ run' = [run EXCEPT ![r].status = "started"]
    /\ reg' = [reg EXCEPT ![r] = "done"]
    /\ UNCHANGED <<control, rn, seen, box, history, faults>>

\* The operator's pause_run, resume_run and kill_run requests.
ControlRequest(r, a) ==
    /\ run[r].status # "absent"
    /\ Request(a)
    /\ Issue(r, a)
    /\ UNCHANGED <<run, reg, gate, ban, quarantined, quarantining, rn, seen, box, history, faults>>

\* create_ban: the row first ...
BanInsert ==
    /\ ban.pc = "idle" /\ "ban" \notin gate
    /\ Request("ban")
    /\ gate' = gate \cup {"ban"}
    /\ ban' = [pc |-> "list", todo |-> {}, from |-> Len(cmds), beyond |-> {}]
    /\ missed' = {}
    /\ UNCHANGED <<run, reg, cmds, quarantined, quarantining, rn, seen, box,
                   execs, orphaned, stuck, faults>>

\* ... then list_active_agent_runs_for_agent, of which the runs past the limit
\* never hear; a failure is only logged ...
BanList ==
    /\ ban.pc = "list"
    /\ \/ /\ \E listed \in OldestFirst :
                ban' = [ban EXCEPT !.pc = IF listed = {} THEN "idle" ELSE "issue",
                                   !.todo = listed, !.beyond = ActiveRuns \ listed]
          /\ UNCHANGED <<missed, faults>>
       \/ /\ Fault
          /\ ban' = [ban EXCEPT !.pc = "idle"]
          /\ missed' = Runs
    /\ UNCHANGED <<requests, run, reg, cmds, gate, quarantined, quarantining, rn, seen, box,
                   execs, orphaned, stuck>>

\* ... then one kill_run command per run; a failure skips that run.
BanIssue(r) ==
    /\ ban.pc = "issue" /\ r \in ban.todo
    /\ ban' = [ban EXCEPT !.todo = @ \ {r}, !.pc = IF ban.todo = {r} THEN "idle" ELSE @]
    /\ \/ Issue(r, "kill_run") /\ UNCHANGED <<missed, faults>>
       \/ Fault /\ missed' = missed \cup {r} /\ UNCHANGED cmds
    /\ UNCHANGED <<requests, run, reg, gate, quarantined, quarantining, rn, seen, box,
                   execs, orphaned, stuck>>

\* revoke_ban, or the ban's expires_at passes.
BanEnds ==
    /\ "ban" \in gate
    /\ gate' = gate \ {"ban"}
    /\ UNCHANGED <<requests, run, reg, cmds, ban, quarantined, quarantining, rn, seen, box, history, faults>>

\* create_quarantine and release_quarantine on the agent, a ban of its image
\* digest and the end of that ban: rows that bar the agent and no more.
HoldAgent ==
    /\ "hold" \notin gate
    /\ Request("hold")
    /\ gate' = gate \cup {"hold"}
    /\ UNCHANGED <<run, reg, cmds, ban, quarantined, quarantining, rn, seen, box, history, faults>>

ReleaseAgent ==
    /\ "hold" \in gate
    /\ gate' = gate \ {"hold"}
    /\ UNCHANGED <<requests, run, reg, cmds, ban, quarantined, quarantining, rn, seen, box, history, faults>>

\* quarantine_run: the command, ...
QuarantineIssue(r) ==
    /\ run[r].status # "absent" /\ quarantining[r] = "none"
    /\ Request("quarantine_run")
    /\ Issue(r, "quarantine_run")
    /\ quarantining' = [quarantining EXCEPT ![r] = "record"]
    /\ UNCHANGED <<run, reg, gate, ban, quarantined, rn, seen, box, history, faults>>

\* ... the quarantine record (a failure ends the request), ...
QuarantineRecord(r) ==
    /\ quarantining[r] = "record"
    /\ \/ /\ quarantined' = quarantined \cup {r}
          /\ quarantining' = [quarantining EXCEPT ![r] = "status"]
          /\ UNCHANGED faults
       \/ /\ Fault
          /\ quarantining' = [quarantining EXCEPT ![r] = "none"]
          /\ UNCHANGED quarantined
    /\ UNCHANGED <<requests, run, reg, cmds, gate, ban, rn, seen, box, history>>

\* ... and update_agent_run_status, whatever the row holds and whoever claimed it.
QuarantineStatus(r) ==
    /\ quarantining[r] = "status"
    /\ quarantining' = [quarantining EXCEPT ![r] = "none"]
    /\ \/ run' = [run EXCEPT ![r].status = "quarantined"] /\ UNCHANGED faults
       \/ Fault /\ UNCHANGED run
    /\ UNCHANGED <<requests, reg, cmds, gate, ban, quarantined, rn, seen, box, history>>

\* release_quarantine of a run's record.
ReleaseRun(r) ==
    /\ r \in quarantined
    /\ quarantined' = quarantined \ {r}
    /\ UNCHANGED <<requests, run, reg, cmds, gate, ban, quarantining, rn, seen, box, history, faults>>

\* expires_at of a command nobody has answered passes.
Expire(c) ==
    /\ cmds[c].status = "issued" /\ ~cmds[c].expired
    /\ Fault
    /\ cmds' = [cmds EXCEPT ![c].expired = TRUE]
    /\ UNCHANGED <<run, reg, control, rn, seen, box, history>>

\* AGENT_RUN_LEASE_TIMEOUT passes with no heartbeat.
LeaseLapses(r) ==
    /\ run[r].status \in {"claimed", "running"} /\ ~run[r].stale
    /\ run' = [run EXCEPT ![r].stale = TRUE]
    /\ UNCHANGED <<reg, cmds, control, rn, seen, box, history, faults>>

\* mark_stale_agent_runs_stalled: flipped, never requeued.
StallSweepRequeues ==
    LET stalled == {r \in Runs : run[r].status \in {"claimed", "running"} /\ run[r].stale}
    IN  /\ stalled # {}
        /\ run' = [r \in Runs |-> IF r \in stalled THEN [run[r] EXCEPT !.status = "started"]
                                  ELSE run[r]]
        /\ UNCHANGED <<reg, cmds, control, rn, seen, box, history, faults>>
StallSweep ==
    LET stalled == {r \in Runs : run[r].status \in {"claimed", "running"} /\ run[r].stale}
    IN  /\ stalled # {}
        /\ run' = [r \in Runs |-> IF r \in stalled THEN [run[r] EXCEPT !.status = "stalled"]
                                  ELSE run[r]]
        /\ UNCHANGED <<reg, cmds, control, rn, seen, box, history, faults>>

-----------------------------------------------------------------------------
(* The runner: finding and claiming a run. *)

\* list_control_commands: newest first, one page; the filters are the client's.
ListedOldest == {c \in DOMAIN cmds : c <= PageLimit}
Listed == {c \in DOMAIN cmds : c + PageLimit > Len(cmds)}
StartCommands == {c \in Listed : cmds[c].action = "start_run" /\ cmds[c].status = "issued"}
RunCommands(r) ==
    {c \in Listed : cmds[c].run = r /\ cmds[c].action # "start_run" /\ cmds[c].status = "issued"}
Newest(todo) == Max(todo)

\* CommandReceiver::verify; the nonce is recorded by the caller's step.
Verifies(p, c) == ~cmds[c].expired /\ c \notin seen[p]

\* The loop goes on with the commands it has not looked at yet.
GoOn(s, loop, done) ==
    LET left == s.todo \ {s.cmd}
    IN  [s EXCEPT !.todo = left, !.cmd = 0, !.say = "acked",
                  !.pc = IF left = {} THEN done ELSE loop]
NextCommand(s) == IF s.run = None THEN GoOn(s, "scan", "idle") ELSE GoOn(s, "control", "watch")

\* Where a runner is once the call it is making has been answered or has failed.
Answered(s) ==
    CASE s.pc = "claim" -> NextCommand(s)
      [] s.pc = "ackStart" -> IF s.run = None THEN NextCommand(s)
                              ELSE [s EXCEPT !.pc = "create", !.todo = {}, !.cmd = 0]
      [] s.pc = "sayRunning" -> [s EXCEPT !.pc = "watch"]
      [] s.pc = "say" -> [s EXCEPT !.pc = "ack"]
      [] s.pc = "ack" -> NextCommand(s)
      [] s.pc = "report" -> Idle

Calling == {"claim", "ackStart", "sayRunning", "say", "ack", "report"}

\* find_and_claim_a_run takes a listing ...
Poll(p) ==
    /\ rn[p].pc = "idle" /\ StartCommands # {}
    /\ rn' = [rn EXCEPT ![p].pc = "scan", ![p].todo = StartCommands]
    /\ UNCHANGED <<gateway, seen, box, history, faults>>

\* ... and verifies each command: recorded and claimed, or nacked.
Scan(p) ==
    /\ rn[p].pc = "scan"
    /\ LET c == Newest(rn[p].todo)
       IN  IF Verifies(p, c)
           THEN /\ seen' = [seen EXCEPT ![p] = @ \cup {c}]
                /\ rn' = [rn EXCEPT ![p].cmd = c, ![p].pc = "claim"]
           ELSE /\ rn' = [rn EXCEPT ![p].cmd = c, ![p].pc = "ackStart", ![p].say = "nacked"]
                /\ UNCHANGED seen
    /\ UNCHANGED <<gateway, box, history, faults>>

\* claim_run: the agent's and the image's bars; a 403 is an error like any other
\* to the runner, which leaves the command issued.
ClaimUngated(p) ==
    /\ rn[p].pc = "claim"
    /\ rn' = [rn EXCEPT ![p].pc = "claimRecord"]
    /\ UNCHANGED <<gateway, seen, box, history, faults>>
ClaimGate(p) ==
    /\ rn[p].pc = "claim"
    /\ rn' = [rn EXCEPT ![p] = IF gate = {} THEN [@ EXCEPT !.pc = "claimRecord"]
                               ELSE NextCommand(@)]
    /\ UNCHANGED <<gateway, seen, box, history, faults>>

\* claim_run: is_quarantined on the run.
ClaimRecord(p) ==
    /\ rn[p].pc = "claimRecord"
    /\ rn' = [rn EXCEPT ![p] = IF cmds[@.cmd].run \notin quarantined
                               THEN [@ EXCEPT !.pc = "claimUpdate"]
                               ELSE NextCommand(@)]
    /\ UNCHANGED <<gateway, seen, box, history, faults>>

\* claim_agent_run, one conditional UPDATE; the answer may be lost.  A run that
\* is no longer started answers 409, ClaimLost.
ClaimUpdate(p) ==
    LET r == cmds[rn[p].cmd].run
    IN  /\ rn[p].pc = "claimUpdate"
        /\ \/ /\ run[r].status = "started"
              /\ run' = [run EXCEPT ![r] = [status |-> "claimed", by |-> p, stale |-> FALSE]]
              /\ \/ /\ rn' = [rn EXCEPT ![p].run = r, ![p].pc = "ackStart", ![p].say = "acked"]
                    /\ UNCHANGED <<orphaned, faults>>
                 \/ /\ Fault
                    /\ rn' = [rn EXCEPT ![p] = NextCommand(@)]
                    /\ orphaned' = orphaned \cup {r}
           \/ /\ run[r].status # "started"
              /\ rn' = [rn EXCEPT ![p].pc = "ackStart", ![p].say = "acked"]
              /\ UNCHANGED <<run, orphaned, faults>>
        /\ UNCHANGED <<reg, cmds, control, seen, box, execs, stuck, missed>>

\* update_command_status, after a start_run or a run command.
Ack(p) ==
    /\ rn[p].pc \in {"ackStart", "ack"}
    /\ cmds' = [cmds EXCEPT ![rn[p].cmd].status = rn[p].say]
    /\ rn' = [rn EXCEPT ![p] = Answered(@)]
    /\ UNCHANGED <<run, reg, control, seen, box, history, faults>>

\* A call of p never reaches the gateway; every caller goes on.
Lose(p) ==
    /\ rn[p].pc \in Calling
    /\ Fault
    /\ rn' = [rn EXCEPT ![p] = Answered(@)]
    /\ UNCHANGED <<gateway, seen, box, history>>

-----------------------------------------------------------------------------
(* The runner: run_one. *)

\* update_run_status: a status the route takes, from the runner that holds the
\* claim; what the row says now is not looked at.
UpdateClaimed(r, p, s) ==
    run' = IF s \in Reportable /\ run[r].by = p THEN [run EXCEPT ![r].status = s] ELSE run

\* build_sandbox_spec and runtime.create.
Create(p) ==
    /\ rn[p].pc = "create"
    /\ \/ /\ box' = [box EXCEPT ![rn[p].run] = "created"]
          /\ rn' = [rn EXCEPT ![p].pc = "start"]
          /\ UNCHANGED faults
       \/ /\ Fault
          /\ rn' = [rn EXCEPT ![p].pc = "report", ![p].final = "killed"]
          /\ UNCHANGED box
    /\ UNCHANGED <<gateway, seen, history>>

Start(p) ==
    /\ rn[p].pc = "start"
    /\ \/ /\ box' = [box EXCEPT ![rn[p].run] = "running"]
          /\ execs' = [execs EXCEPT ![rn[p].run] = @ + 1]
          /\ rn' = [rn EXCEPT ![p].pc = "sayRunning"]
          /\ UNCHANGED faults
       \/ /\ Fault
          /\ rn' = [rn EXCEPT ![p].pc = "destroy", ![p].final = "killed"]
          /\ UNCHANGED <<box, execs>>
    /\ UNCHANGED <<gateway, seen, orphaned, stuck, missed>>

SayRunning(p) ==
    /\ rn[p].pc = "sayRunning"
    /\ UpdateClaimed(rn[p].run, p, "running")
    /\ rn' = [rn EXCEPT ![p] = Answered(@)]
    /\ UNCHANGED <<reg, cmds, control, seen, box, history, faults>>

\* The sandboxed process ends by itself.
ProcessExits(r) ==
    /\ box[r] = "running"
    /\ box' = [box EXCEPT ![r] = "exited"]
    /\ UNCHANGED <<gateway, rn, seen, history, faults>>

\* The final status: a signed kill or quarantine prevails over what Docker says.
Finally(s, status) ==
    [s EXCEPT !.pc = "destroy", !.final = IF s.terminal = None THEN status ELSE s.terminal]

\* wait_or_kill_on_timeout: returns at the first status that is not Running, ...
WaitReturns(p) ==
    /\ rn[p].pc = "watch" /\ box[rn[p].run] # "running"
    /\ rn' = [rn EXCEPT ![p] = Finally(@, "finished")]
    /\ UNCHANGED <<gateway, seen, box, history, faults>>

\* ... or kills at the deadline, ...
TimesOut(p) ==
    /\ rn[p].pc = "watch" /\ box[rn[p].run] = "running"
    /\ box' = [box EXCEPT ![rn[p].run] = "exited"]
    /\ rn' = [rn EXCEPT ![p] = Finally(@, "killed")]
    /\ UNCHANGED <<gateway, seen, history, faults>>

\* ... or fails with the docker call it makes.
WaitFails(p) ==
    /\ rn[p].pc = "watch"
    /\ Fault
    /\ rn' = [rn EXCEPT ![p] = Finally(@, "killed")]
    /\ UNCHANGED <<gateway, seen, box, history>>

\* A kill whose result nobody looks at: the removal comes next all the same.
KillIgnored(r) ==
    \/ box' = [box EXCEPT ![r] = "exited"] /\ UNCHANGED faults
    \/ Fault /\ UNCHANGED box

\* Ctrl-C in the middle of a run: kill, destroy, report; the process restarts
\* with no nonces.
Shutdown(p) ==
    /\ rn[p].pc = "watch"
    /\ KillIgnored(rn[p].run)
    /\ rn' = [rn EXCEPT ![p].pc = "destroy", ![p].final = "killed"]
    /\ seen' = [seen EXCEPT ![p] = {}]
    /\ UNCHANGED <<gateway, history>>

\* heartbeat_agent_run; on a 409 the sandbox is killed and destroyed, and
\* nothing is reported.
HeartbeatLeaves(p) ==
    LET r == rn[p].run
        held == run[r].by = p /\ run[r].status \in {"claimed", "running"}
    IN  /\ rn[p].pc = "watch"
        /\ run' = IF held THEN [run EXCEPT ![r].stale = FALSE] ELSE run
        /\ rn' = IF held THEN rn ELSE [rn EXCEPT ![p] = Idle]
        /\ UNCHANGED <<reg, cmds, control, seen, box, history, faults>>
Heartbeat(p) ==
    LET r == rn[p].run
        held == run[r].by = p /\ run[r].status \in {"claimed", "running"}
    IN  /\ rn[p].pc = "watch"
        /\ run' = IF held THEN [run EXCEPT ![r].stale = FALSE] ELSE run
        /\ rn' = IF held THEN rn
                 ELSE [rn EXCEPT ![p].pc = "destroy", ![p].final = None]
        /\ IF held THEN UNCHANGED <<box, faults>> ELSE KillIgnored(r)
        /\ UNCHANGED <<reg, cmds, control, seen, history>>

\* poll_and_process_run_commands takes a listing ...
ControlPoll(p) ==
    /\ rn[p].pc = "watch" /\ RunCommands(rn[p].run) # {}
    /\ rn' = [rn EXCEPT ![p].pc = "control", ![p].todo = RunCommands(rn[p].run)]
    /\ UNCHANGED <<gateway, seen, box, history, faults>>

\* What a command asks of the sandbox, and what Docker needs for it to succeed.
Needs(a) == CASE a = "pause_run" -> {"running"}
              [] a = "resume_run" -> {"paused"}
              [] OTHER -> {"running", "paused"}
Leaves(a) == CASE a = "pause_run" -> "paused"
               [] a = "resume_run" -> "running"
               [] OTHER -> "exited"
Outcome(a) == CASE a = "pause_run" -> "paused"
                [] a = "resume_run" -> "running"
                [] a = "kill_run" -> "killed"
                [] a = "quarantine_run" -> "quarantined"
Kills == {"kill_run", "quarantine_run"}

\* ... and verifies and executes each command, newest first.
ControlLax(p) ==
    LET c == Newest(rn[p].todo)
        r == rn[p].run
        a == cmds[c].action
    IN  /\ rn[p].pc = "control"
        /\ seen' = [seen EXCEPT ![p] = @ \cup {c}]
        /\ rn' = [rn EXCEPT ![p].cmd = c, ![p].pc = "say", ![p].say = "acked",
                            ![p].terminal = IF a \in Kills THEN Outcome(a) ELSE @]
        /\ \/ box' = [box EXCEPT ![r] = IF @ = "none" THEN @ ELSE Leaves(a)] /\ UNCHANGED <<stuck, faults>>
           \/ Fault /\ stuck' = stuck \cup {r} /\ UNCHANGED box
        /\ UNCHANGED <<gateway, execs, orphaned, missed>>
Control(p) ==
    LET c == Newest(rn[p].todo)
        r == rn[p].run
        a == cmds[c].action
        works == Verifies(p, c) /\ box[r] \in Needs(a)
        refused == [rn EXCEPT ![p].cmd = c, ![p].pc = "ack", ![p].say = "nacked"]
    IN  /\ rn[p].pc = "control"
        /\ seen' = [seen EXCEPT ![p] = IF Verifies(p, c) THEN @ \cup {c} ELSE @]
        /\ \/ /\ works
              /\ box' = [box EXCEPT ![r] = Leaves(a)]
              /\ rn' = [rn EXCEPT ![p].cmd = c, ![p].pc = "say", ![p].say = "acked",
                                  ![p].terminal = IF a \in Kills THEN Outcome(a) ELSE @]
              /\ UNCHANGED <<stuck, faults>>
           \/ /\ works /\ Fault
              /\ stuck' = stuck \cup {r}
              /\ rn' = refused /\ UNCHANGED box
           \/ /\ ~works
              /\ rn' = refused /\ UNCHANGED <<box, stuck, faults>>
        /\ UNCHANGED <<gateway, execs, orphaned, missed>>

\* The status report of an executed command; "quarantined" is answered 400.
Say(p) ==
    /\ rn[p].pc = "say"
    /\ UpdateClaimed(rn[p].run, p, Outcome(cmds[rn[p].cmd].action))
    /\ rn' = [rn EXCEPT ![p] = Answered(@)]
    /\ UNCHANGED <<reg, cmds, control, seen, box, history, faults>>

\* runtime.destroy (docker rm -f); a failure is only logged.
Destroy(p) ==
    /\ rn[p].pc = "destroy"
    /\ rn' = [rn EXCEPT ![p] = IF @.final = None THEN Idle ELSE [@ EXCEPT !.pc = "report"]]
    /\ \/ box' = [box EXCEPT ![rn[p].run] = "none"] /\ UNCHANGED <<stuck, faults>>
       \/ Fault /\ stuck' = stuck \cup {rn[p].run} /\ UNCHANGED box
    /\ UNCHANGED <<gateway, seen, execs, orphaned, missed>>

\* The final update_run_status.
Report(p) ==
    /\ rn[p].pc = "report"
    /\ UpdateClaimed(rn[p].run, p, rn[p].final)
    /\ rn' = [rn EXCEPT ![p] = Answered(@)]
    /\ UNCHANGED <<reg, cmds, control, seen, box, history, faults>>

\* The runner process dies and is restarted; its container goes on.
Crash(p) ==
    /\ Fault
    /\ rn' = [rn EXCEPT ![p] = Idle]
    /\ seen' = [seen EXCEPT ![p] = {}]
    /\ orphaned' = orphaned \cup ({rn[p].run} \ {None})
    /\ UNCHANGED <<gateway, box, execs, stuck, missed>>

-----------------------------------------------------------------------------
Handlers ==
    \/ BanInsert \/ BanList \/ BanEnds \/ HoldAgent \/ ReleaseAgent \/ StallSweep
    \/ \E r \in Runs :
        \/ RegisterCheck(r) \/ RegisterInsert(r) \/ BanIssue(r)
        \/ \E a \in {"pause_run", "resume_run", "kill_run"} : ControlRequest(r, a)
        \/ QuarantineIssue(r) \/ QuarantineRecord(r) \/ QuarantineStatus(r) \/ ReleaseRun(r)
        \/ LeaseLapses(r) \/ ProcessExits(r)
    \/ \E c \in DOMAIN cmds : Expire(c)

\* The steps the runner's own loop is bound to take.
RunnerStep(p) ==
    \/ Poll(p) \/ Scan(p) \/ ClaimGate(p) \/ ClaimRecord(p) \/ ClaimUpdate(p) \/ Ack(p)
    \/ Create(p) \/ Start(p) \/ SayRunning(p) \/ WaitReturns(p) \/ ControlPoll(p) \/ Control(p)
    \/ Say(p) \/ Destroy(p) \/ Report(p)

Next ==
    \/ Handlers
    \/ \E p \in Runners :
        \/ RunnerStep(p) \/ Heartbeat(p) \/ TimesOut(p)
        \/ WaitFails(p) \/ Shutdown(p) \/ Lose(p) \/ Crash(p)

Spec == Init /\ [][Next]_vars

\* Fairness: a runner's task is polled by tokio and its control tick recurs.
FairSpec == Spec /\ \A p \in Runners : WF_vars(RunnerStep(p))

-----------------------------------------------------------------------------
Actions == {"start_run", "pause_run", "resume_run", "kill_run", "quarantine_run"}
RunRows == [status : Statuses, by : Runners \cup {None}, stale : BOOLEAN]
Commands == [run : Runs, action : Actions, status : {"issued", "acked", "nacked"},
             expired : BOOLEAN]
BanStates == [pc : {"idle", "list", "issue"}, todo : SUBSET Runs, from : Nat,
              beyond : SUBSET Runs]
RunnerStates ==
    [pc : {"idle", "scan", "claimRecord", "claimUpdate", "create", "start", "watch", "control",
           "destroy"} \cup Calling,
     run : Runs \cup {None}, todo : SUBSET Nat, cmd : Nat, say : {"acked", "nacked"},
     terminal : {None, "killed", "quarantined"},
     final : {None, "killed", "quarantined", "finished"}]

TypeOK ==
    /\ run \in [Runs -> RunRows] /\ reg \in [Runs -> {"none", "checked", "done"}]
    /\ cmds \in Seq(Commands)
    /\ gate \subseteq {"ban", "hold"}
    /\ ban \in BanStates
    /\ quarantined \subseteq Runs
    /\ quarantining \in [Runs -> {"none", "record", "status"}]
    /\ rn \in [Runners -> RunnerStates] /\ seen \in [Runners -> SUBSET Nat]
    /\ box \in [Runs -> {"none", "created", "running", "paused", "exited"}]
    /\ execs \in [Runs -> Nat]
    /\ orphaned \subseteq Runs /\ stuck \subseteq Runs /\ missed \subseteq Runs
    /\ requests \in 0 .. MaxRequests /\ faults \in 0 .. MaxFaults

Registered == {r \in Runs : run[r].status # "absent"}
Alive(r) == box[r] \in {"running", "paused"}
Supervises(p, r) == rn[p].run = r
\* Runs whose agent executes now, or will with no further look at the bans.
Executing(r) ==
    Alive(r) \/ \E p \in Runners : Supervises(p, r) /\ rn[p].pc \in {"ackStart", "create", "start"}

\* A run's sandbox is started at most once and by one runner: the claim's
\* compare-and-swap holds against concurrent runners, lost answers, crashes
\* and the stall sweep, which never requeues (agent_runs.rs, claim_agent_run
\* and mark_stale_agent_runs_stalled).
ExecutedOnce ==
    \A r \in Runs :
        /\ execs[r] <= 1
        /\ \A p, q \in Runners : Supervises(p, r) /\ Supervises(q, r) => p = q

\* run_one never returns leaving a live container behind: while no runner
\* crashed and no docker call failed, a live sandbox has its runner.
AliveIsSupervised ==
    \A r \in Runs \ (orphaned \cup stuck) :
        Alive(r) => \E p \in Runners : Supervises(p, r)

\* create_ban reaches live workloads: once its propagation is done, every run
\* of the agent that executes, or that a claim checked before the ban is still
\* about to execute, has a kill_run of this ban or a quarantine_run addressed
\* to it, however registrations, claims and the listing interleaved.  Not so
\* the runs for which a statement of the propagation or a docker call failed,
\* and those beyond its listing, which takes the oldest SOC_MAX_LIMIT active
\* runs (agent_runs.rs, list_active_agent_runs_for_agent): there are some only
\* when the agent has more runs than that.
BanReachesRuns ==
    /\ ban.beyond # {} => Cardinality(Registered) > ListLimit
    /\ "ban" \in gate /\ ban.pc = "idle" =>
        \A r \in Runs \ (missed \cup stuck \cup ban.beyond) :
            Executing(r) => \E c \in DOMAIN cmds :
                /\ cmds[c].run = r
                /\ \/ cmds[c].action = "kill_run" /\ c > ban.from
                   \/ cmds[c].action = "quarantine_run"

\* An acked kill_run or quarantine_run means the sandbox is dead for good.
AckedKillIsDead ==
    \A c \in DOMAIN cmds :
        cmds[c].action \in Kills /\ cmds[c].status = "acked" => ~Alive(cmds[c].run)

\* A kill_run or quarantine_run addressed to a supervised, live run ends it,
\* without waiting for its timeout: polling, newest-first order and nonces
\* included, whatever other commands its runner works through first.  It may
\* fail to when this very command expired or was pushed off the page the
\* gateway lists (control_commands.rs, ORDER BY issued_at DESC LIMIT), when a
\* docker call failed or when the runner died.
KillEndsRun ==
    \A k \in 1 .. MaxCommands, r \in Runs :
        (Alive(r) /\ k \in DOMAIN cmds
                  /\ cmds[k].run = r /\ cmds[k].action \in Kills /\ cmds[k].status = "issued")
        ~> \/ ~Alive(r) \/ r \in orphaned \cup stuck
           \/ k \in DOMAIN cmds /\ (cmds[k].expired \/ k + PageLimit <= Len(cmds))

\* The same of a kill behind newer commands, however many: not so, a runner sees
\* the newest page and nothing else (control_commands.rs, list_control_commands).
KillIsNeverBuried ==
    \A k \in 1 .. MaxCommands, r \in Runs :
        (Alive(r) /\ k \in DOMAIN cmds
                  /\ cmds[k].run = r /\ cmds[k].action \in Kills /\ cmds[k].status = "issued")
        ~> \/ ~Alive(r) \/ r \in orphaned \cup stuck
           \/ k \in DOMAIN cmds /\ cmds[k].expired

\* docs/AegisAgent_Agent_Cage.md: Paused goes to Running by resume_run.  A
\* paused sandbox stays until it is resumed or killed.
PausedSurvives ==
    [][\A r \in Runs : box[r] = "paused" => box'[r] \in {"paused", "running", "exited"}]_vars

\* routes/runtime.rs: "quarantined" is gateway-authoritative only; no runner
\* report replaces it while the run's record is active.
QuarantineStands ==
    [][\A r \in Runs : r \in quarantined /\ run[r].status = "quarantined" =>
            run'[r].status = "quarantined"]_vars

\* main.rs: a claim that failed "will retry next tick": a start_run command is
\* nacked only once it expired or its run is no longer waiting.
FailedClaimIsRetried ==
    \A c \in DOMAIN cmds :
        cmds[c].action = "start_run" /\ cmds[c].status = "nacked" =>
            cmds[c].expired \/ run[cmds[c].run].status # "started"
=============================================================================
