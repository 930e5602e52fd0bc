---------------------------- MODULE HostEnforcer ----------------------------
(***************************************************************************)
(* How a node sensor carries out the gateway's control commands on host    *)
(* processes.                                                              *)
(*                                                                         *)
(* The sensor is one loop.  A collector tick scans /proc for processes     *)
(* whose environment names a run and enters them into the enforcer's map   *)
(* (run -> pid, one pid per run).  A command tick fetches the newest page  *)
(* of the tenant's commands and, newest first, verifies, executes and      *)
(* reports each one that is still issued and addressed to this sensor or   *)
(* to a run in the map.  The map, the set of seen nonces and the list      *)
(* being worked through are lost with the process.  The host goes on       *)
(* meanwhile: processes start, exit, and their pids are used again.        *)
(*                                                                         *)
(* quarantine_run is kill_run on this path.  The collector's started and   *)
(* exited events go to the spool (SensorSpool).  A fault is one failing    *)
(* HTTP call, signal or liveness probe, or a restart of the sensor;        *)
(* MaxFaults bounds them.                                                  *)
(***************************************************************************)
EXTENDS Integers, Sequences

CONSTANTS Runs,
          NumPids,       \* pids the host hands out, in turn
          PageLimit,     \* SOC_DEFAULT_LIMIT: commands a listing returns
          MaxProcs,      \* bound: processes started on the host
          MaxCommands,   \* bound: commands issued
          MaxFaults,     \* bound: failing calls and restarts of the sensor
          NULL

ASSUME PageAssumption == PageLimit \in Nat \ {0} /\ NumPids \in Nat \ {0}
ASSUME EnforcerBoundsAssumption == MaxProcs \in Nat /\ MaxCommands \in Nat /\ MaxFaults \in Nat

Sensor == "sensor"       \* target_type = sensor, addressed to this one
Unmarked == "unmarked"   \* a process with no AEGIS_RUN_ID
Actions == {"kill", "pause", "resume"}
Procs == 1 .. MaxProcs
Pids == 0 .. NumPids - 1
Processes == [run : Runs \cup {Unmarked, NULL}, pid : Pids \cup {NULL},
              life : {"unborn", "running", "stopped", "dead"}]
Commands == [action : Actions, target : Runs \cup {Sensor}, valid : BOOLEAN,
             status : {"issued", "acked", "nacked"}]
Registrations == [pid : Pids, state : {"Running", "Paused", "Killed"}]
Jobs == [cmd : 1 .. MaxCommands, todo : SUBSET Runs, termed : Runs \cup {NULL}]
Reports == [cmd : 1 .. MaxCommands, status : {"acked", "nacked"}]

ASSUME NamesAssumption ==
    /\ Sensor \notin Runs /\ Unmarked \notin Runs /\ NULL \notin Runs
    /\ NULL \notin Procs /\ NULL \notin Pids
    /\ NULL \notin Registrations /\ NULL \notin Jobs /\ NULL \notin Reports

VARIABLES
    host,        \* host[x]: process x, [run, pid, life]
    cmds,        \* control_commands, oldest first: [action, target, valid, status]
    tracked,     \* the enforcer's map: run -> [pid, state], or NULL
    seenAs,      \* history: the process a run's registration saw
    announced,   \* the collector's map: pid -> run, or NULL
    seen,        \* seen_nonces, by command
    queue,       \* commands of the page still to be worked through
    job,         \* the kill in progress, or NULL: [cmd, todo, termed]
    report,      \* the outcome about to be reported, or NULL: [cmd, status]
    botched,     \* history: processes a signal or probe failed on since they were registered
    faults

sensor == <<tracked, seenAs, announced, seen, queue, job, report, botched>>
enforcerVars   == <<host, cmds, faults, sensor>>

Ended(life) == [run |-> NULL, pid |-> NULL, life |-> life]
Alive(x) == host[x].life \in {"running", "stopped"}
At(p) == {x \in Procs : Alive(x) /\ host[x].pid = p}
Marked(r) == {x \in Procs : Alive(x) /\ host[x].run = r}

Fault == faults < MaxFaults /\ faults' = faults + 1

(***************************************************************************)
(* The loop is between two ticks.                                          *)
(***************************************************************************)
Idle == queue = {} /\ job = NULL /\ report = NULL

EnforcerInit ==
    /\ host = [x \in Procs |-> Ended("unborn")]
    /\ cmds = <<>>
    /\ tracked = [r \in Runs |-> NULL] /\ seenAs = [r \in Runs |-> NULL]
    /\ announced = [p \in Pids |-> NULL]
    /\ seen = {} /\ queue = {} /\ job = NULL /\ report = NULL /\ botched = {}
    /\ faults = 0

-----------------------------------------------------------------------------
(* The host *)

(***************************************************************************)
(* The x-th process starts.  The kernel hands out pids in turn, and one    *)
(* that is free again is used again.                                       *)
(***************************************************************************)
Spawn(x, r) ==
    /\ host[x].life = "unborn" /\ \A y \in 1 .. x - 1 : host[y].life # "unborn"
    /\ At(x % NumPids) = {}
    /\ host' = [host EXCEPT ![x] = [run |-> r, pid |-> x % NumPids, life |-> "running"]]
    /\ UNCHANGED <<cmds, faults, sensor>>

Exit(x) ==
    /\ host[x].life = "running"
    /\ host' = [host EXCEPT ![x] = Ended("dead")]
    /\ UNCHANGED <<cmds, faults, sensor>>

(***************************************************************************)
(* What a signal may make of a process.  One that is stopped or handles    *)
(* SIGTERM does not die of it.                                             *)
(***************************************************************************)
Hit(x, sig) ==
    CASE sig = "STOP" -> {[host[x] EXCEPT !.life = "stopped"]}
      [] sig = "CONT" -> {[host[x] EXCEPT !.life = "running"]}
      [] sig = "KILL" -> {Ended("dead")}
      [] sig = "TERM" -> IF host[x].life = "stopped" THEN {host[x]} ELSE {host[x], Ended("dead")}

(***************************************************************************)
(* send_signal delivers: whoever has the pid now is hit, and an unused pid *)
(* is a success.                                                           *)
(***************************************************************************)
Deliver(p, sig) ==
    IF At(p) = {} THEN UNCHANGED host
    ELSE \E x \in At(p) : \E h \in Hit(x, sig) : host' = [host EXCEPT ![x] = h]

-----------------------------------------------------------------------------
(* The gateway *)

(***************************************************************************)
(* issue_control_command stores what its caller signed, soundly or not.    *)
(***************************************************************************)
Issue(a, t, ok) ==
    /\ Len(cmds) < MaxCommands
    /\ cmds' = Append(cmds, [action |-> a, target |-> t, valid |-> ok, status |-> "issued"])
    /\ UNCHANGED <<host, faults, sensor>>

(***************************************************************************)
(* A command's expires_at passes; nothing is written.  From here on it     *)
(* fails verification like one that was never well signed.                 *)
(***************************************************************************)
Expire(c) ==
    /\ c \in DOMAIN cmds /\ cmds[c].valid
    /\ cmds' = [cmds EXCEPT ![c].valid = FALSE]
    /\ UNCHANGED <<host, faults, sensor>>

(***************************************************************************)
(* The page GET /v1/control/commands answers with: the newest, whatever    *)
(* their status.                                                           *)
(***************************************************************************)
Listed(c) == c \in DOMAIN cmds /\ c + PageLimit > Len(cmds)

-----------------------------------------------------------------------------
(* The sensor *)

(***************************************************************************)
(* A scan: the live marked processes, and of several with one run the last *)
(* that is met.  A pid that was announced and is not there any more is     *)
(* gone, and a run without a process is dropped if its pid is.             *)
(***************************************************************************)
Live == {x \in Procs : Alive(x) /\ host[x].run \in Runs}
LastOf(r) == IF Marked(r) = {} THEN {NULL} ELSE Marked(r)
Gone(p) == announced[p] # NULL /\ \A x \in Live : host[x].pid # p
Dropped(r) == tracked[r] # NULL /\ Gone(tracked[r].pid) /\ announced[tracked[r].pid] = r

(***************************************************************************)
(* A collector tick.  Every live marked process is registered anew, as     *)
(* Running.                                                                *)
(***************************************************************************)
Rescan(last) ==
    /\ tracked' = [r \in Runs |->
           IF last[r] # NULL THEN [pid |-> host[last[r]].pid, state |-> "Running"]
           ELSE IF Dropped(r) THEN NULL ELSE tracked[r]]
    /\ seenAs' = [r \in Runs |-> IF last[r] # NULL THEN last[r]
                                 ELSE IF Dropped(r) THEN NULL ELSE seenAs[r]]
    /\ announced' = [p \in Pids |->
           IF \E x \in Live : host[x].pid = p
           THEN host[CHOOSE x \in Live : host[x].pid = p].run ELSE NULL]
    /\ botched' = botched \ {last[r] : r \in Runs}

Collect ==
    /\ Idle
    /\ \E last \in [Runs -> Procs \cup {NULL}] :
          (\A r \in Runs : last[r] \in LastOf(r)) /\ Rescan(last)
    /\ UNCHANGED <<host, cmds, faults, seen, queue, job, report>>

(***************************************************************************)
(* A command tick fetches the page and keeps what is issued in it.         *)
(***************************************************************************)
PollCommands ==
    /\ Idle
    /\ queue' = {c \in DOMAIN cmds : Listed(c) /\ cmds[c].status = "issued"}
    /\ UNCHANGED <<host, cmds, faults, tracked, seenAs, announced, seen, job, report,
                   botched>>

Registered == {r \in Runs : tracked[r] # NULL}

(***************************************************************************)
(* The filter of the loop.                                                 *)
(***************************************************************************)
Addressed(c) == cmds[c].target \in Registered \cup {Sensor}

(***************************************************************************)
(* CommandReceiver::verify: key, tenant, expiry and signature, the nonce   *)
(* last.                                                                   *)
(***************************************************************************)
Verifies(c) == cmds[c].valid /\ c \notin seen

Outcome(c, ok) == report' = [cmd |-> c, status |-> IF ok THEN "acked" ELSE "nacked"]

(***************************************************************************)
(* The loop turns to its next command, the newest that is left.            *)
(***************************************************************************)
Turn(c) ==
    /\ job = NULL /\ report = NULL
    /\ c \in queue /\ \A d \in queue : d <= c
    /\ queue' = queue \ {c}

Skip(c) ==
    /\ Turn(c) /\ ~Addressed(c)
    /\ UNCHANGED <<host, cmds, faults, tracked, seenAs, announced, seen, job, report,
                   botched>>

RefuseUnlessSeen(c) ==
    /\ Turn(c) /\ Addressed(c) /\ ~Verifies(c)
    /\ IF c \in seen THEN UNCHANGED report ELSE Outcome(c, FALSE)
    /\ UNCHANGED <<host, cmds, faults, tracked, seenAs, announced, seen, job, botched>>

(***************************************************************************)
(* Refused: it does not verify, or its nonce was seen, or the action is    *)
(* none this target supports.  The last comes after the nonce is recorded. *)
(***************************************************************************)
Refuse(c) ==
    /\ Turn(c) /\ Addressed(c)
    /\ \/ ~Verifies(c) /\ UNCHANGED seen
       \/ /\ Verifies(c)
          /\ cmds[c].target = Sensor /\ cmds[c].action # "kill"
          /\ seen' = seen \cup {c}
    /\ Outcome(c, FALSE)
    /\ UNCHANGED <<host, cmds, faults, tracked, seenAs, announced, job, botched>>

(***************************************************************************)
(* The next command is verified and its nonce recorded.                    *)
(***************************************************************************)
Accept(c) ==
    /\ Turn(c) /\ Addressed(c) /\ Verifies(c)
    /\ seen' = seen \cup {c}

(***************************************************************************)
(* pause_run and resume_run: the map first, the signal after it.           *)
(***************************************************************************)
Early(a, state) ==
    \/ state = "Killed"
    \/ a = "pause" /\ state = "Paused"

SignalRun(c) ==
    /\ Accept(c)
    /\ cmds[c].target # Sensor /\ cmds[c].action # "kill"
    /\ LET r == cmds[c].target
           a == cmds[c].action
           t == tracked[r]
       IN \/ /\ Early(a, t.state)
             /\ Outcome(c, TRUE)
             /\ UNCHANGED <<host, tracked, botched, faults>>
          \/ /\ ~Early(a, t.state)
             /\ tracked' = [tracked EXCEPT ![r].state = IF a = "pause" THEN "Paused" ELSE "Running"]
             /\ \/ /\ Deliver(t.pid, IF a = "pause" THEN "STOP" ELSE "CONT")
                   /\ Outcome(c, TRUE)
                   /\ UNCHANGED <<botched, faults>>
                \/ /\ Fault
                   /\ botched' = botched \cup {seenAs[r]}
                   /\ Outcome(c, FALSE)
                   /\ UNCHANGED host
    /\ UNCHANGED <<cmds, seenAs, announced, job>>

(***************************************************************************)
(* kill_run on a run, or on every registered run for the sensor.           *)
(***************************************************************************)
BeginKill(c) ==
    /\ Accept(c)
    /\ cmds[c].action = "kill"
    /\ job' = [cmd |-> c, termed |-> NULL,
               todo |-> IF cmds[c].target = Sensor THEN Registered
                        ELSE {cmds[c].target}]
    /\ UNCHANGED <<host, cmds, faults, tracked, seenAs, announced, report, botched>>

Killing(r) == job # NULL /\ r \in job.todo /\ job.termed = NULL

(***************************************************************************)
(* A run already marked Killed is passed over.                             *)
(***************************************************************************)
PassKilled(r) ==
    /\ Killing(r) /\ tracked[r].state = "Killed"
    /\ job' = [job EXCEPT !.todo = @ \ {r}]
    /\ UNCHANGED <<host, cmds, faults, tracked, seenAs, announced, seen, queue, report,
                   botched>>

(***************************************************************************)
(* Marked Killed, then SIGTERM.  An error ends the command.                *)
(***************************************************************************)
Terminate(r) ==
    /\ Killing(r) /\ tracked[r].state # "Killed"
    /\ tracked' = [tracked EXCEPT ![r].state = "Killed"]
    /\ \/ /\ Deliver(tracked[r].pid, "TERM")
          /\ job' = [job EXCEPT !.termed = r]
          /\ UNCHANGED <<report, botched, faults>>
       \/ /\ Fault
          /\ botched' = botched \cup {seenAs[r]}
          /\ Outcome(job.cmd, FALSE) /\ job' = NULL
          /\ UNCHANGED host
    /\ UNCHANGED <<cmds, seenAs, announced, seen, queue>>

(***************************************************************************)
(* After the grace period: a process that is still there gets SIGKILL.     *)
(* A probe that cannot run counts as a dead process.                       *)
(***************************************************************************)
EscalateNever ==
    /\ job # NULL /\ job.termed # NULL
    /\ job' = [job EXCEPT !.termed = NULL, !.todo = @ \ {job.termed}]
    /\ UNCHANGED <<host, cmds, faults, tracked, seenAs, announced, seen, queue, report,
                   botched>>

Escalate ==
    /\ job # NULL /\ job.termed # NULL
    /\ LET r == job.termed
           passed == job' = [job EXCEPT !.termed = NULL, !.todo = @ \ {r}]
       IN \/ Deliver(tracked[r].pid, "KILL") /\ passed /\ UNCHANGED <<report, botched, faults>>
          \/ /\ At(tracked[r].pid) # {}
             /\ Fault
             /\ botched' = botched \cup {seenAs[r]}
             /\ \/ passed /\ UNCHANGED report
                \/ Outcome(job.cmd, FALSE) /\ job' = NULL
             /\ UNCHANGED host
    /\ UNCHANGED <<cmds, tracked, seenAs, announced, seen, queue>>

EndKill ==
    /\ job # NULL /\ job.todo = {} /\ job.termed = NULL
    /\ Outcome(job.cmd, TRUE) /\ job' = NULL
    /\ UNCHANGED <<host, cmds, faults, tracked, seenAs, announced, seen, queue, botched>>

(***************************************************************************)
(* update_command_status; a failing call may have reached the gateway.     *)
(***************************************************************************)
Report ==
    /\ report # NULL
    /\ \E told, ok \in BOOLEAN :
          /\ ok => told
          /\ \/ ok /\ UNCHANGED faults
             \/ ~ok /\ Fault
          /\ cmds' = IF told THEN [cmds EXCEPT ![report.cmd].status = report.status] ELSE cmds
    /\ report' = NULL
    /\ UNCHANGED <<host, tracked, seenAs, announced, seen, queue, job, botched>>

(***************************************************************************)
(* The sensor process ends and a new one starts.                           *)
(***************************************************************************)
Restart ==
    /\ Fault
    /\ tracked' = [r \in Runs |-> NULL] /\ seenAs' = [r \in Runs |-> NULL]
    /\ announced' = [p \in Pids |-> NULL]
    /\ seen' = {} /\ queue' = {} /\ job' = NULL /\ report' = NULL /\ botched' = {}
    /\ UNCHANGED <<host, cmds>>

Work ==
    \/ Escalate \/ EndKill \/ Report
    \/ \E c \in DOMAIN cmds : Skip(c) \/ Refuse(c) \/ SignalRun(c) \/ BeginKill(c)
    \/ \E r \in Runs : PassKilled(r) \/ Terminate(r)

Environment ==
    \/ \E x \in Procs : Exit(x)
    \/ \E x \in Procs, r \in Runs \cup {Unmarked} : Spawn(x, r)
    \/ \E a \in Actions, t \in Runs \cup {Sensor}, ok \in BOOLEAN : Issue(a, t, ok)
    \/ \E c \in DOMAIN cmds : Expire(c)

EnforcerNext == Collect \/ PollCommands \/ Work \/ Environment \/ Restart

(***************************************************************************)
(* The loop's ticks keep firing and what a tick began is finished.         *)
(***************************************************************************)
EnforcerFairness == WF_enforcerVars(PollCommands) /\ WF_enforcerVars(Work)

EnforcerSpec == EnforcerInit /\ [][EnforcerNext]_enforcerVars /\ EnforcerFairness

-----------------------------------------------------------------------------
EnforcerTypeOK ==
    /\ host \in [Procs -> Processes] /\ cmds \in Seq(Commands)
    /\ Len(cmds) <= MaxCommands /\ seen \cup queue \subseteq DOMAIN cmds
    /\ tracked \in [Runs -> Registrations \cup {NULL}]
    /\ seenAs \in [Runs -> Procs \cup {NULL}] /\ announced \in [Pids -> Runs \cup {NULL}]
    /\ job \in Jobs \cup {NULL} /\ report \in Reports \cup {NULL}
    /\ report # NULL => report.cmd \in DOMAIN cmds
    /\ botched \subseteq Procs /\ faults \in 0 .. MaxFaults

(***************************************************************************)
(* The runs a command is about.                                            *)
(***************************************************************************)
Targets(c) == IF cmds[c].target = Sensor THEN Registered
              ELSE {cmds[c].target}

Took(a, life) ==
    CASE a = "kill"   -> life = "dead"
      [] a = "pause"  -> life \in {"stopped", "dead"}
      [] a = "resume" -> life \in {"running", "dead"}

(***************************************************************************)
(* A signal meant for another run goes to this run's pid too: the other    *)
(* registration is of a process that is gone and whose pid is used again.  *)
(***************************************************************************)
SharesPid(r) == \E q \in Registered \ {r} : tracked[q].pid = tracked[r].pid

Obeyed(c, r) == seenAs[r] \in botched' \/ Took(cmds[c].action, host'[seenAs[r]].life)

Acking == report = NULL /\ report' # NULL /\ report'.status = "acked"

(***************************************************************************)
(* execute's promise to report acked only for what happened: when the      *)
(* sensor decides on acked, every process registered for a target is dead, *)
(* stopped or running as ordered, whatever was ordered of it before,       *)
(* unless a signal or a probe failed on it since it was last registered.   *)
(* Of a pause this holds only while no other registration has its pid.     *)
(***************************************************************************)
AckIsHonest ==
    [][Acking => \A r \in Targets(report'.cmd) :
          \/ Obeyed(report'.cmd, r)
          \/ cmds[report'.cmd].action = "pause" /\ SharesPid(r)]_enforcerVars

(***************************************************************************)
(* The same of every pause; the code does not promise it (README,          *)
(* observations).                                                          *)
(***************************************************************************)
PauseIsHonest ==
    [][Acking => \A r \in Targets(report'.cmd) : Obeyed(report'.cmd, r)]_enforcerVars

Open(c) == Listed(c) /\ cmds[c].status = "issued" /\ Addressed(c)

(***************************************************************************)
(* A command that stays on the newest page and addressed to this sensor is *)
(* answered: lost reports, restarts and expiry do not leave it issued.     *)
(***************************************************************************)
CommandIsAnswered == \A c \in 1 .. MaxCommands : []<>~Open(c)
=============================================================================
