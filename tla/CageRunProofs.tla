---------------------------- MODULE CageRunProofs ----------------------------
(***************************************************************************)
(* The cage run's safety for any number of runs and runners, any length of *)
(* the command table, any page limit and any number of requests and        *)
(* faults.                                                                 *)
(*                                                                         *)
(* Four invariants carry it.  RunInv: what a run's row says of its past,   *)
(* above all that only an unclaimed run is waiting.  RunnerOK: what a      *)
(* runner knows where it stands; the row names it while it has a run, so   *)
(* two runners never have the same one.  CommandInv: what a command in the *)
(* table promises.  BanInv: which runs a ban in progress has still to      *)
(* reach.                                                                  *)
(***************************************************************************)
EXTENDS CageRun, TLAPS, SequenceTheorems, FiniteSetTheorems, WellFoundedInduction

\* A runner that has not claimed a run yet, and one that has but not started it.
Looking == {"idle", "scan", "claim", "claimRecord", "claimUpdate"}
Preparing == {"ackStart", "create", "start"}

\* A command that ends run r was issued.
HasQuarantine(r) ==
    \E c \in DOMAIN cmds : cmds[c].run = r /\ cmds[c].action = "quarantine_run"
HasKill(r) ==
    \E c \in DOMAIN cmds :
        /\ cmds[c].run = r
        /\ \/ cmds[c].action = "kill_run" /\ c > ban.from
           \/ cmds[c].action = "quarantine_run"

RunInv(r) ==
    /\ run[r].status = "absent" <=> reg[r] # "done"
    /\ run[r].status \in {"absent", "started"} =>
          run[r].by = None /\ execs[r] = 0 /\ box[r] = "none"
    /\ quarantining[r] # "none" \/ run[r].status = "quarantined" =>
          run[r].status # "absent" /\ HasQuarantine(r)
    /\ run[r].status \in {"finished", "killed"} => ~Executing(r) \/ r \in stuck
    /\ execs[r] <= 1

\* Runner p with local state s.
RunnerOK(p, s) ==
    /\ s.pc \in Looking => s.run = None
    /\ s.pc \notin Looking \cup {"ackStart"} => s.run # None
    /\ s.run # None => run[s.run].by = p
    /\ s.run # None /\ s.pc \in Preparing => execs[s.run] = 0 /\ ~Alive(s.run)
    /\ s.pc \in {"sayRunning", "watch", "control", "say", "ack"} => execs[s.run] = 1
    /\ s.pc \in {"scan", "control"} => s.todo # {}
    /\ s.pc \in {"claim", "claimRecord", "claimUpdate", "ackStart", "say", "ack"} =>
          s.cmd \in s.todo
    /\ s.pc \in {"scan", "claim", "claimRecord", "claimUpdate", "ackStart"} =>
          \A c \in s.todo : c \in DOMAIN cmds /\ cmds[c].action = "start_run"
    /\ s.pc \in {"control", "say", "ack"} =>
          \A c \in s.todo : c \in DOMAIN cmds /\ cmds[c].action # "start_run"
                                             /\ cmds[c].run = s.run
    /\ s.pc = "say" => s.say = "acked"
    /\ s.pc \in {"say", "ack"} /\ s.say = "acked" /\ cmds[s.cmd].action \in Kills =>
          ~Alive(s.run)
    /\ s.pc = "report" => ~Alive(s.run) \/ s.run \in stuck

CommandInv(c) ==
    /\ run[cmds[c].run].status # "absent"
    /\ cmds[c].action \in Kills /\ cmds[c].status = "acked" =>
          execs[cmds[c].run] = 1 /\ ~Alive(cmds[c].run)

\* A run that executes, or whose claim has passed the ban's gate.
Passed(r) ==
    \/ Executing(r)
    \/ run[r].status = "started" /\ \E p \in Runners :
          rn[p].pc \in {"claimRecord", "claimUpdate"} /\ cmds[rn[p].cmd].run = r

BanInv ==
    /\ ban.from <= Len(cmds)
    /\ ban.pc # "issue" => ban.todo = {}
    /\ \A r \in ban.todo : run[r].status # "absent"
    /\ "ban" \in gate /\ ban.pc # "list" =>
          \A r \in Runs \ (missed \cup stuck \cup ban.beyond) :
              Passed(r) => r \in ban.todo \/ HasKill(r)

IndInv ==
    /\ TypeOK
    /\ \A r \in Runs : RunInv(r)
    /\ \A p \in Runners : RunnerOK(p, rn[p])
    /\ \A c \in DOMAIN cmds : CommandInv(c)
    /\ BanInv
    /\ AliveIsSupervised

-----------------------------------------------------------------------------
(* Operators of the model *)

\* The newest command of a listing is one of it: a bounded set of numbers has
\* a greatest element.
LEMMA NewestOfListing ==
    ASSUME NEW todo, NEW n \in Nat, todo \subseteq 1 .. n, todo # {}
    PROVE  Newest(todo) \in todo
  <1> DEFINE T == {n - c : c \in todo}
  <1>1. T \subseteq Nat /\ T # {}
    <2>1. PICK d \in todo : TRUE
      OBVIOUS
    <2>2. n - d \in T
      OBVIOUS
    <2> QED  BY <2>2
  <1>2. PICK x \in T : \A y \in T : ~(<<y, x>> \in OpToRel(<, Nat))
    BY <1>1, NatLessThanWellFounded, WFMin
  <1>3. \A y \in T : ~(y < x)
    BY <1>1, <1>2 DEF OpToRel
  <1>4. PICK c \in todo : x = n - c
    OBVIOUS
  <1>5. \A d \in todo : c >= d
    <2> TAKE d \in todo
    <2>1. n - d \in T
      OBVIOUS
    <2>2. ~(n - d < n - c)
      BY <1>3, <1>4, <2>1
    <2> QED  BY <2>2
  <1> QED
    BY <1>5 DEF Newest, Max

\* Every command of the table is still there and still asks for the same.
CmdsKept ==
    \A c \in DOMAIN cmds :
        c \in DOMAIN cmds' /\ cmds'[c].run = cmds[c].run /\ cmds'[c].action = cmds[c].action

LEMMA CountersTyped ==
    ASSUME TypeOK
    PROVE  /\ Fault => faults' \in 0 .. MaxFaults
           /\ \A a : Request(a) => requests' \in 0 .. MaxRequests
  BY BoundAssumption DEF TypeOK, Fault, Request

LEMMA CommandTyped ==
    ASSUME TypeOK, NEW c \in DOMAIN cmds
    PROVE  cmds[c] \in Commands /\ c \in 1 .. Len(cmds)
  BY DEF TypeOK

LEMMA IssueAppends ==
    ASSUME TypeOK, NEW r \in Runs, NEW a \in Actions, Issue(r, a)
    PROVE  /\ cmds' \in Seq(Commands) /\ Len(cmds') = Len(cmds) + 1
           /\ DOMAIN cmds' = DOMAIN cmds \cup {Len(cmds) + 1}
           /\ \A c \in DOMAIN cmds : cmds'[c] = cmds[c]
           /\ cmds'[Len(cmds) + 1].run = r /\ cmds'[Len(cmds) + 1].action = a
           /\ cmds'[Len(cmds) + 1].status = "issued"
           /\ CmdsKept
  <1> DEFINE e == [run |-> r, action |-> a, status |-> "issued", expired |-> FALSE]
  <1>1. e \in Commands /\ e.run = r /\ e.action = a /\ e.status = "issued"
    BY DEF Commands
  <1> HIDE DEF e
  <1>2. cmds' = Append(cmds, e) /\ cmds \in Seq(Commands) /\ Len(cmds) \in Nat
    BY DEF Issue, TypeOK, e
  <1>3. /\ cmds' \in Seq(Commands) /\ Len(cmds') = Len(cmds) + 1
        /\ \A i \in 1 .. Len(cmds) : cmds'[i] = cmds[i]
        /\ cmds'[Len(cmds) + 1] = e
    BY <1>1, <1>2, AppendProperties
  <1>4. DOMAIN cmds' = 1 .. Len(cmds) + 1 /\ DOMAIN cmds = 1 .. Len(cmds)
    BY <1>2, <1>3
  <1> QED
    BY <1>1, <1>2, <1>3, <1>4 DEF CmdsKept

\* Marking a command keeps the table; only that command's mark changes.
LEMMA MarkKeeps ==
    ASSUME TypeOK, NEW k \in DOMAIN cmds, NEW m \in Commands,
           m.run = cmds[k].run, m.action = cmds[k].action, cmds' = [cmds EXCEPT ![k] = m]
    PROVE  /\ cmds' \in Seq(Commands) /\ Len(cmds') = Len(cmds) /\ DOMAIN cmds' = DOMAIN cmds
           /\ \A c \in DOMAIN cmds : c # k => cmds'[c] = cmds[c]
           /\ cmds'[k] = m
           /\ CmdsKept
  <1>1. cmds \in Seq(Commands) /\ Len(cmds) \in Nat /\ k \in 1 .. Len(cmds)
    BY DEF TypeOK
  <1>2. /\ cmds' \in Seq(Commands) /\ Len(cmds') = Len(cmds)
        /\ \A c \in 1 .. Len(cmds) : cmds'[c] = IF c = k THEN m ELSE cmds[c]
    BY <1>1, ExceptSeq
  <1>3. DOMAIN cmds' = 1 .. Len(cmds) /\ DOMAIN cmds = 1 .. Len(cmds)
    BY <1>1, <1>2
  <1> QED
    BY <1>2, <1>3 DEF CmdsKept

\* A runner that does not move keeps what it knows, unless its own run changes.
LEMMA RunnerRests ==
    ASSUME IndInv, NEW q \in Runners, rn'[q] = rn[q], CmdsKept, stuck \subseteq stuck',
           rn[q].run # None =>
               /\ run'[rn[q].run].by = run[rn[q].run].by
               /\ execs'[rn[q].run] = execs[rn[q].run]
               /\ box'[rn[q].run] \in {"running", "paused"} => Alive(rn[q].run)
    PROVE  RunnerOK(q, rn[q])'
  <1>1. RunnerOK(q, rn[q]) /\ rn[q] \in RunnerStates
    BY DEF IndInv, TypeOK
  <1> QED
    BY <1>1 DEF RunnerOK, CmdsKept, Alive, Looking, Preparing, RunnerStates, Kills

-----------------------------------------------------------------------------
(* The gateway's handlers: no runner moves and no sandbox changes *)

Apart == UNCHANGED <<rn, box, execs, orphaned, stuck>>

LEMMA GatewayStep ==
    ASSUME IndInv, Apart, CmdsKept, \A r \in Runs : run'[r].by = run[r].by
    PROVE  /\ \A p \in Runners : RunnerOK(p, rn[p])'
           /\ AliveIsSupervised'
           /\ \A r \in Runs : Executing(r)' <=> Executing(r)
           /\ \A r \in Runs : HasQuarantine(r) => HasQuarantine(r)'
           /\ \A r \in Runs : ban'.from = ban.from /\ HasKill(r) => HasKill(r)'
           /\ \A p \in Runners : rn[p].pc \in {"claimRecord", "claimUpdate"} =>
                 rn[p].cmd \in DOMAIN cmds /\ cmds'[rn[p].cmd].run = cmds[rn[p].cmd].run
  <1>1. ASSUME NEW p \in Runners PROVE RunnerOK(p, rn[p])'
    <2>1. rn[p].run # None => rn[p].run \in Runs
      BY DEF IndInv, TypeOK, RunnerStates
    <2> QED
      BY <2>1, RunnerRests DEF Apart, Alive
  <1>2. AliveIsSupervised'
    BY DEF Apart, IndInv, AliveIsSupervised, Alive, Supervises
  <1>3. \A r \in Runs : Executing(r)' <=> Executing(r)
    BY DEF Apart, Executing, Alive, Supervises
  <1>4. \A r \in Runs : HasQuarantine(r) => HasQuarantine(r)'
    BY DEF CmdsKept, HasQuarantine
  <1>5. \A r \in Runs : ban'.from = ban.from /\ HasKill(r) => HasKill(r)'
    BY DEF CmdsKept, HasKill
  <1>6. \A p \in Runners : rn[p].pc \in {"claimRecord", "claimUpdate"} =>
           rn[p].cmd \in DOMAIN cmds /\ cmds'[rn[p].cmd].run = cmds[rn[p].cmd].run
    BY DEF IndInv, RunnerOK, CmdsKept
  <1> QED  BY <1>1, <1>2, <1>3, <1>4, <1>5, <1>6

\* A handler that touches neither the runs nor the commands.
LEMMA QuietStep ==
    ASSUME IndInv, Apart, TypeOK', UNCHANGED <<run, cmds>>,
           \A r \in Runs : (reg'[r] # "done") <=> (reg[r] # "done"),
           \A r \in Runs : quarantining'[r] # "none" => quarantining[r] # "none",
           BanInv'
    PROVE  IndInv'
  <1>0. CmdsKept
    BY DEF CmdsKept
  <1>1. ASSUME NEW r \in Runs PROVE RunInv(r)'
    <2>1. RunInv(r)
      BY DEF IndInv
    <2> QED
      BY <1>0, <2>1, GatewayStep DEF RunInv, Apart
  <1>2. ASSUME NEW c \in DOMAIN cmds' PROVE CommandInv(c)'
    BY DEF IndInv, CommandInv, Apart, Alive
  <1> QED
    BY <1>0, <1>1, <1>2, GatewayStep DEF IndInv

\* BanInv when the ban, the gate and what was missed stay, the runs' statuses
\* lead nowhere new and no claim passes the gate.
LEMMA BanKept ==
    ASSUME IndInv, Apart, CmdsKept, \A r \in Runs : run'[r].by = run[r].by,
           ban' = ban, Len(cmds') >= Len(cmds), Len(cmds') \in Nat,
           "ban" \in gate' => "ban" \in gate,
           missed' = missed,
           \A r \in Runs : run'[r].status = "started" =>
                run[r].status = "started" \/ run[r].status = "absent",
           \A r \in Runs : run'[r].status = "absent" => run[r].status = "absent"
    PROVE  BanInv'
  <1>1. ban.from \in Nat /\ Len(cmds) \in Nat /\ ban.todo \subseteq Runs
    BY DEF IndInv, TypeOK, BanStates
  <1>2. ASSUME NEW r \in Runs, Passed(r)' PROVE Passed(r)
    <2>1. CASE Executing(r)'
      BY <2>1, GatewayStep DEF Passed
    <2>2. CASE ~Executing(r)'
      <3>1. run'[r].status = "started"
        BY <1>2, <2>2 DEF Passed
      <3>2. PICK p \in Runners : rn[p].pc \in {"claimRecord", "claimUpdate"} /\ cmds'[rn[p].cmd].run = r
        BY <1>2, <2>2 DEF Passed, Apart
      <3>3. rn[p].cmd \in DOMAIN cmds /\ cmds[rn[p].cmd].run = r
        BY <3>2, GatewayStep
      <3>4. run[r].status # "absent"
        BY <3>3 DEF IndInv, CommandInv
      <3> QED
        BY <3>1, <3>2, <3>3, <3>4 DEF Passed
    <2> QED  BY <2>1, <2>2
  <1> QED
    BY <1>1, <1>2, GatewayStep DEF IndInv, BanInv, Apart

LEMMA RegisterCheckStep == ASSUME IndInv, NEW r \in Runs, RegisterCheck(r) PROVE IndInv'
  <1> USE DEF RegisterCheck, control, history
  <1>1. TypeOK' /\ Apart /\ CmdsKept
    BY DEF IndInv, TypeOK, Apart, CmdsKept
  <1>2. BanInv'
    BY <1>1, BanKept DEF IndInv, TypeOK
  <1> QED
    BY <1>1, <1>2, QuietStep DEF IndInv, TypeOK

LEMMA StatusSet ==
    ASSUME TypeOK, NEW r \in Runs, NEW st \in Statuses, run' = [run EXCEPT ![r].status = st]
    PROVE  /\ run' \in [Runs -> RunRows]
           /\ \A x \in Runs : /\ run'[x].by = run[x].by /\ run'[x].stale = run[x].stale
                              /\ run'[x].status = IF x = r THEN st ELSE run[x].status
  <1>1. run \in [Runs -> RunRows] /\ run[r] \in RunRows
    BY DEF TypeOK
  <1>2. /\ [run[r] EXCEPT !.status = st] \in RunRows
        /\ [run[r] EXCEPT !.status = st].by = run[r].by
        /\ [run[r] EXCEPT !.status = st].stale = run[r].stale
        /\ [run[r] EXCEPT !.status = st].status = st
    BY <1>1 DEF RunRows
  <1>3. run' = [run EXCEPT ![r] = [run[r] EXCEPT !.status = st]]
    OBVIOUS
  <1> QED
    BY <1>1, <1>2, <1>3

LEMMA RegisterInsertStep == ASSUME IndInv, NEW r \in Runs, RegisterInsert(r) PROVE IndInv'
  <1> USE DEF control, history
  <1>0. /\ cmds' \in Seq(Commands) /\ Len(cmds') = Len(cmds) + 1
        /\ DOMAIN cmds' = DOMAIN cmds \cup {Len(cmds) + 1}
        /\ \A c \in DOMAIN cmds : cmds'[c] = cmds[c]
        /\ cmds'[Len(cmds) + 1].run = r /\ cmds'[Len(cmds) + 1].action = "start_run"
        /\ CmdsKept
    BY IssueAppends DEF IndInv, RegisterInsert, Actions
  <1>1. /\ run' \in [Runs -> RunRows]
        /\ \A x \in Runs : /\ run'[x].by = run[x].by
                           /\ run'[x].status = IF x = r THEN "started" ELSE run[x].status
    BY StatusSet, ZenonT(60) DEF RegisterInsert, IndInv, Statuses
  <1>2. TypeOK' /\ Apart
    BY <1>0, <1>1 DEF RegisterInsert, IndInv, TypeOK, Apart
  <1>3. run[r].status = "absent" /\ RunInv(r)
    BY DEF RegisterInsert, IndInv, RunInv
  <1>4. BanInv'
    BY <1>0, <1>1, <1>2, <1>3, BanKept DEF RegisterInsert, IndInv, TypeOK
  <1>5. ASSUME NEW x \in Runs PROVE RunInv(x)'
    <2>1. CASE x = r
      BY <1>1, <1>2, <1>3, <2>1 DEF RegisterInsert, RunInv, Apart, IndInv, TypeOK
    <2>2. CASE x # r
      <3>1. RunInv(x)
        BY DEF IndInv
      <3> QED
        BY <1>0, <1>1, <1>2, <2>2, <3>1, GatewayStep DEF RegisterInsert, RunInv, Apart, IndInv, TypeOK
    <2> QED  BY <2>1, <2>2
  <1>6. ASSUME NEW c \in DOMAIN cmds' PROVE CommandInv(c)'
    <2>1. CASE c \in DOMAIN cmds
      <3>1. CommandInv(c) /\ cmds[c].run \in Runs
        BY <2>1, CommandTyped DEF IndInv, Commands
      <3> QED
        BY <1>0, <1>1, <1>2, <2>1, <3>1 DEF CommandInv, Apart, Alive
    <2>2. CASE c = Len(cmds) + 1
      BY <1>0, <1>1, <2>2 DEF CommandInv, Kills
    <2> QED  BY <1>0, <2>1, <2>2
  <1> QED
    BY <1>0, <1>1, <1>2, <1>4, <1>5, <1>6, GatewayStep DEF IndInv

\* A handler that issues a command to a registered run.
LEMMA IssueStep ==
    ASSUME IndInv, Apart, TypeOK', NEW r \in Runs, NEW a \in Actions, Issue(r, a),
           run[r].status # "absent", UNCHANGED <<run, reg>>,
           \A x \in Runs : quarantining'[x] # "none" =>
               quarantining[x] # "none" \/ (x = r /\ a = "quarantine_run"),
           BanInv'
    PROVE  IndInv'
  <1>0. /\ Len(cmds') = Len(cmds) + 1
        /\ DOMAIN cmds' = DOMAIN cmds \cup {Len(cmds) + 1}
        /\ \A c \in DOMAIN cmds : cmds'[c] = cmds[c]
        /\ cmds'[Len(cmds) + 1].run = r /\ cmds'[Len(cmds) + 1].action = a
        /\ cmds'[Len(cmds) + 1].status = "issued"
        /\ CmdsKept
    BY IssueAppends DEF IndInv
  <1>1. ASSUME NEW x \in Runs PROVE RunInv(x)'
    <2>1. RunInv(x)
      BY DEF IndInv
    <2>2. x = r /\ a = "quarantine_run" => HasQuarantine(x)'
      BY <1>0 DEF HasQuarantine
    <2> QED
      BY <1>0, <2>1, <2>2, GatewayStep DEF RunInv, Apart
  <1>2. ASSUME NEW c \in DOMAIN cmds' PROVE CommandInv(c)'
    <2>1. CASE c \in DOMAIN cmds
      BY <1>0, <2>1 DEF IndInv, CommandInv, Apart, Alive
    <2>2. CASE c = Len(cmds) + 1
      BY <1>0, <2>2 DEF CommandInv
    <2> QED  BY <1>0, <2>1, <2>2
  <1> QED
    BY <1>0, <1>1, <1>2, GatewayStep DEF IndInv

LEMMA ControlRequestStep ==
    ASSUME IndInv, NEW r \in Runs, NEW a \in {"pause_run", "resume_run", "kill_run"},
           ControlRequest(r, a)
    PROVE  IndInv'
  <1> USE DEF control, history
  <1>0. cmds' \in Seq(Commands) /\ Len(cmds') = Len(cmds) + 1 /\ CmdsKept
    BY IssueAppends DEF IndInv, ControlRequest, Actions
  <1>1. TypeOK' /\ Apart
    BY <1>0, CountersTyped DEF ControlRequest, IndInv, TypeOK, Apart
  <1>2. BanInv'
    BY <1>0, <1>1, BanKept DEF ControlRequest, IndInv, TypeOK
  <1> QED
    BY <1>1, <1>2, IssueStep DEF ControlRequest, Actions

LEMMA BanInsertStep == ASSUME IndInv, BanInsert PROVE IndInv'
  <1>1. TypeOK' /\ Apart
    BY CountersTyped DEF BanInsert, IndInv, TypeOK, BanStates, Apart
  <1>2. BanInv'
    BY DEF BanInsert, IndInv, TypeOK, BanStates, BanInv
  <1> QED
    BY <1>1, <1>2, QuietStep DEF BanInsert

\* The listing finds every run that executes or may still be claimed, unless
\* its docker call failed or its quarantine was sent.
LEMMA BanListStep == ASSUME IndInv, BanList PROVE IndInv'
  <1>1. TypeOK' /\ Apart /\ CmdsKept
    <2>1. ban' \in BanStates
      <3>1. \A listed \in OldestFirst : listed \in SUBSET Runs /\ ActiveRuns \ listed \in SUBSET Runs
        BY DEF OldestFirst, ActiveRuns
      <3>2. ban \in BanStates
        BY DEF IndInv, TypeOK
      <3>3. PICK a \in {"idle", "issue"}, t \in SUBSET Runs, b \in SUBSET Runs :
               \/ ban' = [ban EXCEPT !.pc = a, !.todo = t, !.beyond = b]
               \/ ban' = [ban EXCEPT !.pc = a]
        BY <3>1 DEF BanList
      <3> QED  BY <3>2, <3>3 DEF BanStates
    <2> QED
      BY <2>1, CountersTyped DEF BanList, IndInv, TypeOK, Apart, CmdsKept
  <1>2. ban'.from = ban.from /\ ban.todo = {}
    BY DEF BanList, IndInv, TypeOK, BanStates, BanInv
  <1>3. ASSUME NEW r \in Runs \ stuck, Passed(r) PROVE r \in ActiveRuns \/ HasKill(r)
    <2>1. RunInv(r) /\ run[r].status \in Statuses
      BY DEF IndInv, TypeOK, RunRows
    <2>2. CASE run[r].status \in {"finished", "killed"}
      BY <1>3, <2>1, <2>2 DEF RunInv, Passed
    <2>3. CASE run[r].status = "quarantined"
      BY <2>1, <2>3 DEF RunInv, HasQuarantine, HasKill
    <2>4. CASE run[r].status = "absent"
      <3>1. ~Alive(r) /\ run[r].by = None
        BY <2>1, <2>4 DEF RunInv, Alive
      <3>2. \A p \in Runners : rn[p].run # r
        BY <3>1, NoneAssumption DEF IndInv, RunnerOK
      <3> QED
        BY <1>3, <2>4, <3>1, <3>2 DEF Passed, Executing, Supervises
    <2>5. CASE run[r].status \in Active
      BY <2>5 DEF ActiveRuns
    <2> QED
      BY <2>1, <2>2, <2>3, <2>4, <2>5 DEF Statuses, Active
  <1>4. \A r \in Runs : Passed(r)' <=> Passed(r)
    BY <1>1, GatewayStep DEF BanList, Apart, Passed
  <1>5. BanInv'
    <2>1. CASE missed' = Runs
      <3>1. ban'.todo \subseteq ActiveRuns /\ (ban'.pc # "issue" => ban'.todo = {})
        BY <1>2 DEF BanList, IndInv, TypeOK, BanStates, OldestFirst
      <3>2. \A r \in ActiveRuns : run'[r].status # "absent"
        BY DEF ActiveRuns, Active, BanList
      <3> QED
        BY <1>2, <2>1, <3>1, <3>2 DEF BanList, IndInv, BanInv
    <2>2. CASE missed' # Runs
      <3>0. PICK listed \in OldestFirst :
               ban' = [ban EXCEPT !.pc = IF listed = {} THEN "idle" ELSE "issue",
                                  !.todo = listed, !.beyond = ActiveRuns \ listed]
        BY <2>2 DEF BanList
      <3>1. /\ ban'.todo = listed /\ ban'.beyond = ActiveRuns \ listed
            /\ ban'.pc = (IF listed = {} THEN "idle" ELSE "issue")
            /\ gate' = gate /\ stuck' = stuck /\ cmds' = cmds /\ run' = run
        BY <3>0 DEF BanList, IndInv, TypeOK, BanStates
      <3>4. listed \subseteq ActiveRuns
        BY DEF OldestFirst
      <3>2. \A r \in Runs : HasKill(r) => HasKill(r)'
        BY <1>1, <1>2, GatewayStep DEF BanList
      <3>3. \A r \in ActiveRuns : run[r].status # "absent"
        BY DEF ActiveRuns, Active
      <3> QED
        BY <1>2, <1>3, <1>4, <3>1, <3>2, <3>3, <3>4 DEF IndInv, BanInv
    <2> QED  BY <2>1, <2>2
  <1> QED
    BY <1>1, <1>5, QuietStep DEF BanList

LEMMA BanIssueStep == ASSUME IndInv, NEW r \in Runs, BanIssue(r) PROVE IndInv'
  <1>0. /\ ban'.from = ban.from /\ ban'.todo = ban.todo \ {r} /\ ban.todo \subseteq Runs
        /\ ban' \in BanStates /\ ban'.beyond = ban.beyond
        /\ ban'.pc = IF ban.todo = {r} THEN "idle" ELSE "issue"
        /\ ban.pc = "issue" /\ r \in ban.todo /\ ban.from \in Nat /\ Len(cmds) \in Nat
    <2>1. /\ ban \in BanStates
          /\ cmds \in Seq(Commands)
      BY DEF IndInv, TypeOK
    <2>2. /\ ban' = [ban EXCEPT !.todo = @ \ {r}, !.pc = IF ban.todo = {r} THEN "idle" ELSE @]
          /\ ban.pc = "issue" /\ r \in ban.todo
      BY DEF BanIssue
    <2>3. ban.from \in Nat /\ Len(cmds) \in Nat /\ ban.todo \subseteq Runs
      BY <2>1 DEF BanStates
    <2>4. /\ ban'.from = ban.from /\ ban'.todo = ban.todo \ {r} /\ ban'.beyond = ban.beyond
          /\ ban'.pc = IF ban.todo = {r} THEN "idle" ELSE "issue"
      BY <2>1, <2>2 DEF BanStates
    <2>5. ban' \in BanStates
      BY <2>1, <2>2 DEF BanStates
    <2> QED
      BY <2>2, <2>3, <2>4, <2>5
  <1>1. Apart /\ UNCHANGED <<run, reg, quarantining, gate>>
    BY DEF BanIssue, Apart
  <1>2. run[r].status # "absent"
    BY <1>0 DEF IndInv, BanInv
  <1>3. CASE Issue(r, "kill_run") /\ UNCHANGED <<missed, faults>>
    <2>1. /\ cmds' \in Seq(Commands) /\ Len(cmds') = Len(cmds) + 1 /\ CmdsKept
          /\ DOMAIN cmds' = DOMAIN cmds \cup {Len(cmds) + 1}
          /\ cmds'[Len(cmds) + 1].run = r /\ cmds'[Len(cmds) + 1].action = "kill_run"
      BY <1>3, IssueAppends DEF IndInv, Actions
    <2>2. TypeOK'
      BY <1>0, <1>3, <2>1 DEF BanIssue, IndInv, TypeOK
    <2>3. HasKill(r)'
      BY <1>0, <2>1 DEF HasKill, IndInv, BanInv
    <2>4. \A x \in Runs : /\ HasKill(x) => HasKill(x)'
                          /\ Passed(x)' => Passed(x)
      BY <1>0, <1>1, <2>1, GatewayStep DEF Passed, Apart
    <2>5. BanInv'
      BY <1>0, <1>1, <1>3, <2>1, <2>3, <2>4 DEF IndInv, BanInv, Apart
    <2> QED
      BY <1>1, <1>2, <1>3, <2>2, <2>5, IssueStep DEF Actions
  <1>4. CASE Fault /\ missed' = missed \cup {r} /\ UNCHANGED cmds
    <2>1. TypeOK' /\ CmdsKept
      BY <1>0, <1>4, CountersTyped DEF BanIssue, IndInv, TypeOK, CmdsKept
    <2>2. \A x \in Runs : (HasKill(x) => HasKill(x)') /\ (Passed(x)' => Passed(x))
      BY <1>0, <1>1, <1>4, <2>1, GatewayStep DEF Passed, Apart
    <2>3. BanInv'
      BY <1>0, <1>1, <1>4, <2>2 DEF IndInv, BanInv, Apart
    <2> QED
      BY <1>1, <1>4, <2>1, <2>3, QuietStep
  <1> QED
    BY <1>3, <1>4 DEF BanIssue

LEMMA GateStep == ASSUME IndInv, BanEnds \/ HoldAgent \/ ReleaseAgent PROVE IndInv'
  <1> USE DEF BanEnds, HoldAgent, ReleaseAgent, history
  <1>1. TypeOK' /\ Apart /\ CmdsKept
    BY CountersTyped DEF IndInv, TypeOK, Apart, CmdsKept
  <1>2. BanInv'
    BY <1>1, BanKept DEF IndInv, TypeOK
  <1> QED
    BY <1>1, <1>2, QuietStep

LEMMA QuarantineIssueStep == ASSUME IndInv, NEW r \in Runs, QuarantineIssue(r) PROVE IndInv'
  <1> USE DEF history
  <1>0. cmds' \in Seq(Commands) /\ Len(cmds') = Len(cmds) + 1 /\ CmdsKept
    BY IssueAppends DEF IndInv, QuarantineIssue, Actions
  <1>1. TypeOK' /\ Apart
    BY <1>0, CountersTyped DEF QuarantineIssue, IndInv, TypeOK, Apart
  <1>2. BanInv'
    BY <1>0, <1>1, BanKept DEF QuarantineIssue, IndInv, TypeOK
  <1>3. \A x \in Runs : quarantining'[x] # "none" => quarantining[x] # "none" \/ x = r
    BY DEF QuarantineIssue, IndInv, TypeOK
  <1> QED
    BY <1>1, <1>2, <1>3, IssueStep DEF QuarantineIssue, Actions

LEMMA QuarantineRecordStep ==
    ASSUME IndInv, NEW r \in Runs, QuarantineRecord(r) \/ ReleaseRun(r) PROVE IndInv'
  <1> USE DEF history, QuarantineRecord, ReleaseRun
  <1>1. TypeOK' /\ Apart /\ CmdsKept
    BY CountersTyped DEF IndInv, TypeOK, Apart, CmdsKept
  <1>2. BanInv'
    BY <1>1, BanKept DEF IndInv, TypeOK
  <1>3. \A x \in Runs : quarantining'[x] # "none" => quarantining[x] # "none"
    BY DEF IndInv, TypeOK
  <1> QED
    BY <1>1, <1>2, <1>3, QuietStep

\* A handler that writes statuses: none of them waits, and none is final while
\* the run executes.
LEMMA StatusStep ==
    ASSUME IndInv, Apart, TypeOK', UNCHANGED <<reg, cmds, gate, ban, missed>>,
           \A r \in Runs : quarantining'[r] # "none" => quarantining[r] # "none",
           \A r \in Runs :
               /\ run'[r].by = run[r].by
               /\ \/ run'[r].status = run[r].status
                  \/ run[r].status # "absent" /\ run'[r].status = "quarantined" /\ HasQuarantine(r)
                  \/ run[r].status # "absent" /\ run'[r].status = "stalled"
    PROVE  IndInv'
  <1>0. CmdsKept /\ Len(cmds) \in Nat /\ DOMAIN cmds = 1 .. Len(cmds)
    BY DEF CmdsKept, IndInv, TypeOK
  <1>1. ASSUME NEW r \in Runs PROVE RunInv(r)'
    <2>1. RunInv(r)
      BY DEF IndInv
    <2> QED
      BY <1>0, <2>1, GatewayStep DEF RunInv, Apart
  <1>2. ASSUME NEW c \in DOMAIN cmds' PROVE CommandInv(c)'
    <2>1. cmds[c].run \in Runs /\ c \in DOMAIN cmds
      BY CommandTyped DEF IndInv, Commands
    <2>2. CommandInv(c)
      BY <2>1 DEF IndInv
    <2> QED
      BY <2>1, <2>2 DEF CommandInv, Apart, Alive
  <1>3. BanInv'
    BY <1>0, BanKept
  <1> QED
    BY <1>0, <1>1, <1>2, <1>3, GatewayStep DEF IndInv

LEMMA QuarantineStatusStep == ASSUME IndInv, NEW r \in Runs, QuarantineStatus(r) PROVE IndInv'
  <1> USE DEF history
  <1>1. /\ run' \in [Runs -> RunRows]
        /\ \A x \in Runs : run'[x].by = run[x].by
        /\ \A x \in Runs : run'[x].status = run[x].status
                              \/ (x = r /\ run'[x].status = "quarantined")
    <2>1. CASE run' = run
      BY <2>1 DEF IndInv, TypeOK
    <2>2. CASE run' # run
      BY <2>2, StatusSet DEF QuarantineStatus, IndInv, Statuses
    <2> QED  BY <2>1, <2>2
  <1>2. TypeOK' /\ Apart
    BY <1>1, CountersTyped DEF QuarantineStatus, IndInv, TypeOK, Apart
  <1>3. run[r].status # "absent" /\ HasQuarantine(r)
    BY DEF QuarantineStatus, IndInv, RunInv
  <1>4. \A x \in Runs : quarantining'[x] # "none" => quarantining[x] # "none"
    BY DEF QuarantineStatus, IndInv, TypeOK
  <1> QED
    BY <1>1, <1>2, <1>3, <1>4, StatusStep DEF QuarantineStatus

LEMMA LeaseLapsesStep == ASSUME IndInv, NEW r \in Runs, LeaseLapses(r) PROVE IndInv'
  <1> USE DEF history, control
  <1>1. run[r] \in RunRows /\ run \in [Runs -> RunRows]
    BY DEF IndInv, TypeOK
  <1>2. /\ [run[r] EXCEPT !.stale = TRUE] \in RunRows
        /\ [run[r] EXCEPT !.stale = TRUE].by = run[r].by
        /\ [run[r] EXCEPT !.stale = TRUE].status = run[r].status
    BY <1>1 DEF RunRows
  <1>3. /\ run' \in [Runs -> RunRows]
        /\ \A x \in Runs : run'[x].by = run[x].by /\ run'[x].status = run[x].status
    BY <1>1, <1>2 DEF LeaseLapses
  <1>4. TypeOK' /\ Apart
    BY <1>3 DEF LeaseLapses, IndInv, TypeOK, Apart
  <1> QED
    BY <1>3, <1>4, StatusStep DEF LeaseLapses

LEMMA StallSweepStep == ASSUME IndInv, StallSweep PROVE IndInv'
  <1> USE DEF history, control
  <1>1. ASSUME NEW r \in Runs
        PROVE  /\ run'[r] \in RunRows /\ run'[r].by = run[r].by
               /\ \/ run'[r].status = run[r].status
                  \/ run[r].status # "absent" /\ run'[r].status = "stalled"
    <2>1. run[r] \in RunRows
      BY DEF IndInv, TypeOK
    <2>2. /\ [run[r] EXCEPT !.status = "stalled"] \in RunRows
          /\ [run[r] EXCEPT !.status = "stalled"].by = run[r].by
          /\ [run[r] EXCEPT !.status = "stalled"].status = "stalled"
      BY <2>1 DEF RunRows, Statuses
    <2>3. \/ run'[r] = run[r]
          \/ run[r].status # "absent" /\ run'[r] = [run[r] EXCEPT !.status = "stalled"]
      BY DEF StallSweep
    <2> QED  BY <2>1, <2>2, <2>3
  <1>2. run' \in [Runs -> RunRows]
    <2>1. run' = [r \in Runs |-> run'[r]]
      BY DEF StallSweep
    <2> QED  BY <1>1, <2>1
  <1>3. TypeOK' /\ Apart
    BY <1>2 DEF StallSweep, IndInv, TypeOK, Apart
  <1> QED
    BY <1>1, <1>3, StatusStep DEF StallSweep

\* Marking a command expired changes nothing any invariant speaks of.
LEMMA ExpireStep == ASSUME IndInv, NEW k \in DOMAIN cmds, Expire(k) PROVE IndInv'
  <1> USE DEF history, control
  <1> DEFINE m == [cmds[k] EXCEPT !.expired = TRUE]
  <1>1. cmds[k] \in Commands
    BY CommandTyped DEF IndInv
  <1>2. m \in Commands /\ m.run = cmds[k].run /\ m.action = cmds[k].action /\ m.status = cmds[k].status
    BY <1>1 DEF Commands
  <1>3. cmds' = [cmds EXCEPT ![k] = m]
    BY DEF Expire
  <1> HIDE DEF m
  <1>4. /\ cmds' \in Seq(Commands) /\ Len(cmds') = Len(cmds) /\ DOMAIN cmds' = DOMAIN cmds
        /\ \A c \in DOMAIN cmds : cmds'[c].run = cmds[c].run /\ cmds'[c].action = cmds[c].action
                                                             /\ cmds'[c].status = cmds[c].status
        /\ CmdsKept
    BY <1>2, <1>3, MarkKeeps DEF IndInv
  <1>5. TypeOK' /\ Apart
    BY <1>4, CountersTyped DEF Expire, IndInv, TypeOK, Apart
  <1>6. BanInv'
    BY <1>4, <1>5, BanKept DEF Expire, IndInv, TypeOK
  <1>7. ASSUME NEW r \in Runs PROVE RunInv(r)'
    <2>1. RunInv(r)
      BY DEF IndInv
    <2> QED
      BY <1>4, <1>5, <2>1, GatewayStep DEF Expire, RunInv, Apart
  <1>8. ASSUME NEW c \in DOMAIN cmds' PROVE CommandInv(c)'
    BY <1>4, <1>5 DEF Expire, IndInv, CommandInv, Apart, Alive
  <1> QED
    BY <1>4, <1>5, <1>6, <1>7, <1>8, GatewayStep DEF Expire, IndInv

-----------------------------------------------------------------------------
(* A runner's step *)

\* What a runner knows in local state s survives a step that leaves its run's
\* claim and starts alone and revives nothing.
LEMMA RunnerGoes ==
    ASSUME NEW p \in Runners, NEW s \in RunnerStates, RunnerOK(p, s), rn'[p] = s,
           CmdsKept, stuck \subseteq stuck',
           s.run # None =>
               /\ run'[s.run].by = run[s.run].by
               /\ execs'[s.run] = execs[s.run]
               /\ box'[s.run] \in {"running", "paused"} => Alive(s.run)
    PROVE  RunnerOK(p, rn[p])'
  BY DEF RunnerOK, CmdsKept, Alive, Looking, Preparing, RunnerStates, Kills

\* Two runners never have the same run.
LEMMA OneRunner ==
    ASSUME IndInv, NEW p \in Runners, NEW q \in Runners, rn[p].run # None, rn[q].run = rn[p].run
    PROVE  p = q
  BY DEF IndInv, RunnerOK

LEMMA RunTyped == ASSUME IndInv, NEW p \in Runners PROVE rn[p].run \in Runs \cup {None}
  BY DEF IndInv, TypeOK, RunnerStates

\* Runner p moves: it changes at most its own run's sandbox and reported
\* status, its own commands' marks, and its own place.
Moves(p) ==
    /\ \A q \in Runners : q # p => rn'[q] = rn[q]
    /\ UNCHANGED <<reg, gate, ban, quarantining, missed>>
    /\ CmdsKept /\ Len(cmds') = Len(cmds) /\ DOMAIN cmds' = DOMAIN cmds
    /\ orphaned \subseteq orphaned' /\ stuck \subseteq stuck'
    /\ \A r \in Runs : /\ run'[r].by = run[r].by
                       /\ r # rn[p].run => /\ run'[r].status = run[r].status
                                           /\ box'[r] = box[r] /\ execs'[r] = execs[r]

\* It gives up a run only when that is over, or lost, and it neither revives
\* nor re-prepares one; it passes the gate only while nothing bars the agent.
Honest(p) ==
    LET r == rn[p].run
    IN  /\ \/ rn'[p].run = r
           \/ /\ rn'[p].run = None
              /\ r = None \/ box'[r] \notin {"running", "paused"} \/ r \in stuck' \cup orphaned'
        /\ r # None /\ box'[r] \in {"running", "paused"} => Alive(r) \/ rn[p].pc \in Preparing
        /\ rn'[p].run # None /\ rn'[p].pc \in Preparing => rn[p].pc \in Preparing
        /\ rn'[p].pc \in {"claimRecord", "claimUpdate"} =>
              \/ gate = {}
              \/ rn[p].pc \in {"claimRecord", "claimUpdate"} /\ rn'[p].cmd = rn[p].cmd
        /\ r # None =>
              /\ execs'[r] \in {execs[r], 1}
              /\ \/ run'[r].status = run[r].status
                 \/ run'[r].status \in {"running", "paused", "stalled"}
                 \/ run'[r].status \in {"finished", "killed"}
        /\ \A x \in Runs :
              /\ x = r /\ run'[x].status \in {"finished", "killed"}
              /\ run'[x].status # run[x].status
              => ~Executing(x)' \/ x \in stuck'

LEMMA MoveStep ==
    ASSUME IndInv, TypeOK', NEW p \in Runners, Moves(p), Honest(p), RunnerOK(p, rn[p])',
           \A c \in DOMAIN cmds :
               \/ cmds'[c].status = cmds[c].status
               \/ cmds[c].action \in Kills /\ cmds'[c].status = "acked" =>
                     execs'[cmds[c].run] = 1 /\ box'[cmds[c].run] \notin {"running", "paused"}
    PROVE  IndInv'
  <1>0. rn[p].run # None =>
           /\ rn[p].run \in Runs /\ run[rn[p].run].by = p
           /\ run[rn[p].run].status \notin {"absent", "started"}
    BY RunTyped, NoneAssumption DEF IndInv, RunnerOK, RunInv
  <1>1. ASSUME NEW q \in Runners PROVE RunnerOK(q, rn[q])'
    <2>1. CASE q = p
      BY <2>1
    <2>2. CASE q # p
      <3>1. rn[q].run # None => rn[q].run \in Runs /\ rn[q].run # rn[p].run
        BY <2>2, RunTyped, OneRunner
      <3> QED
        BY <2>2, <3>1, RunnerRests DEF Moves, Alive
    <2> QED  BY <2>1, <2>2
  <1>2. AliveIsSupervised'
    <2> SUFFICES ASSUME NEW r \in Runs \ (orphaned' \cup stuck'), Alive(r)'
                 PROVE  \E q \in Runners : rn'[q].run = r
      BY DEF AliveIsSupervised, Supervises
    <2>1. CASE r = rn[p].run
      BY <2>1, NoneAssumption DEF Honest, Alive
    <2>2. CASE r # rn[p].run
      <3>1. PICK q \in Runners : rn[q].run = r
        BY <2>2 DEF Moves, Alive, IndInv, AliveIsSupervised, Supervises
      <3> QED
        BY <2>2, <3>1 DEF Moves
    <2> QED  BY <2>1, <2>2
  <1>3. ASSUME NEW r \in Runs, Executing(r)' PROVE Executing(r)
    <2>1. CASE Alive(r)'
      <3>1. CASE r = rn[p].run
        BY <2>1, <3>1, NoneAssumption DEF Honest, Alive, Executing, Supervises, Preparing
      <3>2. CASE r # rn[p].run
        BY <2>1, <3>2 DEF Moves, Alive, Executing
      <3> QED  BY <3>1, <3>2
    <2>2. CASE ~Alive(r)'
      <3>1. PICK q \in Runners : rn'[q].run = r /\ rn'[q].pc \in Preparing
        BY <1>3, <2>2 DEF Executing, Supervises, Preparing
      <3>2. r # None
        BY NoneAssumption
      <3>3. rn[q].run = r /\ rn[q].pc \in Preparing
        BY <3>1, <3>2 DEF Moves, Honest
      <3> QED
        BY <3>3 DEF Executing, Supervises, Preparing
    <2> QED  BY <2>1, <2>2
  <1>4. \A r \in Runs : (HasQuarantine(r) => HasQuarantine(r)') /\ (HasKill(r) => HasKill(r)')
    BY DEF Moves, CmdsKept, HasQuarantine, HasKill
  <1>5. ASSUME NEW r \in Runs PROVE RunInv(r)'
    <2>1. RunInv(r)
      BY DEF IndInv
    <2>2. execs[r] \in Nat /\ execs[r] <= 1
      BY <2>1 DEF RunInv, IndInv, TypeOK
    <2>3. CASE r = rn[p].run
      <3>1. /\ run[r].status \notin {"absent", "started"} /\ r # None
            /\ run'[r].status \notin {"absent", "started"}
        BY <1>0, <2>3, NoneAssumption DEF Honest
      <3>2. run'[r].status = "quarantined" => run[r].status = "quarantined"
        BY <2>3, <3>1 DEF Honest
      <3>3. run'[r].status \in {"finished", "killed"} => ~Executing(r)' \/ r \in stuck'
        BY <1>3, <2>1, <2>3, <3>1 DEF Honest, RunInv, Moves
      <3>4. execs'[r] <= 1
        BY <2>2, <2>3, <3>1 DEF Honest
      <3> QED
        BY <1>4, <2>1, <3>1, <3>2, <3>3, <3>4 DEF RunInv, Moves
    <2>4. CASE r # rn[p].run
      BY <1>3, <1>4, <2>1, <2>4 DEF RunInv, Moves
    <2> QED  BY <2>3, <2>4
  <1>6. ASSUME NEW c \in DOMAIN cmds' PROVE CommandInv(c)'
    <2>1. c \in DOMAIN cmds /\ cmds'[c].run = cmds[c].run /\ cmds'[c].action = cmds[c].action
      BY DEF Moves, CmdsKept
    <2>2. CommandInv(c) /\ cmds[c].run \in Runs
      BY <2>1, CommandTyped DEF IndInv, Commands
    <2> DEFINE r == cmds[c].run
    <2>3. run'[r].status # "absent"
      BY <1>0, <2>2, NoneAssumption DEF Moves, Honest, CommandInv
    <2>4. execs[r] = 1 /\ ~Alive(r) => execs'[r] = 1 /\ box'[r] \notin {"running", "paused"}
      <3>1. rn[p].pc \in Preparing /\ rn[p].run # None => execs[rn[p].run] = 0
        BY DEF IndInv, RunnerOK
      <3> QED
        BY <2>2, <3>1, NoneAssumption DEF Moves, Honest, Alive
    <2> QED
      BY <2>1, <2>2, <2>3, <2>4 DEF CommandInv, Alive
  <1>7. ASSUME NEW r \in Runs, Passed(r)', gate # {} PROVE Passed(r)
    <2>1. CASE Executing(r)'
      BY <1>3, <2>1 DEF Passed
    <2>2. CASE ~Executing(r)'
      <3>1. PICK q \in Runners : /\ rn'[q].pc \in {"claimRecord", "claimUpdate"}
                                 /\ cmds'[rn'[q].cmd].run = r /\ run'[r].status = "started"
        BY <1>7, <2>2 DEF Passed
      <3>2. rn[q].pc \in {"claimRecord", "claimUpdate"} /\ rn'[q].cmd = rn[q].cmd
        BY <1>7, <3>1 DEF Moves, Honest
      <3>3. rn[q].cmd \in DOMAIN cmds
        BY <3>2 DEF IndInv, RunnerOK
      <3>4. run[r].status = "started"
        BY <3>1, NoneAssumption DEF Moves, Honest
      <3> QED
        BY <3>1, <3>2, <3>3, <3>4 DEF Passed, Moves, CmdsKept
    <2> QED  BY <2>1, <2>2
  <1>8. BanInv'
    <2>1. ban.todo \subseteq Runs
      BY DEF IndInv, TypeOK, BanStates
    <2>2. \A r \in Runs : run'[r].status = "absent" => run[r].status = "absent"
      BY NoneAssumption DEF Moves, Honest
    <2>3. "ban" \in gate => gate # {}
      OBVIOUS
    <2> QED
      BY <1>4, <1>7, <2>1, <2>2, <2>3 DEF Moves, IndInv, BanInv
  <1> QED
    BY <1>1, <1>2, <1>5, <1>6, <1>8 DEF IndInv

LEMMA PlaceTyped ==
    ASSUME TypeOK, NEW p \in Runners, NEW s \in RunnerStates, rn' = [rn EXCEPT ![p] = s]
    PROVE  /\ rn' \in [Runners -> RunnerStates] /\ rn'[p] = s
           /\ \A q \in Runners : q # p => rn'[q] = rn[q]
  BY DEF TypeOK

\* A move that changes the runner's place and nonces only.
LEMMA QuietMove ==
    ASSUME IndInv, NEW p \in Runners, NEW s \in RunnerStates, rn' = [rn EXCEPT ![p] = s],
           RunnerOK(p, s), seen' \in [Runners -> SUBSET Nat], faults' = faults \/ Fault,
           UNCHANGED <<gateway, box, history>>,
           \/ s.run = rn[p].run
           \/ s.run = None /\ (~Alive(rn[p].run) \/ rn[p].run \in stuck),
           s.run # None /\ s.pc \in Preparing => rn[p].pc \in Preparing,
           s.pc \in {"claimRecord", "claimUpdate"} =>
               \/ gate = {}
               \/ rn[p].pc \in {"claimRecord", "claimUpdate"} /\ s.cmd = rn[p].cmd
    PROVE  IndInv'
  <1> USE DEF gateway, history
  <1>1. TypeOK
    BY DEF IndInv
  <1>2. TypeOK'
    BY <1>1, PlaceTyped, CountersTyped DEF TypeOK
  <1>3. CmdsKept
    BY DEF CmdsKept
  <1>4. RunnerOK(p, rn[p])'
    BY <1>1, <1>3, PlaceTyped, RunnerGoes DEF Alive
  <1>5. Moves(p)
    BY <1>1, <1>3, PlaceTyped DEF Moves
  <1>6. Honest(p)
    BY <1>1, PlaceTyped DEF Honest, Alive
  <1> QED
    BY <1>2, <1>4, <1>5, <1>6, MoveStep

LEMMA StateOf == ASSUME IndInv, NEW p \in Runners PROVE rn[p] \in RunnerStates /\ RunnerOK(p, rn[p])
  BY DEF IndInv, TypeOK

LEMMA PollStep == ASSUME IndInv, NEW p \in Runners, Poll(p) PROVE IndInv'
  <1> DEFINE s == [rn[p] EXCEPT !.pc = "scan", !.todo = StartCommands]
  <1>1. StartCommands \subseteq DOMAIN cmds /\ StartCommands # {}
    BY DEF Poll, StartCommands, Listed
  <1>2. /\ s \in RunnerStates /\ s.pc = "scan" /\ s.todo = StartCommands /\ s.run = rn[p].run
    <2>1. StartCommands \subseteq Nat
      BY <1>1 DEF IndInv, TypeOK
    <2> QED  BY <2>1, StateOf DEF RunnerStates
  <1>3. RunnerOK(p, s)
    BY <1>1, <1>2, StateOf DEF Poll, RunnerOK, Looking, Preparing, StartCommands
  <1>4. rn' = [rn EXCEPT ![p] = s]
    BY DEF Poll
  <1> HIDE DEF s
  <1> QED
    BY <1>2, <1>3, <1>4, QuietMove DEF Poll, IndInv, TypeOK, Preparing

\* A scanned or controlled runner looks at a command of its listing.
LEMMA NewestTyped ==
    ASSUME IndInv, NEW p \in Runners, rn[p].pc \in {"scan", "control"}
    PROVE  Newest(rn[p].todo) \in rn[p].todo /\ Newest(rn[p].todo) \in DOMAIN cmds
                                             /\ Newest(rn[p].todo) \in Nat
  <1>1. rn[p].todo # {} /\ rn[p].todo \subseteq DOMAIN cmds
    BY StateOf DEF RunnerOK
  <1>2. DOMAIN cmds = 1 .. Len(cmds) /\ Len(cmds) \in Nat
    BY DEF IndInv, TypeOK
  <1> QED
    BY <1>1, <1>2, NewestOfListing

LEMMA ScanStep == ASSUME IndInv, NEW p \in Runners, Scan(p) PROVE IndInv'
  <1>1. PICK c \in Nat : c = Newest(rn[p].todo) /\ c \in rn[p].todo
    BY NewestTyped DEF Scan
  <1>2. PICK s : /\ rn' = [rn EXCEPT ![p] = s]
                 /\ \/ s = [rn[p] EXCEPT !.cmd = c, !.pc = "claim"]
                    \/ s = [rn[p] EXCEPT !.cmd = c, !.pc = "ackStart", !.say = "nacked"]
    <2>1. CASE Verifies(p, c)
      <3>1. rn' = [rn EXCEPT ![p] = [rn[p] EXCEPT !.cmd = c, !.pc = "claim"]]
        BY <1>1, <2>1 DEF Scan
      <3> QED  BY <3>1
    <2>2. CASE ~Verifies(p, c)
      <3>1. rn' = [rn EXCEPT ![p] = [rn[p] EXCEPT !.cmd = c, !.pc = "ackStart", !.say = "nacked"]]
        BY <1>1, <2>2 DEF Scan
      <3> QED  BY <3>1
    <2> QED  BY <2>1, <2>2
  <1>3. /\ s \in RunnerStates /\ s.pc \in {"claim", "ackStart"} /\ s.cmd = c
        /\ s.todo = rn[p].todo /\ s.run = rn[p].run
    BY <1>1, <1>2, StateOf DEF RunnerStates, Calling
  <1>4. rn[p].run = None
    BY StateOf DEF Scan, RunnerOK, Looking
  <1>5. RunnerOK(p, s)
    BY <1>1, <1>3, <1>4, StateOf DEF Scan, RunnerOK, Looking, Preparing
  <1>6. seen' \in [Runners -> SUBSET Nat]
    <2>1. seen' = seen \/ seen' = [seen EXCEPT ![p] = @ \cup {c}]
      BY <1>1 DEF Scan
    <2>2. seen \in [Runners -> SUBSET Nat]
      BY DEF IndInv, TypeOK
    <2> QED  BY <1>1, <2>1, <2>2
  <1> QED
    BY <1>2, <1>3, <1>4, <1>5, <1>6, QuietMove DEF Scan

\* What NextCommand and Answered leave a runner with.
LEMMA NextCommandIs ==
    ASSUME NEW s \in RunnerStates
    PROVE  /\ NextCommand(s) \in RunnerStates
           /\ NextCommand(s).run = s.run /\ NextCommand(s).todo = s.todo \ {s.cmd}
           /\ NextCommand(s).pc = IF s.run = None
                THEN IF s.todo \ {s.cmd} = {} THEN "idle" ELSE "scan"
                ELSE IF s.todo \ {s.cmd} = {} THEN "watch" ELSE "control"
  <1> DEFINE go(loop, done) ==
                [s EXCEPT !.todo = s.todo \ {s.cmd}, !.cmd = 0, !.say = "acked",
                          !.pc = IF s.todo \ {s.cmd} = {} THEN done ELSE loop]
  <1>1. ASSUME NEW loop \in {"scan", "control"}, NEW done \in {"idle", "watch"}
        PROVE  /\ go(loop, done) \in RunnerStates /\ go(loop, done).run = s.run
               /\ go(loop, done).todo = s.todo \ {s.cmd}
               /\ go(loop, done).pc = IF s.todo \ {s.cmd} = {} THEN done ELSE loop
    BY DEF RunnerStates, Calling
  <1>2. NextCommand(s) = IF s.run = None THEN go("scan", "idle") ELSE go("control", "watch")
    BY DEF NextCommand, GoOn
  <1> HIDE DEF go
  <1> QED
    BY <1>1, <1>2

\* A claim that is refused, an answered nack, an acked command: the loop goes on.
LEMMA NextCommandOK ==
    ASSUME IndInv, NEW p \in Runners,
           rn[p].pc \in {"claim", "claimRecord", "claimUpdate", "ackStart", "ack"},
           rn[p].pc = "ackStart" => rn[p].run = None
    PROVE  RunnerOK(p, NextCommand(rn[p]))
  <1> DEFINE s == NextCommand(rn[p])
  <1>1. /\ s.run = rn[p].run /\ s.todo = rn[p].todo \ {rn[p].cmd}
        /\ s.pc = IF rn[p].run = None
                THEN IF s.todo = {} THEN "idle" ELSE "scan"
                ELSE IF s.todo = {} THEN "watch" ELSE "control"
    BY StateOf, NextCommandIs
  <1> HIDE DEF s
  <1>2. RunnerOK(p, s)
    BY <1>1, StateOf DEF RunnerOK, Looking, Preparing
  <1> QED
    BY <1>2 DEF s

LEMMA NextCommandMove ==
    ASSUME IndInv, NEW p \in Runners, rn' = [rn EXCEPT ![p] = NextCommand(rn[p])],
           rn[p].pc \in {"claim", "claimRecord", "claimUpdate", "ackStart", "ack"},
           rn[p].pc = "ackStart" => rn[p].run = None,
           UNCHANGED <<gateway, seen, box, history>>, faults' = faults \/ Fault
    PROVE  IndInv'
  <1>1. PICK s \in RunnerStates : s = NextCommand(rn[p])
    BY StateOf, NextCommandIs
  <1>2. RunnerOK(p, s)
    BY <1>1, NextCommandOK
  <1>3. s.run = rn[p].run /\ s.pc \in {"idle", "scan", "watch", "control"}
    BY <1>1, StateOf, NextCommandIs
  <1> QED
    BY <1>1, <1>2, <1>3, QuietMove DEF IndInv, TypeOK, Preparing

LEMMA ClaimGateStep == ASSUME IndInv, NEW p \in Runners, ClaimGate(p) PROVE IndInv'
  <1>1. CASE gate = {}
    <2> DEFINE s == [rn[p] EXCEPT !.pc = "claimRecord"]
    <2>1. /\ s \in RunnerStates /\ s.pc = "claimRecord" /\ s.run = rn[p].run
          /\ s.todo = rn[p].todo /\ s.cmd = rn[p].cmd
      BY StateOf DEF RunnerStates
    <2>2. rn' = [rn EXCEPT ![p] = s]
      BY <1>1 DEF ClaimGate
    <2> HIDE DEF s
    <2>3. RunnerOK(p, s)
      BY <2>1, StateOf DEF ClaimGate, RunnerOK, Looking, Preparing
    <2> QED
      BY <1>1, <2>1, <2>2, <2>3, QuietMove DEF ClaimGate, IndInv, TypeOK, Preparing
  <1>2. CASE gate # {}
    BY <1>2, NextCommandMove DEF ClaimGate
  <1> QED  BY <1>1, <1>2

LEMMA ClaimRecordStep == ASSUME IndInv, NEW p \in Runners, ClaimRecord(p) PROVE IndInv'
  <1>1. CASE cmds[rn[p].cmd].run \notin quarantined
    <2> DEFINE s == [rn[p] EXCEPT !.pc = "claimUpdate"]
    <2>1. /\ s \in RunnerStates /\ s.pc = "claimUpdate" /\ s.run = rn[p].run
          /\ s.todo = rn[p].todo /\ s.cmd = rn[p].cmd
      BY StateOf DEF RunnerStates
    <2>2. rn' = [rn EXCEPT ![p] = s]
      BY <1>1 DEF ClaimRecord
    <2> HIDE DEF s
    <2>3. RunnerOK(p, s)
      BY <2>1, StateOf DEF ClaimRecord, RunnerOK, Looking, Preparing
    <2> QED
      BY <1>1, <2>1, <2>2, <2>3, QuietMove DEF ClaimRecord, IndInv, TypeOK, Preparing
  <1>2. CASE cmds[rn[p].cmd].run \in quarantined
    BY <1>2, NextCommandMove DEF ClaimRecord
  <1> QED  BY <1>1, <1>2

\* claim_agent_run's compare-and-swap wins a waiting run, which nobody has and
\* which never started; its answer arrives, or is lost.
LEMMA ClaimWins ==
    ASSUME IndInv, TypeOK', NEW p \in Runners, NEW r \in Runs, rn[p].pc = "claimUpdate",
           cmds[rn[p].cmd].run = r, run[r].status = "started",
           run' = [run EXCEPT ![r] = [status |-> "claimed", by |-> p, stale |-> FALSE]],
           \A q \in Runners : q # p => rn'[q] = rn[q],
           \/ rn'[p].run = r /\ rn'[p].pc = "ackStart"
           \/ /\ rn'[p].run = None /\ rn'[p].pc \notin {"claimRecord", "claimUpdate"}
              /\ r \in orphaned',
           RunnerOK(p, rn[p])', orphaned \subseteq orphaned',
           UNCHANGED <<reg, cmds, control, box, execs, stuck, missed>>
    PROVE  IndInv'
  <1> USE DEF control
  <1>0. /\ run[r].by = None /\ execs[r] = 0 /\ box[r] = "none" /\ reg[r] = "done"
        /\ rn[p].run = None
    BY StateOf DEF IndInv, RunInv, RunnerOK, Looking
  <1>1. \A q \in Runners : rn[q].run # r
    BY <1>0, NoneAssumption DEF IndInv, RunnerOK
  <1>2. /\ run'[r].status = "claimed" /\ run'[r].by = p
        /\ \A x \in Runs : x # r => run'[x] = run[x]
    BY DEF IndInv, TypeOK
  <1>3. CmdsKept
    BY DEF CmdsKept
  <1>4. ASSUME NEW q \in Runners PROVE RunnerOK(q, rn[q])'
    <2>1. CASE q = p
      BY <2>1
    <2>2. CASE q # p
      BY <1>1, <1>2, <1>3, <2>2, RunTyped, RunnerRests DEF Alive
    <2> QED  BY <2>1, <2>2
  <1>5. AliveIsSupervised'
    <2> SUFFICES ASSUME NEW x \in Runs \ (orphaned' \cup stuck'), Alive(x)'
                 PROVE  \E q \in Runners : rn'[q].run = x
      BY DEF AliveIsSupervised, Supervises
    <2>1. PICK q \in Runners : rn[q].run = x
      BY DEF Alive, IndInv, AliveIsSupervised, Supervises
    <2>2. q # p
      BY <1>0, <2>1, NoneAssumption
    <2> QED  BY <2>1, <2>2
  <1>6. ASSUME NEW x \in Runs, x # r, Executing(x)' PROVE Executing(x)
    <2>1. CASE Alive(x)'
      BY <2>1 DEF Alive, Executing
    <2>2. CASE ~Alive(x)'
      <3>1. PICK q \in Runners : rn'[q].run = x /\ rn'[q].pc \in Preparing
        BY <1>6, <2>2 DEF Executing, Supervises, Preparing
      <3>2. q # p
        BY <1>6, <3>1, NoneAssumption
      <3> QED
        BY <3>1, <3>2 DEF Executing, Supervises, Preparing
    <2> QED  BY <2>1, <2>2
  <1>7. \A x \in Runs : HasQuarantine(x)' <=> HasQuarantine(x)
    BY DEF HasQuarantine
  <1>8. ASSUME NEW x \in Runs PROVE RunInv(x)'
    <2>1. RunInv(x)
      BY DEF IndInv
    <2>2. CASE x = r
      BY <1>0, <1>2, <1>7, <2>1, <2>2 DEF RunInv
    <2>3. CASE x # r
      BY <1>2, <1>6, <1>7, <2>1, <2>3 DEF RunInv
    <2> QED  BY <2>2, <2>3
  <1>9. ASSUME NEW c \in DOMAIN cmds' PROVE CommandInv(c)'
    <2>1. CommandInv(c) /\ cmds[c].run \in Runs
      BY CommandTyped DEF IndInv, Commands
    <2> QED
      BY <1>2, <2>1 DEF CommandInv, Alive
  <1>10. ASSUME NEW x \in Runs, Passed(x)' PROVE Passed(x)
    <2>1. CASE x = r
      BY <2>1 DEF Passed
    <2>2. CASE x # r
      BY <1>2, <1>6, <1>10, <2>2 DEF Passed
    <2> QED  BY <2>1, <2>2
  <1>11. BanInv'
    <2>1. ban.todo \subseteq Runs
      BY DEF IndInv, TypeOK, BanStates
    <2>2. \A x \in Runs : HasKill(x)' <=> HasKill(x)
      BY DEF HasKill
    <2>3. \A x \in Runs : run'[x].status = "absent" => run[x].status = "absent"
      BY <1>2
    <2> QED
      BY <1>10, <2>1, <2>2, <2>3 DEF IndInv, BanInv
  <1> QED
    BY <1>4, <1>5, <1>8, <1>9, <1>11 DEF IndInv

LEMMA ClaimUpdateStep == ASSUME IndInv, NEW p \in Runners, ClaimUpdate(p) PROVE IndInv'
  <1>0. /\ rn[p].pc = "claimUpdate" /\ rn[p].run = None /\ rn[p].cmd \in DOMAIN cmds
        /\ rn[p].cmd \in rn[p].todo
    BY StateOf DEF ClaimUpdate, RunnerOK, Looking
  <1>1. PICK r \in Runs : r = cmds[rn[p].cmd].run
    BY <1>0, CommandTyped DEF IndInv, Commands
  <1> DEFINE claimed == [run EXCEPT ![r] = [status |-> "claimed", by |-> p, stale |-> FALSE]]
  <1>2. claimed \in [Runs -> RunRows] /\ claimed[r].by = p
    BY DEF IndInv, TypeOK, RunRows, Statuses
  <1>3. CASE /\ run[r].status = "started" /\ run' = claimed /\ UNCHANGED <<orphaned, faults>>
             /\ rn' = [rn EXCEPT ![p].run = r, ![p].pc = "ackStart", ![p].say = "acked"]
    <2> DEFINE s == [rn[p] EXCEPT !.run = r, !.pc = "ackStart", !.say = "acked"]
    <2>1. /\ s \in RunnerStates /\ s.pc = "ackStart" /\ s.run = r /\ s.todo = rn[p].todo
          /\ s.cmd = rn[p].cmd
      BY StateOf DEF RunnerStates, Calling
    <2>2. rn' = [rn EXCEPT ![p] = s]
      BY <1>3
    <2> HIDE DEF s
    <2>3. rn' \in [Runners -> RunnerStates] /\ rn'[p] = s /\ \A q \in Runners : q # p => rn'[q] = rn[q]
      BY <2>1, <2>2, PlaceTyped DEF IndInv
    <2>4. TypeOK'
      BY <1>2, <1>3, <2>3 DEF ClaimUpdate, control, IndInv, TypeOK
    <2>5. execs[r] = 0 /\ ~Alive(r)'
      BY <1>3 DEF IndInv, RunInv, ClaimUpdate, Alive
    <2>6. RunnerOK(p, rn[p])'
      <3>1. RunnerOK(p, rn[p])
        BY StateOf
      <3>2. run'[r].by = p /\ execs' = execs /\ cmds' = cmds
        BY <1>2, <1>3 DEF ClaimUpdate
      <3>3. \A d \in s.todo : d \in DOMAIN cmds' /\ cmds'[d].action = "start_run"
        BY <1>0, <2>1, <3>1, <3>2 DEF RunnerOK
      <3>4. s.cmd \in s.todo /\ r # None
        BY <1>0, <2>1, NoneAssumption
      <3> QED
        BY <2>1, <2>3, <2>5, <3>2, <3>3, <3>4 DEF RunnerOK, Looking, Preparing
    <2>7. UNCHANGED <<reg, cmds, control, box, execs, stuck, missed>>
      BY DEF ClaimUpdate
    <2> QED
      BY <1>0, <1>1, <1>3, <2>1, <2>3, <2>4, <2>6, <2>7, ClaimWins
  <1>4. CASE /\ run[r].status = "started" /\ run' = claimed /\ Fault
             /\ rn' = [rn EXCEPT ![p] = NextCommand(@)] /\ orphaned' = orphaned \cup {r}
    <2>1. PICK s \in RunnerStates : s = NextCommand(rn[p])
      BY StateOf, NextCommandIs
    <2>2. s.run = None /\ s.pc \in {"idle", "scan"}
      BY <1>0, <2>1, StateOf, NextCommandIs
    <2>3. rn' \in [Runners -> RunnerStates] /\ rn'[p] = s /\ \A q \in Runners : q # p => rn'[q] = rn[q]
      BY <1>4, <2>1, PlaceTyped DEF IndInv
    <2>4. TypeOK'
      BY <1>2, <1>4, <2>3, CountersTyped DEF ClaimUpdate, control, IndInv, TypeOK
    <2>5. RunnerOK(p, s)
      BY <1>0, <2>1, NextCommandOK
    <2>6. RunnerOK(p, rn[p])'
      BY <2>2, <2>3, <2>5, RunnerGoes DEF ClaimUpdate, CmdsKept
    <2>7. UNCHANGED <<reg, cmds, control, box, execs, stuck, missed>>
      BY DEF ClaimUpdate
    <2> QED
      BY <1>0, <1>1, <1>4, <2>2, <2>3, <2>4, <2>6, <2>7, ClaimWins
  <1>5. CASE run[r].status # "started"
    <2> DEFINE s == [rn[p] EXCEPT !.pc = "ackStart", !.say = "acked"]
    <2>1. /\ s \in RunnerStates /\ s.pc = "ackStart" /\ s.run = None /\ s.todo = rn[p].todo
          /\ s.cmd = rn[p].cmd
      <3>1. rn[p] \in RunnerStates
        BY StateOf
      <3> QED  BY <1>0, <3>1 DEF RunnerStates, Calling
    <2>2. /\ rn' = [rn EXCEPT ![p] = s]
          /\ UNCHANGED <<run, orphaned, faults>>
      BY <1>1, <1>5 DEF ClaimUpdate
    <2> HIDE DEF s
    <2>3. RunnerOK(p, s)
      BY <1>0, <2>1, StateOf DEF RunnerOK, Looking, Preparing
    <2> QED
      BY <1>0, <2>1, <2>2, <2>3, QuietMove
      DEF ClaimUpdate, control, gateway, history, IndInv, TypeOK
  <1> QED
    BY <1>1, <1>3, <1>4, <1>5 DEF ClaimUpdate

\* Where an answered, or lost, call leaves the runner.
LEMMA AnsweredOK ==
    ASSUME IndInv, NEW p \in Runners, rn[p].pc \in Calling
    PROVE  /\ Answered(rn[p]) \in RunnerStates /\ RunnerOK(p, Answered(rn[p]))
           /\ \/ Answered(rn[p]).run = rn[p].run
              \/ /\ Answered(rn[p]).run = None /\ rn[p].pc = "report"
                 /\ ~Alive(rn[p].run) \/ rn[p].run \in stuck
           /\ Answered(rn[p]).run # None /\ Answered(rn[p]).pc \in Preparing =>
                 rn[p].pc \in Preparing
           /\ Answered(rn[p]).pc \notin {"claimRecord", "claimUpdate"}
  <1> DEFINE s == rn[p]
  <1>0. s \in RunnerStates /\ RunnerOK(p, s)
    BY StateOf
  <1> HIDE DEF s
  <1>1. CASE s.pc \in {"claim", "ack"} \/ (s.pc = "ackStart" /\ s.run = None)
    <2>1. Answered(s) = NextCommand(s)
      BY <1>1 DEF Answered
    <2>2. RunnerOK(p, NextCommand(s))
      BY <1>1, NextCommandOK DEF s
    <2> QED
      BY <1>0, <2>1, <2>2, NextCommandIs DEF s, Preparing
  <1>2. CASE s.pc = "ackStart" /\ s.run # None
    <2>1. Answered(s) = [s EXCEPT !.pc = "create", !.todo = {}, !.cmd = 0]
      BY <1>2 DEF Answered
    <2>2. /\ Answered(s) \in RunnerStates /\ Answered(s).run = s.run
          /\ Answered(s).pc = "create"
      <3>1. {} \in SUBSET Nat /\ 0 \in Nat
        OBVIOUS
      <3> QED  BY <1>0, <2>1, <3>1 DEF RunnerStates, Calling
    <2>3. RunnerOK(p, Answered(s))
      BY <1>0, <1>2, <2>2 DEF RunnerOK, Looking, Preparing
    <2> QED
      BY <1>2, <2>2, <2>3 DEF s, Preparing
  <1>3. CASE s.pc = "sayRunning"
    <2>1. Answered(s) = [s EXCEPT !.pc = "watch"]
      BY <1>3 DEF Answered
    <2>2. /\ Answered(s) \in RunnerStates /\ Answered(s).run = s.run
          /\ Answered(s).pc = "watch"
      BY <1>0, <2>1 DEF RunnerStates
    <2>3. RunnerOK(p, Answered(s))
      BY <1>0, <1>3, <2>2 DEF RunnerOK, Looking, Preparing
    <2> QED
      BY <2>2, <2>3 DEF s, Preparing
  <1>4. CASE s.pc = "say"
    <2>1. Answered(s) = [s EXCEPT !.pc = "ack"]
      BY <1>4 DEF Answered
    <2>2. /\ Answered(s) \in RunnerStates /\ Answered(s).run = s.run
          /\ Answered(s).pc = "ack" /\ Answered(s).todo = s.todo /\ Answered(s).cmd = s.cmd
          /\ Answered(s).say = s.say
      BY <1>0, <2>1 DEF RunnerStates, Calling
    <2>3. RunnerOK(p, Answered(s))
      BY <1>0, <1>4, <2>2 DEF RunnerOK, Looking, Preparing
    <2> QED
      BY <2>2, <2>3 DEF s, Preparing
  <1>5. CASE s.pc = "report"
    <2>1. Answered(s) = Idle
      BY <1>5 DEF Answered
    <2>2. Idle \in RunnerStates /\ Idle.run = None /\ Idle.pc = "idle" /\ RunnerOK(p, Idle)
      BY DEF Idle, RunnerStates, RunnerOK, Looking, Preparing
    <2>3. ~Alive(s.run) \/ s.run \in stuck
      BY <1>0, <1>5 DEF RunnerOK
    <2> QED
      BY <1>5, <2>1, <2>2, <2>3 DEF s, Preparing
  <1> QED
    BY <1>1, <1>2, <1>3, <1>4, <1>5 DEF s, Calling

LEMMA LoseStep == ASSUME IndInv, NEW p \in Runners, Lose(p) PROVE IndInv'
  <1>1. PICK s \in RunnerStates : s = Answered(rn[p])
    BY AnsweredOK DEF Lose
  <1> QED
    BY <1>1, AnsweredOK, QuietMove DEF Lose, IndInv, TypeOK

LEMMA AckStep == ASSUME IndInv, NEW p \in Runners, Ack(p) PROVE IndInv'
  <1> USE DEF control, history
  <1>0. /\ rn[p].pc \in {"ackStart", "ack"} /\ rn[p].pc \in Calling
        /\ rn[p].cmd \in DOMAIN cmds /\ rn[p] \in RunnerStates
    BY StateOf DEF Ack, RunnerOK, Calling
  <1>1. PICK k \in DOMAIN cmds : k = rn[p].cmd
    BY <1>0
  <1> DEFINE m == [cmds[k] EXCEPT !.status = rn[p].say]
  <1>2. cmds[k] \in Commands /\ rn[p].say \in {"acked", "nacked"}
    BY <1>0, CommandTyped DEF IndInv, RunnerStates
  <1>3. m \in Commands /\ m.run = cmds[k].run /\ m.action = cmds[k].action /\ m.status = rn[p].say
    BY <1>2 DEF Commands
  <1>4. cmds' = [cmds EXCEPT ![k] = m]
    BY <1>1 DEF Ack
  <1> HIDE DEF m
  <1>5. /\ cmds' \in Seq(Commands) /\ Len(cmds') = Len(cmds) /\ DOMAIN cmds' = DOMAIN cmds
        /\ \A c \in DOMAIN cmds : c # k => cmds'[c] = cmds[c]
        /\ cmds'[k] = m /\ CmdsKept
    BY <1>3, <1>4, MarkKeeps DEF IndInv
  <1>6. PICK s \in RunnerStates : s = Answered(rn[p])
    BY <1>0, AnsweredOK
  <1>7. rn' \in [Runners -> RunnerStates] /\ rn'[p] = s /\ \A q \in Runners : q # p => rn'[q] = rn[q]
    BY <1>6, PlaceTyped DEF Ack, IndInv
  <1>8. TypeOK'
    BY <1>5, <1>7 DEF Ack, IndInv, TypeOK
  <1>9. RunnerOK(p, rn[p])'
    BY <1>0, <1>5, <1>6, <1>7, AnsweredOK, RunnerGoes DEF Ack, Alive
  <1>10. Moves(p)
    BY <1>5, <1>7 DEF Ack, Moves
  <1>11. Honest(p)
    BY <1>0, <1>6, <1>7, AnsweredOK DEF Ack, Honest, Alive
  <1>12. ASSUME NEW c \in DOMAIN cmds, cmds'[c].status # cmds[c].status,
                cmds[c].action \in Kills, cmds'[c].status = "acked"
         PROVE  execs'[cmds[c].run] = 1 /\ box'[cmds[c].run] \notin {"running", "paused"}
    <2>1. c = rn[p].cmd /\ rn[p].say = "acked"
      BY <1>1, <1>3, <1>5, <1>12
    <2>2. RunnerOK(p, rn[p])
      BY StateOf
    <2>3. rn[p].pc = "ack"
      BY <1>0, <1>12, <2>1, <2>2 DEF RunnerOK, Kills
    <2> QED
      BY <1>12, <2>1, <2>2, <2>3 DEF RunnerOK, Ack, Alive
  <1> QED
    BY <1>8, <1>9, <1>10, <1>11, <1>12, MoveStep

Boxes == {"none", "created", "running", "paused", "exited"}

\* A move that changes its run's sandbox, or fails to.
LEMMA BoxMove ==
    ASSUME IndInv, NEW p \in Runners, NEW s \in RunnerStates, NEW r \in Runs, NEW b \in Boxes,
           rn' = [rn EXCEPT ![p] = s], rn[p].run = r, box' = [box EXCEPT ![r] = b],
           seen' \in [Runners -> SUBSET Nat], faults' = faults \/ Fault,
           stuck' = stuck \/ stuck' = stuck \cup {r},
           UNCHANGED <<gateway, execs, orphaned, missed>>,
           RunnerOK(p, rn[p])',
           b \in {"running", "paused"} => Alive(r),
           s.run = r \/ (s.run = None /\ (b \notin {"running", "paused"} \/ r \in stuck')),
           s.pc \in Preparing => rn[p].pc \in Preparing,
           s.pc \notin {"claimRecord", "claimUpdate"}
    PROVE  IndInv'
  <1> USE DEF gateway
  <1>1. TypeOK /\ r # None
    BY NoneAssumption DEF IndInv
  <1>2. rn' \in [Runners -> RunnerStates] /\ rn'[p] = s /\ \A q \in Runners : q # p => rn'[q] = rn[q]
    BY <1>1, PlaceTyped
  <1>3. box' \in [Runs -> Boxes] /\ box'[r] = b /\ \A x \in Runs : x # r => box'[x] = box[x]
    BY <1>1 DEF TypeOK, Boxes
  <1>4. TypeOK'
    BY <1>1, <1>2, <1>3, CountersTyped DEF TypeOK, Boxes
  <1>5. Moves(p)
    BY <1>2, <1>3 DEF Moves, CmdsKept
  <1>6. Honest(p)
    BY <1>1, <1>2, <1>3 DEF Honest
  <1> QED
    BY <1>4, <1>5, <1>6, MoveStep

LEMMA HasRun ==
    ASSUME IndInv, NEW p \in Runners, rn[p].pc \notin Looking \cup {"ackStart"}
    PROVE  rn[p].run \in Runs /\ rn[p].run # None
  BY StateOf, RunTyped DEF RunnerOK

\* A step by which p, with or without killing its sandbox, goes to destroy it.
LEMMA ToDestroy ==
    ASSUME IndInv, NEW p \in Runners, NEW s \in RunnerStates, rn' = [rn EXCEPT ![p] = s],
           s.pc = "destroy", s.run = rn[p].run, rn[p].pc \in {"start", "watch"},
           \/ box' = box
           \/ box' = [box EXCEPT ![rn[p].run] = "exited"],
           seen' \in [Runners -> SUBSET Nat], faults' = faults \/ Fault,
           UNCHANGED <<gateway, history>>
    PROVE  IndInv'
  <1>1. PICK r \in Runs : r = rn[p].run
    BY HasRun DEF Looking
  <1>2. PICK b \in Boxes : box' = [box EXCEPT ![r] = b] /\ (b = box[r] \/ b = "exited")
    <2>1. CASE box' = box
      <3>1. box[r] \in Boxes /\ box' = [box EXCEPT ![r] = box[r]]
        BY <2>1 DEF IndInv, TypeOK, Boxes
      <3> QED  BY <3>1
    <2>2. CASE box' # box
      BY <1>1, <2>2 DEF Boxes
    <2> QED  BY <2>1, <2>2
  <1>3. RunnerOK(p, s)
    BY <1>1, StateOf, HasRun DEF RunnerOK, Looking, Preparing
  <1>4. rn'[p] = s /\ box'[r] = b
    BY <1>2, PlaceTyped DEF IndInv, TypeOK
  <1>5. RunnerOK(p, rn[p])'
    BY <1>1, <1>2, <1>3, <1>4, RunnerGoes DEF gateway, history, CmdsKept, Alive
  <1>6. b \in {"running", "paused"} => Alive(r)
    BY <1>2 DEF Alive
  <1> QED
    BY <1>1, <1>2, <1>5, <1>6, BoxMove DEF history, Preparing

LEMMA CreateStep == ASSUME IndInv, NEW p \in Runners, Create(p) PROVE IndInv'
  <1>0. PICK r \in Runs : r = rn[p].run
    BY HasRun DEF Create, Looking
  <1>1. CASE /\ box' = [box EXCEPT ![rn[p].run] = "created"]
             /\ rn' = [rn EXCEPT ![p].pc = "start"] /\ UNCHANGED faults
    <2>1. PICK s : s = [rn[p] EXCEPT !.pc = "start"]
      OBVIOUS
    <2>2. s \in RunnerStates /\ s.pc = "start" /\ s.run = rn[p].run
      BY <2>1, StateOf DEF RunnerStates
    <2>3. rn' = [rn EXCEPT ![p] = s]
      BY <1>1, <2>1
    <2>4. RunnerOK(p, s)
      BY <2>2, StateOf DEF Create, RunnerOK, Looking, Preparing
    <2>5. rn'[p] = s /\ box'[r] = "created"
      BY <1>0, <1>1, <2>2, <2>3, PlaceTyped DEF IndInv, TypeOK
    <2>6. RunnerOK(p, rn[p])'
      BY <1>0, <2>2, <2>4, <2>5, RunnerGoes DEF Create, gateway, history, CmdsKept
    <2> QED
      BY <1>0, <1>1, <2>2, <2>3, <2>6, BoxMove DEF Create, history, Boxes, Preparing, IndInv, TypeOK
  <1>2. CASE /\ Fault /\ UNCHANGED box
             /\ rn' = [rn EXCEPT ![p].pc = "report", ![p].final = "killed"]
    <2>1. PICK s : s = [rn[p] EXCEPT !.pc = "report", !.final = "killed"]
      OBVIOUS
    <2>2. s \in RunnerStates /\ s.pc = "report" /\ s.run = rn[p].run
      BY <2>1, StateOf DEF RunnerStates, Calling
    <2>3. rn' = [rn EXCEPT ![p] = s]
      BY <1>2, <2>1
    <2>4. ~Alive(r)
      BY <1>0, StateOf, HasRun DEF Create, RunnerOK, Looking, Preparing
    <2>5. RunnerOK(p, s)
      BY <1>0, <2>2, <2>4, StateOf DEF Create, RunnerOK, Looking, Preparing
    <2> QED
      BY <1>2, <2>2, <2>3, <2>5, QuietMove DEF Create, IndInv, TypeOK, Preparing
  <1> QED
    BY <1>1, <1>2 DEF Create

LEMMA StartStep == ASSUME IndInv, NEW p \in Runners, Start(p) PROVE IndInv'
  <1>0. PICK r \in Runs : r = rn[p].run
    BY HasRun DEF Start, Looking
  <1>1. CASE /\ box' = [box EXCEPT ![rn[p].run] = "running"]
             /\ execs' = [execs EXCEPT ![rn[p].run] = @ + 1]
             /\ rn' = [rn EXCEPT ![p].pc = "sayRunning"] /\ UNCHANGED faults
    <2>1. PICK s : s = [rn[p] EXCEPT !.pc = "sayRunning"]
      OBVIOUS
    <2>2. s \in RunnerStates /\ s.pc = "sayRunning" /\ s.run = r
      BY <1>0, <2>1, StateOf DEF RunnerStates, Calling
    <2>3. rn' = [rn EXCEPT ![p] = s]
      BY <1>1, <2>1
    <2>4. rn' \in [Runners -> RunnerStates] /\ rn'[p] = s /\ \A q \in Runners : q # p => rn'[q] = rn[q]
      BY <2>2, <2>3, PlaceTyped DEF IndInv
    <2>5. execs[r] = 0 /\ r # None /\ run[r].by = p
      BY <1>0, StateOf, HasRun DEF Start, RunnerOK, Preparing, Looking
    <2>6. /\ execs' \in [Runs -> Nat] /\ execs'[r] = 1
          /\ \A x \in Runs : x # r => execs'[x] = execs[x]
      BY <1>0, <1>1, <2>5 DEF IndInv, TypeOK
    <2>7. box' \in [Runs -> Boxes] /\ \A x \in Runs : x # r => box'[x] = box[x]
      BY <1>0, <1>1 DEF IndInv, TypeOK, Boxes
    <2>8. TypeOK'
      BY <1>1, <2>4, <2>6, <2>7 DEF Start, gateway, IndInv, TypeOK, Boxes
    <2>9. RunnerOK(p, rn[p])'
      BY <2>2, <2>4, <2>5, <2>6 DEF Start, gateway, RunnerOK, Looking, Preparing
    <2>10. Moves(p)
      BY <1>0, <2>4, <2>6, <2>7 DEF Start, gateway, Moves, CmdsKept
    <2>11. Honest(p)
      BY <1>0, <2>2, <2>4, <2>6 DEF Start, gateway, Honest, Preparing
    <2> QED
      BY <2>8, <2>9, <2>10, <2>11, MoveStep DEF Start, gateway
  <1>2. CASE /\ Fault /\ UNCHANGED <<box, execs>>
             /\ rn' = [rn EXCEPT ![p].pc = "destroy", ![p].final = "killed"]
    <2>1. PICK s : s = [rn[p] EXCEPT !.pc = "destroy", !.final = "killed"]
      OBVIOUS
    <2>2. s \in RunnerStates /\ s.pc = "destroy" /\ s.run = rn[p].run
      BY <2>1, StateOf DEF RunnerStates
    <2>3. rn' = [rn EXCEPT ![p] = s]
      BY <1>2, <2>1
    <2>4. /\ UNCHANGED <<gateway, history>> /\ rn[p].pc = "start" /\ box' = box
          /\ seen' \in [Runners -> SUBSET Nat]
      BY <1>2 DEF Start, history, IndInv, TypeOK
    <2> QED
      BY <1>2, <2>2, <2>3, <2>4, ToDestroy
  <1> QED
    BY <1>1, <1>2 DEF Start

\* The supervision loop ends: Finally's state, and the ones of a shutdown and
\* of a lost heartbeat.
LEMMA FinallyIs ==
    ASSUME NEW s \in RunnerStates, NEW st \in {"finished", "killed"}
    PROVE  Finally(s, st) \in RunnerStates /\ Finally(s, st).pc = "destroy" /\ Finally(s, st).run = s.run
  <1>1. s.terminal \in {None, "killed", "quarantined"}
    BY DEF RunnerStates
  <1>2. PICK f \in {None, "killed", "quarantined", "finished"} :
           f = IF s.terminal = None THEN st ELSE s.terminal
    BY <1>1
  <1>3. Finally(s, st) = [s EXCEPT !.pc = "destroy", !.final = f]
    BY <1>2 DEF Finally
  <1> QED
    BY <1>3 DEF RunnerStates

LEMMA WaitStep ==
    ASSUME IndInv, NEW p \in Runners, WaitReturns(p) \/ WaitFails(p) \/ TimesOut(p) PROVE IndInv'
  <1>1. PICK st \in {"finished", "killed"} : rn' = [rn EXCEPT ![p] = Finally(rn[p], st)]
    BY DEF WaitReturns, WaitFails, TimesOut
  <1>2. PICK s \in RunnerStates : s = Finally(rn[p], st)
    BY StateOf, FinallyIs
  <1>3. s.pc = "destroy" /\ s.run = rn[p].run
    BY <1>2, StateOf, FinallyIs
  <1>4. /\ UNCHANGED <<gateway, seen, history>> /\ (faults' = faults \/ Fault)
        /\ rn[p].pc = "watch"
        /\ \/ box' = box
           \/ box' = [box EXCEPT ![rn[p].run] = "exited"]
    BY DEF WaitReturns, WaitFails, TimesOut
  <1>5. seen' \in [Runners -> SUBSET Nat]
    BY <1>4 DEF IndInv, TypeOK
  <1> QED
    BY <1>1, <1>2, <1>3, <1>4, <1>5, ToDestroy

LEMMA ShutdownStep == ASSUME IndInv, NEW p \in Runners, Shutdown(p) PROVE IndInv'
  <1>1. PICK s : s = [rn[p] EXCEPT !.pc = "destroy", !.final = "killed"]
    OBVIOUS
  <1>2. s \in RunnerStates /\ s.pc = "destroy" /\ s.run = rn[p].run
    BY <1>1, StateOf DEF RunnerStates
  <1>3. rn' = [rn EXCEPT ![p] = s]
    BY <1>1 DEF Shutdown
  <1>4. seen' \in [Runners -> SUBSET Nat]
    BY DEF Shutdown, IndInv, TypeOK
  <1>5. /\ faults' = faults \/ Fault
        /\ box' = box \/ box' = [box EXCEPT ![rn[p].run] = "exited"]
    BY DEF Shutdown, KillIgnored
  <1> QED
    BY <1>2, <1>3, <1>4, <1>5, ToDestroy DEF Shutdown

LEMMA HeartbeatStep == ASSUME IndInv, NEW p \in Runners, Heartbeat(p) PROVE IndInv'
  <1>0. PICK r \in Runs : r = rn[p].run
    BY HasRun DEF Heartbeat, Looking
  <1>1. CASE run[r].by = p /\ run[r].status \in {"claimed", "running"}
    <2>1. run[r] \in RunRows /\ run \in [Runs -> RunRows]
      BY DEF IndInv, TypeOK
    <2>2. /\ [run[r] EXCEPT !.stale = FALSE] \in RunRows
          /\ [run[r] EXCEPT !.stale = FALSE].by = run[r].by
          /\ [run[r] EXCEPT !.stale = FALSE].status = run[r].status
      BY <2>1 DEF RunRows
    <2>3. /\ run' = [run EXCEPT ![r] = [run[r] EXCEPT !.stale = FALSE]] /\ rn' = rn
          /\ box' = box /\ faults' = faults
      BY <1>0, <1>1 DEF Heartbeat
    <2>4. /\ run' \in [Runs -> RunRows]
          /\ \A x \in Runs : run'[x].by = run[x].by /\ run'[x].status = run[x].status
      BY <2>1, <2>2, <2>3
    <2>5. TypeOK' /\ Apart
      <3>1. /\ UNCHANGED <<reg, cmds, gate, ban, quarantined, quarantining, requests>>
            /\ UNCHANGED <<rn, seen, box, execs, orphaned, stuck, missed, faults>>
        BY <2>3 DEF Heartbeat, control, history
      <3> QED  BY <2>4, <3>1 DEF IndInv, TypeOK, Apart
    <2> QED
      BY <2>4, <2>5, StatusStep DEF Heartbeat, control, history
  <1>2. CASE ~(run[r].by = p /\ run[r].status \in {"claimed", "running"})
    <2>1. PICK s : s = [rn[p] EXCEPT !.pc = "destroy", !.final = None]
      OBVIOUS
    <2>2. s \in RunnerStates /\ s.pc = "destroy" /\ s.run = rn[p].run
      BY <2>1, StateOf DEF RunnerStates
    <2>3. /\ rn' = [rn EXCEPT ![p] = s] /\ run' = run
          /\ box' = box \/ box' = [box EXCEPT ![rn[p].run] = "exited"]
          /\ faults' = faults \/ Fault
      BY <1>0, <1>2, <2>1 DEF Heartbeat, KillIgnored
    <2>4. rn[p].pc = "watch" /\ seen' = seen
      BY DEF Heartbeat
    <2>5. UNCHANGED <<gateway, history>>
      BY <2>3 DEF Heartbeat, control, gateway
    <2>6. seen' \in [Runners -> SUBSET Nat]
      BY <2>4 DEF IndInv, TypeOK
    <2> QED
      BY <2>2, <2>3, <2>4, <2>5, <2>6, ToDestroy
  <1> QED  BY <1>1, <1>2

LEMMA ControlPollStep == ASSUME IndInv, NEW p \in Runners, ControlPoll(p) PROVE IndInv'
  <1>0. rn[p].pc = "watch" /\ RunCommands(rn[p].run) \subseteq DOMAIN cmds
    BY DEF ControlPoll, RunCommands, Listed
  <1>1. PICK s : s = [rn[p] EXCEPT !.pc = "control", !.todo = RunCommands(rn[p].run)]
    OBVIOUS
  <1>2. /\ s \in RunnerStates /\ s.pc = "control" /\ s.run = rn[p].run
        /\ s.todo = RunCommands(rn[p].run)
    <2>1. RunCommands(rn[p].run) \subseteq Nat
      BY <1>0 DEF IndInv, TypeOK
    <2> QED  BY <1>1, <2>1, StateOf DEF RunnerStates
  <1>3. rn' = [rn EXCEPT ![p] = s]
    BY <1>1 DEF ControlPoll
  <1>4. RunnerOK(p, s)
    BY <1>0, <1>2, StateOf DEF ControlPoll, RunCommands, RunnerOK, Looking, Preparing
  <1> QED
    BY <1>2, <1>3, <1>4, QuietMove DEF ControlPoll, IndInv, TypeOK, Preparing

\* A docker command works on a live sandbox and never revives a dead one.
LEMMA ControlStep == ASSUME IndInv, NEW p \in Runners, Control(p) PROVE IndInv'
  <1>0. PICK r \in Runs : r = rn[p].run
    BY HasRun DEF Control, Looking
  <1>1. PICK c \in Nat : c = Newest(rn[p].todo) /\ c \in rn[p].todo /\ c \in DOMAIN cmds
    BY NewestTyped DEF Control
  <1>2. /\ rn[p].pc = "control" /\ cmds[c].run = r /\ cmds[c].action # "start_run"
        /\ cmds[c].action \in Actions /\ execs[r] = 1 /\ run[r].by = p /\ r # None
    BY <1>0, <1>1, StateOf, HasRun, CommandTyped DEF Control, RunnerOK, IndInv, Commands, Looking
  <1>3. seen' \in [Runners -> SUBSET Nat]
    BY <1>1 DEF Control, IndInv, TypeOK
  <1> DEFINE works == Verifies(p, c) /\ box[r] \in Needs(cmds[c].action)
             refused == [rn EXCEPT ![p].cmd = c, ![p].pc = "ack", ![p].say = "nacked"]
             t == IF cmds[c].action \in Kills THEN Outcome(cmds[c].action) ELSE rn[p].terminal
  <1>4. CASE /\ works /\ box' = [box EXCEPT ![r] = Leaves(cmds[c].action)]
             /\ rn' = [rn EXCEPT ![p].cmd = c, ![p].pc = "say", ![p].say = "acked", ![p].terminal = t]
             /\ UNCHANGED <<stuck, faults>>
    <2>1. Alive(r)
      BY <1>2, <1>4 DEF Needs, Alive, Actions
    <2>2. t \in {None, "killed", "quarantined"}
      BY StateOf DEF Kills, Outcome, RunnerStates
    <2> HIDE DEF t
    <2>3. PICK s : s = [rn[p] EXCEPT !.cmd = c, !.pc = "say", !.say = "acked", !.terminal = t]
      OBVIOUS
    <2>4. /\ s \in RunnerStates /\ s.pc = "say" /\ s.run = r /\ s.cmd = c /\ s.say = "acked"
          /\ s.todo = rn[p].todo
      BY <1>0, <2>2, <2>3, StateOf DEF RunnerStates, Calling
    <2>5. rn' = [rn EXCEPT ![p] = s]
      BY <1>4, <2>3
    <2>6. PICK b \in Boxes : b = Leaves(cmds[c].action)
      BY <1>2 DEF Leaves, Actions, Boxes
    <2>7. cmds[c].action \in Kills => b \notin {"running", "paused"}
      BY <2>6 DEF Kills, Leaves
    <2>8. rn'[p] = s /\ box'[r] = b /\ UNCHANGED <<gateway, execs, orphaned, missed>>
      BY <1>4, <2>4, <2>5, <2>6, PlaceTyped DEF Control, IndInv, TypeOK
    <2>9. RunnerOK(p, rn[p])'
      BY <1>1, <1>2, <2>4, <2>7, <2>8, StateOf DEF gateway, RunnerOK, Looking, Preparing, Alive
    <2> QED
      BY <1>0, <1>3, <1>4, <2>1, <2>4, <2>5, <2>6, <2>8, <2>9, BoxMove, ZenonT(60) DEF Preparing
  <1>5. CASE /\ rn' = refused /\ UNCHANGED box
             /\ \/ Fault /\ stuck' = stuck \cup {r}
                \/ UNCHANGED <<stuck, faults>>
    <2>1. PICK s : s = [rn[p] EXCEPT !.cmd = c, !.pc = "ack", !.say = "nacked"]
      OBVIOUS
    <2>2. /\ s \in RunnerStates /\ s.pc = "ack" /\ s.run = r /\ s.cmd = c /\ s.say = "nacked"
          /\ s.todo = rn[p].todo
      BY <1>0, <2>1, StateOf DEF RunnerStates, Calling
    <2>3. rn' = [rn EXCEPT ![p] = s]
      BY <1>5, <2>1
    <2>4. RunnerOK(p, s)
      BY <1>1, <1>2, <2>2, StateOf DEF RunnerOK, Looking, Preparing
    <2>5. rn'[p] = s /\ UNCHANGED <<gateway, execs, orphaned, missed>>
      BY <2>2, <2>3, PlaceTyped DEF Control, IndInv
    <2>6. RunnerOK(p, rn[p])'
      BY <1>5, <2>2, <2>4, <2>5, RunnerGoes DEF gateway, CmdsKept, Alive
    <2>7. box[r] \in Boxes /\ box' = [box EXCEPT ![r] = box[r]]
      BY <1>5 DEF IndInv, TypeOK, Boxes
    <2>8. PICK b \in Boxes : b = box[r] /\ box' = [box EXCEPT ![r] = b]
      BY <2>7
    <2>9. (b \in {"running", "paused"} => Alive(r)) /\ s.pc \notin Preparing
      BY <2>2, <2>8 DEF Alive, Preparing
    <2>10. (stuck' = stuck \/ stuck' = stuck \cup {r}) /\ (faults' = faults \/ Fault)
      BY <1>5
    <2> QED
      BY <1>0, <1>3, <2>2, <2>3, <2>5, <2>6, <2>8, <2>9, <2>10, BoxMove
  <1> QED
    BY <1>0, <1>1, <1>4, <1>5 DEF Control

\* update_run_status writes the claimed run's status, or nothing.
LEMMA UpdateClaimedIs ==
    ASSUME TypeOK, NEW r \in Runs, NEW p, NEW st, UpdateClaimed(r, p, st)
    PROVE  /\ run' \in [Runs -> RunRows]
           /\ \A x \in Runs : /\ run'[x].by = run[x].by
                              /\ x # r => run'[x].status = run[x].status
           /\ run'[r].status = run[r].status \/ (run'[r].status = st /\ st \in Reportable)
  <1>1. CASE run' = run
    BY <1>1 DEF TypeOK
  <1>2. CASE run' # run
    <2>1. st \in Reportable /\ run' = [run EXCEPT ![r].status = st]
      BY <1>2 DEF UpdateClaimed
    <2>2. st \in Statuses
      BY <2>1 DEF Reportable, Statuses
    <2>3. /\ run' \in [Runs -> RunRows]
          /\ \A x \in Runs : /\ run'[x].by = run[x].by
                             /\ run'[x].status = IF x = r THEN st ELSE run[x].status
      BY <2>1, <2>2, StatusSet
    <2> QED
      BY <2>1, <2>3
  <1> QED  BY <1>1, <1>2

\* A report: final only once the sandbox is dead, or docker failed.
LEMMA ReportMove ==
    ASSUME IndInv, NEW p \in Runners, rn[p].pc \in {"sayRunning", "say", "report"}, NEW st,
           UpdateClaimed(rn[p].run, p, st), rn' = [rn EXCEPT ![p] = Answered(rn[p])],
           UNCHANGED <<reg, cmds, control, seen, box, history, faults>>,
           st \in {"finished", "killed"} => ~Alive(rn[p].run) \/ rn[p].run \in stuck
    PROVE  IndInv'
  <1> USE DEF control, history
  <1>0. PICK r \in Runs : r = rn[p].run
    BY HasRun DEF Looking
  <1>1. /\ run' \in [Runs -> RunRows]
        /\ \A x \in Runs : /\ run'[x].by = run[x].by
                           /\ x # r => run'[x].status = run[x].status
        /\ run'[r].status = run[r].status \/ (run'[r].status = st /\ st \in Reportable)
    BY <1>0, UpdateClaimedIs DEF IndInv
  <1>2. rn[p].pc \in Calling /\ rn[p].pc \notin Preparing
    BY DEF Calling, Preparing
  <1>3. PICK s \in RunnerStates : s = Answered(rn[p])
    BY <1>2, AnsweredOK
  <1>4. rn' \in [Runners -> RunnerStates] /\ rn'[p] = s /\ \A q \in Runners : q # p => rn'[q] = rn[q]
    BY <1>3, PlaceTyped DEF IndInv
  <1>5. TypeOK'
    BY <1>1, <1>4 DEF IndInv, TypeOK
  <1>6. RunnerOK(p, s) /\ s.pc \notin {"claimRecord", "claimUpdate"}
    BY <1>2, <1>3, AnsweredOK
  <1>7. /\ \/ s.run = r
           \/ s.run = None /\ (~Alive(r) \/ r \in stuck)
        /\ s.run # None => s.pc \notin Preparing
    BY <1>0, <1>2, <1>3, AnsweredOK
  <1>8. RunnerOK(p, rn[p])'
    BY <1>1, <1>4, <1>6, <1>7, RunnerGoes DEF CmdsKept, Alive
  <1>9. Moves(p)
    BY <1>0, <1>1, <1>4 DEF Moves, CmdsKept
  <1>10. ASSUME run'[r].status \in {"finished", "killed"}, run'[r].status # run[r].status, r \notin stuck
         PROVE  ~Executing(r)'
    <2>1. ~Alive(r)'
      BY <1>0, <1>1, <1>10 DEF Alive
    <2>2. \A q \in Runners : rn'[q].run = r => rn'[q].pc \notin Preparing
      BY <1>0, <1>4, <1>7, OneRunner, NoneAssumption
    <2> QED
      BY <2>1, <2>2 DEF Executing, Supervises, Preparing
  <1>11. Honest(p)
    <2>1. /\ \/ rn'[p].run = r
             \/ rn'[p].run = None /\ (box'[r] \notin {"running", "paused"} \/ r \in stuck')
          /\ box'[r] \in {"running", "paused"} => Alive(r)
          /\ rn'[p].run # None => rn'[p].pc \notin Preparing
          /\ rn'[p].pc \notin {"claimRecord", "claimUpdate"}
          /\ execs'[r] = execs[r] /\ r # None
      BY <1>4, <1>6, <1>7, NoneAssumption DEF Alive
    <2>2. \/ run'[r].status = run[r].status
          \/ run'[r].status \in {"running", "paused", "stalled"}
          \/ run'[r].status \in {"finished", "killed"}
      BY <1>1 DEF Reportable
    <2> QED
      BY <1>0, <1>10, <2>1, <2>2 DEF Honest
  <1> QED
    BY <1>5, <1>8, <1>9, <1>11, MoveStep

LEMMA SayRunningStep == ASSUME IndInv, NEW p \in Runners, SayRunning(p) PROVE IndInv'
  <1>1. PICK st : st = "running"
    OBVIOUS
  <1> QED
    BY <1>1, ReportMove DEF SayRunning

LEMMA SayStep == ASSUME IndInv, NEW p \in Runners, Say(p) PROVE IndInv'
  <1>1. PICK st : st = Outcome(cmds[rn[p].cmd].action)
    OBVIOUS
  <1>2. /\ cmds[rn[p].cmd].action \in Actions /\ cmds[rn[p].cmd].action # "start_run"
        /\ cmds[rn[p].cmd].action \in Kills => ~Alive(rn[p].run)
    <2>1. rn[p].cmd \in DOMAIN cmds
      BY StateOf DEF Say, RunnerOK
    <2> QED
      BY <2>1, StateOf, CommandTyped DEF Say, RunnerOK, IndInv, Commands
  <1>3. st \in {"finished", "killed"} => ~Alive(rn[p].run)
    BY <1>1, <1>2 DEF Outcome, Actions, Kills
  <1> QED
    BY <1>1, <1>3, ReportMove DEF Say

LEMMA ReportStep == ASSUME IndInv, NEW p \in Runners, Report(p) PROVE IndInv'
  <1>1. PICK st : st = rn[p].final
    OBVIOUS
  <1>2. ~Alive(rn[p].run) \/ rn[p].run \in stuck
    BY StateOf DEF Report, RunnerOK
  <1> QED
    BY <1>1, <1>2, ReportMove DEF Report

LEMMA IdleOK ==
    ASSUME NEW p \in Runners
    PROVE  Idle \in RunnerStates /\ Idle.run = None /\ Idle.pc = "idle" /\ RunnerOK(p, Idle)
  BY DEF Idle, RunnerStates, RunnerOK, Looking, Preparing

LEMMA DestroyStep == ASSUME IndInv, NEW p \in Runners, Destroy(p) PROVE IndInv'
  <1>0. PICK r \in Runs : r = rn[p].run
    BY HasRun DEF Destroy, Looking
  <1>1. PICK s : s = IF rn[p].final = None THEN Idle ELSE [rn[p] EXCEPT !.pc = "report"]
    OBVIOUS
  <1>2. /\ s \in RunnerStates
        /\ \/ s = Idle
           \/ s.pc = "report" /\ s.run = r
    BY <1>0, <1>1, StateOf, IdleOK DEF RunnerStates, Calling
  <1>3. rn' = [rn EXCEPT ![p] = s]
    BY <1>1 DEF Destroy
  <1>4. PICK b \in Boxes : /\ box' = [box EXCEPT ![r] = b]
                           /\ \/ b = "none" /\ UNCHANGED <<stuck, faults>>
                              \/ b = box[r] /\ Fault /\ stuck' = stuck \cup {r}
    <2>1. CASE box' = [box EXCEPT ![rn[p].run] = "none"] /\ UNCHANGED <<stuck, faults>>
      BY <1>0, <2>1 DEF Boxes
    <2>2. CASE Fault /\ stuck' = stuck \cup {rn[p].run} /\ UNCHANGED box
      <3>1. box[r] \in Boxes /\ box' = [box EXCEPT ![r] = box[r]]
        BY <2>2 DEF IndInv, TypeOK, Boxes
      <3> QED  BY <1>0, <2>2, <3>1
    <2> QED  BY <2>1, <2>2 DEF Destroy
  <1>5. UNCHANGED <<gateway, execs, orphaned, missed>> /\ seen' \in [Runners -> SUBSET Nat]
    BY DEF Destroy, IndInv, TypeOK
  <1>6. rn'[p] = s /\ box'[r] = b
    BY <1>2, <1>3, <1>4, PlaceTyped DEF IndInv, TypeOK
  <1>7. b \notin {"running", "paused"} \/ r \in stuck'
    BY <1>4
  <1>8. RunnerOK(p, rn[p])'
    <2>1. CASE s = Idle
      <3>1. rn'[p].pc = "idle" /\ rn'[p].run = None
        BY <1>6, <2>1, IdleOK
      <3> QED
        BY <3>1 DEF RunnerOK, Looking, Preparing
    <2>2. CASE s.pc = "report" /\ s.run = r
      <3>1. run[r].by = p /\ r # None
        BY <1>0, StateOf, HasRun DEF Destroy, RunnerOK, Looking
      <3> QED
        BY <1>5, <1>6, <1>7, <2>2, <3>1 DEF gateway, RunnerOK, Looking, Preparing, Alive
    <2> QED  BY <1>2, <2>1, <2>2
  <1>9. /\ b \in {"running", "paused"} => Alive(r)
        /\ s.run = r \/ (s.run = None /\ (b \notin {"running", "paused"} \/ r \in stuck'))
        /\ s.pc \notin Preparing /\ s.pc \notin {"claimRecord", "claimUpdate"}
    BY <1>2, <1>4, <1>7, IdleOK DEF Alive, Preparing
  <1> QED
    BY <1>0, <1>2, <1>3, <1>4, <1>5, <1>8, <1>9, BoxMove

\* A runner that dies leaves its run, and forgets its nonces.
LEMMA CrashStep == ASSUME IndInv, NEW p \in Runners, Crash(p) PROVE IndInv'
  <1>1. PICK s \in RunnerStates : s = Idle
    BY IdleOK
  <1>2. rn' \in [Runners -> RunnerStates] /\ rn'[p] = s /\ \A q \in Runners : q # p => rn'[q] = rn[q]
    BY <1>1, PlaceTyped DEF Crash, IndInv
  <1>3. rn[p].run \in Runs \cup {None} /\ s.run = None /\ s.pc = "idle"
    BY <1>1, RunTyped, IdleOK
  <1>4. TypeOK'
    BY <1>2, <1>3, CountersTyped DEF Crash, gateway, IndInv, TypeOK
  <1>5. RunnerOK(p, rn[p])'
    BY <1>2, <1>3 DEF RunnerOK, Looking, Preparing
  <1>6. Moves(p)
    BY <1>2 DEF Crash, gateway, Moves, CmdsKept
  <1>7. Honest(p)
    BY <1>2, <1>3 DEF Crash, gateway, Honest, Alive, Preparing
  <1> QED
    BY <1>4, <1>5, <1>6, <1>7, MoveStep DEF Crash, gateway

\* A sandbox that ends by itself: no runner moves.
LEMMA ProcessExitsStep == ASSUME IndInv, NEW r \in Runs, ProcessExits(r) PROVE IndInv'
  <1> USE DEF gateway, history
  <1>1. /\ box' \in [Runs -> Boxes] /\ box'[r] = "exited" /\ box[r] = "running"
        /\ \A x \in Runs : x # r => box'[x] = box[x]
    BY DEF ProcessExits, IndInv, TypeOK, Boxes
  <1>2. TypeOK' /\ CmdsKept
    BY <1>1 DEF ProcessExits, IndInv, TypeOK, Boxes, CmdsKept
  <1>3. \A x \in Runs : box'[x] \in {"running", "paused"} => Alive(x)
    BY <1>1 DEF Alive
  <1>4. ASSUME NEW q \in Runners PROVE RunnerOK(q, rn[q])'
    BY <1>2, <1>3, RunTyped, RunnerRests DEF ProcessExits
  <1>5. AliveIsSupervised'
    BY <1>3 DEF ProcessExits, IndInv, AliveIsSupervised, Alive, Supervises
  <1>6. \A x \in Runs : Executing(x)' => Executing(x)
    BY <1>3 DEF ProcessExits, Executing, Alive, Supervises
  <1>7. ASSUME NEW x \in Runs PROVE RunInv(x)'
    <2>1. RunInv(x)
      BY DEF IndInv
    <2>2. HasQuarantine(x)' <=> HasQuarantine(x)
      BY DEF ProcessExits, HasQuarantine
    <2>3. run[x].status \in {"absent", "started"} => x # r
      BY <1>1, <2>1 DEF RunInv
    <2> QED
      BY <1>1, <1>6, <2>1, <2>2, <2>3 DEF ProcessExits, RunInv
  <1>8. ASSUME NEW c \in DOMAIN cmds' PROVE CommandInv(c)'
    <2>1. CommandInv(c) /\ cmds[c].run \in Runs
      BY CommandTyped DEF ProcessExits, IndInv, Commands
    <2> QED
      BY <1>3, <2>1 DEF ProcessExits, CommandInv, Alive
  <1>9. BanInv'
    <2>1. \A x \in Runs : (HasKill(x)' <=> HasKill(x)) /\ (Passed(x)' => Passed(x))
      BY <1>6 DEF ProcessExits, HasKill, Passed
    <2> QED
      BY <2>1 DEF ProcessExits, IndInv, BanInv
  <1> QED
    BY <1>2, <1>4, <1>5, <1>7, <1>8, <1>9 DEF IndInv

-----------------------------------------------------------------------------
(* The theorems *)

LEMMA InitInv == Init => IndInv
  <1> SUFFICES ASSUME Init PROVE IndInv
    OBVIOUS
  <1>1. cmds \in Seq(Commands) /\ Len(cmds) = 0 /\ DOMAIN cmds = {}
    BY DEF Init
  <1>2. \A p \in Runners : rn[p] = Idle
    BY DEF Init
  <1>3. TypeOK
    BY <1>1, IdleOK, BoundAssumption DEF Init, TypeOK, BanStates, RunRows, Statuses
  <1>4. \A p \in Runners : RunnerOK(p, rn[p])
    BY <1>2, IdleOK
  <1>5. \A r \in Runs : ~Alive(r) /\ run[r].status = "absent" /\ run[r].by = None
    BY DEF Init, Alive
  <1>6. \A r \in Runs : RunInv(r)
    BY <1>5 DEF Init, RunInv
  <1>7. BanInv /\ AliveIsSupervised
    BY <1>1, <1>5 DEF Init, BanInv, AliveIsSupervised
  <1> QED
    BY <1>1, <1>3, <1>4, <1>6, <1>7 DEF IndInv

LEMMA StutterStep == ASSUME IndInv, UNCHANGED vars PROVE IndInv'
  <1>1. /\ UNCHANGED <<run, reg, cmds, gate, ban, quarantined, quarantining, requests>>
        /\ UNCHANGED <<rn, seen, box, execs, orphaned, stuck, missed, faults>>
    BY DEF vars, gateway, history
  <1>2. TypeOK' /\ Apart /\ CmdsKept
    BY <1>1 DEF IndInv, TypeOK, Apart, CmdsKept
  <1>3. BanInv'
    BY <1>1, <1>2, BanKept DEF IndInv, TypeOK
  <1> QED
    BY <1>1, <1>2, <1>3, QuietStep

LEMMA NextStep == ASSUME IndInv, [Next]_vars PROVE IndInv'
  <1>1. CASE Handlers
    BY <1>1, BanInsertStep, BanListStep, GateStep, StallSweepStep, RegisterCheckStep,
       RegisterInsertStep, BanIssueStep, ControlRequestStep, QuarantineIssueStep,
       QuarantineRecordStep, QuarantineStatusStep, LeaseLapsesStep, ProcessExitsStep, ExpireStep
    DEF Handlers
  <1>2. ASSUME NEW p \in Runners, RunnerStep(p) PROVE IndInv'
    BY <1>2, PollStep, ScanStep, ClaimGateStep, ClaimRecordStep, ClaimUpdateStep, AckStep,
       CreateStep, StartStep, SayRunningStep, WaitStep, ControlPollStep, ControlStep, SayStep,
       DestroyStep, ReportStep
    DEF RunnerStep
  <1>3. CASE UNCHANGED vars
    BY <1>3, StutterStep
  <1> QED
    BY <1>1, <1>2, <1>3, HeartbeatStep, WaitStep, ShutdownStep, LoseStep, CrashStep DEF Next

LEMMA Invariance == Spec => []IndInv
  BY InitInv, NextStep, PTL DEF Spec

\* Every table and every runner's locals keep their types; a runner only looks
\* at commands that are in the table.
THEOREM TypeCorrect == Spec => []TypeOK
  <1>1. IndInv => TypeOK
    BY DEF IndInv
  <1> QED  BY <1>1, Invariance, PTL

\* claim_agent_run and mark_stale_agent_runs_stalled: whatever number of
\* runners race, answers are lost and runners die, a run's sandbox starts at
\* most once and has at most one runner.
THEOREM RunExecutedOnce == Spec => []ExecutedOnce
  <1>1. IndInv => ExecutedOnce
    <2> SUFFICES ASSUME IndInv, NEW r \in Runs, NEW p \in Runners, NEW q \in Runners,
                        Supervises(p, r), Supervises(q, r)
                 PROVE  p = q
      BY DEF IndInv, RunInv, ExecutedOnce
    <2> QED
      BY OneRunner, NoneAssumption DEF Supervises
  <1> QED  BY <1>1, Invariance, PTL

\* run_one: a live sandbox has its runner, unless one died or docker failed.
THEOREM LiveRunSupervised == Spec => []AliveIsSupervised
  <1>1. IndInv => AliveIsSupervised
    BY DEF IndInv
  <1> QED  BY <1>1, Invariance, PTL

\* The two parts of BanReachesRuns.
BeyondInv == ban.beyond # {} => Cardinality(Registered) > ListLimit
Reached ==
    "ban" \in gate /\ ban.pc = "idle" =>
        \A r \in Runs \ (missed \cup stuck \cup ban.beyond) :
            Executing(r) => \E c \in DOMAIN cmds :
                /\ cmds[c].run = r
                /\ \/ cmds[c].action = "kill_run" /\ c > ban.from
                   \/ cmds[c].action = "quarantine_run"

\* A row is never taken out of agent_runs.
LEMMA RegisteredStays ==
    ASSUME IndInv, [Next]_vars PROVE Registered \subseteq Registered'
  <1>1. \A r \in Runs : reg[r] = "done" => reg'[r] = "done"
    <2>1. CASE UNCHANGED reg
      BY <2>1
    <2>2. CASE \E r \in Runs : RegisterCheck(r) \/ RegisterInsert(r)
      BY <2>2 DEF RegisterCheck, RegisterInsert, IndInv, TypeOK
    <2>3. CASE \E p \in Runners : RunnerStep(p)
      <3>1. PICK p \in Runners : RunnerStep(p)
        BY <2>3
      <3>2. CASE Poll(p) \/ Scan(p) \/ ClaimGate(p)
        BY <3>2 DEF Poll, Scan, ClaimGate, gateway
      <3>3. CASE ClaimRecord(p) \/ ClaimUpdate(p) \/ Ack(p)
        BY <3>3 DEF ClaimRecord, ClaimUpdate, Ack, gateway
      <3>4. CASE Create(p) \/ Start(p) \/ SayRunning(p)
        BY <3>4 DEF Create, Start, SayRunning, gateway
      <3>5. CASE WaitReturns(p) \/ ControlPoll(p) \/ Control(p)
        BY <3>5 DEF WaitReturns, ControlPoll, Control, gateway
      <3>6. CASE Say(p) \/ Destroy(p) \/ Report(p)
        BY <3>6 DEF Say, Destroy, Report, gateway
      <3> QED
        BY <3>1, <3>2, <3>3, <3>4, <3>5, <3>6 DEF RunnerStep
    <2>4. CASE \E p \in Runners : Heartbeat(p) \/ TimesOut(p) \/ WaitFails(p) \/ Shutdown(p)
                                  \/ Lose(p) \/ Crash(p)
      BY <2>4 DEF Heartbeat, TimesOut, WaitFails, Shutdown, Lose, Crash, gateway
    <2>5. CASE BanInsert \/ BanList \/ BanEnds \/ HoldAgent \/ ReleaseAgent \/ StallSweep
      BY <2>5 DEF BanInsert, BanList, BanEnds, HoldAgent, ReleaseAgent, StallSweep
    <2>6. CASE Handlers
      BY <2>2, <2>5, <2>6 DEF Handlers, BanIssue, ControlRequest, QuarantineIssue,
                  QuarantineRecord, QuarantineStatus, ReleaseRun, LeaseLapses, ProcessExits, Expire,
                  gateway
    <2> QED
      BY <2>1, <2>3, <2>4, <2>6 DEF Next, vars, gateway
  <1>2. IndInv'
    BY NextStep
  <1> QED
    BY <1>1, <1>2 DEF IndInv, RunInv, Registered

\* Only the listing leaves runs beyond its limit.
LEMMA BeyondChanges ==
    ASSUME IndInv, [Next]_vars, ~BanList PROVE ban'.beyond \in {ban.beyond, {}}
  <1>1. CASE UNCHANGED ban
    BY <1>1
  <1>2. CASE BanInsert \/ \E r \in Runs : BanIssue(r)
    <2>1. ban \in BanStates
      BY DEF IndInv, TypeOK
    <2>2. CASE BanInsert
      BY <2>2 DEF BanInsert
    <2>3. CASE \E r \in Runs : BanIssue(r)
      <3>1. PICK t, a : ban' = [ban EXCEPT !.todo = t, !.pc = a]
        BY <2>3 DEF BanIssue
      <3> QED  BY <2>1, <3>1 DEF BanStates
    <2> QED  BY <1>2, <2>2, <2>3
  <1>3. CASE \E p \in Runners : RunnerStep(p)
    <2>1. PICK p \in Runners : RunnerStep(p)
      BY <1>3
    <2>2. CASE Poll(p) \/ Scan(p) \/ ClaimGate(p)
      BY <2>2 DEF Poll, Scan, ClaimGate, gateway, control
    <2>3. CASE ClaimRecord(p) \/ ClaimUpdate(p) \/ Ack(p)
      BY <2>3 DEF ClaimRecord, ClaimUpdate, Ack, gateway, control
    <2>4. CASE Create(p) \/ Start(p) \/ SayRunning(p)
      BY <2>4 DEF Create, Start, SayRunning, gateway, control
    <2>5. CASE WaitReturns(p) \/ ControlPoll(p) \/ Control(p)
      BY <2>5 DEF WaitReturns, ControlPoll, Control, gateway, control
    <2>6. CASE Say(p) \/ Destroy(p) \/ Report(p)
      BY <2>6 DEF Say, Destroy, Report, gateway, control
    <2> QED
      BY <2>1, <2>2, <2>3, <2>4, <2>5, <2>6 DEF RunnerStep
  <1>4. CASE \E p \in Runners : Heartbeat(p) \/ TimesOut(p) \/ WaitFails(p) \/ Shutdown(p)
                                \/ Lose(p) \/ Crash(p)
    BY <1>4 DEF Heartbeat, TimesOut, WaitFails, Shutdown, Lose, Crash, gateway, control
  <1>5. CASE Handlers
    BY <1>2, <1>5 DEF Handlers, BanEnds, HoldAgent, ReleaseAgent, StallSweep, RegisterCheck,
                RegisterInsert, ControlRequest, QuarantineIssue, QuarantineRecord,
                QuarantineStatus, ReleaseRun, LeaseLapses, ProcessExits, Expire, gateway, control
  <1> QED
    BY <1>1, <1>3, <1>4, <1>5 DEF Next, vars, gateway

\* list_active_agent_runs_for_agent leaves no active run out as long as the
\* agent has no more runs than its limit.
LEMMA OnlyBeyondTheLimit == Spec => []BeyondInv
  <1>1. Init => BeyondInv
    BY DEF Init, BeyondInv
  <1>2. ASSUME IndInv, BeyondInv, [Next]_vars PROVE BeyondInv'
    <2>1. /\ IsFiniteSet(Registered) /\ IsFiniteSet(Registered')
          /\ Cardinality(Registered) \in Nat /\ Cardinality(Registered') \in Nat
          /\ Cardinality(Registered) <= Cardinality(Registered')
      <3>1. Registered \in SUBSET Runs /\ Registered' \in SUBSET Runs
        BY DEF Registered
      <3>2. IsFiniteSet(Registered) /\ IsFiniteSet(Registered')
        BY <3>1, RunsAssumption, FS_Subset
      <3>3. Registered \in SUBSET Registered'
        BY <1>2, RegisteredStays
      <3>4. Cardinality(Registered) <= Cardinality(Registered')
        BY <3>2, <3>3, FS_Subset
      <3> QED
        BY <3>2, <3>4, FS_CardinalityType
    <2>2. CASE ~BanList
      BY <1>2, <2>1, <2>2, BeyondChanges, BoundAssumption DEF BeyondInv
    <2>3. CASE BanList
      <3>1. SUFFICES ASSUME ban'.beyond # {}, ban'.beyond # ban.beyond
                     PROVE  Cardinality(Registered) > ListLimit
        BY <1>2, <2>1, BoundAssumption DEF BeyondInv
      <3>2. PICK listed \in OldestFirst : ban'.beyond = ActiveRuns \ listed
        <4>1. ban \in BanStates
          BY <1>2 DEF IndInv, TypeOK
        <4>2. CASE \E a : ban' = [ban EXCEPT !.pc = a]
          BY <3>1, <4>1, <4>2 DEF BanStates
        <4>3. CASE \E listed \in OldestFirst : \E a :
                     ban' = [ban EXCEPT !.pc = a, !.todo = listed, !.beyond = ActiveRuns \ listed]
          BY <4>1, <4>3 DEF BanStates
        <4> QED  BY <2>3, <4>2, <4>3 DEF BanList
      <3>3. ~(Cardinality(ActiveRuns) <= ListLimit)
        BY <3>1, <3>2 DEF OldestFirst
      <3>4. ActiveRuns \subseteq Registered
        BY DEF ActiveRuns, Active, Registered
      <3>5. Cardinality(ActiveRuns) \in Nat /\ Cardinality(ActiveRuns) <= Cardinality(Registered)
        BY <2>1, <3>4, FS_Subset, FS_CardinalityType
      <3> QED
        BY <2>1, <3>3, <3>5, BoundAssumption
    <2> QED  BY <2>2, <2>3
  <1> QED
    BY <1>1, <1>2, Invariance, PTL DEF Spec

\* create_ban: however registrations, claims and the propagation interleave,
\* for any number of runs and any limit of the listing, each run that executes
\* once it is done has a kill of this ban or a quarantine addressed to it,
\* unless it is beyond that limit, which takes more runs than the limit.
THEOREM BanReaches == Spec => []BanReachesRuns
  <1>1. IndInv => Reached
    <2> SUFFICES ASSUME IndInv, "ban" \in gate, ban.pc = "idle",
                        NEW r \in Runs \ (missed \cup stuck \cup ban.beyond), Executing(r)
                 PROVE  HasKill(r)
      BY DEF Reached, HasKill
    <2> QED
      BY DEF IndInv, BanInv, Passed
  <1>2. Reached /\ BeyondInv <=> BanReachesRuns
    BY DEF Reached, BeyondInv, BanReachesRuns
  <1> QED  BY <1>1, <1>2, Invariance, OnlyBeyondTheLimit, PTL

\* poll_and_process_run_commands: an acked kill or quarantine means that the
\* sandbox is dead for good.
THEOREM AckedKillDead == Spec => []AckedKillIsDead
  <1>1. IndInv => AckedKillIsDead
    BY DEF IndInv, CommandInv, AckedKillIsDead
  <1> QED  BY <1>1, Invariance, PTL
=============================================================================
