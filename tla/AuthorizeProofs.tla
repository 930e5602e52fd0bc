-------------------------- MODULE AuthorizeProofs --------------------------
(***************************************************************************)
(* The two halves of a governed call: that the authorize pipeline keeps    *)
(* its evidence in order, for any number of attempts, nonces, crashes and  *)
(* requests, and that the approval a call may wait for is decided and      *)
(* spent once, for any number of reviewers, executors and actions.  The    *)
(* two share no variable; IndInv is the pipeline's, ApprovalInv the row's. *)
(***************************************************************************)
EXTENDS AuthorizePipeline, Approval, TLAPS

-----------------------------------------------------------------------------
(* The pipeline *)

(* A request of the client is well formed.                                 *)
LEMMA RequestType ==
    ASSUME NEW r \in Requests
    PROVE  /\ r.call \in Calls
           /\ r.nonce \in Nonces \cup {NoNonce}
           /\ r.ts \in Nat \cup {NoTime}
           /\ r.dry \in BOOLEAN
BY RequestsAssumption

(* Telling the client how an attempt ended keeps the types.                *)
LEMMA TellType ==
    ASSUME TypeOK,
           NEW a \in Attempts, NEW kind \in Kinds,
           NEW v \in Verdicts \cup {"none", "deny"}, NEW approval \in BOOLEAN,
           Tell(a, kind, v, approval)
    PROVE  /\ pc' \in [Attempts -> Labels]
           /\ answer' \in [Attempts -> [kind: Kinds, verdict: Verdicts \cup {"none", "deny"},
                                        approval: BOOLEAN]]
<1> DEFINE Answers == [kind: Kinds, verdict: Verdicts \cup {"none", "deny"}, approval: BOOLEAN]
<1>1. [kind |-> kind, verdict |-> v, approval |-> approval] \in Answers
  OBVIOUS
<1>2. answer \in [Attempts -> Answers] /\ pc \in [Attempts -> Labels]
  BY DEF TypeOK
<1> HIDE DEF Answers
<1>3. answer' \in [Attempts -> Answers]
  BY <1>1, <1>2 DEF Tell
<1>4. pc' \in [Attempts -> Labels]
  BY <1>2 DEF Tell, Labels
<1> QED BY <1>3, <1>4 DEF Answers

(* Ending an attempt with an error keeps the types.                        *)
LEMMA FailType ==
    ASSUME TypeOK, NEW a \in Attempts, Fail(a)
    PROVE  /\ pc' \in [Attempts -> Labels]
           /\ answer' \in [Attempts -> [kind: Kinds, verdict: Verdicts \cup {"none", "deny"},
                                        approval: BOOLEAN]]
BY TellType DEF Fail, Kinds

(* Moving an attempt to its next await keeps the types.                    *)
LEMMA GotoType ==
    ASSUME TypeOK, NEW a \in Attempts, NEW label \in Labels, Goto(a, label)
    PROVE  /\ pc' \in [Attempts -> Labels]
           /\ answer' \in [Attempts -> [kind: Kinds, verdict: Verdicts \cup {"none", "deny"},
                                        approval: BOOLEAN]]
BY DEF Goto, TypeOK

(* Denying an attempt early keeps the types.                               *)
LEMMA EarlyDenyType ==
    ASSUME TypeOK, NEW a \in Attempts, NEW level \in Levels, EarlyDeny(a, level)
    PROVE  /\ risk' \in [Attempts -> Levels]
           /\ verdict' \in [Attempts -> Verdicts \cup {"none", "deny"}]
           /\ early' \in [Attempts -> BOOLEAN]
           /\ pc' \in [Attempts -> Labels]
           /\ answer' \in [Attempts -> [kind: Kinds, verdict: Verdicts \cup {"none", "deny"},
                                        approval: BOOLEAN]]
<1>1. CASE req[a].dry
  <2>1. Tell(a, "dry", "deny", FALSE) /\ UNCHANGED <<risk, verdict, early>>
    BY <1>1 DEF EarlyDeny
  <2> QED BY <2>1, TellType DEF TypeOK, Kinds
<1>2. CASE ~req[a].dry
  <2>1. /\ risk' = [risk EXCEPT ![a] = level] /\ verdict' = [verdict EXCEPT ![a] = "deny"]
        /\ early' = [early EXCEPT ![a] = TRUE] /\ Goto(a, "write")
    BY <1>2 DEF EarlyDeny
  <2> QED BY <2>1, GotoType DEF TypeOK, Labels
<1> QED BY <1>1, <1>2

(* Every step keeps every variable in its type.                            *)
LEMMA TypeStep ==
    ASSUME TypeOK, Admitted, [Next]_vars
    PROVE  TypeOK'
<1> USE DEF TypeOK, database, decision, trail, replays, process, facts
<1>1. ASSUME NEW a \in Attempts, NEW r \in Requests, Admit(a, r)
      PROVE  TypeOK'
  <2>1. req' \in [Attempts -> Requests \cup {NoRequest}]
    BY <1>1 DEF Admit
  <2>2. call' \in [Attempts -> Calls \cup {NoHash}]
    BY <1>1, RequestType DEF Admit
  <2>3. agent' \in [Attempts -> Statuses \cup {"none"}]
    BY <1>1 DEF Admit
  <2>4. CASE Fail(a)
    BY <1>1, <2>1, <2>2, <2>3, <2>4, FailType DEF Admit
  <2>5. CASE Goto(a, "lookup")
    BY <1>1, <2>1, <2>2, <2>3, <2>5, GotoType DEF Admit, Labels
  <2> QED BY <1>1, <2>4, <2>5 DEF Admit
<1>2. ASSUME NEW a \in Attempts, Lookup(a)
      PROVE  TypeOK'
  <2>1. seen' \in [Attempts -> {"none", "row", "error"}]
    BY <1>2 DEF Lookup
  <2>2. received' \in [Attempts -> Nat]
    BY <1>2 DEF Lookup
  <2>3. CASE Fail(a)
    BY <1>2, <2>1, <2>2, <2>3, FailType DEF Lookup
  <2>4. CASE Goto(a, "nonce")
    BY <1>2, <2>1, <2>2, <2>4, GotoType DEF Lookup, Labels
  <2> QED BY <1>2, <2>3, <2>4 DEF Lookup
<1>3. ASSUME NEW a \in Attempts, Preflight(a)
      PROVE  TypeOK'
  <2>1. req[a] \in Requests /\ req[a].nonce \in Nonces \cup {NoNonce}
    BY <1>3, RequestType DEF Preflight, Admitted
  <2>2. seenUntil' \in [Nonces -> Nat] /\ passed' \subseteq Attempts
    BY <1>3, <2>1, TimeAssumption DEF Preflight, RecordNonce
  <2> QED BY <1>3, <2>2, TellType, FailType, GotoType DEF Preflight, Labels, Kinds
<1>4. ASSUME NEW a \in Attempts, Replay(a)
      PROVE  TypeOK'
  BY <1>4, TellType, FailType, GotoType DEF Replay, Labels, Kinds
<1>5. ASSUME NEW a \in Attempts, Guard(a)
      PROVE  TypeOK'
  <2>1. call[a] \in Calls
    BY <1>5 DEF Guard, Admitted
  <2>2. \A p \in Params : [call[a] EXCEPT !.params = p] \in Calls
    BY <2>1 DEF Calls
  <2>3. call' \in [Attempts -> Calls \cup {NoHash}] /\ hash' \in [Attempts -> Calls \cup {NoHash}]
    BY <1>5, <2>2, ZenonT(40) DEF Guard
  <2>4. CASE EarlyDeny(a, "critical")
    BY <1>5, <2>3, <2>4, EarlyDenyType DEF Guard, Levels
  <2>5. CASE ~EarlyDeny(a, "critical")
    <3>1. UNCHANGED <<risk, verdict, early>>
      BY <1>5, <2>5 DEF Guard
    <3>2. Goto(a, "cache") \/ Goto(a, "enforce")
      BY <1>5, <2>5 DEF Guard
    <3> QED BY <1>5, <2>3, <3>1, <3>2, GotoType DEF Guard, Labels
  <2> QED BY <2>4, <2>5
<1>6. ASSUME NEW a \in Attempts, CacheHash(a)
      PROVE  TypeOK'
  BY <1>6, TellType, FailType, GotoType DEF CacheHash, Labels
<1>7. ASSUME NEW a \in Attempts, Enforce(a)
      PROVE  TypeOK'
  <2>1. CASE EarlyDeny(a, "critical")
    BY <1>7, <2>1, EarlyDenyType DEF Enforce, Levels
  <2>2. CASE UNCHANGED <<risk, verdict, early>> /\ (Fail(a) \/ Goto(a, "metadata"))
    BY <1>7, <2>2, FailType, GotoType DEF Enforce, Labels
  <2> QED BY <1>7, <2>1, <2>2 DEF Enforce
<1>8. ASSUME NEW a \in Attempts, Metadata(a)
      PROVE  TypeOK'
  <2>1. ASSUME NEW level \in Risks \cup {"critical"}, EarlyDeny(a, level)
        PROVE  TypeOK'
    <3>1. level \in Levels
      BY VerdictAssumption DEF Levels
    <3> QED BY <1>8, <2>1, <3>1, EarlyDenyType DEF Metadata
  <2>2. CASE Fail(a) /\ UNCHANGED <<risk, verdict, early>>
    BY <1>8, <2>2, FailType DEF Metadata
  <2>3. CASE /\ Goto(a, "evaluate") /\ UNCHANGED <<verdict, early>>
             /\ \E level \in Risks : risk' = [risk EXCEPT ![a] = level]
    <3>1. risk' \in [Attempts -> Levels]
      BY <2>3, VerdictAssumption
    <3> QED BY <1>8, <2>3, <3>1, GotoType DEF Metadata, Labels
  <2> QED BY <1>8, <2>1, <2>2, <2>3 DEF Metadata
<1>9. ASSUME NEW a \in Attempts, Evaluate(a)
      PROVE  TypeOK'
  <2>1. verdict' \in [Attempts -> Verdicts \cup {"none", "deny"}]
    BY <1>9 DEF Evaluate
  <2>2. CASE Fail(a)
    BY <1>9, <2>1, <2>2, FailType DEF Evaluate
  <2>3. ASSUME NEW v \in Verdicts, Tell(a, "dry", v, FALSE)
        PROVE  TypeOK'
    BY <1>9, <2>1, <2>3, TellType DEF Evaluate, Kinds
  <2>4. CASE Tell(a, "unrecorded", "deny", FALSE)
    BY <1>9, <2>1, <2>4, TellType DEF Evaluate, Kinds
  <2>5. CASE Goto(a, "write")
    BY <1>9, <2>1, <2>5, GotoType DEF Evaluate, Labels
  <2> QED BY <1>9, <2>2, <2>3, <2>4, <2>5 DEF Evaluate
<1>10. ASSUME NEW a \in Attempts, Write(a)
       PROVE  TypeOK'
  <2>1. CASE InsertDecision(a) /\ Goto(a, "audit")
    BY <1>10, <2>1, GotoType DEF Write, InsertDecision, Labels
  <2>2. CASE WriteFails(a) /\ UNCHANGED <<rowBy, rowVerdict>>
    <3>1. CASE Fail(a)
      BY <1>10, <2>2, <3>1, FailType DEF Write
    <3>2. CASE Tell(a, "unrecorded", IF HighRisk(a) THEN "deny" ELSE verdict[a], FALSE)
      <4>1. (IF HighRisk(a) THEN "deny" ELSE verdict[a]) \in Verdicts \cup {"none", "deny"}
        OBVIOUS
      <4> QED BY <1>10, <2>2, <3>2, <4>1, TellType DEF Write, Kinds
    <3> QED BY <2>2, <3>1, <3>2 DEF WriteFails
  <2> QED BY <1>10, <2>1, <2>2 DEF Write
<1>11. ASSUME NEW a \in Attempts, Audit(a)
       PROVE  TypeOK'
  BY <1>11, TellType, FailType, GotoType DEF Audit, EmitAudit, WriteFails, Labels, Kinds
<1>12. ASSUME NEW a \in Attempts, Receipt(a)
       PROVE  TypeOK'
  BY <1>12, TellType, FailType, GotoType DEF Receipt, DurableReceipt, Labels, Kinds
<1>13. ASSUME NEW a \in Attempts, Effects(a)
       PROVE  TypeOK'
  BY <1>13, TellType, FailType, GotoType DEF Effects, Fail, Labels, Kinds, Statuses
<1>14. ASSUME NEW a \in Attempts, Cancel(a)
       PROVE  TypeOK'
  BY <1>14 DEF Cancel, Labels
<1>15. CASE Flush
  BY <1>15 DEF Flush
<1>16. CASE Evict
  BY <1>16 DEF Evict
<1>17. ASSUME NEW st \in {"active", "frozen", "quarantined"}, SetStatus(st)
       PROVE  TypeOK'
  BY <1>17 DEF SetStatus, Statuses
<1>18. CASE Crash
  BY <1>18, CrashAssumption DEF Crash, Labels
<1>20. CASE FlushAudit
  BY <1>20 DEF FlushAudit
<1>21. CASE Elapse
  BY <1>21 DEF Elapse
<1>19. CASE UNCHANGED vars
  BY <1>19 DEF vars
<1> QED
  BY <1>1, <1>2, <1>3, <1>4, <1>5, <1>6, <1>7, <1>8, <1>9, <1>10, <1>11, <1>12,
     <1>13, <1>14, <1>15, <1>16, <1>17, <1>18, <1>19, <1>20, <1>21
     DEF Next, Step

-----------------------------------------------------------------------------
(* What a step leaves alone.                                               *)

(* A step of one attempt does not touch the others.                        *)
LEMMA Frame ==
    ASSUME TypeOK, NEW a \in Attempts, Step(a), NEW b \in Attempts, b # a
    PROVE  /\ pc'[b] = pc[b] /\ answer'[b] = answer[b]
           /\ req'[b] = req[b] /\ call'[b] = call[b] /\ seen'[b] = seen[b]
           /\ received'[b] = received[b]
           /\ risk'[b] = risk[b] /\ verdict'[b] = verdict[b] /\ early'[b] = early[b]
<1> USE DEF TypeOK, facts
<1> DEFINE Same == /\ pc'[b] = pc[b] /\ answer'[b] = answer[b]
                   /\ req'[b] = req[b] /\ call'[b] = call[b] /\ seen'[b] = seen[b]
           /\ received'[b] = received[b]
                   /\ risk'[b] = risk[b] /\ verdict'[b] = verdict[b] /\ early'[b] = early[b]
<1>1. ASSUME NEW r \in Requests, Admit(a, r)
      PROVE  Same
  BY <1>1 DEF Admit, Tell, Fail, Goto
<1>2. CASE Lookup(a)
  BY <1>2 DEF Lookup, Tell, Fail, Goto
<1>3. CASE Preflight(a)
  BY <1>3 DEF Preflight, Tell, Fail, Goto
<1>4. CASE Replay(a)
  BY <1>4 DEF Replay, Tell
<1>5. CASE Guard(a)
  BY <1>5 DEF Guard, EarlyDeny, Tell, Goto
<1>6. CASE CacheHash(a)
  BY <1>6 DEF CacheHash, Goto
<1>7. CASE Enforce(a)
  BY <1>7 DEF Enforce, EarlyDeny, Tell, Fail, Goto
<1>8. CASE Metadata(a)
  BY <1>8 DEF Metadata, EarlyDeny, Tell, Fail, Goto
<1>9. CASE Evaluate(a)
  BY <1>9 DEF Evaluate, Tell, Fail, Goto
<1>10. CASE Write(a)
  BY <1>10 DEF Write, WriteFails, Tell, Fail, Goto
<1>11. CASE Audit(a)
  BY <1>11 DEF Audit, EmitAudit, WriteFails, Tell, Fail, Goto
<1>12. CASE Receipt(a)
  BY <1>12 DEF Receipt, DurableReceipt, Tell, Fail, Goto
<1>13. CASE Effects(a)
  BY <1>13 DEF Effects, Tell, Fail
<1>14. CASE Cancel(a)
  BY <1>14 DEF Cancel
<1> QED
  BY <1>1, <1>2, <1>3, <1>4, <1>5, <1>6, <1>7, <1>8, <1>9, <1>10, <1>11, <1>12, <1>13,
     <1>14 DEF Step

(* An attempt that is done, or already answered, takes no step.            *)
LEMMA StepIsLive ==
    ASSUME TypeOK, Answered, NEW a \in Attempts, Step(a)
    PROVE  pc[a] # "done" /\ answer[a].kind = "none"
<1>1. pc[a] # "done"
  BY DEF Step, InFlight, Admit, Lookup, Preflight, Replay, Guard, CacheHash, Enforce,
     Metadata, Evaluate, Write, Audit, Receipt, Effects, Cancel
<1> QED BY <1>1 DEF Answered

(* Evidence is only added: a decision row, once there, stays as it is, and *)
(* no stored audit event, receipt or approval is taken back.               *)
LEMMA Grows ==
    ASSUME TypeOK, [Next]_vars
    PROVE  /\ rowBy # NoAttempt => rowBy' = rowBy /\ rowVerdict' = rowVerdict
           /\ emitted \subseteq emitted' /\ audited \subseteq audited'
           /\ receipts \subseteq receipts'
           /\ approvals \subseteq approvals'
<1> USE DEF database, decision, trail
<1> DEFINE Kept == /\ rowBy # NoAttempt => rowBy' = rowBy /\ rowVerdict' = rowVerdict
                   /\ emitted \subseteq emitted' /\ audited \subseteq audited'
                   /\ receipts \subseteq receipts'
                   /\ approvals \subseteq approvals'
<1>1. ASSUME NEW a \in Attempts, Write(a)
      PROVE  Kept
  BY <1>1 DEF Write, InsertDecision
<1>2. ASSUME NEW a \in Attempts, Audit(a) \/ Receipt(a) \/ Effects(a)
      PROVE  Kept
  BY <1>2 DEF Audit, EmitAudit, Receipt, DurableReceipt, Effects
<1>3. ASSUME NEW a \in Attempts, Step(a), ~(Write(a) \/ Audit(a) \/ Receipt(a) \/ Effects(a))
      PROVE  Kept
  BY <1>3 DEF Step, Admit, Lookup, Preflight, Replay, Guard, CacheHash, Enforce,
              Metadata, Evaluate, Cancel
<1>4. ASSUME NEW st \in {"active", "frozen", "quarantined"}, SetStatus(st)
      PROVE  Kept
  BY <1>4 DEF SetStatus
<1>5. CASE Flush \/ FlushAudit \/ Evict \/ Elapse \/ Crash \/ UNCHANGED vars
  BY <1>5 DEF Flush, FlushAudit, Evict, Elapse, Crash, vars
<1> QED BY <1>1, <1>2, <1>3, <1>4, <1>5 DEF Next

(* A step of no attempt changes neither what an attempt knows nor what it  *)
(* was told, and at most ends it.                                          *)
LEMMA Background ==
    ASSUME TypeOK, [Next]_vars, ~ \E a \in Attempts : Step(a)
    PROVE  /\ UNCHANGED <<facts, answer, rowBy, rowVerdict, emitted, approvals>>
           /\ \A b \in Attempts : pc'[b] \in {pc[b], "done"} /\ (pc[b] = "idle" <=> pc'[b] = "idle")
           /\ receipts' \cup queued' \subseteq receipts \cup queued
           /\ audited' \cup buffered' \subseteq audited \cup buffered
           /\ UNCHANGED replays /\ time' >= time
<1> USE DEF database, decision, trail, process
<1>1. (\E st \in {"active", "frozen", "quarantined"} : SetStatus(st))
          \/ Flush \/ FlushAudit \/ Evict \/ Elapse \/ Crash \/ UNCHANGED vars
  BY DEF Next
<1>2. UNCHANGED <<facts, answer, rowBy, rowVerdict, emitted, approvals>>
  BY <1>1 DEF SetStatus, Flush, FlushAudit, Evict, Elapse, Crash, vars, facts
<1>3. \A b \in Attempts : pc'[b] \in {pc[b], "done"} /\ (pc[b] = "idle" <=> pc'[b] = "idle")
  BY <1>1 DEF SetStatus, Flush, FlushAudit, Evict, Elapse, Crash, vars, TypeOK, InFlight
<1>4. receipts' \cup queued' \subseteq receipts \cup queued
  BY <1>1 DEF SetStatus, Flush, FlushAudit, Evict, Elapse, Crash, vars
<1>5. audited' \cup buffered' \subseteq audited \cup buffered
  BY <1>1 DEF SetStatus, Flush, FlushAudit, Evict, Elapse, Crash, vars
<1>6. UNCHANGED replays
  BY <1>1 DEF SetStatus, Flush, FlushAudit, Evict, Elapse, Crash, vars, replays
<1>7. time' >= time
  BY <1>1 DEF SetStatus, Flush, FlushAudit, Evict, Elapse, Crash, vars, TypeOK
<1> QED BY <1>2, <1>3, <1>4, <1>5, <1>6, <1>7

-----------------------------------------------------------------------------
(* The parts of the invariant, one by one.                                 *)

(* An answer is given at the end.                                          *)
LEMMA AnsweredStep ==
    ASSUME IndInv, [Next]_vars
    PROVE  Answered'
<1> DEFINE Good(b) == answer[b].kind # "none" => pc[b] = "done"
<1> USE DEF IndInv
<1>1. CASE ~ \E a \in Attempts : Step(a)
  BY <1>1, Background DEF Answered
<1>2. ASSUME NEW a \in Attempts, Step(a)
      PROVE  Answered'
  <2>1. ASSUME NEW b \in Attempts, b # a
        PROVE  Good(b)'
    BY <1>2, <2>1, Frame DEF Answered, TypeOK
  <2>2. Good(a)'
    <3> USE <1>2, StepIsLive DEF TypeOK, Answered
    <3>1. ASSUME NEW r \in Requests, Admit(a, r)
          PROVE  Good(a)'
      BY <3>1 DEF Admit, Tell, Fail, Goto
    <3>2. CASE Lookup(a)
      BY <3>2 DEF Lookup, Tell, Fail, Goto
    <3>3. CASE Preflight(a)
      BY <3>3 DEF Preflight, Tell, Fail, Goto
    <3>4. CASE Replay(a)
      BY <3>4 DEF Replay, Tell
    <3>5. CASE Guard(a)
      BY <3>5 DEF Guard, EarlyDeny, Tell, Goto
    <3>6. CASE CacheHash(a)
      BY <3>6 DEF CacheHash, Goto
    <3>7. CASE Enforce(a)
      BY <3>7 DEF Enforce, EarlyDeny, Tell, Fail, Goto
    <3>8. CASE Metadata(a)
      BY <3>8 DEF Metadata, EarlyDeny, Tell, Fail, Goto
    <3>9. CASE Evaluate(a)
      BY <3>9 DEF Evaluate, Tell, Fail, Goto
    <3>10. CASE Write(a)
      BY <3>10 DEF Write, InsertDecision, WriteFails, Tell, Fail, Goto
    <3>11. CASE Audit(a)
      BY <3>11 DEF Audit, EmitAudit, WriteFails, Tell, Fail, Goto
    <3>12. CASE Receipt(a)
      BY <3>12 DEF Receipt, DurableReceipt, Tell, Fail, Goto
    <3>13. CASE Effects(a)
      BY <3>13 DEF Effects, Tell, Fail
    <3>14. CASE Cancel(a)
      BY <3>14 DEF Cancel
    <3> QED BY <3>1, <3>2, <3>3, <3>4, <3>5, <3>6, <3>7, <3>8, <3>9, <3>10, <3>11,
       <3>12, <3>13, <3>14 DEF Step
  <2> QED BY <2>1, <2>2 DEF Answered
<1> QED BY <1>1, <1>2

(* Past admit there is a call.                                             *)
LEMMA AdmittedStep ==
    ASSUME IndInv, [Next]_vars
    PROVE  Admitted'
<1> DEFINE Good(b) == pc[b] # "idle" => req[b] \in Requests /\ call[b] \in Calls
<1> USE DEF IndInv
<1>1. CASE ~ \E a \in Attempts : Step(a)
  BY <1>1, Background DEF Admitted, facts
<1>2. ASSUME NEW a \in Attempts, Step(a)
      PROVE  Admitted'
  <2>1. ASSUME NEW b \in Attempts, b # a
        PROVE  Good(b)'
    BY <1>2, <2>1, Frame DEF Admitted, TypeOK
  <2>2. Good(a)'
    <3> USE <1>2, StepIsLive DEF TypeOK, Admitted, Calls, facts
    <3>1. ASSUME NEW r \in Requests, Admit(a, r)
          PROVE  Good(a)'
      BY <3>1, RequestType DEF Admit, Tell, Fail, Goto
    <3>2. CASE Lookup(a)
      BY <3>2 DEF Lookup, Tell, Fail, Goto
    <3>3. CASE Preflight(a)
      BY <3>3 DEF Preflight, Tell, Fail, Goto
    <3>4. CASE Replay(a)
      BY <3>4 DEF Replay, Tell
    <3>5. CASE Guard(a)
      BY <3>5, SMTT(30) DEF Guard, EarlyDeny, Tell, Goto
    <3>6. CASE CacheHash(a)
      BY <3>6 DEF CacheHash, Goto
    <3>7. CASE Enforce(a)
      BY <3>7 DEF Enforce, EarlyDeny, Tell, Fail, Goto
    <3>8. CASE Metadata(a)
      BY <3>8 DEF Metadata, EarlyDeny, Tell, Fail, Goto
    <3>9. CASE Evaluate(a)
      BY <3>9 DEF Evaluate, Tell, Fail, Goto
    <3>10. CASE Write(a)
      BY <3>10 DEF Write, InsertDecision, WriteFails, Tell, Fail, Goto
    <3>11. CASE Audit(a)
      BY <3>11 DEF Audit, EmitAudit, WriteFails, Tell, Fail, Goto
    <3>12. CASE Receipt(a)
      BY <3>12 DEF Receipt, DurableReceipt, Tell, Fail, Goto
    <3>13. CASE Effects(a)
      BY <3>13 DEF Effects, Tell, Fail
    <3>14. CASE Cancel(a)
      BY <3>14 DEF Cancel, InFlight
    <3> QED BY <3>1, <3>2, <3>3, <3>4, <3>5, <3>6, <3>7, <3>8, <3>9, <3>10, <3>11,
       <3>12, <3>13, <3>14 DEF Step
  <2> QED BY <2>1, <2>2 DEF Admitted
<1> QED BY <1>1, <1>2

(* Past the insert the row is the attempt's own.                           *)
LEMMA RowIsOwnStep ==
    ASSUME IndInv, [Next]_vars
    PROVE  RowIsOwn'
<1> DEFINE Good(b) == 
        /\ early[b] => verdict[b] = "deny" /\ pc[b] \in {"write", "audit", "done"}
        /\ pc[b] \in {"audit", "receipt", "effects"} =>
               rowBy = b /\ rowVerdict = verdict[b]
        /\ pc[b] \in {"receipt", "effects"} =>
               b \in emitted /\ (CriticalDeny(b) => b \in audited)
        /\ pc[b] = "effects" /\ NeedsReceipt(b) => b \in receipts
<1> USE DEF IndInv
<1>1. CASE ~ \E a \in Attempts : Step(a)
  BY <1>1, Background, Grows DEF RowIsOwn, facts, NeedsReceipt, CriticalDeny
<1>2. ASSUME NEW a \in Attempts, Step(a)
      PROVE  RowIsOwn'
  <2>1. ASSUME NEW b \in Attempts, b # a
        PROVE  Good(b)'
    BY <1>2, <2>1, Frame, Grows, SentinelAssumption DEF RowIsOwn, NeedsReceipt, CriticalDeny,
       TypeOK
  <2>2. Good(a)'
    <3> USE <1>2, StepIsLive DEF TypeOK, RowIsOwn, facts, database, decision, trail,
       NeedsReceipt, CriticalDeny
    <3>1. ASSUME NEW r \in Requests, Admit(a, r)
          PROVE  Good(a)'
      BY <3>1 DEF Admit, Tell, Fail, Goto
    <3>2. CASE Lookup(a)
      BY <3>2 DEF Lookup, Tell, Fail, Goto
    <3>3. CASE Preflight(a)
      BY <3>3 DEF Preflight, Tell, Fail, Goto
    <3>4. CASE Replay(a)
      BY <3>4 DEF Replay, Tell
    <3>5. CASE Guard(a)
      BY <3>5 DEF Guard, EarlyDeny, Tell, Goto
    <3>6. CASE CacheHash(a)
      BY <3>6 DEF CacheHash, Goto
    <3>7. CASE Enforce(a)
      BY <3>7 DEF Enforce, EarlyDeny, Tell, Fail, Goto
    <3>8. CASE Metadata(a)
      BY <3>8 DEF Metadata, EarlyDeny, Tell, Fail, Goto
    <3>9. CASE Evaluate(a)
      BY <3>9 DEF Evaluate, Tell, Fail, Goto
    <3>10. CASE Write(a)
      BY <3>10 DEF Write, InsertDecision, WriteFails, Tell, Fail, Goto
    <3>11. CASE Audit(a)
      BY <3>11 DEF Audit, EmitAudit, WriteFails, Tell, Fail, Goto
    <3>12. CASE Receipt(a)
      <4>1. CASE Goto(a, "effects")
        <5>1. pc[a] = "receipt" /\ pc' = [pc EXCEPT ![a] = "effects"]
          BY <3>12, <4>1 DEF Receipt, Goto
        <5>2. UNCHANGED <<early, verdict, rowBy, rowVerdict, emitted, audited>>
              /\ (NeedsReceipt(a) <=> NeedsReceipt(a)') /\ (CriticalDeny(a) <=> CriticalDeny(a)')
          BY <3>12, <4>1 DEF Receipt, Goto
        <5>3. NeedsReceipt(a) => a \in receipts'
          BY <3>12, <4>1 DEF Receipt, DurableReceipt, Fail, Tell, Goto
        <5> HIDE DEF NeedsReceipt, CriticalDeny
        <5> QED BY <5>1, <5>2, <5>3
      <4>2. CASE Fail(a)
        BY <3>12, <4>2 DEF Receipt, Fail, Tell
      <4> QED BY <3>12, <4>1, <4>2 DEF Receipt, DurableReceipt
    <3>13. CASE Effects(a)
      BY <3>13 DEF Effects, Tell, Fail
    <3>14. CASE Cancel(a)
      BY <3>14 DEF Cancel
    <3> QED BY <3>1, <3>2, <3>3, <3>4, <3>5, <3>6, <3>7, <3>8, <3>9, <3>10, <3>11,
       <3>12, <3>13, <3>14 DEF Step
  <2> QED BY <2>1, <2>2 DEF RowIsOwn
<1> QED BY <1>1, <1>2

(* Who answers from the row has one to answer from.                        *)
LEMMA RowIsKnownStep ==
    ASSUME IndInv, [Next]_vars
    PROVE  RowIsKnown'
<1> DEFINE Good(b) == 
        /\ seen[b] = "row" \/ pc[b] = "replay" => rowBy # NoAttempt
        /\ answer[b].kind \in {"decided", "early", "replayed"} =>
               rowBy # NoAttempt /\ answer[b].verdict = rowVerdict
<1> USE DEF IndInv
<1>1. CASE ~ \E a \in Attempts : Step(a)
  BY <1>1, Background, Grows DEF RowIsKnown, facts
<1>2. ASSUME NEW a \in Attempts, Step(a)
      PROVE  RowIsKnown'
  <2>1. ASSUME NEW b \in Attempts, b # a
        PROVE  Good(b)'
    BY <1>2, <2>1, Frame, Grows DEF RowIsKnown, TypeOK
  <2>2. Good(a)'
    <3> USE <1>2, StepIsLive DEF TypeOK, RowIsKnown, RowIsOwn, facts, database, decision
    <3>1. ASSUME NEW r \in Requests, Admit(a, r)
          PROVE  Good(a)'
      BY <3>1 DEF Admit, Tell, Fail, Goto
    <3>2. CASE Lookup(a)
      BY <3>2 DEF Lookup, Tell, Fail, Goto
    <3>3. CASE Preflight(a)
      BY <3>3 DEF Preflight, Tell, Fail, Goto
    <3>4. CASE Replay(a)
      BY <3>4 DEF Replay, Tell
    <3>5. CASE Guard(a)
      BY <3>5 DEF Guard, EarlyDeny, Tell, Goto
    <3>6. CASE CacheHash(a)
      BY <3>6 DEF CacheHash, Goto
    <3>7. CASE Enforce(a)
      BY <3>7 DEF Enforce, EarlyDeny, Tell, Fail, Goto
    <3>8. CASE Metadata(a)
      BY <3>8 DEF Metadata, EarlyDeny, Tell, Fail, Goto
    <3>9. CASE Evaluate(a)
      BY <3>9 DEF Evaluate, Tell, Fail, Goto
    <3>10. CASE Write(a)
      BY <3>10 DEF Write, InsertDecision, WriteFails, Tell, Fail, Goto
    <3>11. CASE Audit(a)
      BY <3>11, SentinelAssumption DEF Audit, EmitAudit, WriteFails, Tell, Fail, Goto
    <3>12. CASE Receipt(a)
      BY <3>12 DEF Receipt, DurableReceipt, Tell, Fail, Goto
    <3>13. CASE Effects(a)
      BY <3>13, SentinelAssumption DEF Effects, Tell, Fail
    <3>14. CASE Cancel(a)
      BY <3>14 DEF Cancel
    <3> QED BY <3>1, <3>2, <3>3, <3>4, <3>5, <3>6, <3>7, <3>8, <3>9, <3>10, <3>11,
       <3>12, <3>13, <3>14 DEF Step
  <2> QED BY <2>1, <2>2 DEF RowIsKnown
<1> QED BY <1>1, <1>2

(* A decided attempt has its evidence behind it.                           *)
LEMMA EvidenceStep ==
    ASSUME IndInv, [Next]_vars
    PROVE  EvidenceBeforeAnswer'
<1> DEFINE Good(b) == 
        /\ answer[b].kind \in {"decided", "early"} =>
               /\ rowBy = b
               /\ rowVerdict = answer[b].verdict
               /\ b \in emitted
               /\ CriticalDeny(b) => b \in audited
        /\ answer[b].kind = "decided" =>
               /\ NeedsReceipt(b) => b \in receipts
               /\ answer[b].verdict = "require_approval" => b \in approvals
<1> USE DEF IndInv
<1>1. CASE ~ \E a \in Attempts : Step(a)
  BY <1>1, Background, Grows DEF EvidenceBeforeAnswer, facts, NeedsReceipt, CriticalDeny
<1>2. ASSUME NEW a \in Attempts, Step(a)
      PROVE  EvidenceBeforeAnswer'
  <2>1. ASSUME NEW b \in Attempts, b # a
        PROVE  Good(b)'
    BY <1>2, <2>1, Frame, Grows, SentinelAssumption DEF EvidenceBeforeAnswer,
       NeedsReceipt, CriticalDeny, TypeOK
  <2>2. Good(a)'
    <3> USE <1>2, StepIsLive DEF TypeOK, EvidenceBeforeAnswer, RowIsOwn, facts,
       database, decision, trail, NeedsReceipt, CriticalDeny
    <3>1. ASSUME NEW r \in Requests, Admit(a, r)
          PROVE  Good(a)'
      BY <3>1 DEF Admit, Tell, Fail, Goto
    <3>2. CASE Lookup(a)
      BY <3>2 DEF Lookup, Tell, Fail, Goto
    <3>3. CASE Preflight(a)
      BY <3>3 DEF Preflight, Tell, Fail, Goto
    <3>4. CASE Replay(a)
      BY <3>4 DEF Replay, Tell
    <3>5. CASE Guard(a)
      BY <3>5 DEF Guard, EarlyDeny, Tell, Goto
    <3>6. CASE CacheHash(a)
      BY <3>6 DEF CacheHash, Goto
    <3>7. CASE Enforce(a)
      BY <3>7 DEF Enforce, EarlyDeny, Tell, Fail, Goto
    <3>8. CASE Metadata(a)
      BY <3>8 DEF Metadata, EarlyDeny, Tell, Fail, Goto
    <3>9. CASE Evaluate(a)
      BY <3>9 DEF Evaluate, Tell, Fail, Goto
    <3>10. CASE Write(a)
      BY <3>10 DEF Write, InsertDecision, WriteFails, Tell, Fail, Goto
    <3>11. CASE Audit(a)
      BY <3>11 DEF Audit, EmitAudit, WriteFails, Tell, Fail, Goto
    <3>12. CASE Receipt(a)
      BY <3>12 DEF Receipt, DurableReceipt, Tell, Fail, Goto
    <3>13. CASE Effects(a)
      BY <3>13 DEF Effects, Tell, Fail
    <3>14. CASE Cancel(a)
      BY <3>14 DEF Cancel
    <3> QED BY <3>1, <3>2, <3>3, <3>4, <3>5, <3>6, <3>7, <3>8, <3>9, <3>10, <3>11,
       <3>12, <3>13, <3>14 DEF Step
  <2> QED BY <2>1, <2>2 DEF EvidenceBeforeAnswer
<1> QED BY <1>1, <1>2

(* A high-risk call that may do something has its decision row.            *)
LEMMA RecordedStep ==
    ASSUME IndInv, [Next]_vars
    PROVE  HighRiskIsRecorded'
<1> DEFINE Good(b) == 
        ( /\ answer[b].kind \in {"unrecorded", "decided", "replayed"}
          /\ HighRisk(b)
          /\ answer[b].verdict # "deny" )
            => rowBy # NoAttempt /\ rowVerdict = answer[b].verdict
<1> USE DEF IndInv
<1>1. CASE ~ \E a \in Attempts : Step(a)
  BY <1>1, Background, Grows DEF HighRiskIsRecorded, facts, HighRisk
<1>2. ASSUME NEW a \in Attempts, Step(a)
      PROVE  HighRiskIsRecorded'
  <2>1. ASSUME NEW b \in Attempts, b # a
        PROVE  Good(b)'
    BY <1>2, <2>1, Frame, Grows DEF HighRiskIsRecorded, HighRisk, TypeOK
  <2>2. Good(a)'
    <3> USE <1>2, StepIsLive DEF TypeOK, HighRiskIsRecorded, RowIsOwn, RowIsKnown, facts,
       database, decision, HighRisk
    <3>1. ASSUME NEW r \in Requests, Admit(a, r)
          PROVE  Good(a)'
      BY <3>1 DEF Admit, Tell, Fail, Goto
    <3>2. CASE Lookup(a)
      BY <3>2 DEF Lookup, Tell, Fail, Goto
    <3>3. CASE Preflight(a)
      BY <3>3 DEF Preflight, Tell, Fail, Goto
    <3>4. CASE Replay(a)
      BY <3>4 DEF Replay, Tell
    <3>5. CASE Guard(a)
      BY <3>5 DEF Guard, EarlyDeny, Tell, Goto
    <3>6. CASE CacheHash(a)
      BY <3>6 DEF CacheHash, Goto
    <3>7. CASE Enforce(a)
      BY <3>7 DEF Enforce, EarlyDeny, Tell, Fail, Goto
    <3>8. CASE Metadata(a)
      BY <3>8 DEF Metadata, EarlyDeny, Tell, Fail, Goto
    <3>9. CASE Evaluate(a)
      BY <3>9 DEF Evaluate, Tell, Fail, Goto
    <3>10. CASE Write(a)
      BY <3>10 DEF Write, InsertDecision, WriteFails, Tell, Fail, Goto
    <3>11. CASE Audit(a)
      BY <3>11 DEF Audit, EmitAudit, WriteFails, Tell, Fail, Goto
    <3>12. CASE Receipt(a)
      BY <3>12 DEF Receipt, DurableReceipt, Tell, Fail, Goto
    <3>13. CASE Effects(a)
      BY <3>13, SentinelAssumption DEF Effects, Tell, Fail
    <3>14. CASE Cancel(a)
      BY <3>14 DEF Cancel
    <3> QED BY <3>1, <3>2, <3>3, <3>4, <3>5, <3>6, <3>7, <3>8, <3>9, <3>10, <3>11,
       <3>12, <3>13, <3>14 DEF Step
  <2> QED BY <2>1, <2>2 DEF HighRiskIsRecorded
<1> QED BY <1>1, <1>2

(* A required approval is a protected decision.                            *)
LEMMA ApprovalNeedsReceipt ==
    ASSUME NEW a \in Attempts, verdict[a] = "require_approval"
    PROVE  NeedsReceipt(a)
BY DEF NeedsReceipt, decision_requires_durable_receipt

(* The key admits one original.                                            *)
LEMMA OneOriginalStep ==
    ASSUME IndInv, [Next]_vars
    PROVE  OneOriginal'
<1> USE DEF IndInv, OneOriginal, database, decision, trail, process
<1>1. ASSUME NEW a \in Attempts, Write(a)
      PROVE  OneOriginal'
  BY <1>1, SentinelAssumption DEF Write, InsertDecision, TypeOK
<1>2. ASSUME NEW a \in Attempts, Audit(a)
      PROVE  OneOriginal'
  BY <1>2 DEF Audit, EmitAudit, RowIsOwn
<1>3. ASSUME NEW a \in Attempts, Receipt(a)
      PROVE  OneOriginal'
  BY <1>3 DEF Receipt, DurableReceipt, RowIsOwn
<1>4. ASSUME NEW a \in Attempts, Effects(a)
      PROVE  OneOriginal'
  BY <1>4, ApprovalNeedsReceipt DEF Effects, RowIsOwn
<1>5. ASSUME NEW a \in Attempts, Step(a), ~(Write(a) \/ Audit(a) \/ Receipt(a) \/ Effects(a))
      PROVE  OneOriginal'
  BY <1>5 DEF Step, Admit, Lookup, Preflight, Replay, Guard, CacheHash, Enforce,
              Metadata, Evaluate, Cancel
<1>6. CASE ~ \E a \in Attempts : Step(a)
  BY <1>6, Background, Grows
<1> QED BY <1>1, <1>2, <1>3, <1>4, <1>5, <1>6 DEF Step

-----------------------------------------------------------------------------
(* The theorems.                                                           *)

(* The invariant holds at the start.                                       *)
LEMMA InitIndInv ==
    ASSUME Init
    PROVE  IndInv
<1> USE DEF Init
<1>1. Silence \in [kind: Kinds, verdict: Verdicts \cup {"none", "deny"}, approval: BOOLEAN]
  BY DEF Silence, Kinds
<1>2. TypeOK
  BY <1>1, CrashAssumption, TimeAssumption DEF TypeOK, Statuses, Labels, Levels
<1>3. Answered /\ Admitted /\ OneOriginal
  BY DEF Answered, Admitted, OneOriginal, Silence
<1>4. RowIsOwn /\ RowIsKnown /\ EvidenceBeforeAnswer /\ HighRiskIsRecorded
  BY DEF RowIsOwn, RowIsKnown, EvidenceBeforeAnswer, HighRiskIsRecorded, Silence
<1> QED BY <1>2, <1>3, <1>4 DEF IndInv

(* Every step of the pipeline or around it keeps the invariant.            *)
LEMMA NextIndInv ==
    ASSUME IndInv, [Next]_vars
    PROVE  IndInv'
BY TypeStep, AnsweredStep, AdmittedStep, RowIsOwnStep, RowIsKnownStep,
   OneOriginalStep, EvidenceStep, RecordedStep DEF IndInv

(* IndInv is an invariant of the pipeline.                                 *)
THEOREM PipelineInvariant == Spec => []IndInv
<1>1. Init => IndInv
  BY InitIndInv
<1>2. IndInv /\ [Next]_vars => IndInv'
  BY NextIndInv
<1> QED BY <1>1, <1>2, PTL DEF Spec

(* Every variable keeps its type.                                          *)
THEOREM PipelineTypes == Spec => []TypeOK
<1>1. IndInv => TypeOK
  BY DEF IndInv
<1> QED BY <1>1, PipelineInvariant, PTL

(* However many attempts race past the idempotency lookup, one is the      *)
(* original: the unique index on decisions orders everything after it.     *)
THEOREM KeyHasOneOriginal == Spec => []OneOriginal
<1>1. IndInv => OneOriginal
  BY DEF IndInv
<1> QED BY <1>1, PipelineInvariant, PTL

(* Row, protected receipt, approval and the audit event of a critical      *)
(* denial are stored before the client learns of a decision; any other     *)
(* audit event has been emitted by then.                                   *)
THEOREM EvidenceComesFirst == Spec => []EvidenceBeforeAnswer
<1>1. IndInv => EvidenceBeforeAnswer
  BY DEF IndInv
<1> QED BY <1>1, PipelineInvariant, PTL

(* A high-risk call fails closed on its decision row: no failed write,     *)
(* replay or crash lets one through that no stored row allows.             *)
THEOREM AuditFailsClosed == Spec => []HighRiskIsRecorded
<1>1. IndInv => HighRiskIsRecorded
  BY DEF IndInv
<1> QED BY <1>1, PipelineInvariant, PTL

(* Retries of one key are told what the original was told.                 *)
THEOREM RetriesAgree == Spec => []RowAnswersAgree
<1>1. IndInv => RowAnswersAgree
  BY DEF IndInv, RowIsKnown, RowAnswersAgree
<1> QED BY <1>1, PipelineInvariant, PTL

-----------------------------------------------------------------------------
(* Replay nonces in the database.                                          *)

(* Only Preflight lets an attempt past the replay check, one at a time,    *)
(* and it records the attempt's nonce.                                     *)
LEMMA PassingRecords ==
    ASSUME TypeOK, [Next]_vars
    PROVE  \/ UNCHANGED replays
           \/ \E a \in Attempts :
                 /\ Preflight(a)
                 /\ passed' = passed \cup {a}
                 /\ \/ req[a].nonce = NoNonce /\ UNCHANGED seenUntil
                    \/ req[a].nonce # NoNonce /\ RecordNonce(a, req[a].nonce)
<1>1. CASE ~ \E a \in Attempts : Step(a)
  BY <1>1, Background
<1>2. ASSUME NEW a \in Attempts, Step(a), ~Preflight(a)
      PROVE  UNCHANGED replays
  BY <1>2 DEF Step, Admit, Lookup, Replay, Guard, CacheHash, Enforce, Metadata,
     Evaluate, Write, Audit, Receipt, Effects, Cancel, database, replays
<1>3. ASSUME NEW a \in Attempts, Preflight(a)
      PROVE  \/ UNCHANGED replays
             \/ /\ passed' = passed \cup {a}
                /\ \/ req[a].nonce = NoNonce /\ UNCHANGED seenUntil
                   \/ req[a].nonce # NoNonce /\ RecordNonce(a, req[a].nonce)
  BY <1>3 DEF Preflight
<1> QED BY <1>1, <1>2, <1>3

(* An attempt past the check neither returns to it nor changes its request *)
(* or its time of receipt, and time does not go back.                     *)
LEMMA PassedStays ==
    ASSUME IndInv, NonceIsSpent, [Next]_vars, NEW b \in passed
    PROVE  /\ req'[b] = req[b] /\ received'[b] = received[b]
           /\ pc'[b] \notin {"idle", "lookup", "nonce"}
           /\ time' >= time
<1> USE DEF IndInv
<1>0. b \in Attempts /\ pc[b] \notin {"idle", "lookup", "nonce"}
  BY DEF TypeOK, NonceIsSpent
<1>1. CASE ~ \E a \in Attempts : Step(a)
  BY <1>0, <1>1, Background DEF facts
<1>2. ASSUME NEW a \in Attempts, Step(a)
      PROVE  time' = time
  BY <1>2 DEF Step, Admit, Lookup, Preflight, Replay, Guard, CacheHash, Enforce, Metadata,
     Evaluate, Write, Audit, Receipt, Effects, Cancel, process
<1>3. ASSUME NEW a \in Attempts, Step(a), b # a
      PROVE  req'[b] = req[b] /\ received'[b] = received[b] /\ pc'[b] = pc[b]
  BY <1>0, <1>3, Frame
<1>4. ASSUME Step(b)
      PROVE  /\ req'[b] = req[b] /\ received'[b] = received[b]
             /\ pc'[b] \notin {"idle", "lookup", "nonce"}
  <2>1. ~Lookup(b) /\ ~Preflight(b) /\ ~ \E r \in Requests : Admit(b, r)
    BY <1>0 DEF Lookup, Preflight, Admit
  <2>2. req' = req /\ received' = received
    BY <1>4, <2>1 DEF Step, Replay, Guard, CacheHash, Enforce, Metadata, Evaluate, Write,
       Audit, Receipt, Effects, Cancel, facts
  <2>3. pc'[b] \in Labels \ {"idle", "lookup", "nonce"}
    BY <1>0, <1>4, <2>1 DEF Step, Replay, Guard, EarlyDeny, CacheHash, Enforce, Metadata,
       Evaluate, Write, WriteFails, Audit, Receipt, DurableReceipt, Effects, Cancel, Tell,
       Fail, Goto, TypeOK, Labels
  <2> QED BY <2>2, <2>3
<1>5. CASE \E a \in Attempts : Step(a)
  <2>1. time' = time /\ time \in Nat
    BY <1>2, <1>5 DEF TypeOK
  <2>2. CASE Step(b)
    BY <1>4, <2>1, <2>2
  <2>3. CASE \E a \in Attempts : Step(a) /\ b # a
    BY <1>0, <1>3, <2>1, <2>3
  <2> QED BY <1>5, <2>2, <2>3
<1> QED BY <1>1, <1>5

(* With AEGIS_REPLAY_STORE=db an attempt passes the replay check with a    *)
(* used nonce only Window after every earlier one was received, over any   *)
(* number of restarts and however long statements wait.                    *)
THEOREM NonceIsSpacedOut ==
    ASSUME DurableNonces
    PROVE  Spec => NonceOnce
<1> DEFINE NonceInv == IndInv /\ NonceIsSpent
<1> DEFINE Spaced ==
        \A a, b \in Attempts :
          ( /\ a \in passed' \ passed /\ b \in passed
            /\ req[a].nonce # NoNonce /\ req[a].nonce = req[b].nonce )
              => time >= received[b] + Window
<1>1. Init => NonceInv
  BY InitIndInv DEF Init, NonceIsSpent
<1>2. ASSUME NonceInv, [Next]_vars
      PROVE  NonceInv'
  <2>1. IndInv'
    BY <1>2, NextIndInv
  <2>2. TypeOK /\ TypeOK'
    BY <1>2, <2>1 DEF IndInv
  <2>3. ASSUME NEW b \in passed
        PROVE  /\ pc'[b] \notin {"idle", "lookup", "nonce"}
               /\ req'[b].nonce # NoNonce =>
                      \/ seenUntil'[req'[b].nonce] >= received'[b] + Window
                      \/ time' >= received'[b] + Window
    <3>1. /\ req'[b] = req[b] /\ received'[b] = received[b]
          /\ pc'[b] \notin {"idle", "lookup", "nonce"} /\ time' >= time
      BY <1>2, <2>3, PassedStays
    <3>2. req[b].nonce # NoNonce =>
              \/ seenUntil[req[b].nonce] >= received[b] + Window
              \/ time >= received[b] + Window
      BY <1>2, <2>3 DEF NonceIsSpent
    <3>3. received[b] \in Nat /\ time \in Nat /\ time' \in Nat
      BY <2>2, <2>3 DEF TypeOK
    <3>4. CASE UNCHANGED seenUntil
      BY <3>1, <3>2, <3>3, <3>4, TimeAssumption
    <3>5. ASSUME NEW a \in Attempts, RecordNonce(a, req[a].nonce),
                 req[b].nonce # NoNonce
          PROVE  \/ seenUntil'[req[b].nonce] >= received[b] + Window
                 \/ time' >= received[b] + Window
      <4>1. CASE req[a].nonce = req[b].nonce
        <5>1. seenUntil[req[b].nonce] <= time
          BY <3>5, <4>1 DEF RecordNonce
        <5>2. seenUntil[req[b].nonce] \in Nat
          BY <1>2, <2>2, <2>3, <3>5, RequestType DEF TypeOK, IndInv, NonceIsSpent, Admitted
        <5> QED BY <3>1, <3>2, <3>3, <3>5, <5>1, <5>2, TimeAssumption
      <4>2. CASE req[a].nonce # req[b].nonce
        <5>1. seenUntil'[req[b].nonce] = seenUntil[req[b].nonce]
          BY <2>2, <3>5, <4>2 DEF RecordNonce, TypeOK
        <5> QED BY <3>1, <3>2, <3>3, <3>5, <5>1, TimeAssumption
      <4> QED BY <4>1, <4>2
    <3> QED BY <1>2, <2>2, <3>1, <3>4, <3>5, PassingRecords DEF replays
  <2>4. ASSUME NEW b \in passed', b \notin passed
        PROVE  /\ pc'[b] \notin {"idle", "lookup", "nonce"}
               /\ req'[b].nonce # NoNonce =>
                      seenUntil'[req'[b].nonce] >= received'[b] + Window
    <3>1. /\ b \in Attempts /\ Preflight(b)
          /\ req[b].nonce # NoNonce => RecordNonce(b, req[b].nonce)
      BY <1>2, <2>2, <2>4, PassingRecords DEF replays
    <3>2. req'[b] = req[b] /\ received'[b] = received[b]
      BY <3>1 DEF Preflight, facts
    <3>3. pc'[b] \notin {"idle", "lookup", "nonce"}
      BY <2>2, <2>4, <3>1 DEF Preflight, Fail, Tell, Goto, replays, TypeOK
    <3>4. ASSUME req[b].nonce # NoNonce
          PROVE  seenUntil'[req[b].nonce] = received[b] + Window
      <4>1. req[b].nonce \in Nonces
        BY <1>2, <3>1, <3>4, RequestType DEF Preflight, IndInv, Admitted
      <4> QED BY <2>2, <3>1, <3>4, <4>1 DEF RecordNonce, TypeOK
    <3>5. received[b] + Window \in Nat
      BY <2>2, <3>1, TimeAssumption DEF TypeOK
    <3> QED BY <3>2, <3>3, <3>4, <3>5
  <2> QED BY <2>1, <2>3, <2>4 DEF NonceIsSpent
<1>3. ASSUME NonceInv, [Next]_vars
      PROVE  Spaced
  <2> SUFFICES ASSUME NEW a \in Attempts, NEW b \in Attempts,
                      a \in passed' \ passed, b \in passed,
                      req[a].nonce # NoNonce, req[a].nonce = req[b].nonce
               PROVE  time >= received[b] + Window
    OBVIOUS
  <2>1. TypeOK
    BY <1>3 DEF IndInv
  <2>2. Preflight(a) /\ RecordNonce(a, req[a].nonce)
    BY <1>3, <2>1, PassingRecords DEF replays
  <2>3. req[a].nonce \in Nonces
    BY <1>3, <2>2, RequestType DEF Preflight, IndInv, Admitted
  <2>4. seenUntil[req[b].nonce] \in Nat /\ seenUntil[req[b].nonce] <= time
    BY <2>1, <2>2, <2>3 DEF RecordNonce, TypeOK
  <2>5. \/ seenUntil[req[b].nonce] >= received[b] + Window
        \/ time >= received[b] + Window
    BY <1>3 DEF NonceIsSpent
  <2>6. time \in Nat /\ received[b] \in Nat
    BY <2>1 DEF TypeOK
  <2> QED BY <2>4, <2>5, <2>6, TimeAssumption
<1>4. NonceInv /\ [Next]_vars => [Spaced]_vars
  BY <1>3
<1> QED BY <1>1, <1>2, <1>4, PTL DEF Spec, NonceOnce


-----------------------------------------------------------------------------
(* The approval row *)

USE DEF Decided, row, review, consume, history

\* The hash that consume and approve bind is always a hash.
LEMMA EffectiveType == ApprovalTypeOK => Effective \in Hashes
  BY OriginalAssumption DEF ApprovalTypeOK, Effective

\* A row as create_approval writes it satisfies the inductive invariant.
LEMMA InitInv == ApprovalInit => ApprovalInv
<1> SUFFICES ASSUME ApprovalInit PROVE ApprovalInv
  OBVIOUS
<1> USE OriginalAssumption, NullAssumption, CallersAssumption
<1>1. ApprovalTypeOK
  BY DEF ApprovalInit, ApprovalTypeOK, ReviewRequests, NoReview, TamperTags
<1>2. BoundStays /\ CalledForTheBound /\ RefusalIsDeserved
  BY DEF ApprovalInit, BoundStays, CalledForTheBound, RefusalIsDeserved
<1>3. SpentByOne
  BY DEF ApprovalInit, SpentByOne
<1>4. OneDecider /\ OneVerdict
  BY DEF ApprovalInit, OneDecider, OneVerdict, Deciding
<1> QED
  BY <1>1, <1>2, <1>3, <1>4 DEF ApprovalInv

\* What the request variables are once a handler has answered or gone on.
RequestTyped ==
    /\ rpc \in [Reviewers -> {"idle", "viewing", "update", "audit", "conflict"}]
    /\ request \in [Reviewers -> ReviewRequests]
    /\ viewed \in [Reviewers -> Hashes \cup {NULL}]
    /\ tampers \subseteq TamperTags

LEMMA AnswerTyped ==
  ASSUME ApprovalTypeOK, NEW r \in Reviewers, Answer(r), tampers' \subseteq TamperTags
  PROVE  RequestTyped'
  BY OriginalAssumption DEF ApprovalTypeOK, RequestTyped, Answer, NoReview, ReviewRequests, TamperTags

LEMMA ProceedTyped ==
  ASSUME ApprovalTypeOK, NEW r \in Reviewers, NEW h \in Hashes,
         NEW k \in {"approve", "reject", "edit"}, Proceed(r, k, h)
  PROVE  RequestTyped'
  BY DEF ApprovalTypeOK, RequestTyped, Proceed, ReviewRequests

\* Every handler statement keeps the columns and the program counters typed.
LEMMA ApprovalTypeStep == ApprovalTypeOK /\ OneDecider /\ [ApprovalNext]_approvalVars => ApprovalTypeOK'
<1> SUFFICES ASSUME ApprovalTypeOK /\ OneDecider, [ApprovalNext]_approvalVars PROVE ApprovalTypeOK'
  OBVIOUS
<1> USE OriginalAssumption, NullAssumption, WantAssumption, CallersAssumption DEF ApprovalTypeOK, OneDecider, ReviewRequests, TamperTags, Deciding
<1>1. ASSUME NEW r \in Reviewers, View(r) PROVE ApprovalTypeOK'
  BY <1>1 DEF View, Displayed, Effective
<1>2. ASSUME NEW r \in Reviewers, RequestApprove(r) PROVE ApprovalTypeOK'
  <2>1. RequestTyped'
    <3>1. CASE ~present \/ status # "created"
      BY <1>2, <3>1, AnswerTyped DEF RequestApprove, Refuse
    <3>2. CASE present /\ status = "created" /\ IsExpired
      <4>1. Answer(r) /\ tampers' \subseteq TamperTags
        BY <1>2, <3>2 DEF RequestApprove, TamperReceipt
      <4> QED
        BY <4>1, AnswerTyped
    <3>3. CASE present /\ status = "created" /\ ~IsExpired
      BY <1>2, <3>3, ProceedTyped DEF RequestApprove
    <3> QED
      BY <3>1, <3>2, <3>3
  <2> QED
    BY <1>2, <2>1 DEF RequestApprove, RequestTyped
<1>3. ASSUME NEW r \in Reviewers, RequestReject(r) PROVE ApprovalTypeOK'
  <2>1. RequestTyped'
    <3>1. CASE ~present
      BY <1>3, <3>1, AnswerTyped DEF RequestReject, Refuse
    <3>2. CASE ~(~present)
      BY <1>3, <3>2, ProceedTyped DEF RequestReject
    <3> QED
      BY <3>1, <3>2
  <2> QED
    BY <1>3, <2>1 DEF RequestReject, RequestTyped
<1>4. ASSUME NEW r \in Reviewers, NEW h \in Hashes, RequestEdit(r, h) PROVE ApprovalTypeOK'
  <2>1. RequestTyped'
    <3>1. CASE ~present \/ status # "created"
      BY <1>4, <3>1, AnswerTyped DEF RequestEdit, Refuse
    <3>2. CASE ~(~present \/ status # "created")
      BY <1>4, <3>2, ProceedTyped DEF RequestEdit
    <3> QED
      BY <3>1, <3>2
  <2> QED
    BY <1>4, <2>1 DEF RequestEdit, RequestTyped
<1>5. ASSUME NEW r \in Reviewers, Approve(r) PROVE ApprovalTypeOK'
  BY <1>5 DEF Approve, UpdateStatus, Verdict, Effective
<1>6. ASSUME NEW r \in Reviewers, Reject(r) PROVE ApprovalTypeOK'
  BY <1>6 DEF Reject, UpdateStatus, Verdict, Transitionable
<1>7. ASSUME NEW r \in Reviewers, Edit(r) PROVE ApprovalTypeOK'
  BY <1>7 DEF Edit
<1>8. ASSUME NEW r \in Reviewers, Confirm(r) PROVE ApprovalTypeOK'
  BY <1>8 DEF Confirm, Answer, NoReview, Verdict
<1>9. ASSUME NEW r \in Reviewers, ConfirmEdit(r) PROVE ApprovalTypeOK'
  BY <1>9 DEF ConfirmEdit, Answer, NoReview
<1>10. ASSUME NEW r \in Reviewers, Conflict(r) PROVE ApprovalTypeOK'
  BY <1>10 DEF Conflict, Answer, NoReview, TamperReceipt, ExpiredTag
<1>11. ASSUME NEW r \in Reviewers, Abandon(r) PROVE ApprovalTypeOK'
  BY <1>11 DEF Abandon, Answer, NoReview
<1>12. ASSUME NEW e \in Executors, Poll(e) PROVE ApprovalTypeOK'
  BY <1>12 DEF Poll
<1>13. ASSUME NEW e \in Executors, CallConsume(e) PROVE ApprovalTypeOK'
  BY <1>13 DEF CallConsume
<1>14. ASSUME NEW e \in Executors, ConsumeUpdate(e) PROVE ApprovalTypeOK'
  BY <1>14 DEF ConsumeUpdate
<1>15. ASSUME NEW e \in Executors, Reread(e) PROVE ApprovalTypeOK'
  BY <1>15 DEF Reread, Effective
<1>16. ASSUME NEW e \in Executors, Diagnose(e) PROVE ApprovalTypeOK'
  BY <1>16 DEF Diagnose, TamperReceipt
<1>17. ASSUME NEW e \in Executors, ConsumeLost(e) PROVE ApprovalTypeOK'
  BY <1>17 DEF ConsumeLost
<1>18. ASSUME NEW e \in Executors, Receive(e) PROVE ApprovalTypeOK'
  BY <1>18 DEF Receive
<1>19. ASSUME NEW e \in Executors, GiveUp(e) PROVE ApprovalTypeOK'
  BY <1>19 DEF GiveUp
<1>20. ASSUME Tick PROVE ApprovalTypeOK'
  BY <1>20 DEF Tick
<1>22. ASSUME Sweep PROVE ApprovalTypeOK'
  BY <1>22 DEF Sweep
<1>23. CASE UNCHANGED approvalVars
  BY <1>23 DEF approvalVars
<1> QED
  BY <1>1, <1>2, <1>3, <1>4, <1>5, <1>6, <1>7, <1>8, <1>9, <1>10, <1>11, <1>12, <1>13, <1>14, <1>15, <1>16, <1>17, <1>18, <1>19, <1>20, <1>22, <1>23 DEF ApprovalNext, ReviewerNext, ExecutorNext

\* The four conjuncts about the row and its consumers.
ConsumeInv == BoundStays /\ SpentByOne /\ CalledForTheBound /\ RefusalIsDeserved

\* Apart from the two decisions and the edit, no reviewer's step touches what
\* those conjuncts speak of.
LEMMA QuietStep ==
  ASSUME [ApprovalNext]_approvalVars
  PROVE  \/ \E r \in Reviewers : Approve(r) \/ Reject(r) \/ Edit(r)
         \/ \E e \in Executors : ExecutorNext(e)
         \/ Tick \/ Sweep
         \/ UNCHANGED <<status, effective, consumer, present, clock, grant, claims, srv, reply, cli>>
<1>1. ASSUME NEW r \in Reviewers, ReviewerNext(r), ~Approve(r), ~Reject(r), ~Edit(r)
      PROVE UNCHANGED <<status, effective, consumer, present, clock, grant, claims, srv, reply, cli>>
  BY <1>1 DEF ReviewerNext, View, RequestApprove, RequestReject, RequestEdit, Confirm, ConfirmEdit,
              Conflict, Abandon
<1>2. UNCHANGED approvalVars =>
        UNCHANGED <<status, effective, consumer, present, clock, grant, claims, srv, reply, cli>>
  BY DEF approvalVars
<1> QED
  BY <1>1, <1>2 DEF ApprovalNext

\* No statement of any handler lets a second caller spend the row, moves the
\* bound action under a consumer, or spends the row on a wrong hash.
LEMMA ConsumeStep == ApprovalTypeOK /\ ConsumeInv /\ [ApprovalNext]_approvalVars => ConsumeInv'
<1> SUFFICES ASSUME ApprovalTypeOK, ConsumeInv, [ApprovalNext]_approvalVars PROVE ConsumeInv'
  OBVIOUS
<1> USE OriginalAssumption, NullAssumption, WantAssumption, CallersAssumption
    DEF ConsumeInv, BoundStays, SpentByOne, CalledForTheBound, RefusalIsDeserved
<1>1. ASSUME NEW r \in Reviewers, Approve(r) PROVE ConsumeInv'
  BY <1>1 DEF Approve, UpdateStatus, Verdict, Transitionable, Effective, Open, ApprovalTypeOK
<1>2. ASSUME NEW r \in Reviewers, Reject(r) PROVE ConsumeInv'
  BY <1>2 DEF Reject, UpdateStatus, Verdict, Transitionable, Effective, Open, ApprovalTypeOK
<1>3. ASSUME NEW r \in Reviewers, Edit(r) PROVE ConsumeInv'
  BY <1>3 DEF Edit, Transitionable, Effective, Open, ApprovalTypeOK
<1>4. ASSUME NEW e \in Executors, Poll(e) PROVE ConsumeInv'
  BY <1>4 DEF Poll, Effective, Open, ApprovalTypeOK
<1>5. ASSUME NEW e \in Executors, CallConsume(e) PROVE ConsumeInv'
  BY <1>5 DEF CallConsume, Effective, Open, ApprovalTypeOK
<1>6. ASSUME NEW e \in Executors, ConsumeUpdate(e) PROVE ConsumeInv'
  BY <1>6 DEF ConsumeUpdate, Consumable, StillConsumable, Effective, Open, ApprovalTypeOK
<1>7. ASSUME NEW e \in Executors, Reread(e) PROVE ConsumeInv'
  BY <1>7 DEF Reread, Effective, Open, ApprovalTypeOK
<1>8. ASSUME NEW e \in Executors, Diagnose(e) PROVE ConsumeInv'
  BY <1>8 DEF Diagnose, Effective, Open, ApprovalTypeOK
<1>9. ASSUME NEW e \in Executors, ConsumeLost(e) PROVE ConsumeInv'
  BY <1>9 DEF ConsumeLost, Effective, Open, ApprovalTypeOK
<1>10. ASSUME NEW e \in Executors, Receive(e) PROVE ConsumeInv'
  BY <1>10 DEF Receive, Effective, Open, ApprovalTypeOK
<1>11. ASSUME NEW e \in Executors, GiveUp(e) PROVE ConsumeInv'
  BY <1>11 DEF GiveUp, Effective, Open, ApprovalTypeOK
<1>12. CASE Tick
  BY <1>12 DEF Tick, Effective, Open, ApprovalTypeOK
<1>13. CASE Sweep
  BY <1>13 DEF Sweep, Deletable, Effective, Open, ApprovalTypeOK
<1>14. CASE UNCHANGED <<status, effective, consumer, present, clock, grant, claims, srv, reply, cli>>
  BY <1>14 DEF Effective, Open
<1> QED
  BY QuietStep, <1>1, <1>2, <1>3, <1>4, <1>5, <1>6, <1>7, <1>8, <1>9, <1>10, <1>11, <1>12, <1>13, <1>14 DEF ExecutorNext

\* Executors, the clock and the sweep do not touch the reviewers' side.
LEMMA ReviewSideStep ==
  ASSUME [ApprovalNext]_approvalVars
  PROVE  \/ \E r \in Reviewers : ReviewerNext(r)
         \/ UNCHANGED <<status, rpc, request, told>>
<1>1. ASSUME NEW e \in Executors, ExecutorNext(e) PROVE UNCHANGED <<status, rpc, request, told>>
  BY <1>1 DEF ExecutorNext, Poll, CallConsume, ConsumeUpdate, Reread, Diagnose, ConsumeLost, Receive, GiveUp
<1>2. Tick \/ Sweep \/ UNCHANGED approvalVars => UNCHANGED <<status, rpc, request, told>>
  BY DEF Tick, Sweep, Deletable, approvalVars
<1> QED
  BY <1>1, <1>2 DEF ApprovalNext

\* However the statements of two reviewers interleave, one of them decides.
LEMMA VerdictStep == ApprovalTypeOK /\ OneDecider /\ OneVerdict /\ [ApprovalNext]_approvalVars => (OneDecider /\ OneVerdict)'
<1> SUFFICES ASSUME ApprovalTypeOK, OneDecider, OneVerdict, [ApprovalNext]_approvalVars PROVE (OneDecider /\ OneVerdict)'
  OBVIOUS
<1> USE OriginalAssumption DEF ApprovalTypeOK, OneDecider, OneVerdict, Deciding, Verdict
<1>1. ASSUME NEW r \in Reviewers, View(r)
      PROVE (OneDecider /\ OneVerdict)'
  BY <1>1 DEF View
<1>2. ASSUME NEW r \in Reviewers, RequestApprove(r)
      PROVE (OneDecider /\ OneVerdict)'
  BY <1>2 DEF RequestApprove, Refuse, Proceed, Answer, NoReview
<1>3. ASSUME NEW r \in Reviewers, RequestReject(r)
      PROVE (OneDecider /\ OneVerdict)'
  BY <1>3 DEF RequestReject, Refuse, Proceed, Answer, NoReview
<1>4. ASSUME NEW r \in Reviewers, NEW h \in Hashes, RequestEdit(r, h)
      PROVE (OneDecider /\ OneVerdict)'
  BY <1>4 DEF RequestEdit, Refuse, Proceed, Answer, NoReview
<1>5. ASSUME NEW r \in Reviewers, Approve(r)
      PROVE (OneDecider /\ OneVerdict)'
  BY <1>5 DEF Approve, UpdateStatus, Transitionable
<1>6. ASSUME NEW r \in Reviewers, Reject(r)
      PROVE (OneDecider /\ OneVerdict)'
  BY <1>6 DEF Reject, UpdateStatus, Transitionable
<1>7. ASSUME NEW r \in Reviewers, Edit(r)
      PROVE (OneDecider /\ OneVerdict)'
  BY <1>7 DEF Edit
<1>8. ASSUME NEW r \in Reviewers, Confirm(r)
      PROVE (OneDecider /\ OneVerdict)'
  BY <1>8 DEF Confirm, Answer, NoReview
<1>9. ASSUME NEW r \in Reviewers, ConfirmEdit(r)
      PROVE (OneDecider /\ OneVerdict)'
  BY <1>9 DEF ConfirmEdit, Answer, NoReview
<1>10. ASSUME NEW r \in Reviewers, Conflict(r)
      PROVE (OneDecider /\ OneVerdict)'
  BY <1>10 DEF Conflict, Answer, NoReview
<1>11. ASSUME NEW r \in Reviewers, Abandon(r)
      PROVE (OneDecider /\ OneVerdict)'
  BY <1>11 DEF Abandon, Answer, NoReview
<1>12. CASE UNCHANGED <<status, rpc, request, told>>
  BY <1>12
<1> QED
  BY ReviewSideStep, <1>1, <1>2, <1>3, <1>4, <1>5, <1>6, <1>7, <1>8, <1>9, <1>10, <1>11, <1>12 DEF ReviewerNext

-----------------------------------------------------------------------------
\* The inductive invariant holds of every behaviour.
THEOREM Inductive == ApprovalSpec => []ApprovalInv
<1>1. ApprovalInv /\ [ApprovalNext]_approvalVars => ApprovalInv'
  BY ApprovalTypeStep, ConsumeStep, VerdictStep DEF ApprovalInv, ConsumeInv
<1> QED
  BY InitInv, <1>1, PTL DEF ApprovalSpec

\* For any number of callers of the consume endpoint, polling or not, claiming
\* a hash or none, with lost answers and timeouts: one approval runs one action.
THEOREM SingleUse == ApprovalSpec => []ExecutedOnce
<1>1. ApprovalInv => ExecutedOnce
  BY DEF ApprovalInv, SpentByOne, ExecutedOnce, Granted
<1> QED
  BY Inductive, <1>1, PTL

\* The action that runs is the one in effect when the approve took effect.
THEOREM ApprovedThenExecuted == ApprovalSpec => []ExecutedIsApproved
<1>1. ApprovalInv => ExecutedIsApproved
  BY NullAssumption DEF ApprovalInv, SpentByOne, BoundStays, ExecutedIsApproved
<1> QED
  BY Inductive, <1>1, PTL

\* A wrong hash never spends an approval.
THEOREM MismatchDoesNotSpend == ApprovalSpec => []RefusalIsDeserved
  BY Inductive, PTL DEF ApprovalInv

\* Any number of reviewers, one verdict.
THEOREM SingleVerdict == ApprovalSpec => []OneVerdict
  BY Inductive, PTL DEF ApprovalInv

\* No handler changes a decided row's verdict or bound action, or un-spends it.
THEOREM DecisionStays == ApprovalSpec => DecisionIsFinal
<1>1. ApprovalInv /\ [ApprovalNext]_approvalVars =>
        [/\ status \in Decided => status' = status /\ effective' = effective
         /\ consumer # NULL => consumer' = consumer]_approvalVars
  <2> SUFFICES ASSUME ApprovalInv, [ApprovalNext]_approvalVars
               PROVE  /\ status \in Decided => status' = status /\ effective' = effective
                      /\ consumer # NULL => consumer' = consumer
    OBVIOUS
  <2>1. ASSUME NEW r \in Reviewers, Approve(r) \/ Reject(r) \/ Edit(r)
        PROVE  /\ status \in Decided => status' = status /\ effective' = effective
               /\ consumer' = consumer
    BY <2>1 DEF Approve, Reject, Edit, UpdateStatus, Transitionable
  <2>2. ASSUME NEW e \in Executors, ExecutorNext(e)
        PROVE  /\ UNCHANGED <<status, effective>>
               /\ consumer # NULL => consumer' = consumer
    BY <2>2 DEF ExecutorNext, Poll, CallConsume, ConsumeUpdate, Consumable, StillConsumable, Reread,
                Diagnose, ConsumeLost, Receive, GiveUp
  <2>3. Tick \/ Sweep => UNCHANGED <<status, effective, consumer>>
    BY DEF Tick, Sweep
  <2> QED
    BY QuietStep, <2>1, <2>2, <2>3
<1> QED
  BY Inductive, <1>1, PTL DEF ApprovalSpec, DecisionIsFinal

-----------------------------------------------------------------------------
(* The row implements the one-shot capability of GrantedEffects: the       *)
(* abstract values, and what each step does to them.                       *)
RowGrants == [a \in Rows |-> grant]
RowSpent == {a \in Rows : consumer # NULL}
RowPerformed == {<<e, "row", Want[e]>> : e \in {f \in Executors : cli[f] = "executed"}}
RowEffects == <<RowGrants, RowSpent, RowPerformed>>

\* A step that leaves grant, consumer and the set of executions alone stutters.
LEMMA RowStutters ==
    ASSUME UNCHANGED <<grant, consumer>>,
           {f \in Executors : cli'[f] = "executed"} = {f \in Executors : cli[f] = "executed"}
    PROVE  UNCHANGED RowEffects
  BY DEF RowEffects, RowGrants, RowSpent, RowPerformed

\* An approve that takes effect grants the bound action; a reject grants none.
LEMMA ReviewRefines ==
    ASSUME ApprovalInv, NEW r \in Reviewers, ReviewerNext(r)
    PROVE  [Capability!Next]_RowEffects
<1>1. UNCHANGED <<consumer, cli>>
  BY DEF ReviewerNext, View, RequestApprove, RequestReject, RequestEdit, Approve, Reject, UpdateStatus, Edit,
         Confirm, ConfirmEdit, Conflict, Abandon, row, consume
<1>2. CASE UNCHANGED grant
  BY <1>1, <1>2, RowStutters
<1>3. CASE grant' # grant
  <2>1. Approve(r) /\ Transitionable /\ grant' = Effective
    BY <1>3 DEF ReviewerNext, View, RequestApprove, RequestReject, RequestEdit, Approve, Reject, UpdateStatus, Edit,
         Confirm, ConfirmEdit, Conflict, Abandon, history
  <2>2. Effective \in Hashes /\ grant = NULL
    BY <2>1, EffectiveType DEF ApprovalInv, ApprovalTypeOK, Transitionable
  <2>3. RowGrants["row"] = NULL /\ RowGrants' = [RowGrants EXCEPT !["row"] = Effective]
    BY <2>1, <2>2 DEF RowGrants, Rows
  <2>4. UNCHANGED <<RowSpent, RowPerformed>>
    BY <1>1 DEF RowSpent, RowPerformed
  <2>5. Capability!Grant("row", Effective)
    BY <2>3, <2>4 DEF Capability!Grant, RowGrants, RowSpent, RowPerformed
  <2> QED
    BY <2>2, <2>5 DEF Capability!Next, Rows
<1> QED
  BY <1>2, <1>3

\* The UPDATE that sets consumed_at spends the row; a 200 with the caller's own
\* hash, received in time, is its one execution.
LEMMA ExecutorRefines ==
    ASSUME ApprovalInv, NEW e \in Executors, ExecutorNext(e)
    PROVE  [Capability!Next]_RowEffects
<1>0. ApprovalTypeOK /\ SpentByOne /\ BoundStays
  BY DEF ApprovalInv
<1>1. CASE ConsumeUpdate(e)
  <2>1. UNCHANGED <<grant, cli>>
    BY <1>1 DEF ConsumeUpdate, history
  <2>2. CASE consumer' = consumer
    BY <2>1, <2>2, RowStutters
  <2>3. CASE consumer' # consumer
    <3>1. status = "APPROVED" /\ consumer = NULL /\ consumer' = e
      BY <1>1, <2>3 DEF ConsumeUpdate, Consumable, StillConsumable
    <3>2. grant # NULL
      BY <1>0, <3>1, NullAssumption DEF ApprovalTypeOK
    <3>3. RowSpent = {} /\ RowSpent' = RowSpent \cup {"row"} /\ RowGrants["row"] # NULL
      BY <3>1, <3>2, NullAssumption DEF RowSpent, RowGrants, Rows
    <3>4. UNCHANGED <<RowGrants, RowPerformed>>
      BY <2>1 DEF RowGrants, RowPerformed
    <3>5. Capability!Spend("row")
      BY <3>3, <3>4 DEF Capability!Spend, RowGrants, RowSpent, RowPerformed
    <3> QED
      BY <3>5 DEF Capability!Next, Rows
  <2> QED
    BY <2>2, <2>3
<1>2. CASE Receive(e) /\ cli'[e] = "executed"
  <2>1. /\ cli[e] = "waiting" /\ srv[e] = "ok" /\ reply[e] = Want[e]
        /\ cli' = [cli EXCEPT ![e] = "executed"]
        /\ UNCHANGED <<grant, consumer>>
    BY <1>0, <1>2 DEF Receive, ApprovalTypeOK, row, history
  <2>2. consumer = e /\ reply[e] \in {NULL, Effective} /\ status = "APPROVED"
    BY <1>0, <2>1, NullAssumption DEF SpentByOne
  <2>3. Want[e] = grant
    BY <1>0, <2>1, <2>2, NullAssumption, WantAssumption DEF BoundStays
  <2>4. \A f \in Executors : cli[f] # "executed"
    BY <1>0, <2>1, <2>2 DEF SpentByOne
  <2>5. {f \in Executors : cli'[f] = "executed"} = {e}
    BY <1>0, <2>1, <2>4 DEF ApprovalTypeOK
  <2>6. RowPerformed = {} /\ RowPerformed' = {<<e, "row", grant>>}
    BY <2>3, <2>4, <2>5 DEF RowPerformed
  <2>7. "row" \in RowSpent /\ RowGrants["row"] = grant /\ UNCHANGED <<RowGrants, RowSpent>>
    BY <2>1, <2>2, NullAssumption DEF RowSpent, RowGrants, Rows
  <2>8. Capability!Perform(e, "row")
    BY <2>6, <2>7 DEF Capability!Perform, RowGrants, RowSpent, RowPerformed
  <2> QED
    BY <2>8 DEF Capability!Next, Rows
<1>3. CASE ~ConsumeUpdate(e) /\ ~(Receive(e) /\ cli'[e] = "executed")
  <2>1. UNCHANGED <<grant, consumer>>
    BY <1>3 DEF ExecutorNext, Poll, CallConsume, Reread, Diagnose, ConsumeLost, Receive, GiveUp, row, history
  <2>2. PICK w \in {"waiting", "refused"} :
           cli' \in {cli, [cli EXCEPT ![e] = w]} /\ (cli' # cli => cli[e] \in {"poll", "waiting"})
    BY <1>0, <1>3 DEF ExecutorNext, Poll, CallConsume, Reread, Diagnose, ConsumeLost, Receive, GiveUp, ApprovalTypeOK
  <2>3. {f \in Executors : cli'[f] = "executed"} = {f \in Executors : cli[f] = "executed"}
    BY <1>0, <2>2 DEF ApprovalTypeOK
  <2> QED
    BY <2>1, <2>3, RowStutters
<1> QED
  BY <1>1, <1>2, <1>3

\* However many reviewers and callers there are, an approval is a one-shot
\* capability for the action that was approved: Approval implements the
\* specification that BrokerExecute implements too.
THEOREM OneShotCapability == ApprovalSpec => ImplementsCapability
<1>1. ApprovalInit => Capability!Init
  BY DEF ApprovalInit, Capability!Init, Rows
<1>2. ApprovalInv /\ [ApprovalNext]_approvalVars => [Capability!Next]_RowEffects
  <2> SUFFICES ASSUME ApprovalInv, [ApprovalNext]_approvalVars
               PROVE  [Capability!Next]_RowEffects
    OBVIOUS
  <2>1. CASE Tick \/ Sweep \/ UNCHANGED approvalVars
    <3>1. UNCHANGED <<grant, consumer, cli>>
      BY <2>1 DEF Tick, Sweep, approvalVars, row, consume, history
    <3> QED
      BY <3>1, RowStutters
  <2> QED
    BY <2>1, ReviewRefines, ExecutorRefines DEF ApprovalNext
<1> QED
  BY <1>1, <1>2, Inductive, PTL
     DEF ApprovalSpec, ImplementsCapability, Capability!Spec, RowEffects, RowGrants, RowSpent, RowPerformed
=============================================================================
