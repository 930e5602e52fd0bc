------------------------ MODULE BrokerExecuteProofs ------------------------
(***************************************************************************)
(* The broker execute route's safety for any number of calls, approvals    *)
(* and actions, any label on any action, and any bound on operator         *)
(* requests and faults.                                                    *)
(***************************************************************************)
EXTENDS BrokerExecute, TLAPS

USE DEF operator, call, Bars, Refusals, Replies, InHandler, ToolRows, Connectors

\* The parts of TypeOK that answering, going on and spending a row change.
HandlersTyped ==
    /\ ask \in [Calls -> [action : Actions \cup {NULL}, approval : Approvals \cup {NULL}]]
    /\ pc \in [Calls -> InHandler \cup {"new", "answered", "dead"}]
    /\ binding \in [Calls -> ToolRows]
    /\ clear \in [Calls -> SUBSET Bars]
    /\ answer \in [Calls -> Refusals \cup {"200", "500", "503", "none"}]

Rows == [grants : Actions \cup {NULL}, by : Calls \cup {"sdk", NULL}, open : BOOLEAN]
RowsTyped == row \in [Approvals -> Rows]

\* Changing one row to another row keeps the table typed.
LEMMA RowTyped ==
  ASSUME TypeOK, NEW a \in Approvals, NEW r \in Rows, row' = [row EXCEPT ![a] = r]
  PROVE  RowsTyped'
  BY DEF TypeOK, RowsTyped, Rows

LEMMA AnswerTyped ==
  ASSUME TypeOK, NEW k \in Calls, NEW c \in Refusals \cup {"200", "500", "503"}, Answer(k, c)
  PROVE  HandlersTyped'
  BY DEF TypeOK, HandlersTyped, Answer

LEMMA GoTyped ==
  ASSUME TypeOK, NEW k \in Calls, NEW step \in InHandler, Go(k, step)
  PROVE  HandlersTyped'
  BY DEF TypeOK, HandlersTyped, Go

LEMMA SpendTyped ==
  ASSUME TypeOK, NEW a \in Approvals, NEW c \in Calls \cup {"sdk"},
         row' = [row EXCEPT ![a].by = c]
  PROVE  RowsTyped'
<1>1. row[a] \in Rows
  BY DEF TypeOK, Rows
<1>2. [row[a] EXCEPT !.by = c] \in Rows
  BY <1>1 DEF Rows
<1> QED
  BY <1>1, <1>2, RowTyped

\* What spending a row changes.
LEMMA SpendFrame ==
  ASSUME TypeOK, NEW b \in Approvals, NEW c \in Calls \cup {"sdk"},
         row' = [row EXCEPT ![b].by = c]
  PROVE  \A a \in Approvals : /\ row'[a].by = IF a = b THEN c ELSE row[a].by
                              /\ row'[a].grants = row[a].grants
  BY DEF TypeOK

\* Every step keeps the tables, the handlers' locals and the jobs typed.
LEMMA TypeStep == IndInv /\ [Next]_vars => TypeOK'
<1> SUFFICES ASSUME IndInv, [Next]_vars PROVE TypeOK'
  OBVIOUS
<1> USE ActionAssumption, NullAssumption, BoundAssumption DEF IndInv, TypeOK
<1>1. ASSUME NEW c \in Connectors, Register(c) PROVE TypeOK'
  BY <1>1 DEF Register
<1>2. ASSUME NEW s \in {"active", "disabled"}, SetStatus(s) PROVE TypeOK'
  BY <1>2 DEF SetStatus, Op
<1>3. ASSUME NEW b \in Bars, Bar(b) PROVE TypeOK'
  BY <1>3 DEF Bar, Op
<1>4. ASSUME NEW b \in Bars, Unbar(b) PROVE TypeOK'
  BY <1>4 DEF Unbar
<1>5. ASSUME NEW a \in Approvals, NEW x \in Actions, Approve(a, x) PROVE TypeOK'
  <2>1. RowsTyped'
    <3>1. row[a] \in Rows
      BY DEF Rows
    <3>2. [row[a] EXCEPT !.grants = x] \in Rows
      BY <3>1 DEF Rows
    <3> QED
      BY <1>5, <3>1, <3>2, RowTyped DEF Approve
  <2> QED
    BY <1>5, <2>1 DEF Approve, RowsTyped, Rows
<1>6. ASSUME NEW a \in Approvals, Expire(a) PROVE TypeOK'
  <2>1. RowsTyped'
    <3>1. row[a] \in Rows
      BY DEF Rows
    <3>2. [row[a] EXCEPT !.open = FALSE] \in Rows
      BY <3>1 DEF Rows
    <3> QED
      BY <1>6, <3>1, <3>2, RowTyped DEF Expire
  <2> QED
    BY <1>6, <2>1 DEF Expire, RowsTyped, Rows
<1>7. ASSUME NEW a \in Approvals, ConsumeElsewhere(a) PROVE TypeOK'
  BY <1>7, SMTT(20) DEF ConsumeElsewhere, StillConsumable
<1>8. ASSUME NEW k \in Calls, NEW x \in Actions, NEW a \in Approvals \cup {NULL}, Arrive(k, x, a) PROVE TypeOK'
  BY <1>8 DEF Arrive, At
<1>9. ASSUME NEW k \in Calls, LookupTool(k) PROVE TypeOK'
  <2>1. HandlersTyped'
    <3>1. CASE Answer(k, "404")
      BY <3>1, AnswerTyped
    <3>2. CASE ~Answer(k, "404")
      <4>1. binding' \in [Calls -> ToolRows]
        BY <1>9, <3>2 DEF LookupTool
      <4>2. pc' \in [Calls -> InHandler \cup {"new", "answered", "dead"}]
        BY <1>9, <3>2 DEF LookupTool
      <4> QED
        BY <1>9, <3>2, <4>1, <4>2 DEF LookupTool, HandlersTyped
    <3> QED
      BY <3>1, <3>2
  <2> QED
    BY <1>9, <2>1 DEF LookupTool, HandlersTyped
<1>10. ASSUME NEW k \in Calls, NEW b \in Bars, ReadBar(k, b) PROVE TypeOK'
  <2>1. HandlersTyped'
    <3>1. CASE Answer(k, "403")
      BY <3>1, AnswerTyped
    <3>2. CASE ~Answer(k, "403")
      <4>1. clear' \in [Calls -> SUBSET Bars]
        BY <1>10, <3>2 DEF ReadBar
      <4>2. pc' \in [Calls -> InHandler \cup {"new", "answered", "dead"}]
        BY <1>10, <3>2 DEF ReadBar
      <4> QED
        BY <1>10, <3>2, <4>1, <4>2 DEF ReadBar, HandlersTyped
    <3> QED
      BY <3>1, <3>2
  <2> QED
    BY <1>10, <2>1 DEF ReadBar, HandlersTyped
<1>11. ASSUME NEW k \in Calls, Consume(k) PROVE TypeOK'
  <2>1. HandlersTyped'
    <3>1. PICK c \in {"400", "403"}, step \in {"send", "diagnose"} : Answer(k, c) \/ Go(k, step)
      BY <1>11 DEF Consume
    <3> QED
      BY <3>1, AnswerTyped, GoTyped
  <2>2. RowsTyped'
    <3>1. CASE UNCHANGED row
      BY <3>1 DEF RowsTyped, Rows
    <3>2. CASE ~UNCHANGED row
      BY <1>11, <3>2, SpendTyped DEF Consume
    <3> QED
      BY <3>1, <3>2
  <2> QED
    BY <1>11, <2>1, <2>2 DEF Consume, HandlersTyped, RowsTyped, Rows
<1>12. ASSUME NEW k \in Calls, Diagnose(k) PROVE TypeOK'
  BY <1>12 DEF Diagnose, At, Answer
<1>13. ASSUME NEW k \in Calls, StorageError(k) PROVE TypeOK'
  <2>1. HandlersTyped'
    BY <1>13, AnswerTyped DEF StorageError
  <2>2. RowsTyped'
    <3>1. CASE UNCHANGED row
      BY <3>1 DEF RowsTyped, Rows
    <3>2. CASE ~UNCHANGED row
      BY <1>13, <3>2, SpendTyped DEF StorageError
    <3> QED
      BY <3>1, <3>2
  <2> QED
    BY <1>13, <2>1, <2>2 DEF StorageError, Fault, HandlersTyped, RowsTyped, Rows
<1>14. ASSUME NEW k \in Calls, Send(k) PROVE TypeOK'
  BY <1>14, ZenonT(40) DEF Send, At, Go, Answer
<1>15. ASSUME NEW k \in Calls, Receive(k) PROVE TypeOK'
  <2>1. HandlersTyped'
    <3>1. PICK c \in Replies : Answer(k, c) \/ Go(k, "receipt")
      BY <1>15 DEF Receive
    <3> QED
      BY <3>1, AnswerTyped, GoTyped
  <2> QED
    BY <1>15, <2>1 DEF Receive, Fault, HandlersTyped
<1>16. ASSUME NEW k \in Calls, Timeout(k) PROVE TypeOK'
  BY <1>16 DEF Timeout, At, Answer
<1>17. ASSUME NEW k \in Calls, AppendReceipt(k) PROVE TypeOK'
  <2>1. HandlersTyped'
    BY <1>17, AnswerTyped DEF AppendReceipt
  <2>2. receipts' \subseteq Calls /\ faults' \in 0..MaxFaults
    BY <1>17 DEF AppendReceipt, Fault
  <2> QED
    BY <1>17, <2>1, <2>2 DEF AppendReceipt, HandlersTyped
<1>18. ASSUME NEW k \in Calls, Admit(k) PROVE TypeOK'
  <2>1. PICK s \in {"403", "501", "503", "acting"} : job' = [job EXCEPT ![k] = s]
    BY <1>18 DEF Admit
  <2>2. faults' \in 0..MaxFaults
    BY <1>18 DEF Admit, Fault
  <2> QED
    BY <1>18, <2>1, <2>2 DEF Admit
<1>19. ASSUME NEW k \in Calls, Act(k) PROVE TypeOK'
  <2>1. PICK s \in {"200", "503"} : job' = [job EXCEPT ![k] = s]
    BY <1>19 DEF Act
  <2>2. done' \subseteq Calls
    BY <1>19 DEF Act
  <2> QED
    BY <1>19, <2>1, <2>2 DEF Act
<1>20. ASSUME NEW k \in Calls, Cancel(k) PROVE TypeOK'
  BY <1>20 DEF Cancel, At
<1>21. ASSUME Crash PROVE TypeOK'
  BY <1>21 DEF Crash, Fault
<1>22. ASSUME BrokerCrash PROVE TypeOK'
  BY <1>22 DEF BrokerCrash, Fault
<1>23. CASE UNCHANGED vars
  BY <1>23 DEF vars
<1> HIDE DEF IndInv, TypeOK
<1> QED
  BY <1>1, <1>2, <1>3, <1>4, <1>5, <1>6, <1>7, <1>8, <1>9, <1>10, <1>11, <1>12, <1>13, <1>14, <1>15, <1>16, <1>17, <1>18, <1>19, <1>20, <1>21, <1>22, <1>23
     DEF Next, OperatorStep, RowStep, HandlerStep, BrokerStep

\* A row once spent stays with the call that spent it.
LEMMA PaidStep == IndInv /\ [Next]_vars => Paid'
<1> SUFFICES ASSUME IndInv, [Next]_vars PROVE Paid'
  OBVIOUS
<1> USE ActionAssumption, NullAssumption, BoundAssumption DEF IndInv, TypeOK, Paid, Stages
<1>1. ASSUME NEW c \in Connectors, Register(c) PROVE Paid'
  BY <1>1 DEF Register
<1>2. ASSUME NEW s \in {"active", "disabled"}, SetStatus(s) PROVE Paid'
  BY <1>2 DEF SetStatus, Op
<1>3. ASSUME NEW b \in Bars, Bar(b) PROVE Paid'
  BY <1>3 DEF Bar, Op
<1>4. ASSUME NEW b \in Bars, Unbar(b) PROVE Paid'
  BY <1>4 DEF Unbar
<1>5. ASSUME NEW a \in Approvals, NEW x \in Actions, Approve(a, x) PROVE Paid'
  BY <1>5 DEF Approve
<1>6. ASSUME NEW a \in Approvals, Expire(a) PROVE Paid'
  BY <1>6 DEF Expire
<1>7. ASSUME NEW a \in Approvals, ConsumeElsewhere(a) PROVE Paid'
  BY <1>7 DEF ConsumeElsewhere, StillConsumable
<1>8. ASSUME NEW k \in Calls, NEW x \in Actions, NEW a \in Approvals \cup {NULL}, Arrive(k, x, a) PROVE Paid'
  BY <1>8 DEF Arrive, At
<1>9. ASSUME NEW k \in Calls, LookupTool(k) PROVE Paid'
  BY <1>9 DEF LookupTool, At, Answer
<1>10. ASSUME NEW k \in Calls, NEW b \in Bars, ReadBar(k, b) PROVE Paid'
  BY <1>10 DEF ReadBar, At, Answer
<1>11. ASSUME NEW k \in Calls, Consume(k) PROVE Paid'
  <2>1. CASE UNCHANGED row /\ \E c \in {"400", "403"} : Answer(k, c)
    BY <1>11, <2>1 DEF Consume, At, Answer
  <2>2. CASE UNCHANGED row /\ Go(k, "diagnose")
    BY <1>11, <2>2 DEF Consume, At, Go
  <2>3. CASE UNCHANGED row /\ Go(k, "send") /\ ask[k].action \notin Mutates
    BY <1>11, <2>3 DEF Consume, At, Go
  <2>4. CASE /\ ask[k].action \in Mutates /\ ask[k].approval \in Approvals
             /\ Consumable(ask[k].approval, ask[k].action) /\ Go(k, "send")
             /\ row' = [row EXCEPT ![ask[k].approval].by = k]
    BY <1>11, <2>4 DEF Consume, At, Go, Consumable, StillConsumable
  <2> QED
    BY <1>11, <2>1, <2>2, <2>3, <2>4 DEF Consume
<1>12. ASSUME NEW k \in Calls, Diagnose(k) PROVE Paid'
  BY <1>12 DEF Diagnose, At, Answer
<1>13. ASSUME NEW k \in Calls, StorageError(k) PROVE Paid'
  <2>1. CASE UNCHANGED row
    BY <1>13, <2>1 DEF StorageError, Answer
  <2>2. CASE /\ ask[k].approval \in Approvals
             /\ Consumable(ask[k].approval, ask[k].action)
             /\ row' = [row EXCEPT ![ask[k].approval].by = k]
    BY <1>13, <2>2 DEF StorageError, Answer, Consumable, StillConsumable
  <2> QED
    BY <1>13, <2>1, <2>2 DEF StorageError
<1>14. ASSUME NEW k \in Calls, Send(k) PROVE Paid'
  BY <1>14 DEF Send, At, Go, Answer
<1>15. ASSUME NEW k \in Calls, Receive(k) PROVE Paid'
  BY <1>15 DEF Receive, Fault, At, Go, Answer
<1>16. ASSUME NEW k \in Calls, Timeout(k) PROVE Paid'
  BY <1>16 DEF Timeout, At, Answer
<1>17. ASSUME NEW k \in Calls, AppendReceipt(k) PROVE Paid'
  BY <1>17 DEF AppendReceipt, Fault, At, Answer
<1>18. ASSUME NEW k \in Calls, Admit(k) PROVE Paid'
  BY <1>18 DEF Admit, Fault
<1>19. ASSUME NEW k \in Calls, Act(k) PROVE Paid'
  BY <1>19 DEF Act, Labelled, Mislabelled
<1>20. ASSUME NEW k \in Calls, Cancel(k) PROVE Paid'
  BY <1>20 DEF Cancel, At
<1>21. ASSUME Crash PROVE Paid'
  BY <1>21 DEF Crash, Fault
<1>22. ASSUME BrokerCrash PROVE Paid'
  BY <1>22 DEF BrokerCrash, Fault
<1>23. CASE UNCHANGED vars
  BY <1>23 DEF vars
<1> HIDE DEF IndInv, TypeOK, Paid, Stages
<1> QED
  BY <1>1, <1>2, <1>3, <1>4, <1>5, <1>6, <1>7, <1>8, <1>9, <1>10, <1>11, <1>12, <1>13, <1>14, <1>15, <1>16, <1>17, <1>18, <1>19, <1>20, <1>21, <1>22, <1>23, SMTT(20)
     DEF Next, OperatorStep, RowStep, HandlerStep, BrokerStep

\* The broker is never ahead of the handler that sent it.
LEMMA StagesStep == IndInv /\ [Next]_vars => Stages'
<1> SUFFICES ASSUME IndInv, [Next]_vars PROVE Stages'
  OBVIOUS
<1> USE ActionAssumption, NullAssumption, BoundAssumption DEF IndInv, TypeOK, Stages
<1>1. ASSUME NEW c \in Connectors, Register(c) PROVE Stages'
  BY <1>1 DEF Register
<1>2. ASSUME NEW s \in {"active", "disabled"}, SetStatus(s) PROVE Stages'
  BY <1>2 DEF SetStatus, Op
<1>3. ASSUME NEW b \in Bars, Bar(b) PROVE Stages'
  BY <1>3 DEF Bar, Op
<1>4. ASSUME NEW b \in Bars, Unbar(b) PROVE Stages'
  BY <1>4 DEF Unbar
<1>5. ASSUME NEW a \in Approvals, NEW x \in Actions, Approve(a, x) PROVE Stages'
  BY <1>5 DEF Approve
<1>6. ASSUME NEW a \in Approvals, Expire(a) PROVE Stages'
  BY <1>6 DEF Expire
<1>7. ASSUME NEW a \in Approvals, ConsumeElsewhere(a) PROVE Stages'
  BY <1>7 DEF ConsumeElsewhere, StillConsumable
<1>8. ASSUME NEW k \in Calls, NEW x \in Actions, NEW a \in Approvals \cup {NULL}, Arrive(k, x, a) PROVE Stages'
  BY <1>8 DEF Arrive, At
<1>9. ASSUME NEW k \in Calls, LookupTool(k) PROVE Stages'
  BY <1>9 DEF LookupTool, At, Answer
<1>10. ASSUME NEW k \in Calls, NEW b \in Bars, ReadBar(k, b) PROVE Stages'
  BY <1>10 DEF ReadBar, At, Answer
<1>11. ASSUME NEW k \in Calls, Consume(k) PROVE Stages'
  BY <1>11 DEF Consume, At, Go, Answer, Consumable, StillConsumable
<1>12. ASSUME NEW k \in Calls, Diagnose(k) PROVE Stages'
  BY <1>12 DEF Diagnose, At, Answer
<1>13. ASSUME NEW k \in Calls, StorageError(k) PROVE Stages'
  BY <1>13 DEF StorageError, Fault, At, Answer, Consumable, StillConsumable
<1>14. ASSUME NEW k \in Calls, Send(k) PROVE Stages'
  BY <1>14 DEF Send, At, Go, Answer
<1>15. ASSUME NEW k \in Calls, Receive(k) PROVE Stages'
  BY <1>15 DEF Receive, Fault, At, Go, Answer
<1>16. ASSUME NEW k \in Calls, Timeout(k) PROVE Stages'
  BY <1>16 DEF Timeout, At, Answer
<1>17. ASSUME NEW k \in Calls, AppendReceipt(k) PROVE Stages'
  BY <1>17 DEF AppendReceipt, Fault, At, Answer
<1>18. ASSUME NEW k \in Calls, Admit(k) PROVE Stages'
  BY <1>18 DEF Admit, Fault
<1>19. ASSUME NEW k \in Calls, Act(k) PROVE Stages'
  BY <1>19 DEF Act, Labelled, Mislabelled
<1>20. ASSUME NEW k \in Calls, Cancel(k) PROVE Stages'
  BY <1>20 DEF Cancel, At
<1>21. ASSUME Crash PROVE Stages'
  BY <1>21 DEF Crash, Fault
<1>22. ASSUME BrokerCrash PROVE Stages'
  BY <1>22 DEF BrokerCrash, Fault
<1>23. CASE UNCHANGED vars
  BY <1>23 DEF vars
<1> HIDE DEF IndInv, TypeOK, Stages
<1> QED
  BY <1>1, <1>2, <1>3, <1>4, <1>5, <1>6, <1>7, <1>8, <1>9, <1>10, <1>11, <1>12, <1>13, <1>14, <1>15, <1>16, <1>17, <1>18, <1>19, <1>20, <1>21, <1>22, <1>23
     DEF Next, OperatorStep, RowStep, HandlerStep, BrokerStep

\* A connector performs no write under a read's label.
LEMMA HonestStep == IndInv /\ [Next]_vars => Honest'
<1> SUFFICES ASSUME IndInv, [Next]_vars PROVE Honest'
  OBVIOUS
<1> USE ActionAssumption, NullAssumption, BoundAssumption DEF IndInv, TypeOK, Stages, Honest, NeedsGrant
<1>1. ASSUME NEW c \in Connectors, Register(c) PROVE Honest'
  BY <1>1 DEF Register
<1>2. ASSUME NEW s \in {"active", "disabled"}, SetStatus(s) PROVE Honest'
  BY <1>2 DEF SetStatus, Op
<1>3. ASSUME NEW b \in Bars, Bar(b) PROVE Honest'
  BY <1>3 DEF Bar, Op
<1>4. ASSUME NEW b \in Bars, Unbar(b) PROVE Honest'
  BY <1>4 DEF Unbar
<1>5. ASSUME NEW a \in Approvals, NEW x \in Actions, Approve(a, x) PROVE Honest'
  BY <1>5 DEF Approve
<1>6. ASSUME NEW a \in Approvals, Expire(a) PROVE Honest'
  BY <1>6 DEF Expire
<1>7. ASSUME NEW a \in Approvals, ConsumeElsewhere(a) PROVE Honest'
  BY <1>7 DEF ConsumeElsewhere, StillConsumable
<1>8. ASSUME NEW k \in Calls, NEW x \in Actions, NEW a \in Approvals \cup {NULL}, Arrive(k, x, a) PROVE Honest'
  BY <1>8 DEF Arrive, At
<1>9. ASSUME NEW k \in Calls, LookupTool(k) PROVE Honest'
  BY <1>9 DEF LookupTool, At, Answer
<1>10. ASSUME NEW k \in Calls, NEW b \in Bars, ReadBar(k, b) PROVE Honest'
  BY <1>10 DEF ReadBar, At, Answer
<1>11. ASSUME NEW k \in Calls, Consume(k) PROVE Honest'
  BY <1>11 DEF Consume, At, Go, Answer, Consumable, StillConsumable
<1>12. ASSUME NEW k \in Calls, Diagnose(k) PROVE Honest'
  BY <1>12 DEF Diagnose, At, Answer
<1>13. ASSUME NEW k \in Calls, StorageError(k) PROVE Honest'
  BY <1>13 DEF StorageError, Fault, At, Answer, Consumable, StillConsumable
<1>14. ASSUME NEW k \in Calls, Send(k) PROVE Honest'
  BY <1>14 DEF Send, At, Go, Answer
<1>15. ASSUME NEW k \in Calls, Receive(k) PROVE Honest'
  BY <1>15 DEF Receive, Fault, At, Go, Answer
<1>16. ASSUME NEW k \in Calls, Timeout(k) PROVE Honest'
  BY <1>16 DEF Timeout, At, Answer
<1>17. ASSUME NEW k \in Calls, AppendReceipt(k) PROVE Honest'
  BY <1>17 DEF AppendReceipt, Fault, At, Answer
<1>18. ASSUME NEW k \in Calls, Admit(k) PROVE Honest'
  BY <1>18 DEF Admit, Fault
<1>19. ASSUME NEW k \in Calls, Act(k) PROVE Honest'
  BY <1>19 DEF Act, Labelled, Mislabelled
<1>20. ASSUME NEW k \in Calls, Cancel(k) PROVE Honest'
  BY <1>20 DEF Cancel, At
<1>21. ASSUME Crash PROVE Honest'
  BY <1>21 DEF Crash, Fault
<1>22. ASSUME BrokerCrash PROVE Honest'
  BY <1>22 DEF BrokerCrash, Fault
<1>23. CASE UNCHANGED vars
  BY <1>23 DEF vars
<1> HIDE DEF IndInv, TypeOK, Stages, Honest, NeedsGrant
<1> QED
  BY <1>1, <1>2, <1>3, <1>4, <1>5, <1>6, <1>7, <1>8, <1>9, <1>10, <1>11, <1>12, <1>13, <1>14, <1>15, <1>16, <1>17, <1>18, <1>19, <1>20, <1>21, <1>22, <1>23
     DEF Next, OperatorStep, RowStep, HandlerStep, BrokerStep

\* An answer to a call the broker has not yet seen, or that it will not act on,
\* leaves Final; so does a step of a handler that answers nothing.
LEMMA AnswerFinal ==
  ASSUME NEW k \in Calls, NEW c, TypeOK, Final, Answer(k, c), UNCHANGED <<job, done>>,
         k \notin done, job[k] \notin {"queued", "acting"}
  PROVE  Final'
  BY DEF TypeOK, Final, Answer

LEMMA MoveFinal ==
  ASSUME NEW k \in Calls, NEW step, TypeOK, Final, pc[k] # "answered",
         pc' = [pc EXCEPT ![k] = step], UNCHANGED <<answer, job, done>>
  PROVE  Final'
  BY DEF TypeOK, Final

\* No answer is taken back, and a refusal leaves nothing under way.
LEMMA FinalStep == IndInv /\ [Next]_vars => Final'
<1> SUFFICES ASSUME IndInv, [Next]_vars PROVE Final'
  OBVIOUS
<1> USE ActionAssumption, NullAssumption, BoundAssumption DEF IndInv, TypeOK, Stages, Final
<1>1. ASSUME NEW c \in Connectors, Register(c) PROVE Final'
  BY <1>1 DEF Register
<1>2. ASSUME NEW s \in {"active", "disabled"}, SetStatus(s) PROVE Final'
  BY <1>2 DEF SetStatus, Op
<1>3. ASSUME NEW b \in Bars, Bar(b) PROVE Final'
  BY <1>3 DEF Bar, Op
<1>4. ASSUME NEW b \in Bars, Unbar(b) PROVE Final'
  BY <1>4 DEF Unbar
<1>5. ASSUME NEW a \in Approvals, NEW x \in Actions, Approve(a, x) PROVE Final'
  BY <1>5 DEF Approve
<1>6. ASSUME NEW a \in Approvals, Expire(a) PROVE Final'
  BY <1>6 DEF Expire
<1>7. ASSUME NEW a \in Approvals, ConsumeElsewhere(a) PROVE Final'
  BY <1>7 DEF ConsumeElsewhere, StillConsumable
<1>8. ASSUME NEW k \in Calls, NEW x \in Actions, NEW a \in Approvals \cup {NULL}, Arrive(k, x, a) PROVE Final'
  BY <1>8 DEF Arrive, At
<1>9. ASSUME NEW k \in Calls, LookupTool(k) PROVE Final'
  <2>1. At(k, "tool") /\ UNCHANGED <<job, done>>
    BY <1>9 DEF LookupTool
  <2>2. CASE Answer(k, "404")
    BY <2>1, <2>2, AnswerFinal DEF At
  <2>3. CASE pc' = [pc EXCEPT ![k] = "bars"] /\ UNCHANGED answer
    BY <2>1, <2>3, MoveFinal DEF At
  <2> QED
    BY <1>9, <2>2, <2>3 DEF LookupTool
<1>10. ASSUME NEW k \in Calls, NEW b \in Bars, ReadBar(k, b) PROVE Final'
  <2>1. At(k, "bars") /\ UNCHANGED <<job, done>>
    BY <1>10 DEF ReadBar
  <2>2. CASE Answer(k, "403")
    BY <2>1, <2>2, AnswerFinal DEF At
  <2>3. CASE \E step : pc' = [pc EXCEPT ![k] = step] /\ UNCHANGED answer
    BY <2>1, <2>3, MoveFinal DEF At
  <2> QED
    BY <1>10, <2>2, <2>3 DEF ReadBar
<1>11. ASSUME NEW k \in Calls, Consume(k) PROVE Final'
  <2>1. At(k, "consume") /\ UNCHANGED <<job, done>>
    BY <1>11 DEF Consume
  <2>2. CASE \E c \in {"400", "403"} : Answer(k, c)
    BY <2>1, <2>2, AnswerFinal DEF At
  <2>3. CASE \E step \in {"send", "diagnose"} : Go(k, step)
    BY <2>1, <2>3, MoveFinal DEF At, Go
  <2> QED
    BY <1>11, <2>2, <2>3 DEF Consume
<1>12. ASSUME NEW k \in Calls, Diagnose(k) PROVE Final'
  BY <1>12 DEF Diagnose, At, Answer
<1>13. ASSUME NEW k \in Calls, StorageError(k) PROVE Final'
  BY <1>13 DEF StorageError, Fault, At, Answer, Consumable, StillConsumable
<1>14. ASSUME NEW k \in Calls, Send(k) PROVE Final'
  BY <1>14 DEF Send, At, Go, Answer
<1>15. ASSUME NEW k \in Calls, Receive(k) PROVE Final'
  BY <1>15 DEF Receive, Fault, At, Go, Answer
<1>16. ASSUME NEW k \in Calls, Timeout(k) PROVE Final'
  BY <1>16 DEF Timeout, At, Answer
<1>17. ASSUME NEW k \in Calls, AppendReceipt(k) PROVE Final'
  <2>1. PICK c \in {"200", "500"} : Answer(k, c)
    BY <1>17 DEF AppendReceipt
  <2> QED
    BY <1>17, <2>1 DEF AppendReceipt, At, Answer
<1>18. ASSUME NEW k \in Calls, Admit(k) PROVE Final'
  BY <1>18 DEF Admit, Fault
<1>19. ASSUME NEW k \in Calls, Act(k) PROVE Final'
  BY <1>19 DEF Act, Labelled, Mislabelled
<1>20. ASSUME NEW k \in Calls, Cancel(k) PROVE Final'
  BY <1>20 DEF Cancel, At
<1>21. ASSUME Crash PROVE Final'
  BY <1>21 DEF Crash, Fault
<1>22. ASSUME BrokerCrash PROVE Final'
  BY <1>22 DEF BrokerCrash, Fault
<1>23. CASE UNCHANGED vars
  BY <1>23 DEF vars
<1> HIDE DEF IndInv, TypeOK, Stages, Final
<1> QED
  BY <1>1, <1>2, <1>3, <1>4, <1>5, <1>6, <1>7, <1>8, <1>9, <1>10, <1>11, <1>12, <1>13, <1>14, <1>15, <1>16, <1>17, <1>18, <1>19, <1>20, <1>21, <1>22, <1>23
     DEF Next, OperatorStep, RowStep, HandlerStep, BrokerStep

\* Receipts and successes stay in step.
LEMMA SuccessIsEvidencedStep == IndInv /\ [Next]_vars => SuccessIsEvidenced'
<1> SUFFICES ASSUME IndInv, [Next]_vars PROVE SuccessIsEvidenced'
  OBVIOUS
<1> USE ActionAssumption, NullAssumption, BoundAssumption DEF IndInv, TypeOK, Stages, Final, SuccessIsEvidenced
<1>1. ASSUME NEW c \in Connectors, Register(c) PROVE SuccessIsEvidenced'
  BY <1>1 DEF Register
<1>2. ASSUME NEW s \in {"active", "disabled"}, SetStatus(s) PROVE SuccessIsEvidenced'
  BY <1>2 DEF SetStatus, Op
<1>3. ASSUME NEW b \in Bars, Bar(b) PROVE SuccessIsEvidenced'
  BY <1>3 DEF Bar, Op
<1>4. ASSUME NEW b \in Bars, Unbar(b) PROVE SuccessIsEvidenced'
  BY <1>4 DEF Unbar
<1>5. ASSUME NEW a \in Approvals, NEW x \in Actions, Approve(a, x) PROVE SuccessIsEvidenced'
  BY <1>5 DEF Approve
<1>6. ASSUME NEW a \in Approvals, Expire(a) PROVE SuccessIsEvidenced'
  BY <1>6 DEF Expire
<1>7. ASSUME NEW a \in Approvals, ConsumeElsewhere(a) PROVE SuccessIsEvidenced'
  BY <1>7 DEF ConsumeElsewhere, StillConsumable
<1>8. ASSUME NEW k \in Calls, NEW x \in Actions, NEW a \in Approvals \cup {NULL}, Arrive(k, x, a) PROVE SuccessIsEvidenced'
  BY <1>8 DEF Arrive, At
<1>9. ASSUME NEW k \in Calls, LookupTool(k) PROVE SuccessIsEvidenced'
  BY <1>9 DEF LookupTool, At, Answer
<1>10. ASSUME NEW k \in Calls, NEW b \in Bars, ReadBar(k, b) PROVE SuccessIsEvidenced'
  BY <1>10 DEF ReadBar, At, Answer
<1>11. ASSUME NEW k \in Calls, Consume(k) PROVE SuccessIsEvidenced'
  BY <1>11 DEF Consume, At, Go, Answer, Consumable, StillConsumable
<1>12. ASSUME NEW k \in Calls, Diagnose(k) PROVE SuccessIsEvidenced'
  BY <1>12 DEF Diagnose, At, Answer
<1>13. ASSUME NEW k \in Calls, StorageError(k) PROVE SuccessIsEvidenced'
  BY <1>13 DEF StorageError, Fault, At, Answer, Consumable, StillConsumable
<1>14. ASSUME NEW k \in Calls, Send(k) PROVE SuccessIsEvidenced'
  BY <1>14 DEF Send, At, Go, Answer
<1>15. ASSUME NEW k \in Calls, Receive(k) PROVE SuccessIsEvidenced'
  BY <1>15 DEF Receive, Fault, At, Go, Answer
<1>16. ASSUME NEW k \in Calls, Timeout(k) PROVE SuccessIsEvidenced'
  BY <1>16 DEF Timeout, At, Answer
<1>17. ASSUME NEW k \in Calls, AppendReceipt(k) PROVE SuccessIsEvidenced'
  BY <1>17 DEF AppendReceipt, Fault, At, Answer
<1>18. ASSUME NEW k \in Calls, Admit(k) PROVE SuccessIsEvidenced'
  BY <1>18 DEF Admit, Fault
<1>19. ASSUME NEW k \in Calls, Act(k) PROVE SuccessIsEvidenced'
  BY <1>19 DEF Act, Labelled, Mislabelled
<1>20. ASSUME NEW k \in Calls, Cancel(k) PROVE SuccessIsEvidenced'
  BY <1>20 DEF Cancel, At
<1>21. ASSUME Crash PROVE SuccessIsEvidenced'
  BY <1>21 DEF Crash, Fault
<1>22. ASSUME BrokerCrash PROVE SuccessIsEvidenced'
  BY <1>22 DEF BrokerCrash, Fault
<1>23. CASE UNCHANGED vars
  BY <1>23 DEF vars
<1> HIDE DEF IndInv, TypeOK, Stages, Final, SuccessIsEvidenced
<1> QED
  BY <1>1, <1>2, <1>3, <1>4, <1>5, <1>6, <1>7, <1>8, <1>9, <1>10, <1>11, <1>12, <1>13, <1>14, <1>15, <1>16, <1>17, <1>18, <1>19, <1>20, <1>21, <1>22, <1>23
     DEF Next, OperatorStep, RowStep, HandlerStep, BrokerStep

\* A held bar is in force until it is read.
LEMMA HeldIsBarredStep == IndInv /\ [Next]_vars => HeldIsBarred'
<1> SUFFICES ASSUME IndInv, [Next]_vars PROVE HeldIsBarred'
  OBVIOUS
<1> USE ActionAssumption, NullAssumption, BoundAssumption DEF IndInv, TypeOK, Stages, HeldIsBarred
<1>1. ASSUME NEW c \in Connectors, Register(c) PROVE HeldIsBarred'
  BY <1>1 DEF Register
<1>2. ASSUME NEW s \in {"active", "disabled"}, SetStatus(s) PROVE HeldIsBarred'
  BY <1>2 DEF SetStatus, Op
<1>3. ASSUME NEW b \in Bars, Bar(b) PROVE HeldIsBarred'
  BY <1>3 DEF Bar, Op
<1>4. ASSUME NEW b \in Bars, Unbar(b) PROVE HeldIsBarred'
  BY <1>4 DEF Unbar
<1>5. ASSUME NEW a \in Approvals, NEW x \in Actions, Approve(a, x) PROVE HeldIsBarred'
  BY <1>5 DEF Approve
<1>6. ASSUME NEW a \in Approvals, Expire(a) PROVE HeldIsBarred'
  BY <1>6 DEF Expire
<1>7. ASSUME NEW a \in Approvals, ConsumeElsewhere(a) PROVE HeldIsBarred'
  BY <1>7 DEF ConsumeElsewhere, StillConsumable
<1>8. ASSUME NEW k \in Calls, NEW x \in Actions, NEW a \in Approvals \cup {NULL}, Arrive(k, x, a) PROVE HeldIsBarred'
  BY <1>8 DEF Arrive, At
<1>9. ASSUME NEW k \in Calls, LookupTool(k) PROVE HeldIsBarred'
  BY <1>9 DEF LookupTool, At, Answer
<1>10. ASSUME NEW k \in Calls, NEW b \in Bars, ReadBar(k, b) PROVE HeldIsBarred'
  <2>1. CASE Answer(k, "403")
    BY <1>10, <2>1 DEF ReadBar, At, Answer
  <2>2. CASE ~Answer(k, "403")
    <3>1. \A j \in Calls : j # k => pc'[j] = pc[j] /\ clear'[j] = clear[j]
      BY <1>10, <2>2 DEF ReadBar
    <3>2. clear'[k] = clear[k] \cup {b} /\ b \notin bars /\ pc[k] = "bars"
      BY <1>10, <2>2 DEF ReadBar, At
    <3>3. held[k] \subseteq bars \ clear'[k]
      BY <3>2
    <3>4. pc'[k] = IF clear'[k] = Bars THEN "consume" ELSE "bars"
      BY <1>10, <2>2, <3>2 DEF ReadBar
    <3>5. pc'[k] = "consume" => held[k] = {}
      BY <3>3, <3>4
    <3> QED
      BY <1>10, <2>2, <3>1, <3>3, <3>4, <3>5 DEF ReadBar
  <2> QED
    BY <2>1, <2>2
<1>11. ASSUME NEW k \in Calls, Consume(k) PROVE HeldIsBarred'
  <2>1. pc[k] = "consume" /\ held[k] = {}
    BY <1>11 DEF Consume, At
  <2>2. \A j \in Calls : j # k => pc'[j] = pc[j] /\ clear'[j] = clear[j]
    BY <1>11 DEF Consume, Go, Answer
  <2>3. pc'[k] \in {"answered", "send", "diagnose"}
    BY <1>11 DEF Consume, Go, Answer
  <2>4. \A a \in Approvals : row'[a].by = row[a].by \/ row'[a].by = k
    <3>1. CASE UNCHANGED row
      BY <3>1
    <3>2. CASE ~UNCHANGED row
      <4>1. PICK b \in Approvals : row' = [row EXCEPT ![b].by = k]
        BY <1>11, <3>2 DEF Consume
      <4> QED
        BY <4>1, SpendFrame
    <3> QED
      BY <3>1, <3>2
  <2> QED
    BY <1>11, <2>1, <2>2, <2>3, <2>4 DEF Consume
<1>12. ASSUME NEW k \in Calls, Diagnose(k) PROVE HeldIsBarred'
  BY <1>12 DEF Diagnose, At, Answer
<1>13. ASSUME NEW k \in Calls, StorageError(k) PROVE HeldIsBarred'
  <2>1. CASE UNCHANGED row
    BY <1>13, <2>1 DEF StorageError, At, Answer
  <2>2. CASE ~UNCHANGED row
    <3>1. pc[k] = "consume" /\ held[k] = {}
      BY <1>13, <2>2 DEF StorageError, At
    <3>2. \A a \in Approvals : row'[a].by = row[a].by \/ row'[a].by = k
      <4>1. PICK b \in Approvals : row' = [row EXCEPT ![b].by = k]
        BY <1>13, <2>2 DEF StorageError
      <4> QED
        BY <4>1, SpendFrame
    <3> QED
      BY <1>13, <3>1, <3>2 DEF StorageError, Answer
  <2> QED
    BY <2>1, <2>2
<1>14. ASSUME NEW k \in Calls, Send(k) PROVE HeldIsBarred'
  <2>1. pc[k] = "send" /\ held[k] = {}
    BY <1>14 DEF Send, At
  <2>2. \A j \in Calls : j # k => pc'[j] = pc[j] /\ clear'[j] = clear[j] /\ job'[j] = job[j]
    BY <1>14 DEF Send, Go, Answer
  <2>3. pc'[k] \in {"answered", "wait"}
    BY <1>14 DEF Send, Go, Answer
  <2> QED
    BY <1>14, <2>1, <2>2, <2>3 DEF Send
<1>15. ASSUME NEW k \in Calls, Receive(k) PROVE HeldIsBarred'
  BY <1>15 DEF Receive, Fault, At, Go, Answer
<1>16. ASSUME NEW k \in Calls, Timeout(k) PROVE HeldIsBarred'
  BY <1>16 DEF Timeout, At, Answer
<1>17. ASSUME NEW k \in Calls, AppendReceipt(k) PROVE HeldIsBarred'
  BY <1>17 DEF AppendReceipt, Fault, At, Answer
<1>18. ASSUME NEW k \in Calls, Admit(k) PROVE HeldIsBarred'
  BY <1>18 DEF Admit, Fault
<1>19. ASSUME NEW k \in Calls, Act(k) PROVE HeldIsBarred'
  BY <1>19 DEF Act, Labelled, Mislabelled
<1>20. ASSUME NEW k \in Calls, Cancel(k) PROVE HeldIsBarred'
  BY <1>20 DEF Cancel, At
<1>21. ASSUME Crash PROVE HeldIsBarred'
  BY <1>21 DEF Crash, Fault
<1>22. ASSUME BrokerCrash PROVE HeldIsBarred'
  BY <1>22 DEF BrokerCrash, Fault
<1>23. CASE UNCHANGED vars
  BY <1>23 DEF vars
<1> HIDE DEF IndInv, TypeOK, Stages, HeldIsBarred
<1> QED
  BY <1>1, <1>2, <1>3, <1>4, <1>5, <1>6, <1>7, <1>8, <1>9, <1>10, <1>11, <1>12, <1>13, <1>14, <1>15, <1>16, <1>17, <1>18, <1>19, <1>20, <1>21, <1>22, <1>23
     DEF Next, OperatorStep, RowStep, HandlerStep, BrokerStep

\* The initial state satisfies the inductive invariant.
LEMMA InitInv == Init => IndInv
<1> SUFFICES ASSUME Init PROVE IndInv
  OBVIOUS
<1> USE ActionAssumption, NullAssumption, BoundAssumption DEF Init, NoTool
<1>1. TypeOK
  BY DEF TypeOK
<1>2. Paid /\ Stages /\ Honest
  BY DEF Paid, Stages, Honest
<1>3. Final /\ SuccessIsEvidenced
  BY DEF Final, SuccessIsEvidenced
<1>4. HeldIsBarred
  BY DEF HeldIsBarred
<1> QED
  BY <1>1, <1>2, <1>3, <1>4 DEF IndInv

\* IndInv is inductive: it holds in every reachable state of the route.
THEOREM Invariance == Spec => []IndInv
<1>1. IndInv /\ [Next]_vars => IndInv'
  BY TypeStep, PaidStep, StagesStep, HonestStep, FinalStep, SuccessIsEvidencedStep, HeldIsBarredStep
     DEF IndInv
<1> QED
  BY <1>1, InitInv, PTL DEF Spec

\* Tables, handlers and jobs are always typed.
THEOREM TypeCorrect == Spec => []TypeOK
<1>1. IndInv => TypeOK
  BY DEF IndInv
<1> QED
  BY <1>1, Invariance, PTL

\* After a definite refusal nothing was done and nothing will be, for any number
\* of calls (execute_broker_action, tool_broker_error_response).
THEOREM RefusalsAreDefinite == Spec => []RefusedIsUndone
<1>1. IndInv => RefusedIsUndone
  BY DEF IndInv, Final, RefusedIsUndone
<1> QED
  BY <1>1, Invariance, PTL

\* Every success is in the chain and every receipt in the chain is true.
THEOREM SuccessesAreEvidenced == Spec => []SuccessIsEvidenced
<1>1. IndInv => SuccessIsEvidenced
  BY DEF IndInv
<1> QED
  BY <1>1, Invariance, PTL

\* A ban or quarantine that stood when a call arrived and until the call read it
\* stops it before it spends an approval.
THEOREM BarsHold == Spec => []BarredIsInert
<1>1. IndInv => BarredIsInert
  <2> SUFFICES ASSUME IndInv, NEW k \in Calls, held[k] # {}
               PROVE  /\ pc[k] \in {"tool", "bars", "answered", "dead"}
                      /\ k \notin done /\ \A a \in Approvals : row[a].by # k
    BY DEF BarredIsInert
  <2>1. job[k] = "none" /\ \A a \in Approvals : row[a].by # k
    BY DEF IndInv, HeldIsBarred
  <2>2. k \notin done
    BY <2>1 DEF IndInv, Stages
  <2>3. pc[k] # "new"
    BY DEF IndInv, HeldIsBarred
  <2> QED
    BY <2>1, <2>2, <2>3 DEF IndInv, HeldIsBarred, TypeOK
<1> QED
  BY <1>1, Invariance, PTL

-----------------------------------------------------------------------------
(* The refinement. *)

Grants == [a \in Approvals |-> row[a].grants]
Spent == {a \in Approvals : row[a].by # NULL}
Performed == {<<k, ask[k].approval, ask[k].action>> : k \in {j \in done : NeedsGrant(j)}}

\* Effects are unchanged by a step that performs nothing and changes no request
\* that was performed.
LEMMA PerformedFrame ==
  ASSUME done' = done, \A k \in done : ask'[k] = ask[k] /\ binding'[k] = binding[k]
  PROVE  Performed' = Performed
  BY DEF Performed, NeedsGrant

\* Spending a row is the abstract Spend.
LEMMA SpendStep ==
  ASSUME IndInv, NEW b \in Approvals, NEW c \in Calls \cup {"sdk"}, StillConsumable(b),
         row' = [row EXCEPT ![b].by = c], done' = done, ask' = ask, binding' = binding
  PROVE  Effects!Spend(b)
<1> USE NullAssumption, BoundAssumption
<1>1. \A a \in Approvals : /\ row'[a].by = IF a = b THEN c ELSE row[a].by
                           /\ row'[a].grants = row[a].grants
  BY SpendFrame DEF IndInv
<1>2. Grants' = Grants
  BY <1>1 DEF Grants
<1>3. Spent' = Spent \cup {b}
  BY <1>1 DEF Spent
<1>4. Performed' = Performed
  BY PerformedFrame
<1>5. b \notin Spent /\ Grants[b] # NULL
  BY DEF StillConsumable, Spent, Grants
<1> QED
  BY <1>2, <1>3, <1>4, <1>5 DEF Effects!Spend, Grants, Spent, Performed

\* A connector's effect is the abstract Perform, or no write at all.
LEMMA ActStep ==
  ASSUME IndInv, NEW k \in Calls, Act(k)
  PROVE  (\E a \in Approvals : Effects!Perform(k, a)) \/ UNCHANGED <<Grants, Spent, Performed>>
<1> USE ActionAssumption, NullAssumption, BoundAssumption
<1>1. UNCHANGED <<Grants, Spent>>
  BY DEF Act, Grants, Spent
<1>2. k \notin done /\ job[k] = "acting"
  BY DEF Act, IndInv, Stages
<1>3. CASE done' = done
  BY <1>1, <1>3, PerformedFrame DEF Act
<1>4. CASE done' = done \cup {k} /\ Labelled(k) /\ ~NeedsGrant(k)
  <2>1. Performed' = Performed
    BY <1>4 DEF Act, Performed, NeedsGrant
  <2> QED
    BY <1>1, <2>1
<1>5. CASE done' = done \cup {k} /\ Labelled(k) /\ NeedsGrant(k)
  <2> DEFINE a == ask[k].approval
  <2>1. a \in Approvals /\ row[a].by = k /\ row[a].grants = ask[k].action
    BY <1>2, <1>5 DEF Labelled, Mislabelled, NeedsGrant, IndInv, Paid
  <2>2. Performed' = Performed \cup {<<k, a, ask[k].action>>}
    BY <1>5 DEF Act, Performed, NeedsGrant
  <2>3. a \in Spent /\ Grants[a] = ask[k].action
    BY <2>1 DEF Spent, Grants
  <2>4. ASSUME NEW e \in Performed PROVE e[2] # a
    <3>1. PICK j \in done : NeedsGrant(j) /\ e = <<j, ask[j].approval, ask[j].action>>
      BY <2>4 DEF Performed
    <3>2. j \in Calls /\ job[j] # "none" /\ ask[j].action \in Mutates
      BY <3>1 DEF IndInv, TypeOK, Stages, Honest
    <3>3. row[ask[j].approval].by = j
      BY <3>2 DEF IndInv, Paid
    <3>4. j # k
      BY <1>2
    <3> QED
      BY <2>1, <3>1, <3>3, <3>4
  <2>5. Effects!Perform(k, a)
    BY <1>1, <2>2, <2>3, <2>4 DEF Effects!Perform, Grants, Spent, Performed
  <2>6. a \in Approvals
    BY <2>1
  <2> QED
    BY <2>5, <2>6 DEF Effects!Perform
<1> QED
  BY <1>3, <1>4, <1>5 DEF Act

\* Every step of the route is a step of GrantedEffects or a stutter.
LEMMA StepRefines ==
  ASSUME IndInv, [Next]_vars
  PROVE  [Effects!Next]_<<Grants, Spent, Performed>>
<1> USE ActionAssumption, NullAssumption, BoundAssumption
<1>1. CASE row' = row /\ done' = done /\ ask' = ask /\ \A j \in done : binding'[j] = binding[j]
  BY <1>1, PerformedFrame DEF Grants, Spent
<1>2. ASSUME NEW a \in Approvals, NEW x \in Actions, Approve(a, x)
      PROVE  Effects!Grant(a, x)
  <2>1. \A b \in Approvals : /\ row'[b].by = row[b].by
                             /\ row'[b].grants = IF b = a THEN x ELSE row[b].grants
    BY <1>2 DEF Approve, IndInv, TypeOK
  <2>2. Grants' = [Grants EXCEPT ![a] = x] /\ Grants[a] = NULL
    BY <1>2, <2>1 DEF Grants, Approve
  <2>3. Spent' = Spent
    BY <2>1 DEF Spent
  <2>4. Performed' = Performed
    BY <1>2, PerformedFrame DEF Approve
  <2> QED
    BY <2>2, <2>3, <2>4 DEF Effects!Grant, Grants, Spent, Performed
<1>3. ASSUME NEW a \in Approvals, Expire(a) PROVE UNCHANGED <<Grants, Spent, Performed>>
  <2>1. \A b \in Approvals : row'[b].by = row[b].by /\ row'[b].grants = row[b].grants
    BY <1>3 DEF Expire, IndInv, TypeOK
  <2>2. Grants' = Grants /\ Spent' = Spent
    BY <2>1 DEF Grants, Spent
  <2> QED
    BY <1>3, <2>2, PerformedFrame DEF Expire
<1>4. ASSUME NEW a \in Approvals, ConsumeElsewhere(a) PROVE Effects!Spend(a)
  BY <1>4, SpendStep DEF ConsumeElsewhere
<1>5. ASSUME NEW k \in Calls, Consume(k) \/ StorageError(k), row' # row
      PROVE  \E a \in Approvals : Effects!Spend(a)
  <2>1. PICK b \in Approvals : StillConsumable(b) /\ row' = [row EXCEPT ![b].by = k]
    BY <1>5 DEF Consume, StorageError, Consumable, IndInv, TypeOK
  <2>2. done' = done /\ ask' = ask /\ binding' = binding
    BY <1>5 DEF Consume, StorageError, Go, Answer
  <2> QED
    BY <2>1, <2>2, SpendStep
<1>6. ASSUME NEW k \in Calls, NEW x \in Actions, NEW a \in Approvals \cup {NULL}, Arrive(k, x, a)
      PROVE  UNCHANGED <<Grants, Spent, Performed>>
  <2>1. k \notin done
    BY <1>6 DEF Arrive, At, IndInv, Stages
  <2>2. \A j \in done : ask'[j] = ask[j]
    BY <1>6, <2>1 DEF Arrive, IndInv, TypeOK
  <2> QED
    BY <1>6, <2>2, PerformedFrame DEF Arrive, Grants, Spent
<1>7. ASSUME NEW k \in Calls, Act(k) PROVE [Effects!Next]_<<Grants, Spent, Performed>>
  BY <1>7, ActStep DEF Effects!Next, Grants, Spent, Performed
<1>8. ASSUME NEW k \in Calls,
             (\E b \in Bars : ReadBar(k, b)) \/ Diagnose(k) \/ Send(k)
             \/ Receive(k) \/ Timeout(k) \/ AppendReceipt(k) \/ Admit(k) \/ Cancel(k)
      PROVE  row' = row /\ done' = done /\ ask' = ask /\ binding' = binding
  BY <1>8 DEF ReadBar, Diagnose, Send, Receive, Timeout, AppendReceipt, Admit, Cancel, Go, Answer
<1>9. ASSUME NEW k \in Calls, Consume(k) \/ StorageError(k)
      PROVE  done' = done /\ ask' = ask /\ binding' = binding
  BY <1>9 DEF Consume, StorageError, Go, Answer
<1>10. ASSUME OperatorStep \/ Crash \/ BrokerCrash \/ UNCHANGED vars
       PROVE  row' = row /\ done' = done /\ ask' = ask /\ binding' = binding
  BY <1>10 DEF OperatorStep, Register, SetStatus, Bar, Unbar, Crash, BrokerCrash, vars
\* The tool row is read once, before anything is done.
<1>11. ASSUME NEW k \in Calls, LookupTool(k)
       PROVE  row' = row /\ done' = done /\ ask' = ask /\ \A j \in done : binding'[j] = binding[j]
  <2>1. k \notin done
    BY <1>11 DEF LookupTool, At, IndInv, Stages
  <2>2. binding' = binding \/ binding' = [binding EXCEPT ![k] = tool]
    BY <1>11 DEF LookupTool, Answer
  <2>3. \A j \in done : binding'[j] = binding[j]
    BY <2>1, <2>2 DEF IndInv, TypeOK
  <2> QED
    BY <1>11, <2>3 DEF LookupTool, Answer
<1> QED
  BY <1>1, <1>2, <1>3, <1>4, <1>5, <1>6, <1>7, <1>8, <1>9, <1>10, <1>11
     DEF Next, RowStep, HandlerStep, BrokerStep, Effects!Next, Grants, Spent, Performed

\* The broker execute route implements GrantedEffects: whatever is retried,
\* raced, timed out or restarted, no write is performed but the one its approval
\* grants, and no approval pays for two.  Shell commands sent as reads are not
\* among these writes (NeedsGrant).
THEOREM Refinement == Spec => ImplementsGrants
<1>1. Init => Effects!Init
  BY DEF Init, Effects!Init
<1>2. IndInv /\ [Next]_vars => [Effects!Next]_<<Grants, Spent, Performed>>
  BY StepRefines
<1> QED
  BY <1>1, <1>2, Invariance, PTL DEF Spec, ImplementsGrants, Effects!Spec, Grants, Spent, Performed

=============================================================================
