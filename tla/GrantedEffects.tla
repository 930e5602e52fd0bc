--------------------------- MODULE GrantedEffects ---------------------------
(***************************************************************************)
(* What an approval promises about state-mutating actions, to the SDK's    *)
(* consume route and to the broker's execute route alike: an approval      *)
(* grants one action, it is spent at most once, and the action it grants   *)
(* is performed at most once and only after it was spent.  Reads,          *)
(* refusals, timeouts, crashes and evidence are invisible here.            *)
(***************************************************************************)
CONSTANTS Calls, Approvals, Actions, NULL

VARIABLES
    grant,      \* grant[a]: the action a grants, NULL until it is approved
    spent,      \* approvals that were consumed
    performed   \* <<call, approval, action>> for every effect

Init ==
    /\ grant = [a \in Approvals |-> NULL]
    /\ spent = {} /\ performed = {}

Grant(a, x) ==
    /\ grant[a] = NULL
    /\ grant' = [grant EXCEPT ![a] = x]
    /\ UNCHANGED <<spent, performed>>

Spend(a) ==
    /\ grant[a] # NULL /\ a \notin spent
    /\ spent' = spent \cup {a}
    /\ UNCHANGED <<grant, performed>>

Perform(k, a) ==
    /\ a \in spent
    /\ \A e \in performed : e[2] # a
    /\ performed' = performed \cup {<<k, a, grant[a]>>}
    /\ UNCHANGED <<grant, spent>>

Next ==
    \E a \in Approvals :
        \/ \E x \in Actions : Grant(a, x)
        \/ Spend(a)
        \/ \E k \in Calls : Perform(k, a)

Spec == Init /\ [][Next]_<<grant, spent, performed>>
=============================================================================
