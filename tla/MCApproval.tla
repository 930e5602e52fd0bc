----------------------------- MODULE MCApproval -----------------------------
(* Instances of Approval: the action each executor is about to run. *)
EXTENDS Approval, TLC

CONSTANTS h1, h2, r1, r2, sdk, direct

\* The agent's own call; the direct caller is about to run the edited action.
WantSdk == [e \in Executors |-> IF e = sdk THEN h1 ELSE h2]

\* The tags of tamper receipts, and what a reviewer was shown, are written and
\* read by no guard and by none of the run's properties.
WhatDecides == <<row, clock, rpc, request, told, consume, grant>>
=============================================================================
