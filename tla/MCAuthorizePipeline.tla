-------------------------- MODULE MCAuthorizePipeline --------------------------
(***************************************************************************)
(* Request bodies for the runs of AuthorizePipeline.                       *)
(***************************************************************************)
EXTENDS AuthorizePipeline, TLC

CONSTANTS p1, p2, n1

Body(p, m, n, t, d) ==
    [call |-> [params |-> p, mutates |-> m], nonce |-> n, ts |-> t, dry |-> d]

\* Plain retries of a read or of a mutating call, without nonces.
Retries == {Body(p1, m, NoNonce, NoTime, FALSE) : m \in BOOLEAN}

\* Repeats with the same nonce: undated, or a dry run dated ahead.
SameNonce == {Body(p1, FALSE, n1, NoTime, FALSE), Body(p1, FALSE, n1, 2, TRUE)}

RetriesAndNonces == Retries \cup SameNonce

\* One mutating call.
OneMutation == {Body(p1, TRUE, NoNonce, NoTime, FALSE)}

Symmetry == Permutations(Attempts)

=============================================================================
