--------------------------- MODULE MCReceiptChain ---------------------------
(* Instances of ReceiptChain: which tenant each receipt belongs to. *)
EXTENDS ReceiptChain

CONSTANTS a1, a2, a3, b1, A, B

OfTenant == [r \in Receipts |-> IF r = b1 THEN B ELSE A]
=============================================================================
