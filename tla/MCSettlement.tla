---------------------------- MODULE MCSettlement ----------------------------
(* Small instances of Settlement: which provider each payment was opened   *)
(* with, and by whom.                                                      *)
EXTENDS Settlement, TLC

CONSTANTS p1, p2, p3, u1, u2

\* One account pays in three ways.
OneUser == [p \in Payments |-> u1]
\* p1 belongs to one account and the rest to another.
TwoUsers == [p \in Payments |-> IF p = p1 THEN u1 ELSE u2]

MpesaCardKora == (p1 :> "daraja") @@ (p2 :> "paystack") @@ (p3 :> "kora")
CardKora == (p1 :> "paystack") @@ (p2 :> "kora")
MpesaCard == (p1 :> "daraja") @@ (p2 :> "paystack")
MpesaTwice == [p \in Payments |-> "daraja"]

AllButReconcile == AllPaths \ {"reconcile"}
=============================================================================
