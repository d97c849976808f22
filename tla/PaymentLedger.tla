---------------------------- MODULE PaymentLedger ----------------------------
(***************************************************************************)
(* What taking money promises, with no sessions, rows or providers in      *)
(* sight: a payment is paid at most once, buys exactly one period for the  *)
(* account it was opened from, and only after it was paid.  Several        *)
(* payments may be credited together, because a pass of the sweep commits  *)
(* once.                                                                   *)
(***************************************************************************)
EXTENDS Naturals, FiniteSets

CONSTANTS Payments, Users, Owner

VARIABLES paid, bought, periods

ledger == <<paid, bought, periods>>

LedgerInit ==
  /\ paid = {}
  /\ bought = [p \in Payments |-> 0]
  /\ periods = [u \in Users |-> 0]

Pay(p) ==
  /\ p \notin paid
  /\ paid' = paid \cup {p}
  /\ UNCHANGED <<bought, periods>>

Credit(P) ==
  /\ P # {}
  /\ \A p \in P : p \in paid /\ bought[p] = 0
  /\ bought' = [p \in Payments |-> IF p \in P THEN 1 ELSE bought[p]]
  /\ periods' = [u \in Users |->
                   periods[u] + Cardinality({p \in P : Owner[p] = u})]
  /\ UNCHANGED paid

LedgerNext ==
  \/ \E p \in Payments : Pay(p)
  \/ \E P \in SUBSET Payments : Credit(P)

LedgerSpec == LedgerInit /\ [][LedgerNext]_ledger
=============================================================================
