------------------------- MODULE Settlement_proofs -------------------------
(***************************************************************************)
(* What holds of Settlement for every set of payments, users and sessions, *)
(* every batch size and every bound.                                       *)
(***************************************************************************)
EXTENDS Settlement, FiniteSetTheorems, TLAPS

-----------------------------------------------------------------------------
(* Types.                                                                  *)

\* When one session moves to a well-typed state, all of them are well typed.
LEMMA BecomesType ==
  ASSUME TxOK, NEW s \in Sessions, NEW r, SessionOK(r), Becomes(s, r)
  PROVE  TxOK'
  BY DEF TxOK, Becomes, SessionOK

\* A closed session is a well-typed one.
LEMMA NoTxType == SessionOK(NoTx)
  BY DEF SessionOK, NoTx, TxType

LEMMA CloseType ==
  ASSUME TxOK, NEW s \in Sessions, Close(s)
  PROVE  TxOK'
  BY NoTxType, BecomesType DEF Close

LEMMA LeaveAloneType ==
  ASSUME TxOK, NEW s \in Sessions, LeaveAlone(s)
  PROVE  TxOK'
<1>1. SessionOK([tx[s] EXCEPT !.pc = "next"])
  BY DEF TxOK, SessionOK, TxType
<1> QED
  BY <1>1, BecomesType, CloseType DEF LeaveAlone

LEMMA RaiseType ==
  ASSUME TxOK, NEW s \in Sessions, Raise(s)
  PROVE  TxOK'
  BY CloseType, LeaveAloneType DEF Raise

\* A row gets a natural number for its place in creation order.
LEMMA StampType == Stamp \in Nat
<1>1. IsFiniteSet({p \in Payments : born[p] > 0})
  BY SettlementAssumption, FS_Subset DEF SettlementAssumption
<1>2. Cardinality({p \in Payments : born[p] > 0}) \in Nat
  BY <1>1, FS_CardinalityType
<1> QED
  BY <1>2 DEF Stamp

\* What a session starts a request, a webhook or a pass with is well typed.
LEMMA ArriveType ==
  ASSUME TypeOK, NEW s \in Sessions, Arrive(s)
  PROVE  TypeOK'
<1> USE DEF TypeOK
<1>1. World' = World /\ TxOK' => TypeOK'
  BY DEF World
<1>2. ASSUME NEW via \in RequestPaths, NEW p \in Payments, BeginRequest(s, via, p)
      PROVE  TypeOK'
  <2>1. SessionOK([NoTx EXCEPT !.pc = "ask", !.path = via, !.cur = p,
                               !.seen = [@ EXCEPT ![p] = row[p]]])
    BY DEF SessionOK, TxType, NoTx, AllPaths
  <2> QED
    BY <1>1, <1>2, <2>1, BecomesType DEF BeginRequest
<1>3. ASSUME NEW p \in Payments, BeginWebhook(s, p)
      PROVE  TypeOK'
  <2>1. SessionOK([NoTx EXCEPT !.pc = "record", !.path = "webhook", !.cur = p,
                               !.seen = [@ EXCEPT ![p] = row[p]], !.ans = "success"])
    BY DEF SessionOK, TxType, NoTx, AllPaths
  <2> QED
    BY <1>1, <1>3, <2>1, BecomesType DEF BeginWebhook
<1>4. CASE BeginSweep(s)
  <2>1. PendingPayments \subseteq Payments
    BY DEF PendingPayments, Due
  <2>2. SessionOK([NoTx EXCEPT !.pc = "next", !.path = "sweep",
                               !.batch = PendingPayments,
                               !.seen = [p \in Payments |->
                                  IF p \in PendingPayments THEN row[p] ELSE None]])
    BY <2>1 DEF SessionOK, TxType, NoTx, AllPaths
  <2> QED
    BY <1>1, <1>4, <2>2, BecomesType DEF BeginSweep
<1> QED
  BY <1>2, <1>3, <1>4 DEF Arrive

\* A session that acts on an answer.
LEMMA ActsOnType ==
  ASSUME TypeOK, NEW s \in Sessions, tx[s].pc = "ask",
         NEW a \in {"pending", "processing", "success", "failed"}, ActsOn(s, a)
  PROVE  TxOK'
<1>1. TxOK /\ SessionOK(tx[s]) /\ tx[s] \in TxType
  BY DEF TypeOK, TxOK, SessionOK
<1>2. tx[s].cur \in Payments
  BY <1>1 DEF SessionOK
<1>3. Reloaded(s) \in [Payments -> Status \cup {None}]
  BY <1>1, <1>2 DEF Reloaded, TypeOK, TxType
<1>4. SessionOK([tx[s] EXCEPT !.pc = "record", !.ans = a, !.seen = Reloaded(s)])
  BY <1>1, <1>2, <1>3 DEF SessionOK, TxType
<1> QED
  BY <1>1, <1>4, BecomesType, LeaveAloneType DEF ActsOn

LEMMA HearsType ==
  ASSUME TypeOK, NEW s \in Sessions, NEW a \in Status, Hears(s, a)
  PROVE  hearsay' \in [Payments -> SUBSET Status]
  BY DEF TypeOK, Hears

\* Every step an open session takes by itself keeps the types.
LEMMA ContinueType ==
  ASSUME TypeOK, NEW s \in Sessions, Continue(s)
  PROVE  TypeOK'
<1> USE DEF TypeOK
<1>0. SessionOK(tx[s]) /\ tx[s] \in TxType
  BY DEF TxOK, SessionOK
<1>1. World' = World /\ TxOK' => TypeOK'
  BY DEF World
<1>2. CASE SweepNext(s)
  <2>1. SessionOK([tx[s] EXCEPT !.pc = "commit"])
    BY <1>0 DEF SessionOK, TxType
  <2>2. ASSUME NEW p \in tx[s].batch
        PROVE  SessionOK([tx[s] EXCEPT !.batch = @ \ {p}, !.cur = p,
                            !.pc = IF Provider[p] = "kora" THEN "next" ELSE "ask"])
    BY <1>0 DEF SessionOK, TxType
  <2> QED
    BY <1>1, <1>2, <2>1, <2>2, BecomesType DEF SweepNext
<1>3. CASE AskAnswered(s)
  <2>1. PICK a \in Answers(tx[s].cur) :
          ActsOn(s, a) /\ IF a \in Outcomes THEN UNCHANGED hearsay ELSE Hears(s, a)
    BY <1>3 DEF AskAnswered
  <2>2. tx[s].cur \in Payments /\ tx[s].pc = "ask"
    BY <1>0, <1>3 DEF AskAnswered, SessionOK
  <2>3. a \in {"pending", "processing", "success", "failed"}
    BY <2>1 DEF Answers
  <2>4. TxOK' /\ hearsay' \in [Payments -> SUBSET Status]
    BY <2>1, <2>2, <2>3, ActsOnType, HearsType DEF Status, TypeOK
  <2> QED
    BY <1>3, <2>4 DEF AskAnswered
<1>4. CASE AskUnclear(s) \/ AskUnknown(s)
  BY <1>1, <1>4, LeaveAloneType, RaiseType DEF AskUnclear, AskUnknown
<1>5. CASE Record(s)
  <2> DEFINE p == tx[s].cur
             put == IF WritesRow(s) THEN [tx[s].rowPut EXCEPT ![p] = tx[s].ans]
                                    ELSE tx[s].rowPut
             to == IF TurnsPlanOn(s) THEN "activate" ELSE AfterPayment(s)
  <2>1. p \in Payments
    BY <1>0, <1>5 DEF Record, SessionOK
  <2>2. put \in [Payments -> Status \cup {None}]
    BY <1>0, <2>1 DEF TxType, Status
  <2>3. to \in {"activate", "next", "commit"}
    BY DEF AfterPayment
  <2> HIDE DEF put, to
  <2>4. SessionOK([tx[s] EXCEPT !.rowPut = put, !.pc = to])
    BY <1>0, <2>1, <2>2, <2>3 DEF SessionOK, TxType
  <2>5. Becomes(s, [tx[s] EXCEPT !.rowPut = put, !.pc = to])
    BY <1>5 DEF Record, put, to
  <2> QED
    BY <1>1, <1>5, <2>4, <2>5, BecomesType DEF Record
<1>6. CASE RecordClashes(s) \/ DeadlockVictim(s)
  BY <1>1, <1>6, CloseType DEF RecordClashes, DeadlockVictim
<1>7. CASE Activate(s)
  <2> DEFINE u == Owner[tx[s].cur]
             end == IF tx[s].subPut[u] = None THEN sub[u] ELSE tx[s].subPut[u]
  <2>1. tx[s].cur \in Payments /\ u \in Users
    BY <1>0, <1>7, SettlementAssumption DEF Activate, SessionOK, SettlementAssumption
  <2>2. end \in Nat
    BY <1>0, <2>1 DEF TxType
  <2> HIDE DEF end
  <2>3. SessionOK([tx[s] EXCEPT !.base = end, !.pc = "extend"])
    BY <1>0, <2>1, <2>2 DEF SessionOK, TxType
  <2>4. Becomes(s, [tx[s] EXCEPT !.base = end, !.pc = "extend"])
    BY <1>7 DEF Activate, end
  <2> QED
    BY <1>1, <1>7, <2>3, <2>4, BecomesType DEF Activate
<1>8. CASE Extend(s)
  <2> DEFINE u == Owner[tx[s].cur]
             put == [tx[s].subPut EXCEPT ![u] = tx[s].base + 1]
             on == tx[s].activated \cup {tx[s].cur}
  <2>1. tx[s].cur \in Payments /\ u \in Users
    BY <1>0, <1>8, SettlementAssumption DEF Extend, SessionOK, SettlementAssumption
  <2>2. put \in [Users -> Nat \cup {None}]
    BY <1>0, <2>1 DEF TxType
  <2>3. on \in SUBSET Payments /\ AfterPayment(s) \in {"next", "commit"}
    BY <1>0, <2>1 DEF TxType, AfterPayment
  <2> HIDE DEF put, on
  <2>4. SessionOK([tx[s] EXCEPT !.subPut = put, !.activated = on, !.pc = AfterPayment(s)])
    BY <1>0, <2>1, <2>2, <2>3 DEF SessionOK, TxType
  <2>5. Becomes(s, [tx[s] EXCEPT !.subPut = put, !.activated = on, !.pc = AfterPayment(s)])
    BY <1>8 DEF Extend, put, on
  <2> QED
    BY <1>1, <1>8, <2>4, <2>5, BecomesType DEF Extend
<1>9. CASE Commit(s)
  <2>1. row' \in [Payments -> Status]
    BY <1>0, <1>9 DEF Commit, TxType
  <2>2. born' \in [Payments -> Nat]
    BY <1>9, StampType DEF Commit
  <2>3. sub' \in [Users -> Nat]
    BY <1>0, <1>9 DEF Commit, TxType
  <2>4. credits' \in [Payments -> Nat]
    BY <1>9 DEF Commit
  <2>5. TxOK'
    BY <1>9, CloseType DEF Commit
  <2> QED
    BY <1>9, <2>1, <2>2, <2>3, <2>4, <2>5 DEF Commit
<1> QED
  BY <1>2, <1>3, <1>4, <1>5, <1>6, <1>7, <1>8, <1>9 DEF Continue

\* The student, the provider and the clock keep the types.
LEMMA EnvironmentType ==
  ASSUME TypeOK, Environment
  PROVE  TypeOK'
<1> USE DEF TypeOK
<1>1. PICK p \in Payments : \/ OpenAtProvider(p) \/ RecordPending(p)
                            \/ StudentPays(p) \/ StudentDeclines(p) \/ GrowOlder(p)
  BY DEF Environment
<1>2. tx' = tx => TxOK'
  BY DEF TxOK
<1>3. CASE OpenAtProvider(p) \/ StudentPays(p) \/ StudentDeclines(p)
  BY <1>2, <1>3 DEF OpenAtProvider, StudentPays, StudentDeclines
<1>4. CASE RecordPending(p)
  BY <1>2, <1>4, StampType DEF RecordPending, Status
<1>5. CASE GrowOlder(p)
  BY <1>2, <1>5 DEF GrowOlder
<1> QED
  BY <1>1, <1>3, <1>4, <1>5

\* Types hold in every reachable state, whatever the constants.
THEOREM TypeCorrect == Spec => []TypeOK
<1>1. Init => TypeOK
  <2> SUFFICES ASSUME Init PROVE TypeOK
    OBVIOUS
  <2>1. TxOK
    BY NoTxType DEF Init, TxOK, SessionOK
  <2> QED
    BY <2>1 DEF Init, TypeOK, Status
<1>2. TypeOK /\ [Next]_vars => TypeOK'
  <2> SUFFICES ASSUME TypeOK, [Next]_vars PROVE TypeOK'
    OBVIOUS
  <2>1. CASE Environment
    BY <2>1, EnvironmentType
  <2>2. ASSUME NEW s \in Sessions, Arrive(s) \/ Continue(s)
        PROVE  TypeOK'
    BY <2>2, ArriveType, ContinueType
  <2>5. ASSUME NEW s \in Sessions, AskDisowned(s)
        PROVE  TypeOK'
    <3>1. TxOK' /\ hearsay' \in [Payments -> SUBSET Status]
      BY <2>5, ActsOnType, HearsType DEF AskDisowned, Status
    <3> QED
      BY <2>5, <3>1 DEF TypeOK, AskDisowned
  <2>3. ASSUME NEW s \in Sessions, AskRaises(s) \/ Crash(s)
        PROVE  TypeOK'
    <3>1. TxOK'
      BY <2>3, CloseType, RaiseType DEF TypeOK, AskRaises, Crash
    <3> QED
      BY <2>3, <3>1 DEF TypeOK, AskRaises, Crash
  <2>4. CASE UNCHANGED vars
    BY <2>4 DEF vars, TypeOK, TxOK
  <2> QED
    BY <2>1, <2>2, <2>3, <2>4, <2>5 DEF Next
<1> QED
  BY <1>1, <1>2, PTL DEF Spec

-----------------------------------------------------------------------------
(* Money and credit.                                                       *)

\* Hearsay is never forgotten, so what was honest stays so.
Remembers == \A p \in Payments : hearsay[p] \subseteq hearsay'[p]

LEMMA HonestLater ==
  ASSUME NEW r, SessionHonest(r, hearsay), Remembers,
         r.pc \in {"record", "activate", "extend"} => r.cur \in Payments
  PROVE  SessionHonest(r, hearsay')
<1>1. \A p \in Payments : Refused(p, hearsay) => Refused(p, hearsay')
  BY DEF Refused, Remembers
<1> QED
  BY <1>1 DEF SessionHonest

\* One session moving to an honest state leaves every session honest.
LEMMA BecomesHonest ==
  ASSUME TypeOK, Honest, NEW s \in Sessions, NEW r, SessionHonest(r, hearsay'), Becomes(s, r),
         UNCHANGED truth, Remembers
  PROVE  \A t \in Sessions : SessionHonest(tx[t], hearsay)'
<1>1. \A t \in Sessions : tx'[t] = IF t = s THEN r ELSE tx[t]
  BY DEF TypeOK, TxOK, Becomes
<1>2. \A t \in Sessions : SessionHonest(tx[t], hearsay')
  BY HonestLater DEF Honest, TypeOK, TxOK, SessionOK
<1>3. \A t \in Sessions : SessionHonest(tx'[t], hearsay')
  BY <1>1, <1>2
<1> QED
  BY <1>3 DEF SessionHonest, Refused

LEMMA NoTxHonest == ASSUME NEW h PROVE SessionHonest(NoTx, h)
  BY SettlementAssumption DEF SessionHonest, NoTx, SettlementAssumption

\* A step of one session that leaves the world alone keeps Honest if it
\* leaves the session honest.
LEMMA QuietHonest ==
  ASSUME TypeOK, Honest, NEW s \in Sessions, NEW r, SessionHonest(r, hearsay), Becomes(s, r),
         UNCHANGED <<truth, credits, row, hearsay>>
  PROVE  Honest'
<1>1. Remembers /\ SessionHonest(r, hearsay')
  BY DEF Remembers
<1> QED
  BY <1>1, BecomesHonest DEF Honest, Refused

LEMMA CloseHonest ==
  ASSUME TypeOK, Honest, NEW s \in Sessions, Close(s), UNCHANGED <<truth, credits, row, hearsay>>
  PROVE  Honest'
  BY NoTxHonest, QuietHonest DEF Close

LEMMA LeaveAloneHonest ==
  ASSUME TypeOK, Honest, NEW s \in Sessions, tx[s].pc = "ask", LeaveAlone(s),
         UNCHANGED <<truth, credits, row, hearsay>>
  PROVE  Honest'
<1>1. SessionHonest([tx[s] EXCEPT !.pc = "next"], hearsay)
  BY DEF TypeOK, TxOK, TxType, Honest, SessionHonest
<1> QED
  BY <1>1, QuietHonest, CloseHonest DEF LeaveAlone

\* A session that acts on an answer: on the outcome, or on one it is known to
\* have acted on.
LEMMA ActsOnHonest ==
  ASSUME TypeOK, Honest, NEW s \in Sessions, tx[s].pc = "ask", NEW a, ActsOn(s, a),
         UNCHANGED <<truth, credits, row>>,
         a = "success" => truth[tx[s].cur] = "paid",
         \/ UNCHANGED hearsay /\ (a = "failed" => truth[tx[s].cur] = "unpaid")
         \/ Hears(s, a) /\ Provider[tx[s].cur] # "daraja"
         \/ Hears(s, a) /\ NotSettledBy(s, a)
  PROVE  Honest'
<1>0. /\ tx[s] \in TxType /\ tx[s].cur \in Payments /\ SessionHonest(tx[s], hearsay)
      /\ hearsay \in [Payments -> SUBSET Status]
  BY DEF TypeOK, TxOK, SessionOK, Honest
<1>1. CASE NotSettledBy(s, a)
  <2>1. UNCHANGED hearsay /\ LeaveAlone(s)
    BY <1>1 DEF ActsOn, Hears
  <2> QED
    BY <2>1, LeaveAloneHonest
<1>2. CASE ~NotSettledBy(s, a)
  <2> DEFINE p == tx[s].cur
             r == [tx[s] EXCEPT !.pc = "record", !.ans = a, !.seen = Reloaded(s)]
  <2>1. Becomes(s, r)
    BY <1>2 DEF ActsOn
  <2>2. /\ r.pc = "record" /\ r.ans = a /\ r.cur = p
        /\ r.activated = tx[s].activated /\ r.rowPut = tx[s].rowPut
    BY <1>0 DEF TxType
  <2>3. /\ Remembers
        /\ a = "failed" => Refused(p, hearsay')
        /\ \A q \in Payments : hearsay'[q] # {} => Provider[q] # "daraja"
    <3>1. CASE UNCHANGED hearsay /\ (a = "failed" => truth[p] = "unpaid")
      BY <3>1 DEF Remembers, Refused, Honest
    <3>2. CASE Hears(s, a) /\ Provider[p] # "daraja"
      <4>1. \A q \in Payments : hearsay'[q] = IF q = p THEN hearsay[q] \cup {a} ELSE hearsay[q]
        BY <1>0, <1>2, <3>2 DEF Hears
      <4> QED
        BY <1>0, <3>2, <4>1 DEF Remembers, Refused, Honest
    <3> QED
      BY <1>2, <3>1, <3>2
  <2> HIDE DEF r
  <2>4. SessionHonest(tx[s], hearsay')
    BY <1>0, <2>3, HonestLater
  <2>5. SessionHonest(r, hearsay')
    BY <2>2, <2>3, <2>4 DEF SessionHonest
  <2>6. \A t \in Sessions : SessionHonest(tx[t], hearsay)'
    BY <2>1, <2>3, <2>5, BecomesHonest
  <2>7. \A q \in Payments : Refused(q, hearsay) => Refused(q, hearsay)'
    BY <2>3 DEF Refused, Remembers
  <2> QED
    BY <2>3, <2>6, <2>7 DEF Honest
<1> QED
  BY <1>1, <1>2

\* Sessions start honest: what a webhook brings is the provider's own word.
LEMMA ArriveHonest ==
  ASSUME TypeOK, Honest, NEW s \in Sessions, Arrive(s)
  PROVE  Honest'
<1> USE SettlementAssumption DEF SettlementAssumption
<1>1. ASSUME NEW via \in RequestPaths, NEW p \in Payments, BeginRequest(s, via, p)
      PROVE  Honest'
  <2>1. SessionHonest([NoTx EXCEPT !.pc = "ask", !.path = via, !.cur = p,
                                   !.seen = [@ EXCEPT ![p] = row[p]]], hearsay)
    BY DEF SessionHonest, NoTx
  <2> QED
    BY <1>1, <2>1, QuietHonest DEF BeginRequest, World
<1>2. ASSUME NEW p \in Payments, BeginWebhook(s, p)
      PROVE  Honest'
  <2>1. SessionHonest([NoTx EXCEPT !.pc = "record", !.path = "webhook", !.cur = p,
                                   !.seen = [@ EXCEPT ![p] = row[p]], !.ans = "success"], hearsay)
    BY <1>2 DEF SessionHonest, NoTx, BeginWebhook
  <2> QED
    BY <1>2, <2>1, QuietHonest DEF BeginWebhook, World
<1>3. CASE BeginSweep(s)
  <2>1. SessionHonest([NoTx EXCEPT !.pc = "next", !.path = "sweep",
                                   !.batch = PendingPayments,
                                   !.seen = [p \in Payments |->
                                      IF p \in PendingPayments THEN row[p] ELSE None]], hearsay)
    BY DEF SessionHonest, NoTx
  <2> QED
    BY <1>3, <2>1, QuietHonest DEF BeginSweep, World
<1> QED
  BY <1>1, <1>2, <1>3 DEF Arrive

\* A session's own steps: the provider's word is carried unchanged from the
\* answer to the row and to the credit, and the commit publishes both.
LEMMA ContinueHonest ==
  ASSUME TypeOK, Honest, NEW s \in Sessions, Continue(s)
  PROVE  Honest'
<1>0. /\ tx[s] \in TxType
      /\ tx[s].pc \in {"ask", "record", "activate", "extend"} => tx[s].cur \in Payments
      /\ SessionHonest(tx[s], hearsay)
  BY DEF TypeOK, TxOK, SessionOK, Honest
<1>1. CASE SweepNext(s)
  <2>1. tx[s].pc = "next" /\ World' = World
    BY <1>1 DEF SweepNext, World
  <2>2. SessionHonest([tx[s] EXCEPT !.pc = "commit"], hearsay)
    BY <1>0, <2>1 DEF SessionHonest, TxType
  <2>3. ASSUME NEW p \in tx[s].batch
        PROVE  SessionHonest([tx[s] EXCEPT !.batch = @ \ {p}, !.cur = p,
                                !.pc = IF Provider[p] = "kora" THEN "next" ELSE "ask"], hearsay)
    BY <1>0, <2>1 DEF SessionHonest, TxType
  <2> QED
    BY <1>1, <2>1, <2>2, <2>3, QuietHonest DEF SweepNext, World
<1>2. CASE AskAnswered(s)
  <2>1. PICK a \in Answers(tx[s].cur) :
          ActsOn(s, a) /\ IF a \in Outcomes THEN UNCHANGED hearsay ELSE Hears(s, a)
    BY <1>2 DEF AskAnswered
  <2>2. tx[s].pc = "ask" /\ UNCHANGED <<truth, credits, row>>
    BY <1>2 DEF AskAnswered
  <2>3. /\ a = "success" => truth[tx[s].cur] = "paid"
        /\ a = "failed" => truth[tx[s].cur] = "unpaid"
        /\ a \in Outcomes \/ a = "pending" \/ Provider[tx[s].cur] # "daraja"
    BY <2>1 DEF Answers, Outcomes
  <2>4. a = "pending" /\ Provider[tx[s].cur] = "daraja" => NotSettledBy(s, a)
    BY DEF NotSettledBy, KoraReconcile
  <2> QED
    BY <2>1, <2>2, <2>3, <2>4, ActsOnHonest DEF Outcomes
<1>3. CASE AskUnclear(s) \/ AskUnknown(s)
  BY <1>3, LeaveAloneHonest, CloseHonest DEF AskUnclear, AskUnknown, Raise, World
<1>4. CASE Record(s)
  <2> DEFINE p == tx[s].cur
             put == IF WritesRow(s) THEN [tx[s].rowPut EXCEPT ![p] = tx[s].ans]
                                    ELSE tx[s].rowPut
             to == IF TurnsPlanOn(s) THEN "activate" ELSE AfterPayment(s)
             r == [tx[s] EXCEPT !.rowPut = put, !.pc = to]
  <2>1. p \in Payments /\ tx[s].pc = "record" /\ World' = World
    BY <1>0, <1>4 DEF Record, World
  <2>2. /\ r.ans = tx[s].ans /\ r.cur = p /\ r.activated = tx[s].activated
        /\ r.pc = to /\ r.rowPut = put
    BY <1>0 DEF TxType
  <2>3. to \in {"activate", "next", "commit"} /\ (to = "activate" => tx[s].ans = "success")
    BY DEF AfterPayment, TurnsPlanOn
  <2>4. \A q \in Payments :
          put[q] = tx[s].rowPut[q] \/ (q = p /\ WritesRow(s) /\ put[q] = tx[s].ans)
    BY <1>0, <2>1 DEF TxType
  <2>5. WritesRow(s) /\ tx[s].ans = "success" => to = "activate"
    BY DEF WritesRow, TurnsPlanOn
  <2>6. \A q \in Payments : tx[s].rowPut[q] = "success" => q \in tx[s].activated
    BY <1>0, <2>1 DEF SessionHonest
  <2>7. Becomes(s, r)
    BY <1>4 DEF Record
  <2> HIDE DEF put, to, r
  <2>8. SessionHonest(r, hearsay)
    BY <1>0, <2>1, <2>2, <2>3, <2>4, <2>5, <2>6 DEF SessionHonest
  <2> QED
    BY <2>1, <2>7, <2>8, QuietHonest DEF World
<1>5. CASE RecordClashes(s) \/ DeadlockVictim(s)
  BY <1>5, CloseHonest DEF RecordClashes, DeadlockVictim, World
<1>6. CASE Activate(s)
  <2> DEFINE u == Owner[tx[s].cur]
             end == IF tx[s].subPut[u] = None THEN sub[u] ELSE tx[s].subPut[u]
  <2>1. Becomes(s, [tx[s] EXCEPT !.base = end, !.pc = "extend"])
    BY <1>6 DEF Activate
  <2>2. tx[s].pc = "activate" /\ World' = World
    BY <1>6 DEF Activate, World
  <2> HIDE DEF end
  <2>3. SessionHonest([tx[s] EXCEPT !.base = end, !.pc = "extend"], hearsay)
    BY <1>0, <2>2 DEF SessionHonest, TxType
  <2> QED
    BY <2>1, <2>2, <2>3, QuietHonest DEF World
<1>7. CASE Extend(s)
  <2> DEFINE u == Owner[tx[s].cur]
             put == [tx[s].subPut EXCEPT ![u] = tx[s].base + 1]
             on == tx[s].activated \cup {tx[s].cur}
             r == [tx[s] EXCEPT !.subPut = put, !.activated = on, !.pc = AfterPayment(s)]
  <2>1. Becomes(s, r)
    BY <1>7 DEF Extend
  <2>2. tx[s].pc = "extend" /\ tx[s].cur \in Payments /\ World' = World
    BY <1>0, <1>7 DEF Extend, World
  <2>3. /\ r.ans = tx[s].ans /\ r.cur = tx[s].cur /\ r.rowPut = tx[s].rowPut
        /\ r.pc = AfterPayment(s) /\ r.activated = on
    BY <1>0 DEF TxType
  <2>4. AfterPayment(s) \in {"next", "commit"}
    BY DEF AfterPayment
  <2> HIDE DEF r
  <2>5. SessionHonest(r, hearsay)
    BY <1>0, <2>2, <2>3, <2>4 DEF SessionHonest
  <2> QED
    BY <2>1, <2>2, <2>5, QuietHonest DEF World
<1>8. CASE Commit(s)
  <2>1. UNCHANGED <<truth, hearsay>> /\ tx[s].pc = "commit"
    BY <1>8 DEF Commit
  <2>2. \A t \in Sessions : SessionHonest(tx[t], hearsay)'
    <3>1. UNCHANGED <<truth, hearsay>> /\ Becomes(s, NoTx) /\ Remembers
      BY <1>8 DEF Commit, Close, Remembers
    <3> QED
      BY <3>1, NoTxHonest, BecomesHonest
  <2>3. \A p \in Payments :
          /\ row'[p] = IF tx[s].rowPut[p] = None THEN row[p] ELSE tx[s].rowPut[p]
          /\ credits'[p] = IF p \in tx[s].activated THEN credits[p] + 1 ELSE credits[p]
    BY <1>8 DEF Commit
  <2>4. ASSUME NEW p \in Payments
        PROVE  /\ credits'[p] > 0 => truth[p] = "paid"
               /\ row'[p] = "failed" => Refused(p, hearsay)
               /\ row'[p] = "success" => credits'[p] > 0
    BY <1>0, <2>1, <2>3 DEF SessionHonest, Honest, TypeOK, Refused
  <2> QED
    BY <2>1, <2>2, <2>4 DEF Honest, Refused
<1> QED
  BY <1>1, <1>2, <1>3, <1>4, <1>5, <1>6, <1>7, <1>8 DEF Continue

\* The world never takes back a payment or a refusal.
LEMMA EnvironmentHonest ==
  ASSUME TypeOK, Honest, Environment
  PROVE  Honest'
<1>1. PICK p \in Payments : \/ OpenAtProvider(p) \/ RecordPending(p)
                            \/ StudentPays(p) \/ StudentDeclines(p) \/ GrowOlder(p)
  BY DEF Environment
<1>2. /\ UNCHANGED <<tx, credits, hearsay>>
      /\ \A q \in Payments : truth[q] \in {"paid", "unpaid"} => truth'[q] = truth[q]
      /\ \A q \in Payments : row'[q] \in {"failed", "success"} => row'[q] = row[q]
  BY <1>1 DEF OpenAtProvider, RecordPending, StudentPays, StudentDeclines, GrowOlder, TypeOK
<1>3. ASSUME NEW s \in Sessions
      PROVE  SessionHonest(tx[s], hearsay)'
  <2>1. SessionHonest(tx[s], hearsay) /\ SessionOK(tx[s])
    BY DEF Honest, TypeOK, TxOK
  <2> QED
    BY <1>2, <2>1 DEF SessionHonest, SessionOK, Refused
<1> QED
  BY <1>2, <1>3 DEF Honest, Refused, TypeOK

\* What is credited or recorded of a payment, and what a session is about to
\* record, is so at its provider, whichever sessions overlap or crash.
THEOREM AlwaysHonest == Spec => []Honest
<1>1. Init => Honest
  BY NoTxHonest DEF Init, Honest
<1>2. TypeOK /\ Honest /\ [Next]_vars => Honest'
  <2> SUFFICES ASSUME TypeOK, Honest, [Next]_vars PROVE Honest'
    OBVIOUS
  <2>1. CASE Environment
    BY <2>1, EnvironmentHonest
  <2>2. ASSUME NEW s \in Sessions, Arrive(s) \/ Continue(s)
        PROVE  Honest'
    BY <2>2, ArriveHonest, ContinueHonest
  <2>5. ASSUME NEW s \in Sessions, AskDisowned(s)
        PROVE  Honest'
    <3>1. Provider[tx[s].cur] # "daraja"
      BY <2>5 DEF AskDisowned
    <3> QED
      BY <2>5, <3>1, ActsOnHonest DEF AskDisowned
  <2>3. ASSUME NEW s \in Sessions, AskRaises(s) \/ Crash(s)
        PROVE  Honest'
    BY <2>3, CloseHonest, LeaveAloneHonest DEF AskRaises, Crash, Raise
  <2>4. CASE UNCHANGED vars
    BY <2>4 DEF vars, Honest, SessionHonest, Refused
  <2> QED
    BY <2>1, <2>2, <2>3, <2>4, <2>5 DEF Next
<1> QED
  BY <1>1, <1>2, TypeCorrect, PTL DEF Spec

\* No subscription without money: whatever is credited, committed or in
\* flight, was paid at its provider.
THEOREM OnlyMoneyCredits == Spec => []CreditedWerePaid
<1>1. Honest => CreditedWerePaid
  BY DEF Honest, SessionHonest, CreditedWerePaid
<1> QED
  BY <1>1, AlwaysHonest, PTL

\* No payment is written off as failed but by a refusal, or by a processor
\* that does not know it.
THEOREM OnlyRefusalsFail == Spec => []FailedWereRefused
<1>1. Honest => FailedWereRefused
  BY DEF Honest, SessionHonest, Refused, FailedWereRefused
<1> QED
  BY <1>1, AlwaysHonest, PTL

\* No committed success without its credit.
THEOREM SuccessComesWithCredit == Spec => []SuccessIsCredited
<1>1. Honest => SuccessIsCredited
  BY DEF Honest, SuccessIsCredited
<1> QED
  BY <1>1, AlwaysHonest, PTL

-----------------------------------------------------------------------------
(* Credits of overlapping sessions, with the console's reconcile left out.  *)

\* One session moving to a final state leaves all of them final.
LEMMA BecomesFinal ==
  ASSUME TypeOK, Final, NEW s \in Sessions, NEW r, SessionFinal(r, hearsay'), CreditsWithRow(r),
         Becomes(s, r), Remembers,
         \A p \in Payments : hearsay'[p] # {} => Provider[p] = "paystack"
  PROVE  Final'
<1>1. \A t \in Sessions : tx'[t] = IF t = s THEN r ELSE tx[t]
  BY DEF TypeOK, TxOK, Becomes
<1>2. ASSUME NEW t \in Sessions PROVE SessionFinal(tx[t], hearsay')
  <2>1. SessionFinal(tx[t], hearsay) /\ (tx[t].pc = "record" => tx[t].cur \in Payments)
    BY DEF Final, TypeOK, TxOK, SessionOK
  <2>2. \A p \in Payments : hearsay[p] # {} => hearsay'[p] # {}
    BY DEF Remembers
  <2> QED
    BY <2>1, <2>2 DEF SessionFinal
<1>3. \A t \in Sessions : SessionFinal(tx'[t], hearsay') /\ CreditsWithRow(tx'[t])
  BY <1>1, <1>2 DEF Final
<1> QED
  BY <1>3 DEF Final, SessionFinal, CreditsWithRow

LEMMA NoTxFinal == ASSUME NEW h PROVE SessionFinal(NoTx, h) /\ CreditsWithRow(NoTx)
  BY SettlementAssumption DEF SettlementAssumption, SessionFinal, CreditsWithRow, NoTx, AllPaths, RequestPaths

\* Fewer may still credit, or they are no more than there are sessions.
LEMMA CountedStep ==
  ASSUME TypeOK, CreditsCounted, NEW s \in Sessions, NEW r, Becomes(s, r),
         UNCHANGED <<row, credits>>, Remembers,
         \A p \in Payments : row[p] = "success" /\ MayCredit(r, p) => MayCredit(tx[s], p)
  PROVE  CreditsCounted'
<1>1. \A t \in Sessions : tx'[t] = IF t = s THEN r ELSE tx[t]
  BY DEF TypeOK, TxOK, Becomes
<1>2. IsFiniteSet(Sessions)
  BY SettlementAssumption DEF SettlementAssumption
<1>3. ASSUME NEW p \in Payments, hearsay'[p] = {}
      PROVE  /\ row[p] # "success" => credits[p] = 0
             /\ credits[p] + Cardinality(Waiting(p)') <= Cardinality(Sessions)
  <2>0. /\ row[p] # "success" => credits[p] = 0
        /\ credits[p] + Cardinality(Waiting(p)) <= Cardinality(Sessions)
    BY <1>3 DEF Remembers, CreditsCounted
  <2>1. Waiting(p) \subseteq Sessions /\ Waiting(p)' \subseteq Sessions
    BY DEF Waiting
  <2>2. /\ Cardinality(Waiting(p)) \in Nat /\ Cardinality(Waiting(p)') \in Nat
        /\ Cardinality(Sessions) \in Nat /\ credits[p] \in Nat
    BY <1>2, <2>1, FS_Subset, FS_CardinalityType DEF TypeOK
  <2>3. CASE row[p] = "success"
    <3>1. Waiting(p)' \subseteq Waiting(p)
      <4>1. ASSUME NEW t \in Sessions, MayCredit(tx'[t], p) PROVE MayCredit(tx[t], p)
        BY <1>1, <2>3, <4>1
      <4> QED
        BY <4>1 DEF Waiting, MayCredit
    <3>2. Cardinality(Waiting(p)') <= Cardinality(Waiting(p))
      BY <1>2, <2>1, <3>1, FS_Subset
    <3> QED
      BY <2>0, <2>2, <2>3, <3>2
  <2>4. CASE row[p] # "success"
    <3>1. Cardinality(Waiting(p)') <= Cardinality(Sessions) /\ credits[p] = 0
      BY <1>2, <2>0, <2>1, <2>4, FS_Subset
    <3> QED
      BY <2>2, <3>1
  <2> QED
    BY <2>3, <2>4
<1> QED
  BY <1>3 DEF CreditsCounted

\* A session takes up and flushes nothing that is a success but what it had
\* loaded before.
Narrows ==
  \A s \in Sessions, p \in Payments :
    /\ row[p] = "success" /\ MayCredit(tx'[s], p) => MayCredit(tx[s], p)
    /\ tx'[s].rowPut[p] \in {tx[s].rowPut[p], None} \/ MayCredit(tx[s], p)

LEMMA NarrowsStep ==
  ASSUME TypeOK, NEW s \in Sessions, NEW r, Becomes(s, r),
         \A p \in Payments : row[p] = "success" /\ MayCredit(r, p) => MayCredit(tx[s], p),
         \A p \in Payments : r.rowPut[p] \in {tx[s].rowPut[p], None} \/ MayCredit(tx[s], p)
  PROVE  Narrows
<1>1. \A t \in Sessions : tx'[t] = IF t = s THEN r ELSE tx[t]
  BY DEF TypeOK, TxOK, Becomes
<1> QED
  BY <1>1 DEF Narrows

\* A session that moves on without publishing.
LEMMA FinalStep ==
  ASSUME TypeOK, Final, CreditsCounted, NEW s \in Sessions, NEW r, Becomes(s, r),
         UNCHANGED <<row, credits, hearsay>>, SessionFinal(r, hearsay), CreditsWithRow(r),
         \A p \in Payments : row[p] = "success" /\ MayCredit(r, p) => MayCredit(tx[s], p),
         \A p \in Payments : r.rowPut[p] \in {tx[s].rowPut[p], None} \/ MayCredit(tx[s], p)
  PROVE  Final' /\ CreditsCounted' /\ Narrows
<1>1. Remembers /\ SessionFinal(r, hearsay')
  BY DEF Remembers
<1>2. \A p \in Payments : hearsay'[p] # {} => Provider[p] = "paystack"
  BY DEF Final
<1> QED
  BY <1>1, <1>2, BecomesFinal, CountedStep, NarrowsStep

LEMMA CloseFinal ==
  ASSUME TypeOK, Final, CreditsCounted, NEW s \in Sessions, Close(s),
         UNCHANGED <<row, credits, hearsay>>
  PROVE  Final' /\ CreditsCounted' /\ Narrows
<1>1. \A p \in Payments : ~MayCredit(NoTx, p)
  BY SettlementAssumption DEF SettlementAssumption, MayCredit, NoTx
<1>2. \A p \in Payments : NoTx.rowPut[p] = None
  BY DEF NoTx
<1> QED
  BY <1>1, <1>2, NoTxFinal, FinalStep DEF Close

LEMMA LeaveAloneFinal ==
  ASSUME TypeOK, Final, CreditsCounted, NEW s \in Sessions, LeaveAlone(s),
         UNCHANGED <<row, credits, hearsay>>
  PROVE  Final' /\ CreditsCounted' /\ Narrows
<1> DEFINE r == [tx[s] EXCEPT !.pc = "next"]
<1>1. /\ r.pc = "next" /\ r.path = tx[s].path /\ r.cur = tx[s].cur /\ r.seen = tx[s].seen
      /\ r.batch = tx[s].batch /\ r.rowPut = tx[s].rowPut /\ r.activated = tx[s].activated
  BY DEF TypeOK, TxOK, TxType
<1>2. SessionFinal(tx[s], hearsay) /\ CreditsWithRow(tx[s])
  BY DEF Final
<1> HIDE DEF r
<1>3. SessionFinal(r, hearsay) /\ CreditsWithRow(r)
  BY <1>1, <1>2 DEF SessionFinal, CreditsWithRow
<1>4. \A p \in Payments : MayCredit(r, p) => MayCredit(tx[s], p)
  BY <1>1 DEF MayCredit
<1> QED
  BY <1>1, <1>3, <1>4, FinalStep, CloseFinal DEF LeaveAlone, r

\* A session that acts on an answer: what is not the outcome is remembered,
\* and only a sweep acts on that, of a card.
LEMMA ActsOnFinal ==
  ASSUME TypeOK, Final, CreditsCounted, NEW s \in Sessions, tx[s].pc = "ask",
         NEW a, ActsOn(s, a), UNCHANGED <<row, credits>>,
         \/ UNCHANGED hearsay /\ (a \in Outcomes \/ NotSettledBy(s, a))
         \/ Hears(s, a) /\ a # "success" /\ Provider[tx[s].cur] # "daraja"
  PROVE  Final' /\ CreditsCounted' /\ Narrows
<1>0. /\ tx[s] \in TxType /\ tx[s].cur \in Payments
      /\ SessionFinal(tx[s], hearsay) /\ CreditsWithRow(tx[s])
      /\ hearsay \in [Payments -> SUBSET Status]
  BY DEF TypeOK, TxOK, SessionOK, Final
<1>1. CASE NotSettledBy(s, a)
  <2>1. UNCHANGED hearsay /\ LeaveAlone(s)
    BY <1>1 DEF ActsOn, Hears
  <2> QED
    BY <2>1, LeaveAloneFinal
<1>2. CASE ~NotSettledBy(s, a)
  <2> DEFINE r == [tx[s] EXCEPT !.pc = "record", !.ans = a, !.seen = Reloaded(s)]
             p == tx[s].cur
  <2>1. /\ r.pc = "record" /\ r.path = tx[s].path /\ r.seen = Reloaded(s) /\ r.cur = p /\ r.ans = a
        /\ r.batch = tx[s].batch /\ r.rowPut = tx[s].rowPut /\ r.activated = tx[s].activated
    BY <1>0 DEF TxType
  <2>2. \A q \in Payments : Reloaded(s)[q] = tx[s].seen[q] \/ (q = p /\ tx[s].seen[q] = "none")
    BY <1>0 DEF Reloaded, TxType
  <2>3. Becomes(s, r)
    BY <1>2 DEF ActsOn
  <2>4. /\ Remembers
        /\ a \in Outcomes \/ hearsay'[p] # {}
        /\ \A q \in Payments : hearsay'[q] # {} => Provider[q] = "paystack"
    <3>1. CASE UNCHANGED hearsay /\ a \in Outcomes
      BY <3>1 DEF Remembers, Final
    <3>2. CASE Hears(s, a) /\ a # "success" /\ Provider[p] # "daraja"
      <4>1. \A q \in Payments : hearsay'[q] = IF q = p THEN hearsay[q] \cup {a} ELSE hearsay[q]
        BY <1>0, <1>2, <3>2 DEF Hears
      <4>2. tx[s].path # "verify"
        BY <1>2, <3>2 DEF NotSettledBy
      <4>3. Provider[p] = "paystack"
        BY <1>0, <3>2, <4>2, SettlementAssumption
           DEF SessionFinal, SettlementAssumption, Providers
      <4> QED
        BY <1>0, <4>1, <4>3 DEF Remembers, Final
    <3> QED
      BY <1>2, <3>1, <3>2
  <2> HIDE DEF r, p
  <2>5. SessionFinal(r, hearsay')
    BY <1>0, <2>1, <2>4 DEF SessionFinal, Remembers
  <2>6. CreditsWithRow(r)
    BY <1>0, <2>1 DEF CreditsWithRow, p
  <2>7. \A q \in Payments : MayCredit(r, q) => MayCredit(tx[s], q)
    BY <2>1, <2>2 DEF MayCredit, p
  <2> QED
    BY <2>1, <2>3, <2>4, <2>5, <2>6, <2>7, BecomesFinal, CountedStep, NarrowsStep
<1> QED
  BY <1>1, <1>2

\* Whoever starts on a payment after its success has seen it.
LEMMA ArriveFinal ==
  ASSUME "reconcile" \notin Paths, TypeOK, Final, CreditsCounted, NEW s \in Sessions, Arrive(s)
  PROVE  Final' /\ CreditsCounted' /\ Narrows
<1> USE SettlementAssumption DEF SettlementAssumption
<1>0. NoTx.activated = {} /\ NoTx.batch = {} /\ \A p \in Payments : NoTx.rowPut[p] = None
  BY DEF NoTx
<1>1. ASSUME NEW via \in RequestPaths, NEW p \in Payments, BeginRequest(s, via, p)
      PROVE  Final' /\ CreditsCounted' /\ Narrows
  <2> DEFINE r == [NoTx EXCEPT !.pc = "ask", !.path = via, !.cur = p,
                               !.seen = [@ EXCEPT ![p] = row[p]]]
  <2>1. /\ r.pc = "ask" /\ r.path = via /\ r.cur = p /\ r.seen[p] = row[p] /\ r.batch = {}
        /\ r.activated = {} /\ \A q \in Payments : r.rowPut[q] = None
    BY DEF NoTx
  <2>2. via # "reconcile" /\ (Provider[p] = "kora" => via = "verify")
    BY <1>1 DEF BeginRequest, GoesOn, RequestPaths
  <2>3. Becomes(s, r) /\ UNCHANGED <<row, credits, hearsay>>
    BY <1>1 DEF BeginRequest, World
  <2> HIDE DEF r
  <2>4. SessionFinal(r, hearsay) /\ CreditsWithRow(r)
    BY <2>1, <2>2 DEF SessionFinal, CreditsWithRow
  <2>5. \A q \in Payments : row[q] = "success" => ~MayCredit(r, q)
    BY <2>1 DEF MayCredit
  <2> QED
    BY <2>1, <2>3, <2>4, <2>5, FinalStep
<1>2. ASSUME NEW p \in Payments, BeginWebhook(s, p)
      PROVE  Final' /\ CreditsCounted' /\ Narrows
  <2> DEFINE r == [NoTx EXCEPT !.pc = "record", !.path = "webhook", !.cur = p,
                               !.seen = [@ EXCEPT ![p] = row[p]], !.ans = "success"]
  <2>1. /\ r.pc = "record" /\ r.path = "webhook" /\ r.cur = p /\ r.seen[p] = row[p]
        /\ r.ans = "success" /\ r.batch = {}
        /\ r.activated = {} /\ \A q \in Payments : r.rowPut[q] = None
    BY DEF NoTx
  <2>2. Becomes(s, r) /\ UNCHANGED <<row, credits, hearsay>>
    BY <1>2 DEF BeginWebhook, World
  <2> HIDE DEF r
  <2>3. SessionFinal(r, hearsay) /\ CreditsWithRow(r)
    BY <2>1 DEF SessionFinal, CreditsWithRow, Outcomes
  <2>4. \A q \in Payments : row[q] = "success" => ~MayCredit(r, q)
    BY <2>1 DEF MayCredit
  <2> QED
    BY <2>1, <2>2, <2>3, <2>4, FinalStep
<1>3. CASE BeginSweep(s)
  <2> DEFINE r == [NoTx EXCEPT !.pc = "next", !.path = "sweep", !.batch = PendingPayments,
                               !.seen = [p \in Payments |->
                                  IF p \in PendingPayments THEN row[p] ELSE None]]
  <2>1. /\ r.pc = "next" /\ r.path = "sweep" /\ r.batch = PendingPayments
        /\ r.activated = {} /\ \A q \in Payments : r.rowPut[q] = None
    BY DEF NoTx
  <2>2. \A p \in PendingPayments : row[p] = "pending"
    BY DEF PendingPayments, Due
  <2>3. Becomes(s, r) /\ UNCHANGED <<row, credits, hearsay>>
    BY <1>3 DEF BeginSweep, World
  <2> HIDE DEF r
  <2>4. SessionFinal(r, hearsay) /\ CreditsWithRow(r)
    BY <2>1 DEF SessionFinal, CreditsWithRow, Outcomes
  <2>5. \A q \in Payments : row[q] = "success" => ~MayCredit(r, q)
    BY <2>1, <2>2 DEF MayCredit
  <2> QED
    BY <2>1, <2>3, <2>4, <2>5, FinalStep
<1> QED
  BY <1>1, <1>2, <1>3 DEF Arrive

\* What a commit writes never undoes a success but on hearsay: what else is
\* not a success is a refusal, and the payment was not refused.
LEMMA CommitKeepsSuccess ==
  ASSUME TypeOK, Honest, Final, NEW s \in Sessions, Commit(s), NEW p \in Payments,
         row[p] = "success", hearsay[p] = {}
  PROVE  row'[p] = "success"
<1>1. row'[p] = IF tx[s].rowPut[p] = None THEN row[p] ELSE tx[s].rowPut[p]
  BY DEF Commit
<1>2. truth[p] = "paid"
  BY DEF Honest, TypeOK
<1>3. tx[s].rowPut[p] \in {None, "success", "failed"}
  BY DEF Final, SessionFinal, Outcomes
<1>4. tx[s].rowPut[p] # "failed"
  BY <1>2 DEF Honest, SessionHonest, Refused
<1> QED
  BY <1>1, <1>3, <1>4

\* The commit of a credit takes its session out of those that may credit.
LEMMA CommitFinal ==
  ASSUME TypeOK, Honest, Final, CreditsCounted, NEW s \in Sessions, Commit(s)
  PROVE  Final' /\ CreditsCounted'
<1>1. Final'
  <2>1. Remembers /\ UNCHANGED hearsay /\ Becomes(s, NoTx)
    BY DEF Commit, Close, Remembers
  <2>2. \A p \in Payments : hearsay'[p] # {} => Provider[p] = "paystack"
    BY <2>1 DEF Final
  <2> QED
    BY <2>1, <2>2, NoTxFinal, BecomesFinal
<1>2. \A t \in Sessions : tx'[t] = IF t = s THEN NoTx ELSE tx[t]
  BY DEF Commit, Close, Becomes, TypeOK, TxOK
<1>3. IsFiniteSet(Sessions)
  BY SettlementAssumption DEF SettlementAssumption
<1>4. ASSUME NEW p \in Payments, hearsay[p] = {}
      PROVE  /\ row'[p] # "success" => credits'[p] = 0
             /\ credits'[p] + Cardinality(Waiting(p)') <= Cardinality(Sessions)
  <2>1. credits'[p] = IF p \in tx[s].activated THEN credits[p] + 1 ELSE credits[p]
    BY DEF Commit
  <2>2. ~MayCredit(NoTx, p)
    BY SettlementAssumption DEF SettlementAssumption, MayCredit, NoTx
  <2>3. Waiting(p)' = Waiting(p) \ {s}
    <3>1. \A t \in Sessions : MayCredit(tx'[t], p) <=> MayCredit(tx[t], p) /\ t # s
      BY <1>2, <2>2
    <3> QED
      BY <3>1 DEF Waiting, MayCredit
  <2>4. IsFiniteSet(Waiting(p))
    BY <1>3, FS_Subset DEF Waiting
  <2>5. Cardinality(Waiting(p)) \in Nat /\ Cardinality(Sessions) \in Nat /\ credits[p] \in Nat
    BY <1>3, <2>4, FS_CardinalityType DEF TypeOK
  <2>6. Cardinality(Waiting(p)') = IF s \in Waiting(p) THEN Cardinality(Waiting(p)) - 1
                                   ELSE Cardinality(Waiting(p))
    BY <2>3, <2>4, FS_RemoveElement
  <2>7. CASE p \in tx[s].activated
    <3>1. s \in Waiting(p)
      BY <2>7 DEF Waiting, MayCredit
    <3>2. tx[s].rowPut[p] = "success"
      BY <2>7 DEF Final, CreditsWithRow
    <3>3. row'[p] = "success"
      BY <3>2, SettlementAssumption DEF Commit, SettlementAssumption
    <3> QED
      BY <1>4, <2>1, <2>5, <2>6, <2>7, <3>1, <3>3 DEF CreditsCounted
  <2>8. CASE p \notin tx[s].activated
    <3>1. row'[p] # "success" => credits'[p] = 0
      BY <1>4, <2>1, <2>8, CommitKeepsSuccess DEF CreditsCounted
    <3> QED
      BY <1>4, <2>1, <2>5, <2>6, <2>8, <3>1 DEF CreditsCounted
  <2> QED
    BY <2>7, <2>8
<1>5. UNCHANGED hearsay
  BY DEF Commit
<1> QED
  BY <1>1, <1>4, <1>5 DEF CreditsCounted

\* A session's own steps: it takes on no payment it had not loaded, and writes
\* nothing but a final word.
LEMMA ContinueFinal ==
  ASSUME TypeOK, Honest, Final, CreditsCounted, NEW s \in Sessions, Continue(s), ~Commit(s)
  PROVE  Final' /\ CreditsCounted' /\ Narrows
<1>0. /\ tx[s] \in TxType
      /\ tx[s].pc \in {"ask", "record", "activate", "extend"} => tx[s].cur \in Payments
      /\ SessionFinal(tx[s], hearsay) /\ CreditsWithRow(tx[s])
  BY DEF TypeOK, TxOK, SessionOK, Final
<1>1. CASE SweepNext(s)
  <2>1. tx[s].pc = "next" /\ UNCHANGED <<row, credits, hearsay>>
    BY <1>1 DEF SweepNext, World
  <2>2. CASE tx[s].batch = {} /\ Becomes(s, [tx[s] EXCEPT !.pc = "commit"])
    <3> DEFINE r == [tx[s] EXCEPT !.pc = "commit"]
    <3>1. /\ r.pc = "commit" /\ r.path = tx[s].path /\ r.seen = tx[s].seen /\ r.cur = tx[s].cur
          /\ r.batch = tx[s].batch /\ r.rowPut = tx[s].rowPut /\ r.activated = tx[s].activated
      BY <1>0 DEF TxType
    <3> HIDE DEF r
    <3>2. SessionFinal(r, hearsay) /\ CreditsWithRow(r) /\ \A q \in Payments : MayCredit(r, q) => MayCredit(tx[s], q)
      BY <1>0, <3>1 DEF SessionFinal, CreditsWithRow, MayCredit
    <3> QED
      BY <2>1, <2>2, <3>1, <3>2, FinalStep DEF r
  <2>3. ASSUME NEW p \in tx[s].batch,
               Becomes(s, [tx[s] EXCEPT !.batch = @ \ {p}, !.cur = p,
                            !.pc = IF Provider[p] = "kora" THEN "next" ELSE "ask"])
        PROVE  Final' /\ CreditsCounted' /\ Narrows
    <3> DEFINE r == [tx[s] EXCEPT !.batch = @ \ {p}, !.cur = p,
                            !.pc = IF Provider[p] = "kora" THEN "next" ELSE "ask"]
    <3>1. /\ r.pc = IF Provider[p] = "kora" THEN "next" ELSE "ask"
          /\ r.path = tx[s].path /\ r.seen = tx[s].seen /\ r.cur = p
          /\ r.batch = tx[s].batch \ {p} /\ r.rowPut = tx[s].rowPut /\ r.activated = tx[s].activated
      BY <1>0 DEF TxType
    <3> HIDE DEF r
    <3>2. SessionFinal(r, hearsay) /\ CreditsWithRow(r) /\ \A q \in Payments : MayCredit(r, q) => MayCredit(tx[s], q)
      BY <1>0, <2>3, <3>1 DEF SessionFinal, CreditsWithRow, MayCredit
    <3> QED
      BY <2>1, <2>3, <3>1, <3>2, FinalStep DEF r
  <2> QED
    BY <1>1, <2>2, <2>3 DEF SweepNext
<1>2. CASE AskAnswered(s)
  <2>1. PICK a \in Answers(tx[s].cur) :
          ActsOn(s, a) /\ IF a \in Outcomes THEN UNCHANGED hearsay ELSE Hears(s, a)
    BY <1>2 DEF AskAnswered
  <2>2. tx[s].pc = "ask" /\ UNCHANGED <<row, credits>>
    BY <1>2 DEF AskAnswered
  <2>3. a \in Outcomes \/ a = "pending" \/ Provider[tx[s].cur] # "daraja"
    BY <2>1 DEF Answers, Outcomes
  <2>4. a = "pending" => NotSettledBy(s, a)
    BY <1>0 DEF NotSettledBy, KoraReconcile, SessionFinal
  <2>5. a \notin Outcomes /\ NotSettledBy(s, a) => UNCHANGED hearsay
    BY <2>1 DEF Hears
  <2> QED
    BY <2>1, <2>2, <2>3, <2>4, <2>5, ActsOnFinal DEF Outcomes
<1>3. CASE AskUnclear(s) \/ AskUnknown(s)
  BY <1>3, LeaveAloneFinal, CloseFinal DEF AskUnclear, AskUnknown, Raise, World
<1>4. CASE Record(s)
  <2> DEFINE p == tx[s].cur
             put == IF WritesRow(s) THEN [tx[s].rowPut EXCEPT ![p] = tx[s].ans]
                                    ELSE tx[s].rowPut
             to == IF TurnsPlanOn(s) THEN "activate" ELSE AfterPayment(s)
             r == [tx[s] EXCEPT !.rowPut = put, !.pc = to]
  <2>1. p \in Payments /\ tx[s].pc = "record" /\ UNCHANGED <<row, credits, hearsay>>
    BY <1>0, <1>4 DEF Record, World
  <2>2. /\ r.pc = to /\ r.path = tx[s].path /\ r.seen = tx[s].seen /\ r.cur = p
        /\ r.batch = tx[s].batch /\ r.rowPut = put /\ r.activated = tx[s].activated
    BY <1>0 DEF TxType
  <2>3. to \in {"activate", "next", "commit"}
    BY DEF AfterPayment
  <2>4. tx[s].ans \in Outcomes \/ hearsay[p] # {}
    BY <1>0, <2>1 DEF SessionFinal
  <2>5. \A q \in Payments : put[q] = tx[s].rowPut[q] \/ (q = p /\ put[q] = tx[s].ans)
    BY <1>0, <2>1 DEF TxType
  <2>6. to = "activate" => tx[s].ans = "success" /\ put[p] = "success" /\ tx[s].seen[p] # "success"
    BY <1>0, <2>1 DEF SessionFinal, TurnsPlanOn, WritesRow, KoraReconcile, AfterPayment, TxType
  <2>7. \A q \in tx[s].activated : put[q] = "success"
    BY <1>0, <2>1, <2>5 DEF CreditsWithRow, TxType
  <2>8. Becomes(s, r)
    BY <1>4 DEF Record
  <2> HIDE DEF put, to, r
  <2>9. SessionFinal(r, hearsay)
    BY <1>0, <2>2, <2>3, <2>4, <2>5 DEF SessionFinal
  <2>10. CreditsWithRow(r)
    BY <1>0, <2>1, <2>2, <2>3, <2>6, <2>7 DEF CreditsWithRow
  <2>11. \A q \in Payments : MayCredit(r, q) => MayCredit(tx[s], q)
    BY <2>1, <2>2 DEF MayCredit
  <2>12. \A q \in Payments : r.rowPut[q] = tx[s].rowPut[q] \/ MayCredit(tx[s], q)
    <3>1. WritesRow(s) => MayCredit(tx[s], p)
      BY <1>0, <2>1 DEF WritesRow, KoraReconcile, MayCredit, SessionFinal
    <3> QED
      BY <1>0, <2>1, <2>2, <3>1 DEF put, TxType
  <2> QED
    BY <2>1, <2>8, <2>9, <2>10, <2>11, <2>12, FinalStep
<1>5. CASE RecordClashes(s) \/ DeadlockVictim(s)
  BY <1>5, CloseFinal DEF RecordClashes, DeadlockVictim, World
<1>6. CASE Activate(s)
  <2> DEFINE u == Owner[tx[s].cur]
             end == IF tx[s].subPut[u] = None THEN sub[u] ELSE tx[s].subPut[u]
             r == [tx[s] EXCEPT !.base = end, !.pc = "extend"]
  <2>1. Becomes(s, r)
    BY <1>6 DEF Activate
  <2>2. tx[s].pc = "activate" /\ UNCHANGED <<row, credits, hearsay>>
    BY <1>6 DEF Activate, World
  <2> HIDE DEF end
  <2>3. /\ r.pc = "extend" /\ r.path = tx[s].path /\ r.seen = tx[s].seen /\ r.cur = tx[s].cur
        /\ r.batch = tx[s].batch /\ r.rowPut = tx[s].rowPut /\ r.activated = tx[s].activated
    BY <1>0 DEF TxType
  <2> HIDE DEF r
  <2>4. SessionFinal(r, hearsay) /\ CreditsWithRow(r) /\ \A q \in Payments : MayCredit(r, q) => MayCredit(tx[s], q)
    BY <1>0, <2>2, <2>3 DEF SessionFinal, CreditsWithRow, MayCredit
  <2> QED
    BY <2>1, <2>2, <2>3, <2>4, FinalStep
<1>7. CASE Extend(s)
  <2> DEFINE u == Owner[tx[s].cur]
             put == [tx[s].subPut EXCEPT ![u] = tx[s].base + 1]
             on == tx[s].activated \cup {tx[s].cur}
             r == [tx[s] EXCEPT !.subPut = put, !.activated = on, !.pc = AfterPayment(s)]
  <2>1. Becomes(s, r)
    BY <1>7 DEF Extend
  <2>2. tx[s].pc = "extend" /\ tx[s].cur \in Payments /\ UNCHANGED <<row, credits, hearsay>>
    BY <1>0, <1>7 DEF Extend, World
  <2>3. /\ r.pc = AfterPayment(s) /\ r.path = tx[s].path /\ r.seen = tx[s].seen
        /\ r.cur = tx[s].cur /\ r.batch = tx[s].batch /\ r.rowPut = tx[s].rowPut
        /\ r.activated = on
    BY <1>0 DEF TxType
  <2>4. AfterPayment(s) \in {"next", "commit"}
    BY DEF AfterPayment
  <2> HIDE DEF r
  <2>5. SessionFinal(r, hearsay) /\ CreditsWithRow(r)
    BY <1>0, <2>2, <2>3, <2>4 DEF SessionFinal, CreditsWithRow
  <2>6. \A q \in Payments : MayCredit(r, q) => MayCredit(tx[s], q)
    BY <1>0, <2>2, <2>3, <2>4 DEF MayCredit, CreditsWithRow
  <2> QED
    BY <2>1, <2>2, <2>3, <2>5, <2>6, FinalStep
<1> QED
  BY <1>1, <1>2, <1>3, <1>4, <1>5, <1>6, <1>7 DEF Continue

\* The world writes no row that was there, and closes no session.
LEMMA EnvironmentFinal ==
  ASSUME TypeOK, Final, CreditsCounted, Environment
  PROVE  /\ Final' /\ CreditsCounted'
         /\ \A q \in Payments : row'[q] = row[q] \/ (row[q] = "none" /\ row'[q] = "pending")
<1>1. PICK p \in Payments : \/ OpenAtProvider(p) \/ RecordPending(p)
                            \/ StudentPays(p) \/ StudentDeclines(p) \/ GrowOlder(p)
  BY DEF Environment
<1>2. /\ UNCHANGED <<tx, credits, hearsay>>
      /\ \A q \in Payments : row'[q] = row[q] \/ (row[q] = "none" /\ row'[q] = "pending")
  BY <1>1 DEF OpenAtProvider, RecordPending, StudentPays, StudentDeclines, GrowOlder, TypeOK
<1>3. Final'
  BY <1>2 DEF Final, SessionFinal, CreditsWithRow
<1>4. \A q \in Payments : Waiting(q)' = Waiting(q)
  BY <1>2 DEF Waiting, MayCredit
<1> QED
  BY <1>2, <1>3, <1>4 DEF CreditsCounted

\* Every step leaves a success as it is, unless there is hearsay of it.
LEMMA FinalNext ==
  ASSUME "reconcile" \notin Paths, TypeOK, Honest, Final, CreditsCounted, [Next]_vars
  PROVE  /\ Final' /\ CreditsCounted'
         /\ \A p \in Payments : row[p] = "success" /\ hearsay[p] = {} => row'[p] = "success"
         /\ Narrows \/ \E s \in Sessions : Commit(s)
         /\ (\E s \in Sessions : Commit(s)) \/
            (/\ UNCHANGED credits
             /\ \A p \in Payments : row'[p] = row[p] \/ (row[p] = "none" /\ row'[p] = "pending"))
<1>1. CASE Environment
  <2>1. UNCHANGED <<tx, credits>>
    BY <1>1 DEF Environment, OpenAtProvider, RecordPending, StudentPays, StudentDeclines, GrowOlder
  <2> QED
    BY <1>1, <2>1, EnvironmentFinal DEF Narrows
<1>2. ASSUME NEW s \in Sessions, Arrive(s)
      PROVE  Final' /\ CreditsCounted' /\ Narrows /\ UNCHANGED <<row, credits>>
  BY <1>2, ArriveFinal DEF Arrive, BeginRequest, BeginWebhook, BeginSweep, World
<1>3. ASSUME NEW s \in Sessions, Commit(s)
      PROVE  /\ Final' /\ CreditsCounted'
             /\ \A p \in Payments : row[p] = "success" /\ hearsay[p] = {} => row'[p] = "success"
  BY <1>3, CommitFinal, CommitKeepsSuccess
<1>7. ASSUME NEW s \in Sessions, Continue(s), ~Commit(s)
      PROVE  Final' /\ CreditsCounted' /\ Narrows /\ UNCHANGED <<row, credits>>
  <2>1. UNCHANGED <<row, credits>>
    BY <1>7 DEF Continue, SweepNext, AskAnswered, AskUnclear, AskUnknown, Record, RecordClashes,
                Activate, Extend, DeadlockVictim, World
  <2> QED
    BY <1>7, <2>1, ContinueFinal
<1>6. ASSUME NEW s \in Sessions, AskDisowned(s)
      PROVE  Final' /\ CreditsCounted' /\ Narrows /\ UNCHANGED <<row, credits>>
  <2>1. Provider[tx[s].cur] # "daraja"
    BY <1>6 DEF AskDisowned
  <2> QED
    BY <1>6, <2>1, ActsOnFinal DEF AskDisowned
<1>4. ASSUME NEW s \in Sessions, AskRaises(s) \/ Crash(s)
      PROVE  Final' /\ CreditsCounted' /\ Narrows /\ UNCHANGED <<row, credits>>
  BY <1>4, CloseFinal, LeaveAloneFinal DEF AskRaises, Crash, Raise
<1>5. CASE UNCHANGED vars
  <2>1. \A q \in Payments : Waiting(q)' = Waiting(q)
    BY <1>5 DEF vars, Waiting, MayCredit
  <2> QED
    BY <1>5, <2>1 DEF vars, Final, SessionFinal, CreditsWithRow, CreditsCounted, Narrows
<1> QED
  BY <1>1, <1>2, <1>3, <1>4, <1>5, <1>6, <1>7 DEF Next

\* Where the console's reconcile is not used, every credit is counted.
THEOREM CreditsAreCounted ==
  ASSUME "reconcile" \notin Paths
  PROVE  Spec => [](Final /\ CreditsCounted)
<1>1. Init => Final /\ CreditsCounted
  <2> SUFFICES ASSUME Init PROVE Final /\ CreditsCounted
    OBVIOUS
  <2>1. Final
    BY NoTxFinal DEF Init, Final
  <2>2. ASSUME NEW p \in Payments PROVE credits[p] + Cardinality(Waiting(p)) <= Cardinality(Sessions)
    <3>1. Waiting(p) = {}
      BY SettlementAssumption DEF Init, Waiting, MayCredit, NoTx, SettlementAssumption
    <3>2. Cardinality(Sessions) \in Nat
      BY SettlementAssumption, FS_CardinalityType DEF SettlementAssumption
    <3> QED
      BY <3>1, <3>2, FS_EmptySet DEF Init
  <2> QED
    BY <2>1, <2>2 DEF Init, CreditsCounted
<1>2. TypeOK /\ Honest /\ Final /\ CreditsCounted /\ [Next]_vars => Final' /\ CreditsCounted'
  BY FinalNext
<1> QED
  BY <1>1, <1>2, TypeCorrect, AlwaysHonest, PTL DEF Spec

\* Where the console's reconcile is not used, a payment whose outcome is all
\* that was recorded of it is credited at most once by each session that can
\* overlap: settle_mpesa and record_payment recognise what an earlier commit
\* settled.
THEOREM RepeatsNeedOverlap ==
  ASSUME "reconcile" \notin Paths
  PROVE  Spec => []CreditsNeedOverlap
<1>1. TypeOK /\ CreditsCounted => CreditsNeedOverlap
  <2> SUFFICES ASSUME TypeOK, CreditsCounted, NEW p \in Payments, hearsay[p] = {}
               PROVE  credits[p] <= Cardinality(Sessions)
    BY DEF CreditsNeedOverlap
  <2>1. IsFiniteSet(Sessions) /\ Waiting(p) \subseteq Sessions
    BY SettlementAssumption DEF SettlementAssumption, Waiting
  <2>2. Cardinality(Waiting(p)) \in Nat /\ Cardinality(Sessions) \in Nat /\ credits[p] \in Nat
    BY <2>1, FS_Subset, FS_CardinalityType DEF TypeOK
  <2> QED
    BY <2>2 DEF CreditsCounted
<1> QED
  BY <1>1, TypeCorrect, CreditsAreCounted, PTL

\* Where the console's reconcile is not used, a committed success stays,
\* whatever overlaps, except a card's of which a sweep recorded an answer that
\* was not its outcome.
THEOREM SuccessStays ==
  ASSUME "reconcile" \notin Paths
  PROVE  Spec => SuccessIsKept
<1>1. TypeOK /\ Honest /\ Final /\ CreditsCounted /\ [Next]_vars
        => [\A p \in Payments : row[p] = "success" /\ row'[p] # "success"
              => Provider[p] = "paystack" /\ hearsay[p] # {}]_vars
  BY FinalNext DEF Final
<1> QED
  BY <1>1, TypeCorrect, AlwaysHonest, CreditsAreCounted, PTL DEF Spec, SuccessIsKept

-----------------------------------------------------------------------------
(* With one session at a time, and without reconcile: the ledger.          *)

\* What a lone session may still credit or overwrite is no success, because
\* it loaded the row and nobody has committed since.
LoadedLast ==
  /\ \A p \in Payments :
       /\ credits[p] <= 1
       /\ row[p] # "success" => credits[p] = 0
  /\ \A s \in Sessions, p \in Payments :
       /\ MayCredit(tx[s], p) => row[p] # "success"
       /\ tx[s].rowPut[p] \notin {None, "success"} => row[p] # "success"

LEMMA OneSession ==
  ASSUME Cardinality(Sessions) = 1, NEW s \in Sessions, NEW t \in Sessions
  PROVE  s = t
<1>1. IsFiniteSet(Sessions)
  BY SettlementAssumption DEF SettlementAssumption
<1>2. Cardinality(Sessions \ {s}) = 0 /\ IsFiniteSet(Sessions \ {s})
  BY <1>1, FS_RemoveElement
<1>3. Sessions \ {s} = {}
  BY <1>2, FS_EmptySet
<1> QED
  BY <1>3

\* The commit of the only session.
LEMMA LoneCommit ==
  ASSUME Cardinality(Sessions) = 1, TypeOK, Final, LoadedLast, NEW s \in Sessions, Commit(s)
  PROVE  LoadedLast'
<1>1. \A t \in Sessions : tx'[t] = NoTx
  BY OneSession DEF Commit, Close, Becomes, TypeOK, TxOK
<1>2. \A p \in Payments : ~MayCredit(NoTx, p) /\ NoTx.rowPut[p] = None
  BY SettlementAssumption DEF SettlementAssumption, MayCredit, NoTx
<1>3. ASSUME NEW p \in Payments
      PROVE  credits'[p] <= 1 /\ (row'[p] # "success" => credits'[p] = 0)
  <2>1. /\ row'[p] = IF tx[s].rowPut[p] = None THEN row[p] ELSE tx[s].rowPut[p]
        /\ credits'[p] = IF p \in tx[s].activated THEN credits[p] + 1 ELSE credits[p]
    BY DEF Commit
  <2>2. credits[p] \in Nat /\ credits[p] <= 1 /\ (row[p] # "success" => credits[p] = 0)
    BY DEF LoadedLast, TypeOK
  <2>3. CASE p \in tx[s].activated
    <3>1. tx[s].rowPut[p] = "success" /\ row[p] # "success"
      BY <2>3 DEF Final, CreditsWithRow, LoadedLast, MayCredit
    <3>2. "success" # None
      BY SettlementAssumption DEF SettlementAssumption
    <3> QED
      BY <2>1, <2>2, <2>3, <3>1, <3>2
  <2>4. CASE p \notin tx[s].activated
    <3>1. tx[s].rowPut[p] \notin {None, "success"} => row[p] # "success"
      BY DEF LoadedLast
    <3> QED
      BY <2>1, <2>2, <2>4, <3>1
  <2> QED
    BY <2>3, <2>4
<1>4. \A t \in Sessions, p \in Payments :
        ~MayCredit(tx'[t], p) /\ tx'[t].rowPut[p] = None
  BY <1>1, <1>2
<1> QED
  BY <1>3, <1>4 DEF LoadedLast, MayCredit

LEMMA LoneNext ==
  ASSUME "reconcile" \notin Paths, Cardinality(Sessions) = 1, TypeOK, Honest, Final, CreditsCounted,
         LoadedLast, [Next]_vars
  PROVE  LoadedLast'
<1>1. CASE \E s \in Sessions : Commit(s)
  BY <1>1, LoneCommit
<1>2. CASE ~\E s \in Sessions : Commit(s)
  <2>1. /\ Narrows /\ UNCHANGED credits
        /\ \A p \in Payments : row'[p] = row[p] \/ (row[p] = "none" /\ row'[p] = "pending")
    BY <1>2, FinalNext
  <2>2. \A p \in Payments : row'[p] = "success" <=> row[p] = "success"
    BY <2>1
  <2>3. ASSUME NEW s \in Sessions, NEW p \in Payments, row[p] = "success"
        PROVE  ~MayCredit(tx'[s], p) /\ tx'[s].rowPut[p] \in {None, "success"}
    BY <2>1, <2>3 DEF Narrows, LoadedLast
  <2> QED
    BY <2>1, <2>2, <2>3 DEF LoadedLast, MayCredit
<1> QED
  BY <1>1, <1>2

\* Where one session runs at a time and reconcile is not used, whoever is
\* about to credit a payment has the last word on it.
THEOREM LoneSessionLoadsLast ==
  ASSUME "reconcile" \notin Paths, Cardinality(Sessions) = 1
  PROVE  Spec => []LoadedLast
<1>1. Init => LoadedLast
  <2>1. \A p \in Payments : ~MayCredit(NoTx, p) /\ NoTx.rowPut[p] = None
    BY SettlementAssumption DEF SettlementAssumption, MayCredit, NoTx
  <2> QED
    BY <2>1 DEF Init, LoadedLast
<1>2. TypeOK /\ Honest /\ Final /\ CreditsCounted /\ LoadedLast /\ [Next]_vars => LoadedLast'
  BY LoneNext
<1> QED
  BY <1>1, <1>2, TypeCorrect, AlwaysHonest, CreditsAreCounted, PTL DEF Spec

\* With one session at a time, no payment buys two periods, whatever the
\* providers answer.
THEOREM SerialCreditsOnce ==
  ASSUME "reconcile" \notin Paths, Cardinality(Sessions) = 1
  PROVE  Spec => []CreditedOnce
<1>1. LoadedLast => CreditedOnce
  BY DEF LoadedLast, CreditedOnce
<1> QED
  BY <1>1, LoneSessionLoadsLast, PTL

\* What a session has activated of one account.
Bought(r, u) == {p \in r.activated : Owner[p] = u}

\* A session settles a payment once, and what it has flushed on a plan is the
\* committed end and a period for each payment it has activated.
SessionCounts(r) ==
  /\ r.activated \cap r.batch = {}
  /\ r.pc \in {"ask", "record", "activate", "extend"} => r.cur \notin r.activated \cup r.batch
  /\ \A u \in Users :
       /\ r.subPut[u] = None => Bought(r, u) = {}
       /\ r.subPut[u] # None => r.subPut[u] = sub[u] + Cardinality(Bought(r, u))
  /\ r.pc = "extend" => r.base = sub[Owner[r.cur]] + Cardinality(Bought(r, Owner[r.cur]))

PlansCounted == \A s \in Sessions : SessionCounts(tx[s])

LEMMA BecomesCounts ==
  ASSUME TypeOK, PlansCounted, UNCHANGED sub, NEW s \in Sessions, NEW r, Becomes(s, r),
         SessionCounts(r)
  PROVE  PlansCounted'
<1>1. \A t \in Sessions : tx'[t] = IF t = s THEN r ELSE tx[t]
  BY DEF TypeOK, TxOK, Becomes
<1>2. \A t \in Sessions : SessionCounts(tx'[t])
  BY <1>1 DEF PlansCounted
<1> QED
  BY <1>2 DEF PlansCounted, SessionCounts, Bought

LEMMA NoTxCounts == SessionCounts(NoTx)
<1>1. /\ NoTx.pc = "idle" /\ NoTx.activated = {} /\ NoTx.batch = {}
      /\ \A u \in Users : NoTx.subPut[u] = None
  BY DEF NoTx
<1> QED
  BY <1>1 DEF SessionCounts, Bought

\* A step of a session that neither reads nor flushes a plan.
LEMMA PlainCounts ==
  ASSUME TypeOK, PlansCounted, UNCHANGED sub, NEW s \in Sessions, NEW r, Becomes(s, r),
         r.subPut = tx[s].subPut, r.activated = tx[s].activated,
         r.batch \subseteq tx[s].batch, r.pc # "extend",
         r.pc \in {"ask", "record", "activate"} =>
            /\ r.cur \notin r.batch
            /\ \/ r.cur \in tx[s].batch
               \/ r.cur = tx[s].cur /\ tx[s].pc \in {"ask", "record", "activate"}
  PROVE  PlansCounted'
<1>1. SessionCounts(tx[s])
  BY DEF PlansCounted
<1>2. SessionCounts(r)
  BY <1>1 DEF SessionCounts, Bought
<1> QED
  BY <1>2, BecomesCounts

LEMMA CloseCounts ==
  ASSUME TypeOK, PlansCounted, UNCHANGED sub, NEW s \in Sessions, Close(s)
  PROVE  PlansCounted'
  BY NoTxCounts, BecomesCounts DEF Close

LEMMA LeaveAloneCounts ==
  ASSUME TypeOK, PlansCounted, UNCHANGED sub, NEW s \in Sessions, LeaveAlone(s)
  PROVE  PlansCounted'
<1> DEFINE r == [tx[s] EXCEPT !.pc = "next"]
<1>1. /\ r.pc = "next" /\ r.subPut = tx[s].subPut /\ r.activated = tx[s].activated
      /\ r.batch = tx[s].batch
  BY DEF TypeOK, TxOK, TxType
<1>2. Becomes(s, r) \/ Close(s)
  BY DEF LeaveAlone
<1> HIDE DEF r
<1> QED
  BY <1>1, <1>2, PlainCounts, CloseCounts

LEMMA ArriveCounts ==
  ASSUME TypeOK, PlansCounted, NEW s \in Sessions, Arrive(s)
  PROVE  PlansCounted'
<1>0. UNCHANGED sub
  BY DEF Arrive, BeginRequest, BeginWebhook, BeginSweep, World
<1>1. ASSUME NEW r, r.activated = {}, r.pc # "extend", \A u \in Users : r.subPut[u] = None,
             r.pc = "next" \/ r.batch = {}, Becomes(s, r)
      PROVE  PlansCounted'
  <2>1. SessionCounts(r)
    BY <1>1 DEF SessionCounts, Bought
  <2> QED
    BY <1>0, <1>1, <2>1, BecomesCounts
<1>2. ASSUME NEW via \in RequestPaths, NEW p \in Payments, BeginRequest(s, via, p)
      PROVE  PlansCounted'
  BY <1>1, <1>2 DEF BeginRequest, NoTx
<1>3. ASSUME NEW p \in Payments, BeginWebhook(s, p) PROVE PlansCounted'
  BY <1>1, <1>3 DEF BeginWebhook, NoTx
<1>4. ASSUME BeginSweep(s) PROVE PlansCounted'
  BY <1>1, <1>4 DEF BeginSweep, NoTx
<1> QED
  BY <1>2, <1>3, <1>4 DEF Arrive

\* activate reads its own flushed end, or the committed one.
LEMMA ActivateCounts ==
  ASSUME TypeOK, PlansCounted, NEW s \in Sessions, Activate(s)
  PROVE  PlansCounted'
<1> DEFINE u == Owner[tx[s].cur]
           read == IF tx[s].subPut[u] = None THEN sub[u] ELSE tx[s].subPut[u]
           r == [tx[s] EXCEPT !.base = read, !.pc = "extend"]
<1>0. UNCHANGED sub /\ Becomes(s, r) /\ tx[s].pc = "activate"
  BY DEF Activate, World
<1>1. /\ r.pc = "extend" /\ r.subPut = tx[s].subPut /\ r.activated = tx[s].activated
      /\ r.batch = tx[s].batch /\ r.cur = tx[s].cur /\ r.base = read
  BY DEF TypeOK, TxOK, TxType
<1>2. SessionCounts(tx[s])
  BY DEF PlansCounted
<1>3. u \in Users
  BY <1>0, SettlementAssumption DEF SettlementAssumption, TypeOK, TxOK, SessionOK
<1>4. read = sub[u] + Cardinality(Bought(tx[s], u))
  <2>1. CASE tx[s].subPut[u] = None
    <3>1. Cardinality(Bought(tx[s], u)) = 0
      BY <1>2, <1>3, <2>1, FS_EmptySet DEF SessionCounts
    <3>2. sub[u] \in Nat
      BY <1>3 DEF TypeOK
    <3> QED
      BY <2>1, <3>1, <3>2
  <2>2. CASE tx[s].subPut[u] # None
    BY <1>2, <1>3, <2>2 DEF SessionCounts
  <2> QED
    BY <2>1, <2>2
<1> HIDE DEF r, read
<1>5. SessionCounts(r)
  BY <1>0, <1>1, <1>2, <1>4 DEF SessionCounts, Bought
<1> QED
  BY <1>0, <1>5, BecomesCounts

\* The end that is flushed counts one payment more.
LEMMA ExtendCounts ==
  ASSUME TypeOK, PlansCounted, NEW s \in Sessions, Extend(s)
  PROVE  PlansCounted'
<1> DEFINE p == tx[s].cur
           u == Owner[p]
           r == [tx[s] EXCEPT !.subPut = [@ EXCEPT ![u] = tx[s].base + 1],
                              !.activated = @ \cup {tx[s].cur},
                              !.pc = AfterPayment(s)]
<1>0. UNCHANGED sub /\ Becomes(s, r) /\ tx[s].pc = "extend"
  BY DEF Extend, World
<1>1. /\ r.pc \in {"next", "commit"} /\ r.subPut = [tx[s].subPut EXCEPT ![u] = tx[s].base + 1]
      /\ r.activated = tx[s].activated \cup {p} /\ r.batch = tx[s].batch
  BY DEF TypeOK, TxOK, TxType, AfterPayment
<1>2. SessionCounts(tx[s])
  BY DEF PlansCounted
<1>3. /\ u \in Users /\ p \in Payments /\ tx[s].activated \subseteq Payments
      /\ tx[s].subPut \in [Users -> Nat \cup {None}] /\ tx[s].base \in Nat
  BY <1>0, SettlementAssumption DEF SettlementAssumption, TypeOK, TxOK, SessionOK, TxType
<1> HIDE DEF r
<1>4. p \notin tx[s].activated \cup tx[s].batch
  BY <1>0, <1>2 DEF SessionCounts
<1>5. r.subPut[u] = sub[u] + Cardinality(Bought(r, u))
  <2>1. Bought(r, u) = Bought(tx[s], u) \cup {p} /\ p \notin Bought(tx[s], u)
    BY <1>1, <1>4 DEF Bought
  <2>2. IsFiniteSet(Bought(tx[s], u))
    BY <1>3, SettlementAssumption, FS_Subset DEF SettlementAssumption, Bought
  <2>3. Cardinality(Bought(r, u)) = Cardinality(Bought(tx[s], u)) + 1
    BY <2>1, <2>2, FS_AddElement
  <2>4. tx[s].base = sub[u] + Cardinality(Bought(tx[s], u))
    BY <1>0, <1>2 DEF SessionCounts
  <2>5. Cardinality(Bought(tx[s], u)) \in Nat /\ sub[u] \in Nat
    BY <1>3, <2>2, FS_CardinalityType DEF TypeOK
  <2>6. r.subPut[u] = tx[s].base + 1
    BY <1>1, <1>3
  <2> QED
    BY <2>3, <2>4, <2>5, <2>6
<1>6. \A v \in Users : v # u => r.subPut[v] = tx[s].subPut[v] /\ Bought(r, v) = Bought(tx[s], v)
  BY <1>1, <1>3 DEF Bought
<1>7. r.subPut[u] # None
  BY <1>1, <1>3, SettlementAssumption DEF SettlementAssumption
<1>8. SessionCounts(r)
  BY <1>1, <1>2, <1>4, <1>5, <1>6, <1>7 DEF SessionCounts
<1> QED
  BY <1>0, <1>8, BecomesCounts

LEMMA ActsOnCounts ==
  ASSUME TypeOK, PlansCounted, UNCHANGED sub, NEW s \in Sessions, tx[s].pc = "ask",
         NEW a, ActsOn(s, a)
  PROVE  PlansCounted'
<1> DEFINE r == [tx[s] EXCEPT !.pc = "record", !.ans = a, !.seen = Reloaded(s)]
<1>1. /\ r.pc = "record" /\ r.subPut = tx[s].subPut /\ r.activated = tx[s].activated
      /\ r.batch = tx[s].batch /\ r.cur = tx[s].cur
  BY DEF TypeOK, TxOK, TxType
<1>2. tx[s].cur \notin tx[s].batch
  BY DEF PlansCounted, SessionCounts
<1>3. LeaveAlone(s) \/ Becomes(s, r)
  BY DEF ActsOn
<1> HIDE DEF r
<1> QED
  BY <1>1, <1>2, <1>3, PlainCounts, LeaveAloneCounts

LEMMA ContinueCounts ==
  ASSUME TypeOK, PlansCounted, NEW s \in Sessions, Continue(s), ~Commit(s)
  PROVE  PlansCounted'
<1>0. tx[s] \in TxType
  BY DEF TypeOK, TxOK
<1>1. CASE SweepNext(s)
  <2>0. UNCHANGED sub /\ tx[s].pc = "next"
    BY <1>1 DEF SweepNext, World
  <2>1. CASE Becomes(s, [tx[s] EXCEPT !.pc = "commit"])
    <3> DEFINE r == [tx[s] EXCEPT !.pc = "commit"]
    <3>1. /\ r.pc = "commit" /\ r.subPut = tx[s].subPut /\ r.activated = tx[s].activated
          /\ r.batch = tx[s].batch
      BY <1>0 DEF TxType
    <3>2. Becomes(s, r)
      BY <2>1
    <3> HIDE DEF r
    <3> QED
      BY <2>0, <3>1, <3>2, PlainCounts
  <2>2. ASSUME NEW p \in tx[s].batch,
               Becomes(s, [tx[s] EXCEPT !.batch = @ \ {p}, !.cur = p,
                             !.pc = IF Provider[p] = "kora" THEN "next" ELSE "ask"])
        PROVE  PlansCounted'
    <3> DEFINE r == [tx[s] EXCEPT !.batch = @ \ {p}, !.cur = p,
                       !.pc = IF Provider[p] = "kora" THEN "next" ELSE "ask"]
    <3>1. /\ r.pc \in {"next", "ask"} /\ r.subPut = tx[s].subPut
          /\ r.activated = tx[s].activated /\ r.batch = tx[s].batch \ {p} /\ r.cur = p
      BY <1>0 DEF TxType
    <3>2. Becomes(s, r)
      BY <2>2
    <3> HIDE DEF r
    <3> QED
      BY <2>0, <3>1, <3>2, PlainCounts
  <2> QED
    BY <1>1, <2>1, <2>2 DEF SweepNext
<1>2. CASE AskAnswered(s)
  BY <1>2, ActsOnCounts DEF AskAnswered
<1>3. CASE AskUnclear(s) \/ AskUnknown(s)
  BY <1>3, LeaveAloneCounts, CloseCounts DEF AskUnclear, AskUnknown, Raise, World
<1>4. CASE Record(s)
  <2> DEFINE r == [tx[s] EXCEPT
                     !.rowPut = IF WritesRow(s) THEN [@ EXCEPT ![tx[s].cur] = tx[s].ans] ELSE @,
                     !.pc = IF TurnsPlanOn(s) THEN "activate" ELSE AfterPayment(s)]
  <2>0. UNCHANGED sub /\ tx[s].pc = "record" /\ Becomes(s, r)
    BY <1>4 DEF Record, World
  <2>1. /\ r.pc \in {"activate", "next", "commit"} /\ r.subPut = tx[s].subPut
        /\ r.activated = tx[s].activated /\ r.batch = tx[s].batch /\ r.cur = tx[s].cur
    BY <1>0 DEF TxType, AfterPayment
  <2>2. tx[s].cur \notin tx[s].batch
    BY <2>0 DEF PlansCounted, SessionCounts
  <2> HIDE DEF r
  <2> QED
    BY <2>0, <2>1, <2>2, PlainCounts
<1>5. CASE RecordClashes(s) \/ DeadlockVictim(s)
  BY <1>5, CloseCounts DEF RecordClashes, DeadlockVictim, World
<1> QED
  BY <1>1, <1>2, <1>3, <1>4, <1>5, ActivateCounts, ExtendCounts DEF Continue

\* A commit publishes to nobody else, when there is nobody else.
LEMMA CountsNext ==
  ASSUME Cardinality(Sessions) = 1, TypeOK, PlansCounted, [Next]_vars
  PROVE  PlansCounted'
<1>1. \A s, t \in Sessions : s = t
  BY OneSession
<1>2. CASE UNCHANGED vars \/ Environment
  <2>1. UNCHANGED <<tx, sub>>
    BY <1>2 DEF vars, Environment, OpenAtProvider, RecordPending, StudentPays, StudentDeclines,
                GrowOlder
  <2> QED
    BY <2>1 DEF PlansCounted, SessionCounts, Bought
<1>3. ASSUME NEW s \in Sessions, Commit(s) PROVE PlansCounted'
  <2>1. \A t \in Sessions : tx'[t] = NoTx
    BY <1>1, <1>3 DEF Commit, Close, Becomes, TypeOK, TxOK
  <2>2. /\ NoTx.pc = "idle" /\ NoTx.activated = {} /\ NoTx.batch = {}
        /\ \A u \in Users : NoTx.subPut[u] = None
    BY DEF NoTx
  <2> QED
    BY <2>1, <2>2 DEF PlansCounted, SessionCounts, Bought
<1>5. ASSUME NEW s \in Sessions, AskDisowned(s) PROVE PlansCounted'
  BY <1>5, ActsOnCounts DEF AskDisowned
<1>4. ASSUME NEW s \in Sessions, AskRaises(s) \/ Crash(s) PROVE PlansCounted'
  BY <1>4, LeaveAloneCounts, CloseCounts DEF AskRaises, Crash, Raise
<1> QED
  BY <1>2, <1>3, <1>4, <1>5, ArriveCounts, ContinueCounts DEF Next

\* A commit of one session credits what it has activated, all of it paid and
\* none of it credited before.
LEMMA CommitIsCredit ==
  ASSUME Cardinality(Sessions) = 1, TypeOK, Honest, LoadedLast, PlansCounted,
         NEW s \in Sessions, Commit(s)
  PROVE  UNCHANGED <<truth, credits, sub>> \/ Ledger!Credit(tx[s].activated)
<1> DEFINE P == tx[s].activated
<1>0. /\ P \subseteq Payments /\ tx[s].subPut \in [Users -> Nat \cup {None}]
      /\ credits \in [Payments -> Nat] /\ sub \in [Users -> Nat]
  BY DEF TypeOK, TxOK, TxType
<1>1. /\ sub' = [u \in Users |-> IF tx[s].subPut[u] = None THEN sub[u] ELSE tx[s].subPut[u]]
      /\ credits' = [p \in Payments |-> IF p \in P THEN credits[p] + 1 ELSE credits[p]]
      /\ UNCHANGED truth
  BY DEF Commit
<1>2. \A u \in Users :
        /\ tx[s].subPut[u] = None => Bought(tx[s], u) = {}
        /\ tx[s].subPut[u] # None => tx[s].subPut[u] = sub[u] + Cardinality(Bought(tx[s], u))
  BY DEF PlansCounted, SessionCounts
<1>3. \A u \in Users : Bought(tx[s], u) = {p \in P : Owner[p] = u}
  BY DEF Bought
<1>4. \A u \in Users : sub'[u] = sub[u] + Cardinality({p \in P : Owner[p] = u})
  <2> SUFFICES ASSUME NEW u \in Users
               PROVE  sub'[u] = sub[u] + Cardinality(Bought(tx[s], u))
    BY <1>3
  <2>1. CASE tx[s].subPut[u] = None
    <3>1. Cardinality(Bought(tx[s], u)) = 0
      BY <1>2, <2>1, FS_EmptySet
    <3>2. sub[u] \in Nat /\ sub'[u] = sub[u]
      BY <1>0, <1>1, <2>1
    <3> QED
      BY <3>1, <3>2
  <2>2. CASE tx[s].subPut[u] # None
    BY <1>1, <1>2, <2>2
  <2> QED
    BY <2>1, <2>2
<1>5. \A p \in P : truth[p] = "paid"
  BY <1>0 DEF Honest, SessionHonest
<1>6. ASSUME NEW p \in P PROVE credits[p] = 0
  BY <1>0, <1>6 DEF LoadedLast, MayCredit
<1> HIDE DEF P
<1>7. CASE P = {}
  <2>1. credits' = credits
    BY <1>0, <1>1, <1>7
  <2>2. \A u \in Users : tx[s].subPut[u] = None \/ tx[s].subPut[u] = sub[u]
    <3> SUFFICES ASSUME NEW u \in Users, tx[s].subPut[u] # None PROVE tx[s].subPut[u] = sub[u]
      OBVIOUS
    <3>1. Bought(tx[s], u) = {}
      BY <1>3, <1>7
    <3>2. Cardinality(Bought(tx[s], u)) = 0
      BY <3>1, FS_EmptySet
    <3> QED
      BY <1>0, <1>2, <3>2
  <2>3. sub' = sub
    BY <1>0, <1>1, <2>2
  <2> QED
    BY <1>1, <2>1, <2>3
<1>8. CASE P # {}
  <2>1. credits' = [p \in Payments |-> IF p \in P THEN 1 ELSE credits[p]]
    BY <1>0, <1>1, <1>6
  <2>2. sub' = [u \in Users |-> sub[u] + Cardinality({p \in P : Owner[p] = u})]
    BY <1>1, <1>4
  <2>3. \A p \in P : p \in {q \in Payments : truth[q] = "paid"} /\ credits[p] = 0
    BY <1>0, <1>5, <1>6
  <2>4. {q \in Payments : truth'[q] = "paid"} = {q \in Payments : truth[q] = "paid"}
    BY <1>1
  <2>5. Ledger!Credit(P)
    <3>1. \A p \in P : p \in {q \in Payments : truth[q] = "paid"} /\ credits[p] = 0
      BY <2>3
    <3>2. {q \in Payments : truth[q] = "paid"}' = {q \in Payments : truth[q] = "paid"}
      BY <2>4
    <3>3. sub' = [u \in Users |-> sub[u] + Ledger!Cardinality({p \in P : Owner[p] = u})]
      BY <2>2 DEF Ledger!Cardinality, Cardinality
    <3> QED
      BY <1>8, <2>1, <3>1, <3>2, <3>3, Zenon DEF Ledger!Credit
  <2> QED
    BY <2>5 DEF P
<1> QED
  BY <1>7, <1>8

\* Every step is a payment, a credit, or nothing to the ledger.
LEMMA LedgerStep ==
  ASSUME Cardinality(Sessions) = 1, TypeOK, Honest, LoadedLast, PlansCounted, [Next]_vars
  PROVE  [Ledger!LedgerNext]_(Ledger!ledger)
<1>1. ASSUME UNCHANGED <<truth, credits, sub>> PROVE UNCHANGED Ledger!ledger
  BY <1>1 DEF Ledger!ledger
<1>2. ASSUME NEW p \in Payments, StudentPays(p) PROVE Ledger!Pay(p)
  <2>1. /\ truth[p] = "open" /\ truth' = [truth EXCEPT ![p] = "paid"]
        /\ UNCHANGED <<sub, credits>> /\ DOMAIN truth = Payments
    BY <1>2 DEF StudentPays, TypeOK
  <2>2. {q \in Payments : truth'[q] = "paid"} = {q \in Payments : truth[q] = "paid"} \cup {p}
    BY <2>1
  <2> QED
    BY <2>1, <2>2 DEF Ledger!Pay
<1>3. ASSUME NEW p \in Payments, OpenAtProvider(p) \/ StudentDeclines(p)
      PROVE  UNCHANGED Ledger!ledger
  <2>1. /\ truth[p] # "paid" /\ UNCHANGED <<sub, credits>> /\ DOMAIN truth = Payments
        /\ truth' = [truth EXCEPT ![p] = "open"] \/ truth' = [truth EXCEPT ![p] = "unpaid"]
    BY <1>3 DEF OpenAtProvider, StudentDeclines, TypeOK
  <2>2. {q \in Payments : truth'[q] = "paid"} = {q \in Payments : truth[q] = "paid"}
    BY <2>1
  <2> QED
    BY <2>1, <2>2 DEF Ledger!ledger
<1>4. ASSUME NEW p \in Payments, RecordPending(p) \/ GrowOlder(p)
      PROVE  UNCHANGED <<truth, credits, sub>>
  BY <1>4 DEF RecordPending, GrowOlder
<1>5. ASSUME NEW s \in Sessions, Commit(s)
      PROVE  UNCHANGED <<truth, credits, sub>> \/ Ledger!LedgerNext
  <2>1. tx[s].activated \in SUBSET Payments
    BY DEF TypeOK, TxOK, TxType
  <2> QED
    BY <1>5, <2>1, CommitIsCredit DEF Ledger!LedgerNext
<1>6. ASSUME NEW s \in Sessions, Arrive(s) \/ AskDisowned(s) \/ AskRaises(s) \/ Crash(s)
      PROVE  UNCHANGED <<truth, credits, sub>>
  BY <1>6 DEF Arrive, BeginRequest, BeginWebhook, BeginSweep, AskDisowned, AskRaises, Crash, World
<1>7. ASSUME NEW s \in Sessions, Continue(s), ~Commit(s)
      PROVE  UNCHANGED <<truth, credits, sub>>
  BY <1>7 DEF Continue, SweepNext, AskAnswered, AskUnclear, AskUnknown, Record, RecordClashes,
              Activate, Extend, DeadlockVictim, World
<1>8. CASE UNCHANGED vars
  BY <1>1, <1>8 DEF vars
<1>9. CASE Environment
  <2>1. PICK p \in Payments : \/ OpenAtProvider(p) \/ RecordPending(p)
                              \/ StudentPays(p) \/ StudentDeclines(p) \/ GrowOlder(p)
    BY <1>9 DEF Environment
  <2>2. CASE StudentPays(p)
    BY <1>2, <2>2 DEF Ledger!LedgerNext
  <2> QED
    BY <1>1, <1>3, <1>4, <2>1, <2>2
<1>10. ASSUME NEW s \in Sessions, Arrive(s) \/ Continue(s) \/ AskDisowned(s) \/ AskRaises(s) \/ Crash(s)
       PROVE  [Ledger!LedgerNext]_(Ledger!ledger)
  BY <1>1, <1>5, <1>6, <1>7, <1>10
<1> QED
  BY <1>8, <1>9, <1>10 DEF Next

\* With one session at a time and without reconcile, settling implements the
\* ledger: a paid payment buys one period, once, and nothing else moves a plan,
\* however many payments a pass settles and wherever it is cut off.
THEOREM SerialImplementsLedger ==
  ASSUME "reconcile" \notin Paths, Cardinality(Sessions) = 1
  PROVE  Spec => ImplementsLedger
<1>1. Init => PlansCounted
  BY NoTxCounts DEF Init, PlansCounted
<1>2. TypeOK /\ PlansCounted /\ [Next]_vars => PlansCounted'
  BY CountsNext
<1>3. Init => Ledger!LedgerInit
  BY DEF Init, Ledger!LedgerInit
<1>4. TypeOK /\ Honest /\ LoadedLast /\ PlansCounted /\ [Next]_vars
        => [Ledger!LedgerNext]_(Ledger!ledger)
  BY LedgerStep
<1> QED
  BY <1>1, <1>2, <1>3, <1>4, TypeCorrect, AlwaysHonest, LoneSessionLoadsLast, PTL
     DEF Spec, ImplementsLedger, Ledger!LedgerSpec
=============================================================================
