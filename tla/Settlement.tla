----------------------------- MODULE Settlement -----------------------------
(***************************************************************************)
(* How a payment opened with Safaricom (daraja), Paystack or Kora becomes  *)
(* a period of subscription: the six ways in (verify, webhook, poll,       *)
(* callback, the worker's sweep, the console's reconcile), each running    *)
(* in a database session of its own.                                       *)
(*                                                                         *)
(* A session is a READ COMMITTED transaction over an identity map: a row   *)
(* it has loaded keeps the attributes it was loaded with, a write takes    *)
(* the row's lock at the flush and is published with everything else at    *)
(* the commit, and a rollback loses all of it.  Between a load and the     *)
(* flush the handler awaits the provider, so other sessions run.           *)
(***************************************************************************)
EXTENDS Naturals, FiniteSets

CONSTANTS
  Payments,    \* references minted at checkout
  Users,
  Owner,       \* the account a payment's checkout was opened from
  Provider,    \* the provider a payment was opened with
  Servers,     \* sessions the API opens for requests
  Workers,     \* sessions a worker opens for the sweep
  Paths,       \* the entry points in play
  BatchLimit,  \* settlement.BATCH
  MaxCredits,  \* bound: no request begins on a payment credited this often
  MaxFaults,   \* bound: lost sessions, outages and lost references in a behaviour
  None

Providers == {"daraja", "paystack", "kora"}
RequestPaths == {"verify", "poll", "callback", "reconcile"}
AllPaths == RequestPaths \cup {"webhook", "sweep"}
Sessions == Servers \cup Workers

ASSUME SettlementAssumption ==
  /\ IsFiniteSet(Payments)
  /\ IsFiniteSet(Sessions)
  /\ Owner \in [Payments -> Users]
  /\ Provider \in [Payments -> Providers]
  /\ Paths \subseteq AllPaths
  /\ BatchLimit \in Nat \ {0}
  /\ MaxCredits \in Nat
  /\ MaxFaults \in Nat
  /\ None \notin Nat
  /\ None \notin AllPaths \cup {"none", "pending", "processing", "success", "failed"}

VARIABLES
  row,      \* status of a payment's committed row, "none" before there is one
  born,     \* position of the row in creation order (created_at), 0 for none
  age,      \* the row against the sweep's window: younger, inside, older
  truth,    \* what really happened at the provider
  sub,      \* committed periods on a user's subscription (expires_at)
  credits,  \* how many committed times a payment has bought a period (history)
  hearsay,  \* answers recorded of a payment that were not its outcome (history)
  tx,       \* the open database sessions
  faults

vars == <<row, born, age, truth, sub, credits, hearsay, tx, faults>>

Status == {"none", "pending", "processing", "success", "failed"}

\* A session that is not open.
NoTx == [pc        |-> "idle",
         path      |-> None,
         cur       |-> None,                        \* payment being settled
         seen      |-> [p \in Payments |-> None],   \* statuses as loaded
         ans       |-> None,                        \* the provider's answer
         batch     |-> {},                          \* rows left in a sweep
         base      |-> 0,                           \* periods activate read
         rowPut    |-> [p \in Payments |-> None],   \* flushed, uncommitted
         subPut    |-> [u \in Users |-> None],
         activated |-> {}]                          \* credited, uncommitted

Init ==
  /\ row = [p \in Payments |-> "none"]
  /\ born = [p \in Payments |-> 0]
  /\ age = [p \in Payments |-> "new"]
  /\ truth = [p \in Payments |-> "none"]
  /\ sub = [u \in Users |-> 0]
  /\ credits = [p \in Payments |-> 0]
  /\ hearsay = [p \in Payments |-> {}]
  /\ tx = [s \in Sessions |-> NoTx]
  /\ faults = 0

(***************************************************************************)
(* The world: the student, the provider and the clock.                     *)
(***************************************************************************)

\* initialize_transaction or push_stk succeeded; the row is not written yet.
OpenAtProvider(p) ==
  /\ truth[p] = "none"
  /\ truth' = [truth EXCEPT ![p] = "open"]
  /\ UNCHANGED <<row, born, age, sub, credits, hearsay, tx, faults>>

Stamp == Cardinality({p \in Payments : born[p] > 0}) + 1

\* The checkout's own commit.  A crash before it leaves a payment without a
\* row, and a webhook may already have written one.
RecordPending(p) ==
  /\ truth[p] # "none"
  /\ row[p] = "none"
  /\ \A s \in Sessions : tx[s].rowPut[p] = None
  /\ row' = [row EXCEPT ![p] = "pending"]
  /\ born' = [born EXCEPT ![p] = Stamp]
  /\ UNCHANGED <<age, truth, sub, credits, hearsay, tx, faults>>

StudentPays(p) ==
  /\ truth[p] = "open"
  /\ truth' = [truth EXCEPT ![p] = "paid"]
  /\ UNCHANGED <<row, born, age, sub, credits, hearsay, tx, faults>>

StudentDeclines(p) ==
  /\ truth[p] = "open"
  /\ truth' = [truth EXCEPT ![p] = "unpaid"]
  /\ UNCHANGED <<row, born, age, sub, credits, hearsay, tx, faults>>

Older(p) == {q \in Payments : born[q] \in 1 .. (born[p] - 1)}

\* MIN_AGE, then MAX_AGE, goes by; rows age in the order they were created.
GrowOlder(p) ==
  /\ row[p] # "none"
  /\ \/ /\ age[p] = "new"
        /\ \A q \in Older(p) : age[q] # "new"
        /\ age' = [age EXCEPT ![p] = "due"]
     \/ /\ age[p] = "due"
        /\ \A q \in Older(p) : age[q] = "old"
        /\ age' = [age EXCEPT ![p] = "old"]
  /\ UNCHANGED <<row, born, truth, sub, credits, hearsay, tx, faults>>

(***************************************************************************)
(* A session: opening, closing, and the locks its writes hold.             *)
(***************************************************************************)
World == <<row, born, age, truth, sub, credits, hearsay, faults>>

CanWriteRow(s, p) == \A t \in Sessions \ {s} : tx[t].rowPut[p] = None
CanWriteSub(s, u) == \A t \in Sessions \ {s} : tx[t].subPut[u] = None

\* Session s is in state r.
Becomes(s, r) == tx' = [tx EXCEPT ![s] = r]

\* The session ends with nothing to publish, or with everything thrown away.
Close(s) == Becomes(s, NoTx)

\* A request is done with this payment; a sweep goes on to its next one.
LeaveAlone(s) ==
  IF tx[s].path = "sweep" THEN Becomes(s, [tx[s] EXCEPT !.pc = "next"]) ELSE Close(s)

AfterPayment(s) == IF tx[s].path = "sweep" THEN "next" ELSE "commit"

\* Which loaded rows a request goes on with; the others return at once.
GoesOn(via, p) ==
  CASE via = "verify"    -> Provider[p] # "daraja" \/ row[p] = "none"
    [] via = "poll"      -> row[p] \in {"pending", "processing"} /\ Provider[p] = "daraja"
    [] via = "callback"  -> row[p] \notin {"none", "success"} /\ Provider[p] = "daraja"
    [] via = "reconcile" -> row[p] # "none"

\* A handler loads the row and is about to ask the provider about it.
BeginRequest(s, via, p) ==
  /\ tx[s].pc = "idle"
  /\ via \in Paths
  /\ row[p] # "success" \/ via = "reconcile" => credits[p] < MaxCredits
  /\ truth[p] # "none"
  /\ GoesOn(via, p)
  /\ Becomes(s, [NoTx EXCEPT !.pc = "ask", !.path = via, !.cur = p,
                              !.seen = [@ EXCEPT ![p] = row[p]]])
  /\ UNCHANGED World

\* Kora posts charge.success, any number of times, and the body is the answer.
BeginWebhook(s, p) ==
  /\ tx[s].pc = "idle"
  /\ "webhook" \in Paths
  /\ row[p] # "success" => credits[p] < MaxCredits
  /\ Provider[p] = "kora"
  /\ truth[p] = "paid"
  /\ Becomes(s, [NoTx EXCEPT !.pc = "record", !.path = "webhook", !.cur = p,
                              !.seen = [@ EXCEPT ![p] = row[p]], !.ans = "success"])
  /\ UNCHANGED World

\* Mutant of Due: the sweep chases young rows instead of settled-down ones.
DueYoung == {p \in Payments : row[p] = "pending" /\ age[p] = "new"}

Due == {p \in Payments : row[p] = "pending" /\ age[p] = "due"}

\* Pending rows of every provider, oldest first, at most BatchLimit of them.
PendingPayments ==
  {p \in Due : Cardinality({q \in Due : born[q] < born[p]}) < BatchLimit}

BeginSweep(s) ==
  /\ tx[s].pc = "idle"
  /\ "sweep" \in Paths
  /\ PendingPayments # {}
  /\ Becomes(s, [NoTx EXCEPT !.pc = "next", !.path = "sweep",
                              !.batch = PendingPayments,
                              !.seen = [p \in Payments |->
                                 IF p \in PendingPayments THEN row[p] ELSE None]])
  /\ UNCHANGED World

\* The sweep's loop: the oldest row left, or the one commit at the end.  A
\* Kora row is passed over.
SweepNext(s) ==
  /\ tx[s].pc = "next"
  /\ \/ /\ tx[s].batch = {}
        /\ Becomes(s, [tx[s] EXCEPT !.pc = "commit"])
     \/ \E p \in tx[s].batch :
          /\ \A q \in tx[s].batch : born[p] <= born[q]
          /\ Becomes(s, [tx[s] EXCEPT !.batch = @ \ {p}, !.cur = p,
                            !.pc = IF Provider[p] = "kora" THEN "next" ELSE "ask"])
  /\ UNCHANGED World

(***************************************************************************)
(* Asking the provider.                                                    *)
(***************************************************************************)
KoraReconcile(s) == tx[s].path = "reconcile" /\ Provider[tx[s].cur] # "daraja"

\* The provider a session asks about the payment it holds.
Asked(s) ==
  LET p == tx[s].cur IN
  IF KoraReconcile(s) \/ (tx[s].path = "verify" /\ tx[s].seen[p] = "none")
  THEN "kora"
  ELSE Provider[p]

\* Mutant of Answers: a checkout still open is taken for a paid one.
AnswersOpenIsPaid(p) == IF truth[p] = "unpaid" THEN {"failed"} ELSE {"success"}

\* Mutant of Answers: a checkout still open is taken for a refused one.
AnswersOpenIsFailed(p) == IF truth[p] = "paid" THEN {"success"} ELSE {"failed"}

\* "processing" stands for every status of a checkout still open that is
\* neither "pending" nor "abandoned": a processor's own word is passed on, so
\* "ongoing" and "queued" are others.  Safaricom's codes are read as three.
Answers(p) ==
  CASE truth[p] = "paid"   -> {"success"}
    [] truth[p] = "unpaid" -> {"failed"}
    [] OTHER               -> IF Provider[p] = "daraja" THEN {"pending"}
                                                        ELSE {"pending", "processing"}

\* An answer the handler returns on, or raises on, before it writes anything.
NotSettledBy(s, a) ==
  \/ a = "pending" /\ ~KoraReconcile(s)
  \/ a # "success" /\ tx[s].path = "verify"

\* record_payment selects the row again: the session keeps what it loaded
\* before, and only a row it had not found can be new to it.
Reloaded(s) ==
  LET p == tx[s].cur IN
  [tx[s].seen EXCEPT ![p] = IF @ = "none" THEN row[p] ELSE @]

\* The handler leaves the payment alone or goes on to record the answer.
ActsOn(s, a) ==
  IF NotSettledBy(s, a)
  THEN LeaveAlone(s)
  ELSE Becomes(s, [tx[s] EXCEPT !.pc = "record", !.ans = a, !.seen = Reloaded(s)])

\* An answer that is not the outcome, and is recorded all the same.
Hears(s, a) ==
  hearsay' = IF NotSettledBy(s, a) THEN hearsay
             ELSE [hearsay EXCEPT ![tx[s].cur] = @ \cup {a}]

Outcomes == {"success", "failed"}

AskAnswered(s) ==
  /\ tx[s].pc = "ask"
  /\ Asked(s) = Provider[tx[s].cur]
  /\ \E a \in Answers(tx[s].cur) :
       /\ ActsOn(s, a)
       /\ IF a \in Outcomes THEN UNCHANGED hearsay ELSE Hears(s, a)
  /\ UNCHANGED <<row, born, age, truth, sub, credits, faults>>

\* A processor that does not find the reference (Paystack's 404), or answers
\* without a status, is read as saying that the charge failed.
AskDisowned(s) ==
  /\ tx[s].pc = "ask"
  /\ Asked(s) = Provider[tx[s].cur]
  /\ Asked(s) # "daraja"
  /\ faults < MaxFaults
  /\ faults' = faults + 1
  /\ ActsOn(s, "failed")
  /\ Hears(s, "failed")
  /\ UNCHANGED <<row, born, age, truth, sub, credits>>

\* Safaricom's query endpoint is unreachable or confused: confirm says pending.
AskUnclear(s) ==
  /\ tx[s].pc = "ask"
  /\ Asked(s) = "daraja"
  /\ LeaveAlone(s)
  /\ UNCHANGED World

\* The call raises.  The sweep guards only its card branch.  Anywhere else in
\* a pass the exception rolls the session back, which expires every row of
\* the batch, so the next attribute read raises too and the pass is over.
Raise(s) ==
  IF tx[s].path = "sweep" /\ Provider[tx[s].cur] = "paystack"
  THEN LeaveAlone(s)
  ELSE Close(s)

\* Safaricom's token endpoint, or a processor, is down or refusing.
AskRaises(s) ==
  /\ tx[s].pc = "ask"
  /\ Asked(s) = Provider[tx[s].cur]
  /\ faults < MaxFaults
  /\ faults' = faults + 1
  /\ Raise(s)
  /\ UNCHANGED <<row, born, age, truth, sub, credits, hearsay>>

\* Kora, asked about another's reference, refuses the call.
AskUnknown(s) ==
  /\ tx[s].pc = "ask"
  /\ Asked(s) # Provider[tx[s].cur]
  /\ Raise(s)
  /\ UNCHANGED World

(***************************************************************************)
(* Settling: settle_mpesa and record_payment, then apply_payment.          *)
(***************************************************************************)

\* A row loaded as success is left as it is, except that a Kora reconcile
\* writes the charge's status over it in any case.
WritesRow(s) ==
  LET was == tx[s].seen[tx[s].cur] IN
  (was # "success" \/ KoraReconcile(s)) /\ tx[s].ans # was

\* Mutant of TurnsPlanOn: a row already marked success is credited again.
TurnsPlanOnAgain(s) == tx[s].ans = "success"

\* Mutant of TurnsPlanOn: a charge that had no row is stored, not credited.
TurnsPlanOnKnownOnly(s) ==
  /\ tx[s].ans = "success"
  /\ tx[s].seen[tx[s].cur] \notin {"none", "success"} \/ KoraReconcile(s)

\* Whether this call is the one that turns the plan on.
TurnsPlanOn(s) ==
  /\ tx[s].ans = "success"
  /\ tx[s].seen[tx[s].cur] # "success" \/ KoraReconcile(s)

Record(s) ==
  LET p == tx[s].cur IN
  /\ tx[s].pc = "record"
  /\ WritesRow(s) => CanWriteRow(s, p) /\ (tx[s].seen[p] = "none" => row[p] = "none")
  /\ Becomes(s, [tx[s] EXCEPT
       !.rowPut = IF WritesRow(s) THEN [@ EXCEPT ![p] = tx[s].ans] ELSE @,
       !.pc = IF TurnsPlanOn(s) THEN "activate" ELSE AfterPayment(s)])
  /\ UNCHANGED World

\* Two sessions inserted the same reference: the unique index refuses one.
RecordClashes(s) ==
  LET p == tx[s].cur IN
  /\ tx[s].pc = "record"
  /\ tx[s].seen[p] = "none" /\ row[p] # "none"
  /\ CanWriteRow(s, p)
  /\ Close(s)
  /\ UNCHANGED World

\* activate reads the subscription it is about to extend ...
Activate(s) ==
  LET u == Owner[tx[s].cur] IN
  /\ tx[s].pc = "activate"
  /\ Becomes(s, [tx[s] EXCEPT
       !.base = IF tx[s].subPut[u] = None THEN sub[u] ELSE tx[s].subPut[u],
       !.pc = "extend"])
  /\ UNCHANGED World

\* ... and flushes the end it computed from what it read.
Extend(s) ==
  LET u == Owner[tx[s].cur] IN
  /\ tx[s].pc = "extend"
  /\ CanWriteSub(s, u)
  /\ Becomes(s, [tx[s] EXCEPT
       !.subPut = [@ EXCEPT ![u] = tx[s].base + 1],
       !.activated = @ \cup {tx[s].cur},
       !.pc = AfterPayment(s)])
  /\ UNCHANGED World

Commit(s) ==
  /\ tx[s].pc = "commit"
  /\ row' = [p \in Payments |->
               IF tx[s].rowPut[p] = None THEN row[p] ELSE tx[s].rowPut[p]]
  /\ born' = [p \in Payments |->
               IF tx[s].rowPut[p] # None /\ born[p] = 0 THEN Stamp ELSE born[p]]
  /\ sub' = [u \in Users |->
               IF tx[s].subPut[u] = None THEN sub[u] ELSE tx[s].subPut[u]]
  /\ credits' = [p \in Payments |->
               IF p \in tx[s].activated THEN credits[p] + 1 ELSE credits[p]]
  /\ Close(s)
  /\ UNCHANGED <<age, truth, hearsay, faults>>

(***************************************************************************)
(* A session that is lost, and the database breaking a deadlock.           *)
(***************************************************************************)
Crash(s) ==
  /\ tx[s].pc # "idle"
  /\ faults < MaxFaults
  /\ faults' = faults + 1
  /\ Close(s)
  /\ UNCHANGED <<row, born, age, truth, sub, credits, hearsay>>

WaitsFor(s, t) ==
  /\ s # t
  /\ \/ tx[s].pc = "record" /\ WritesRow(s) /\ tx[t].rowPut[tx[s].cur] # None
     \/ tx[s].pc = "extend" /\ tx[t].subPut[Owner[tx[s].cur]] # None

Deadlocked(s) ==
  \E C \in SUBSET Sessions :
    s \in C /\ \A t \in C : \E r \in C : WaitsFor(t, r)

\* Postgres aborts one transaction of a cycle; the handler raises.
DeadlockVictim(s) ==
  /\ Deadlocked(s)
  /\ Close(s)
  /\ UNCHANGED World

-----------------------------------------------------------------------------
Environment ==
  \E p \in Payments : \/ OpenAtProvider(p) \/ RecordPending(p)
                      \/ StudentPays(p) \/ StudentDeclines(p) \/ GrowOlder(p)

\* What an open session does next by itself.
Continue(s) ==
  \/ SweepNext(s)
  \/ AskAnswered(s) \/ AskUnclear(s) \/ AskUnknown(s)
  \/ Record(s) \/ RecordClashes(s) \/ Activate(s) \/ Extend(s) \/ Commit(s)
  \/ DeadlockVictim(s)

Arrive(s) ==
  \/ /\ s \in Servers
     /\ \E p \in Payments : \/ \E via \in RequestPaths : BeginRequest(s, via, p)
                            \/ BeginWebhook(s, p)
  \/ s \in Workers /\ BeginSweep(s)

Next ==
  \/ Environment
  \/ \E s \in Sessions : Arrive(s) \/ Continue(s) \/ AskDisowned(s) \/ AskRaises(s) \/ Crash(s)

Spec == Init /\ [][Next]_vars

(***************************************************************************)
(* Fairness.  The worker's loop calls the sweep once a minute for as long  *)
(* as it runs.  A session that is open goes on, and one that waits for a   *)
(* lock is granted it in its turn (PostgreSQL queues them), which is why   *)
(* the fairness of the steps that wait for one is strong: a subscription's *)
(* for everyone, a payment's for the sweep, which is all that needs it.    *)
(* Crashes and outages are finitely many.  Safaricom may answer vaguely    *)
(* any number of times, but one that keeps being asked about a payment in  *)
(* the end answers.  No request is assumed ever to arrive.                 *)
(***************************************************************************)
Answered(s, p) == tx[s].cur = p /\ AskAnswered(s)

Fairness ==
  /\ \A s \in Sessions : WF_vars(Continue(s)) /\ SF_vars(Extend(s))
  /\ \A s \in Workers :
       /\ SF_vars(Record(s))
       /\ WF_vars(BeginSweep(s))
       /\ \A p \in {q \in Payments : Provider[q] = "daraja"} : SF_vars(Answered(s, p))

LiveSpec == Spec /\ Fairness

(***************************************************************************)
(* The ledger this implements when sessions do not overlap.                *)
(***************************************************************************)
Ledger == INSTANCE PaymentLedger
            WITH paid    <- {p \in Payments : truth[p] = "paid"},
                 bought  <- credits,
                 periods <- sub

\* Every step is a payment, a credit of payments not credited before, or
\* nothing at all to the ledger.
ImplementsLedger == Ledger!LedgerSpec

-----------------------------------------------------------------------------
TxType ==
  [pc        : {"idle", "next", "ask", "record", "activate", "extend", "commit"},
   path      : AllPaths \cup {None},
   cur       : Payments \cup {None},
   seen      : [Payments -> Status \cup {None}],
   ans       : {"pending", "processing", "success", "failed", None},
   batch     : SUBSET Payments,
   base      : Nat,
   rowPut    : [Payments -> Status \cup {None}],
   subPut    : [Users -> Nat \cup {None}],
   activated : SUBSET Payments]

\* A session that works on a payment holds one.
SessionOK(r) ==
  /\ r \in TxType
  /\ r.pc \in {"ask", "record", "activate", "extend"} => r.cur \in Payments

TxOK == tx \in [Sessions -> TxType] /\ \A s \in Sessions : SessionOK(tx[s])

\* Every variable keeps to its type.
TypeOK ==
  /\ row \in [Payments -> Status]
  /\ born \in [Payments -> Nat]
  /\ age \in [Payments -> {"new", "due", "old"}]
  /\ truth \in [Payments -> {"none", "open", "paid", "unpaid"}]
  /\ sub \in [Users -> Nat]
  /\ credits \in [Payments -> Nat]
  /\ hearsay \in [Payments -> SUBSET Status]
  /\ TxOK
  /\ faults \in Nat

(***************************************************************************)
(* Safety.                                                                 *)
(***************************************************************************)

\* Nothing but money turns a plan on: a payment that bought a period, on disk
\* or in a transaction still open, was paid at its provider.
CreditedWerePaid ==
  \A p \in Payments :
    (credits[p] > 0 \/ \E s \in Sessions : p \in tx[s].activated) => truth[p] = "paid"

\* A payment is written off as failed only when it was refused, or when its
\* processor said that it does not know it: an outage, a blip or a prompt
\* still ringing is not a refusal, and of M-Pesa only a refusal is one.
FailedWereRefused ==
  \A p \in Payments :
    (row[p] = "failed" \/ \E s \in Sessions : tx[s].rowPut[p] = "failed")
      => truth[p] = "unpaid" \/ (Provider[p] # "daraja" /\ "failed" \in hearsay[p])

\* "The money is real and the subscription is not" never survives a commit:
\* a row that says success has bought its period in the same transaction.
SuccessIsCredited ==
  \A p \in Payments : row[p] = "success" => credits[p] > 0

\* What makes the three above inductive: an open session acts only on what
\* the provider told it, and writes success only on its way to crediting.
Refused(p, heard) == truth[p] = "unpaid" \/ "failed" \in heard[p]

SessionHonest(r, heard) ==
  /\ r.pc \in {"activate", "extend"} => r.ans = "success"
  /\ r.pc \in {"record", "activate", "extend"} =>
       /\ r.ans = "success" => truth[r.cur] = "paid"
       /\ r.ans = "failed" => Refused(r.cur, heard)
  /\ \A p \in Payments :
       /\ p \in r.activated => truth[p] = "paid"
       /\ r.rowPut[p] = "failed" => Refused(p, heard)
       /\ r.rowPut[p] = "success" =>
            /\ truth[p] = "paid"
            /\ p \in r.activated \/ (r.cur = p /\ r.pc \in {"activate", "extend"})

Honest ==
  /\ \A s \in Sessions : SessionHonest(tx[s], hearsay)
  /\ \A p \in Payments :
       /\ credits[p] > 0 => truth[p] = "paid"
       /\ row[p] = "failed" => Refused(p, hearsay)
       /\ row[p] = "success" => credits[p] > 0
       /\ hearsay[p] # {} => Provider[p] # "daraja"

\* No payment buys two periods.
CreditedOnce == \A p \in Payments : credits[p] <= 1

\* A payment once recorded as success stays success, except for a card of
\* which some pass of the sweep recorded an answer that was not its outcome:
\* such a pass may hold that answer while a verify credits the card.
SuccessIsKept ==
  [][\A p \in Payments :
       row[p] = "success" /\ row'[p] # "success"
         => Provider[p] = "paystack" /\ hearsay[p] # {}]_vars

\* Repeats are recognised: a payment whose success no answer can take back is
\* credited again only by a session that was already open when the first
\* credit was committed, so never more often than there are sessions to
\* overlap.
CreditsNeedOverlap ==
  \A p \in Payments : hearsay[p] = {} => credits[p] <= Cardinality(Sessions)

\* What makes the two above inductive where reconcile is not in play.  What a
\* session writes is the outcome, or is known not to be ...
SessionFinal(r, heard) ==
  /\ r.path # "reconcile"
  /\ r.pc = "ask" /\ Provider[r.cur] = "kora" => r.path = "verify"
  /\ r.pc = "record" => r.ans \in Outcomes \/ heard[r.cur] # {}
  /\ \A p \in Payments : r.rowPut[p] \in Outcomes \cup {None} \/ heard[p] # {}

\* ... a credit goes with the row that is made a success, and a session takes
\* up a payment once ...
CreditsWithRow(r) ==
  /\ r.pc \in {"activate", "extend"} => r.rowPut[r.cur] = "success" /\ r.seen[r.cur] # "success"
  /\ \A p \in r.activated : r.rowPut[p] = "success"
  /\ r.activated \cap r.batch = {}
  /\ r.pc \in {"ask", "record", "activate", "extend"} => r.cur \notin r.activated \cup r.batch

\* ... and whoever may still credit a payment loaded it before its success.
MayCredit(r, p) ==
  \/ p \in r.activated
  \/ /\ r.seen[p] # "success"
     /\ p \in r.batch \/ (r.cur = p /\ r.pc \in {"ask", "record", "activate", "extend"})

Waiting(p) == {s \in Sessions : MayCredit(tx[s], p)}

Final ==
  /\ \A s \in Sessions : SessionFinal(tx[s], hearsay) /\ CreditsWithRow(tx[s])
  /\ \A p \in Payments : hearsay[p] # {} => Provider[p] = "paystack"

CreditsCounted ==
  \A p \in Payments : hearsay[p] = {} =>
    /\ row[p] # "success" => credits[p] = 0
    /\ credits[p] + Cardinality(Waiting(p)) <= Cardinality(Sessions)

\* A payment that was really paid and is among the BATCH oldest rows to ask
\* about, whose provider never reports to this service, ends up credited by
\* the sweep alone, unless a whole day goes by first.  A card is only asked
\* about for as long as no other answer is written on its row.
PaidIsCredited ==
  \A p \in Payments :
    (Provider[p] # "kora" /\ p \in PendingPayments /\ truth[p] = "paid")
      ~> \/ credits[p] > 0
         \/ age[p] = "old"
         \/ Provider[p] = "paystack" /\ row[p] # "pending"
=============================================================================
