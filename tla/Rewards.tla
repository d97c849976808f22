------------------------------ MODULE Rewards ------------------------------
(***************************************************************************)
(* The referral programme: what a payment earns the friend who paid and    *)
(* the student who brought them, and the worker's pass that credits, banks *)
(* or voids what was earned.                                               *)
(*                                                                         *)
(* A payment is two steps, its select of the subscription and everything   *)
(* from its first row lock to its commit.  A pass is two steps for every   *)
(* reward it moves and one to end, in one transaction: what it flushed is  *)
(* locked and visible to itself only, what it did not flush is not visible *)
(* even to its own selects, because the session does not autoflush.        *)
(***************************************************************************)
EXTENDS Naturals, FiniteSets, Totals

CONSTANTS
  Users,
  ReferredBy,    \* who brought a user in, recorded at their first sign-in
  Sessions,      \* payments and passes in flight at once
  Tiers, PeriodOf, EarnsOf,   \* plans: their length and what they earn a referrer
  FriendDays,    \* the friend's half
  VestDays, Month,
  BankDaysToLive, BankCap, MaxPerMonth,
  SweepLimit,    \* rewards a pass takes
  MaxTime,       \* bound on the clock
  MaxFaults,     \* bound on sessions that fail
  Horizon,       \* bound: a plan that ends later than this is not paid for again
  None

ASSUME RewardsAssumption ==
  /\ IsFiniteSet(Users)
  /\ None \notin Users \cup Nat
  /\ ReferredBy \in [Users -> Users \cup {None}]
  /\ \A u \in Users : ReferredBy[u] # u       \* claim refuses a student's own code
  /\ "free" \notin Tiers
  /\ PeriodOf \in [Tiers -> Nat \ {0}] /\ EarnsOf \in [Tiers -> Nat \ {0}]
  /\ FriendDays \in Nat /\ VestDays \in Nat /\ Month \in Nat
  /\ BankDaysToLive \in Nat \ {0}   \* 90 in the code
  /\ BankCap \in Nat
  /\ MaxPerMonth \in Nat /\ SweepLimit \in Nat
  /\ MaxTime \in Nat /\ MaxFaults \in Nat /\ Horizon \in Nat

VARIABLES
  now,
  plan,      \* tier and end of a user's subscription
  reward,    \* the reward row for bringing a user in
  tx,        \* the open sessions
  faults     \* sessions that failed

vars == <<now, plan, reward, tx, faults>>

FreePlan == [tier |-> "free", ends |-> 0]

NoReward == [status |-> "none", days |-> 0, made |-> 0, vest |-> 0, until |-> 0]

NoTx == [op    |-> "idle", who |-> None, tier |-> None, at |-> 0,
         left  |-> {},                         \* rewards a pass has yet to move
         cur   |-> None,
         seen  |-> FreePlan,                   \* the plan last loaded
         put   |-> [u \in Users |-> None],     \* ends of plans flushed
         rows  |-> [u \in Users |-> NoReward], \* rewards as loaded
         new   |-> [u \in Users |-> NoReward], \* and as changed in memory
         sent  |-> {}]                         \* those flushed

Init ==
  /\ now = 1
  /\ plan = [u \in Users |-> FreePlan]
  /\ reward = [u \in Users |-> NoReward]
  /\ tx = [s \in Sessions |-> NoTx]
  /\ faults = 0

-----------------------------------------------------------------------------
Idle(s) == tx[s].op = "idle"
Becomes(s, r) == tx' = [tx EXCEPT ![s] = r]
Close(s) == Becomes(s, NoTx)

\* A row flushed and not committed is locked.
PlanFree(s, u) == \A o \in Sessions \ {s} : tx[o].put[u] = None
RewardsFree(s, R) == \A o \in Sessions \ {s} : tx[o].sent \cap R = {}

Earned(u) == {r \in Users : ReferredBy[r] = u}
Days == [r \in Users |-> reward[r].days]

\* A flush writes the columns that differ from what was loaded.
Merged(row, loaded, new) ==
  [c \in DOMAIN row |-> IF new[c] # loaded[c] THEN new[c] ELSE row[c]]

Changed(s) == {r \in Users : tx[s].new[r] # tx[s].rows[r]}

\* What a select of this session reads: committed rows, or its own flushed.
Visible(s, r) ==
  IF r \in tx[s].sent THEN Merged(reward[r], tx[s].rows[r], tx[s].new[r]) ELSE reward[r]

VisiblePlan(s, u) ==
  IF tx[s].put[u] = None THEN plan[u] ELSE [plan[u] EXCEPT !.ends = tx[s].put[u]]

Tick ==
  /\ now < MaxTime
  /\ now' = now + 1
  /\ UNCHANGED <<plan, reward, tx, faults>>

Abort(s) ==
  /\ ~Idle(s)
  /\ faults < MaxFaults
  /\ faults' = faults + 1
  /\ Close(s)
  /\ UNCHANGED <<now, plan, reward>>

(***************************************************************************)
(* A payment: activate, then on_first_payment.                             *)
(***************************************************************************)
BeginPay(s, u, t) ==
  /\ Idle(s)
  /\ plan[u].ends <= Horizon
  /\ Becomes(s, [NoTx EXCEPT !.op = "pay", !.who = u, !.tier = t, !.at = now, !.seen = plan[u]])
  /\ UNCHANGED <<now, plan, reward, faults>>

\* Mutant of Recent: rewards already credited are not counted.
RecentUncredited(u) ==
  {r \in Earned(u) : reward[r].status \in {"pending", "banked"} /\ reward[r].made + Month > now}

Recent(u) ==
  {r \in Earned(u) : reward[r].status \notin {"none", "voided"} /\ reward[r].made + Month > now}

\* Whether payer and referrer share a handset at this moment is left open.
Refused(u, sameDevice) == sameDevice \/ Cardinality(Recent(ReferredBy[u])) >= MaxPerMonth

\* Mutant of Awarded: a reward that was refused is tried again.
AwardedAgain(u) == ReferredBy[u] # None /\ reward[u].status \in {"none", "voided"}

\* One reward per person referred, ever.
Awarded(u) == ReferredBy[u] # None /\ reward[u].status = "none"

\* A refusal is recorded, worth nothing. The row is dated by the start of its
\* transaction, its hold by the clock.
Award(t, refused, began) ==
  IF refused
  THEN [NoReward EXCEPT !.status = "voided", !.made = began]
  ELSE [NoReward EXCEPT !.status = "pending", !.made = began,
                        !.days = EarnsOf[t], !.vest = now + VestDays]

InBank(u) == {r \in Earned(u) : reward[r].status = "banked"}

\* Mutant of Released: the bank is left as it is.
ReleasedNever(u) == {}

\* What a payer has in the bank is credited or, past its end, voided.
Released(u) == {r \in InBank(u) : reward[r].until > now}
Expired(u) == {r \in InBank(u) : reward[r].until <= now}

\* Renewing the tier held extends it, switching starts a fresh period.
Base(held, t) == IF held.tier = t /\ held.ends > now THEN held.ends ELSE now

FinishPay(s) ==
  LET u == tx[s].who
      t == tx[s].tier
      held == tx[s].seen
  IN
  /\ tx[s].op = "pay"
  /\ PlanFree(s, u)
  /\ RewardsFree(s, InBank(u))
  /\ \E sameDevice \in BOOLEAN :
       LET refused == Refused(u, sameDevice)
           gift == IF Awarded(u) /\ ~refused THEN FriendDays ELSE 0
           end == Base(held, t) + PeriodOf[t] + gift
                    + Total(Released(u), Days)
       IN
       /\ plan' = [plan EXCEPT ![u] =
            [tier |-> IF t = held.tier THEN @.tier ELSE t, ends |-> end]]
       /\ reward' = [r \in Users |->
            CASE r = u /\ Awarded(u) -> Award(t, refused, tx[s].at)
              [] r \in Released(u)   -> [reward[r] EXCEPT !.status = "credited"]
              [] r \in Expired(u)    -> [reward[r] EXCEPT !.status = "voided"]
              [] OTHER               -> reward[r]]
  /\ Close(s)
  /\ UNCHANGED <<now, faults>>

(***************************************************************************)
(* A pass of the worker.                                                   *)
(***************************************************************************)
\* Mutant of Due: a reward is due only at the very moment its hold ends.
DueOnce == {r \in Users : reward[r].status = "pending" /\ reward[r].vest = now}

Due == {r \in Users : reward[r].status = "pending" /\ reward[r].vest <= now}

BeginSweep(s) ==
  /\ Idle(s)
  /\ \E batch \in SUBSET Due :
       /\ Cardinality(batch) = IF Cardinality(Due) < SweepLimit THEN Cardinality(Due) ELSE SweepLimit
       /\ LET loaded == [r \in Users |-> IF r \in batch THEN reward[r] ELSE NoReward] IN
          Becomes(s, [NoTx EXCEPT !.op = "sweep", !.at = now, !.left = batch,
                                  !.rows = loaded, !.new = loaded])
  /\ UNCHANGED <<now, plan, reward, faults>>

HasAPlan(held) == held.tier # "free" /\ held.ends > now

\* The next reward, and whether its referrer's subscription takes the days.
Look(s) ==
  /\ tx[s].op = "sweep"
  /\ \E r \in tx[s].left :
       LET held == VisiblePlan(s, ReferredBy[r]) IN
       Becomes(s, [tx[s] EXCEPT !.op = IF HasAPlan(held) THEN "credit" ELSE "bank",
                                !.cur = r, !.left = @ \ {r}, !.seen = held])
  /\ UNCHANGED <<now, plan, reward, faults>>

\* Days go only on a plan that still runs.
Extended(held, days, put) == IF held.ends > now THEN held.ends + days ELSE put

\* The reward is credited either way, and the flush sends everything the pass
\* has changed so far.
Credit(s) ==
  LET r == tx[s].cur
      f == ReferredBy[r]
      new == [tx[s].new EXCEPT ![r].status = "credited"]
      sent == Changed(s) \cup {r}
  IN
  /\ tx[s].op = "credit"
  /\ PlanFree(s, f)
  /\ RewardsFree(s, sent)
  /\ Becomes(s, [tx[s] EXCEPT !.op = "sweep", !.cur = None, !.new = new, !.sent = sent,
                   !.put[f] = Extended(tx[s].seen, tx[s].new[r].days, @)])
  /\ UNCHANGED <<now, plan, reward, faults>>

Held(s, f) ==
  Total({r \in Earned(f) : Visible(s, r).status = "banked"}, [r \in Users |-> Visible(s, r).days])

\* Trimmed to the room that is left, voided when there is none.
Banked(row, room) ==
  IF room = 0
  THEN [row EXCEPT !.status = "voided"]
  ELSE [row EXCEPT !.status = "banked", !.until = now + BankDaysToLive, !.days = IF @ < room THEN @ ELSE room]

Bank(s) ==
  LET r == tx[s].cur
      held == Held(s, ReferredBy[r])
      room == IF held < BankCap THEN BankCap - held ELSE 0
  IN
  /\ tx[s].op = "bank"
  /\ Becomes(s, [tx[s] EXCEPT !.op = "sweep", !.cur = None, !.new[r] = Banked(@, room)])
  /\ UNCHANGED <<now, plan, reward, faults>>

\* Banked rewards nobody took up by the time the pass began.
Stale(s) == {r \in Users : Visible(s, r).status = "banked" /\ Visible(s, r).until <= tx[s].at}

FinishSweep(s) ==
  /\ tx[s].op = "sweep" /\ tx[s].left = {}
  /\ RewardsFree(s, Changed(s) \cup Stale(s))
  /\ reward' = [r \in Users |->
       IF r \in Stale(s) THEN [Visible(s, r) EXCEPT !.status = "voided"]
       ELSE Merged(reward[r], tx[s].rows[r], tx[s].new[r])]
  /\ plan' = [u \in Users |-> VisiblePlan(s, u)]
  /\ Close(s)
  /\ UNCHANGED <<now, faults>>

-----------------------------------------------------------------------------
\* What an open session does next by itself.
Continue(s) == FinishPay(s) \/ Look(s) \/ Credit(s) \/ Bank(s) \/ FinishSweep(s)

Next ==
  \/ Tick
  \/ \E s \in Sessions :
       \/ \E u \in Users : \E t \in Tiers : BeginPay(s, u, t)
       \/ BeginSweep(s)
       \/ Continue(s)
       \/ Abort(s)

Spec == Init /\ [][Next]_vars

(***************************************************************************)
(* Fairness.  The worker's loop calls the pass once a minute for as long   *)
(* as it runs, and a session that is open goes on.  Failures are finitely  *)
(* many.  Nobody is assumed ever to pay.                                   *)
(***************************************************************************)
Fairness == \A s \in Sessions : WF_vars(Continue(s)) /\ WF_vars(BeginSweep(s))

LiveSpec == Spec /\ Fairness

(***************************************************************************)
(* The ledger this implements when sessions do not overlap.                *)
(***************************************************************************)
Ledger == INSTANCE RewardLedger
            WITH status <- [r \in Users |-> reward[r].status],
                 days   <- Days

\* Every commit moves plans by exactly what was bought and what was credited
\* with it, and no reward is credited twice, brought back or left in the bank
\* of somebody who bought.
ImplementsLedger == Ledger!Spec

-----------------------------------------------------------------------------
RowType ==
  [status : {"none", "pending", "banked", "credited", "voided"},
   days : Nat, made : Nat, vest : Nat, until : Nat]

TxType ==
  [op   : {"idle", "pay", "sweep", "credit", "bank"},
   who  : Users \cup {None},
   tier : Tiers \cup {None},
   at   : Nat,
   left : SUBSET Users,
   cur  : Users \cup {None},
   seen : [tier : Tiers \cup {"free"}, ends : Nat],
   put  : [Users -> Nat \cup {None}],
   rows : [Users -> RowType],
   new  : [Users -> RowType],
   sent : SUBSET Users]

\* Every variable keeps to its type.
TypeOK ==
  /\ now \in Nat
  /\ plan \in [Users -> [tier : Tiers \cup {"free"}, ends : Nat]]
  /\ reward \in [Users -> RowType]
  /\ tx \in [Sessions -> TxType]
  /\ faults \in Nat

Standing(r) == reward[r].status \notin {"none", "voided"}

\* No referrer is ever granted more than MaxPerMonth rewards in a month,
\* counted back from when any of them was granted.
MonthlyCap ==
  \A r \in Users :
    Standing(r) =>
      LET granted == reward[r].vest - VestDays IN
      Cardinality({q \in Earned(ReferredBy[r]) :
        Standing(q) /\ reward[q].vest <= reward[r].vest /\ reward[q].made + Month > granted})
          <= MaxPerMonth

\* Nothing waits in the bank of a student who has a plan: it was either
\* credited to that plan or released by the payment that began it.
BankedHaveNoPlan ==
  \A r \in Users : reward[r].status = "banked" => plan[ReferredBy[r]].ends <= now

\* The most a referrer on Free can hold at once.
BankHolds ==
  \A u \in Users : Total(InBank(u), Days) <= BankCap

\* A reward past its hold is credited, banked or voided in the end.
DueIsSettled ==
  \A r \in Users :
    (reward[r].status = "pending" /\ reward[r].vest <= now) ~> reward[r].status # "pending"
=============================================================================
