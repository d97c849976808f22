---------------------------- MODULE RewardLedger ----------------------------
(***************************************************************************)
(* What the referral programme promises about days: a plan moves by what   *)
(* was bought and by the rewards credited at that moment, each reward is   *)
(* credited once, and one that waited in the bank is credited by the       *)
(* purchase it waited for.                                                 *)
(***************************************************************************)
EXTENDS Naturals, Totals

CONSTANTS
  Users,
  ReferredBy,        \* who brought a user in, None for nobody
  Tiers, PeriodOf,   \* what can be bought, and the days it adds
  FriendDays,        \* the friend's half of a reward
  None

VARIABLES
  now,
  plan,        \* tier and end of a user's plan, "free" and 0 before any
  status,      \* of the reward for bringing a user in
  days         \* what that reward is worth to whoever did

Init ==
  /\ now = 1
  /\ plan = [u \in Users |-> [tier |-> "free", ends |-> 0]]
  /\ status = [u \in Users |-> "none"]
  /\ days = [u \in Users |-> 0]

\* The life of a reward: credited and voided are its ends.
After(st) ==
  CASE st = "none"    -> {"none", "pending", "voided"}
    [] st = "pending" -> {"pending", "banked", "credited", "voided"}
    [] st = "banked"  -> {"banked", "credited", "voided"}
    [] OTHER          -> {st}

Earned(u) == {r \in Users : ReferredBy[r] = u}
Credited(u) == {r \in Earned(u) : status[r] # "credited" /\ status'[r] = "credited"}
Worth(R) == Total(R, days')

\* A purchase runs on from the plan held, or starts a fresh one of another
\* tier. The friend's half comes with the purchase that earns the reward, and
\* the buyer's bank is emptied.
Bought(u, t) ==
  LET from == IF plan[u].tier = t /\ plan[u].ends > now THEN plan[u].ends ELSE now
      gift == IF status[u] = "none" /\ status'[u] = "pending" THEN FriendDays ELSE 0
  IN
  /\ plan'[u] = [tier |-> t, ends |-> from + PeriodOf[t] + gift + Worth(Credited(u))]
  /\ \A r \in Earned(u) : status'[r] = "banked" => status[r] = "pending"

\* Otherwise rewards past their hold are added, all of them unless the plan
\* ran out while that was done.
Rewarded(u) ==
  /\ status'[u] # "none" => status[u] # "none"
  /\ \A r \in Credited(u) : status[r] = "pending"
  /\ \E arrived \in SUBSET Credited(u) :
       /\ plan'[u] = [plan[u] EXCEPT !.ends = @ + Worth(arrived)]
       /\ arrived # Credited(u) => plan[u].ends <= now

\* A reward is trimmed to fit the bank or keeps its worth.
KeepsWorth(r) ==
  \/ status[r] = "none"
  \/ days'[r] = days[r]
  \/ status[r] = "pending" /\ status'[r] = "banked" /\ days'[r] \in 1..days[r]

Book ==
  /\ \A r \in Users : status'[r] \in After(status[r]) /\ KeepsWorth(r)
  /\ \A u \in Users : Rewarded(u) \/ \E t \in Tiers : Bought(u, t)
  /\ UNCHANGED now

Tick ==
  /\ now' = now + 1
  /\ UNCHANGED <<plan, status, days>>

Spec == Init /\ [][Book \/ Tick]_<<now, plan, status, days>>
=============================================================================
