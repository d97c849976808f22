--------------------------- MODULE Rewards_proofs ---------------------------
(***************************************************************************)
(* What holds of Rewards for every set of students, every plan, every      *)
(* length of the holds and every bound.                                    *)
(***************************************************************************)
EXTENDS Rewards, FiniteSetTheorems, TLAPS

-----------------------------------------------------------------------------
(* Sums of days.                                                           *)

\* The days of one reward can be counted.
LEMMA DaysOfCount ==
  ASSUME NEW r, NEW worth, worth[r] \in Nat
  PROVE  IsFiniteSet(DaysOf(r, worth)) /\ Cardinality(DaysOf(r, worth)) = worth[r]
<1> DEFINE D == 1 .. worth[r]
<1>1. IsFiniteSet(D) /\ Cardinality(D) = worth[r]
  <2>1. /\ IsFiniteSet(D)
        /\ Cardinality(D) = IF 1 > worth[r] THEN 0 ELSE worth[r] - 1 + 1
    BY FS_Interval
  <2> HIDE DEF D
  <2> QED
    BY <2>1
<1>2. IsFiniteSet({r}) /\ Cardinality({r}) = 1
  BY FS_Singleton
<1> HIDE DEF D
<1>3. IsFiniteSet({r} \X D) /\ Cardinality({r} \X D) = 1 * worth[r]
  <2>1. IsFiniteSet({r}) /\ IsFiniteSet(D)
    BY <1>1, <1>2
  <2>2. IsFiniteSet({r} \X D) /\ Cardinality({r} \X D) = Cardinality({r}) * Cardinality(D)
    BY <2>1, FS_Product
  <2> QED
    BY <2>2, <1>1, <1>2
<1>4. DaysOf(r, worth) = {r} \X D
  BY DEF DaysOf, D
<1> QED
  BY <1>3, <1>4

\* So can those of a set of rewards.
LEMMA TotalFinite ==
  ASSUME NEW R \in SUBSET Users, NEW worth \in [Users -> Nat]
  PROVE  /\ IsFiniteSet(UNION {DaysOf(r, worth) : r \in R})
         /\ Total(R, worth) \in Nat
<1> DEFINE S == {DaysOf(r, worth) : r \in R}
           g == [r \in R |-> DaysOf(r, worth)]
<1>1. IsFiniteSet(R)
  BY RewardsAssumption, FS_Subset DEF RewardsAssumption
<1>2. g \in Surjection(R, S)
  BY DEF Surjection
<1>3. IsFiniteSet(S)
  <2> HIDE DEF S, g
  <2> QED
    BY <1>1, <1>2, FS_Surjection
<1>4. \A T \in S : IsFiniteSet(T)
  BY DaysOfCount
<1>5. IsFiniteSet(UNION S)
  <2> HIDE DEF S
  <2> QED
    BY <1>3, <1>4, FS_UNION
<1> QED
  BY <1>5, FS_CardinalityType DEF Total

LEMMA TotalNone ==
  ASSUME NEW worth
  PROVE  Total({}, worth) = 0
<1>1. UNION {DaysOf(r, worth) : r \in {}} = {}
  OBVIOUS
<1> QED
  BY <1>1, FS_EmptySet DEF Total

\* One reward more adds its days.
LEMMA TotalAdd ==
  ASSUME NEW R \in SUBSET Users, NEW worth \in [Users -> Nat], NEW r \in Users \ R
  PROVE  Total(R \cup {r}, worth) = Total(R, worth) + worth[r]
<1> DEFINE A == UNION {DaysOf(q, worth) : q \in R}
           B == DaysOf(r, worth)
<1>1. IsFiniteSet(A) /\ Cardinality(A) = Total(R, worth) /\ Cardinality(A) \in Nat
  BY TotalFinite DEF Total
<1>2. IsFiniteSet(B) /\ Cardinality(B) = worth[r]
  BY DaysOfCount
<1>3. A \cap B = {}
  BY DEF DaysOf
<1>4. UNION {DaysOf(q, worth) : q \in R \cup {r}} = A \cup B
  OBVIOUS
<1>5. Total(R \cup {r}, worth) = Cardinality(A \cup B)
  BY <1>4 DEF Total
<1> HIDE DEF A, B
<1>6. Cardinality(A \cup B) = Cardinality(A) + Cardinality(B) - Cardinality(A \cap B)
  BY <1>1, <1>2, FS_Union
<1>7. Cardinality(A \cap B) = 0
  BY <1>3, FS_EmptySet
<1> QED
  BY <1>1, <1>2, <1>5, <1>6, <1>7

\* Only the worth of the rewards in the set counts.
LEMMA TotalSame ==
  ASSUME NEW R, NEW worth, NEW other, \A r \in R : worth[r] = other[r]
  PROVE  Total(R, worth) = Total(R, other)
<1>1. \A r \in R : DaysOf(r, worth) = DaysOf(r, other)
  BY DEF DaysOf
<1>2. {DaysOf(r, worth) : r \in R} = {DaysOf(r, other) : r \in R}
  BY <1>1
<1> QED
  BY <1>2 DEF Total

-----------------------------------------------------------------------------
(* Types.                                                                  *)

LEMMA NoRewardType == NoReward \in RowType
  BY DEF NoReward, RowType

LEMMA NoTxType == NoTx \in TxType
  BY NoRewardType DEF NoTx, TxType, FreePlan

\* A flush writes a well-typed row.
LEMMA MergedType ==
  ASSUME NEW row \in RowType, NEW loaded \in RowType, NEW new \in RowType
  PROVE  Merged(row, loaded, new) \in RowType
  BY DEF Merged, RowType

\* Where nothing changed it leaves the row, and where the row is what was
\* loaded it writes the row as changed.
LEMMA MergedIs ==
  ASSUME NEW row \in RowType, NEW loaded \in RowType, NEW new \in RowType
  PROVE  /\ loaded = new => Merged(row, loaded, new) = row
         /\ loaded = row => Merged(row, loaded, new) = new
  BY DEF Merged, RowType

\* And its columns come from the row, or from the changes.
LEMMA MergedColumns ==
  ASSUME NEW row \in RowType, NEW loaded \in RowType, NEW new \in RowType
  PROVE  LET m == Merged(row, loaded, new) IN
         /\ m.status = IF new.status # loaded.status THEN new.status ELSE row.status
         /\ m.made = IF new.made # loaded.made THEN new.made ELSE row.made
         /\ m.vest = IF new.vest # loaded.vest THEN new.vest ELSE row.vest
  BY DEF Merged, RowType

LEMMA VisibleType ==
  ASSUME TypeOK, NEW s \in Sessions, NEW r \in Users
  PROVE  Visible(s, r) \in RowType
  BY MergedType DEF TypeOK, TxType, Visible

LEMMA VisiblePlanType ==
  ASSUME TypeOK, NEW s \in Sessions, NEW u \in Users
  PROVE  /\ VisiblePlan(s, u) \in [tier : Tiers \cup {"free"}, ends : Nat]
         /\ VisiblePlan(s, u).tier = plan[u].tier
         /\ VisiblePlan(s, u).ends = IF tx[s].put[u] = None THEN plan[u].ends ELSE tx[s].put[u]
  BY DEF TypeOK, TxType, VisiblePlan

\* When one session moves to a well-typed state, all of them are well typed.
LEMMA BecomesType ==
  ASSUME TypeOK, NEW s \in Sessions, NEW r \in TxType, Becomes(s, r)
  PROVE  tx' \in [Sessions -> TxType]
  BY DEF TypeOK, Becomes

LEMMA CloseType ==
  ASSUME TypeOK, NEW s \in Sessions, Close(s)
  PROVE  tx' \in [Sessions -> TxType]
  BY NoTxType, BecomesType DEF Close

\* A payment runs to a natural number and earns a well-typed reward.
LEMMA BaseType ==
  ASSUME TypeOK, NEW held \in [tier : Tiers \cup {"free"}, ends : Nat], NEW t
  PROVE  Base(held, t) \in Nat
  BY DEF TypeOK, Base

LEMMA AwardType ==
  ASSUME TypeOK, NEW t \in Tiers, NEW refused, NEW began \in Nat
  PROVE  Award(t, refused, began) \in RowType
<1>1. [NoReward EXCEPT !.status = "voided", !.made = began] \in RowType
  BY DEF NoReward, RowType
<1>2. EarnsOf[t] \in Nat /\ now + VestDays \in Nat
  BY RewardsAssumption DEF RewardsAssumption, TypeOK
<1>3. [NoReward EXCEPT !.status = "pending", !.made = began,
                       !.days = EarnsOf[t], !.vest = now + VestDays] \in RowType
  BY <1>2 DEF NoReward, RowType
<1> QED
  BY <1>1, <1>3 DEF Award

LEMMA BeginPayType ==
  ASSUME TypeOK, NEW s \in Sessions, NEW u \in Users, NEW t \in Tiers, BeginPay(s, u, t)
  PROVE  TypeOK'
<1>1. [NoTx EXCEPT !.op = "pay", !.who = u, !.tier = t, !.at = now, !.seen = plan[u]] \in TxType
  BY NoTxType DEF TypeOK, TxType
<1>2. tx' \in [Sessions -> TxType]
  BY <1>1, BecomesType DEF BeginPay
<1> QED
  BY <1>2 DEF BeginPay, TypeOK

\* A payment keeps to a plan and a tier.
PayTyped == \A s \in Sessions : tx[s].op = "pay" => tx[s].who \in Users /\ tx[s].tier \in Tiers

\* And a reward is looked at while it is being credited or banked.
CurTyped == \A s \in Sessions : tx[s].op \in {"credit", "bank"} =>
              tx[s].cur \in Users /\ ReferredBy[tx[s].cur] \in Users

LEMMA FinishPayType ==
  ASSUME TypeOK, PayTyped, NEW s \in Sessions, FinishPay(s)
  PROVE  TypeOK'
<1> DEFINE u == tx[s].who
           t == tx[s].tier
           held == tx[s].seen
<1>1. u \in Users /\ t \in Tiers /\ held \in [tier : Tiers \cup {"free"}, ends : Nat]
      /\ tx[s].at \in Nat
  BY DEF FinishPay, PayTyped, TypeOK, TxType
<1>2. tx' \in [Sessions -> TxType]
  BY CloseType DEF FinishPay
<1>3. PICK sameDevice \in BOOLEAN :
        LET refused == Refused(u, sameDevice)
            gift == IF Awarded(u) /\ ~refused THEN FriendDays ELSE 0
            end == Base(held, t) + PeriodOf[t] + gift + Total(Released(u), Days)
        IN /\ plan' = [plan EXCEPT ![u] =
                [tier |-> IF t = held.tier THEN @.tier ELSE t, ends |-> end]]
           /\ reward' = [r \in Users |->
                CASE r = u /\ Awarded(u) -> Award(t, refused, tx[s].at)
                  [] r \in Released(u)   -> [reward[r] EXCEPT !.status = "credited"]
                  [] r \in Expired(u)    -> [reward[r] EXCEPT !.status = "voided"]
                  [] OTHER               -> reward[r]]
  BY DEF FinishPay
<1> DEFINE refused == Refused(u, sameDevice)
           gift == IF Awarded(u) /\ ~refused THEN FriendDays ELSE 0
           total == Total(Released(u), Days)
           base == Base(held, t)
           ticket == IF t = held.tier THEN plan[u].tier ELSE t
<1>4. total \in Nat
  <2>1. Released(u) \in SUBSET Users
    BY DEF Released, InBank, Earned
  <2>2. Days \in [Users -> Nat]
    BY DEF Days, TypeOK, RowType
  <2> QED
    BY <2>1, <2>2, TotalFinite
<1>5. base \in Nat
  BY <1>1, BaseType
<1>6. PeriodOf[t] \in Nat /\ gift \in Nat
  BY <1>1, RewardsAssumption DEF RewardsAssumption
<1>7. ticket \in Tiers \cup {"free"}
  BY <1>1 DEF TypeOK
<1>8. plan' = [plan EXCEPT ![u] = [tier |-> ticket, ends |-> base + PeriodOf[t] + gift + total]]
  BY <1>3
<1>9. plan' \in [Users -> [tier : Tiers \cup {"free"}, ends : Nat]]
  <2> HIDE DEF gift, total, base, ticket
  <2>1. base + PeriodOf[t] + gift + total \in Nat
    BY <1>4, <1>5, <1>6
  <2> QED
    BY <1>7, <1>8, <2>1 DEF TypeOK
<1>10. reward' \in [Users -> RowType]
  <2>1. ASSUME NEW r \in Users
        PROVE  /\ Award(t, refused, tx[s].at) \in RowType
               /\ [reward[r] EXCEPT !.status = "credited"] \in RowType
               /\ [reward[r] EXCEPT !.status = "voided"] \in RowType
               /\ reward[r] \in RowType
    <3>1. reward[r] \in RowType
      BY DEF TypeOK
    <3>2. /\ [reward[r] EXCEPT !.status = "credited"] \in RowType
          /\ [reward[r] EXCEPT !.status = "voided"] \in RowType
      BY <3>1 DEF RowType
    <3> QED
      BY <1>1, <3>1, <3>2, AwardType
  <2> HIDE DEF refused
  <2> QED
    BY <1>3, <2>1 DEF refused
<1> QED
  BY <1>2, <1>9, <1>10 DEF FinishPay, TypeOK

LEMMA BeginSweepType ==
  ASSUME TypeOK, NEW s \in Sessions, BeginSweep(s)
  PROVE  TypeOK'
<1>1. PICK batch \in SUBSET Due :
        LET loaded == [r \in Users |-> IF r \in batch THEN reward[r] ELSE NoReward] IN
        Becomes(s, [NoTx EXCEPT !.op = "sweep", !.at = now, !.left = batch,
                                !.rows = loaded, !.new = loaded])
  BY DEF BeginSweep
<1> DEFINE loaded == [r \in Users |-> IF r \in batch THEN reward[r] ELSE NoReward]
<1>2. loaded \in [Users -> RowType]
  BY NoRewardType DEF TypeOK
<1>3. batch \in SUBSET Users
  BY DEF Due
<1> HIDE DEF loaded
<1>4. [NoTx EXCEPT !.op = "sweep", !.at = now, !.left = batch,
                   !.rows = loaded, !.new = loaded] \in TxType
  BY <1>2, <1>3, NoTxType DEF TypeOK, TxType
<1>5. tx' \in [Sessions -> TxType]
  BY <1>1, <1>4, BecomesType DEF loaded
<1> QED
  BY <1>5 DEF BeginSweep, TypeOK

LEMMA LookType ==
  ASSUME TypeOK, NEW s \in Sessions, Look(s),
         \A r \in tx[s].left : ReferredBy[r] \in Users
  PROVE  TypeOK'
<1>1. PICK r \in tx[s].left :
        LET held == VisiblePlan(s, ReferredBy[r]) IN
        Becomes(s, [tx[s] EXCEPT !.op = IF HasAPlan(held) THEN "credit" ELSE "bank",
                                 !.cur = r, !.left = @ \ {r}, !.seen = held])
  BY DEF Look
<1> DEFINE held == VisiblePlan(s, ReferredBy[r])
           op == IF HasAPlan(held) THEN "credit" ELSE "bank"
<1>2. held \in [tier : Tiers \cup {"free"}, ends : Nat]
  BY VisiblePlanType
<1>3. op \in {"idle", "pay", "sweep", "credit", "bank"} /\ r \in Users
  BY DEF TypeOK, TxType
<1>4. tx[s] \in TxType
  BY DEF TypeOK
<1> HIDE DEF held, op
<1>5. [tx[s] EXCEPT !.op = op, !.cur = r, !.left = @ \ {r}, !.seen = held] \in TxType
  BY <1>2, <1>3, <1>4 DEF TxType
<1>6. tx' \in [Sessions -> TxType]
  BY <1>1, <1>5, BecomesType DEF held, op
<1> QED
  BY <1>6 DEF Look, TypeOK

LEMMA CreditType ==
  ASSUME TypeOK, CurTyped, NEW s \in Sessions, Credit(s)
  PROVE  TypeOK'
<1> DEFINE r == tx[s].cur
           f == ReferredBy[r]
           new == [tx[s].new EXCEPT ![r].status = "credited"]
           sent == Changed(s) \cup {r}
           end == Extended(tx[s].seen, tx[s].new[r].days, tx[s].put[f])
           put == [tx[s].put EXCEPT ![f] = end]
<1>1. tx[s] \in TxType
  BY DEF TypeOK
<1>2. r \in Users /\ f \in Users
  BY DEF Credit, CurTyped
<1>3. new \in [Users -> RowType]
  <2>1. [tx[s].new[r] EXCEPT !.status = "credited"] \in RowType
    BY <1>1, <1>2 DEF TxType, RowType
  <2>2. new = [tx[s].new EXCEPT ![r] = [tx[s].new[r] EXCEPT !.status = "credited"]]
    BY <1>1, <1>2 DEF TxType
  <2> QED
    BY <1>1, <2>1, <2>2 DEF TxType
<1>4. sent \in SUBSET Users
  BY <1>2 DEF Changed
<1>5. end \in Nat \cup {None}
  <2>1. tx[s].new[r] \in RowType /\ tx[s].put[f] \in Nat \cup {None}
    BY <1>1, <1>2 DEF TxType
  <2>2. tx[s].new[r].days \in Nat /\ tx[s].seen.ends \in Nat
    BY <1>1, <2>1 DEF TxType, RowType
  <2> QED
    BY <2>1, <2>2 DEF Extended
<1>6. put \in [Users -> Nat \cup {None}]
  <2> HIDE DEF end
  <2> QED
    BY <1>1, <1>5 DEF TxType
<1>7. Becomes(s, [tx[s] EXCEPT !.op = "sweep", !.cur = None, !.new = new, !.sent = sent,
                               !.put = put])
  BY <1>1 DEF Credit, TxType
<1> HIDE DEF new, sent, put
<1>8. [tx[s] EXCEPT !.op = "sweep", !.cur = None, !.new = new, !.sent = sent, !.put = put]
        \in TxType
  BY <1>1, <1>3, <1>4, <1>6 DEF TxType
<1>9. tx' \in [Sessions -> TxType]
  BY <1>7, <1>8, BecomesType
<1> QED
  BY <1>9 DEF Credit, TypeOK

\* What goes into the bank is a well-typed row.
LEMMA BankedType ==
  ASSUME TypeOK, NEW row \in RowType, NEW room \in Nat
  PROVE  Banked(row, room) \in RowType
<1>1. [row EXCEPT !.status = "voided"] \in RowType
  BY DEF RowType
<1>2. now + BankDaysToLive \in Nat
  BY RewardsAssumption DEF RewardsAssumption, TypeOK
<1>3. (IF row.days < room THEN row.days ELSE room) \in Nat
  BY DEF RowType
<1>4. [row EXCEPT !.status = "banked", !.until = now + BankDaysToLive,
                  !.days = IF @ < room THEN @ ELSE room] \in RowType
  BY <1>2, <1>3 DEF RowType
<1> QED
  BY <1>1, <1>4 DEF Banked

LEMMA HeldType ==
  ASSUME TypeOK, NEW s \in Sessions, NEW f
  PROVE  Held(s, f) \in Nat
<1> DEFINE R == {r \in Earned(f) : Visible(s, r).status = "banked"}
           worth == [r \in Users |-> Visible(s, r).days]
<1>1. R \in SUBSET Users
  BY DEF Earned
<1>2. worth \in [Users -> Nat]
  BY VisibleType DEF RowType
<1> HIDE DEF R, worth
<1>3. Total(R, worth) \in Nat
  BY <1>1, <1>2, TotalFinite
<1> QED
  BY <1>3 DEF Held, R, worth

LEMMA BankType ==
  ASSUME TypeOK, CurTyped, NEW s \in Sessions, Bank(s)
  PROVE  TypeOK'
<1> DEFINE r == tx[s].cur
           held == Held(s, ReferredBy[r])
           room == IF held < BankCap THEN BankCap - held ELSE 0
           row == Banked(tx[s].new[r], room)
           new == [tx[s].new EXCEPT ![r] = row]
<1>1. tx[s] \in TxType
  BY DEF TypeOK
<1>2. r \in Users
  BY DEF Bank, CurTyped
<1>3. room \in Nat
  BY HeldType, RewardsAssumption DEF RewardsAssumption
<1>4. row \in RowType
  <2>1. tx[s].new[r] \in RowType
    BY <1>1, <1>2 DEF TxType
  <2> HIDE DEF room
  <2> QED
    BY <1>3, <2>1, BankedType
<1>5. new \in [Users -> RowType]
  <2> HIDE DEF row
  <2> QED
    BY <1>1, <1>4 DEF TxType
<1>6. Becomes(s, [tx[s] EXCEPT !.op = "sweep", !.cur = None, !.new = new])
  BY <1>1 DEF Bank, TxType
<1> HIDE DEF new
<1>7. [tx[s] EXCEPT !.op = "sweep", !.cur = None, !.new = new] \in TxType
  BY <1>1, <1>5 DEF TxType
<1>8. tx' \in [Sessions -> TxType]
  BY <1>6, <1>7, BecomesType
<1> QED
  BY <1>8 DEF Bank, TypeOK

LEMMA FinishSweepType ==
  ASSUME TypeOK, NEW s \in Sessions, FinishSweep(s)
  PROVE  TypeOK'
<1>1. tx' \in [Sessions -> TxType]
  BY CloseType DEF FinishSweep
<1>2. plan' \in [Users -> [tier : Tiers \cup {"free"}, ends : Nat]]
  BY VisiblePlanType DEF FinishSweep
<1>3. ASSUME NEW r \in Users
      PROVE  /\ [Visible(s, r) EXCEPT !.status = "voided"] \in RowType
             /\ Merged(reward[r], tx[s].rows[r], tx[s].new[r]) \in RowType
  <2>1. Visible(s, r) \in RowType
    BY VisibleType
  <2>2. [Visible(s, r) EXCEPT !.status = "voided"] \in RowType
    BY <2>1 DEF RowType
  <2>3. reward[r] \in RowType /\ tx[s].rows[r] \in RowType /\ tx[s].new[r] \in RowType
    BY DEF TypeOK, TxType
  <2> QED
    BY <2>2, <2>3, MergedType
<1>4. reward' \in [Users -> RowType]
  BY <1>3 DEF FinishSweep
<1> QED
  BY <1>1, <1>2, <1>4 DEF FinishSweep, TypeOK

-----------------------------------------------------------------------------
(* What keeps the types: nobody is rewarded for a student nobody brought,  *)
(* and a pass changes neither who was rewarded nor when.                   *)

Referred == \A r \in Users : reward[r].status # "none" => ReferredBy[r] \in Users

\* A loaded row keeps its dates, and a row that is there stays.
Keeps(s, r) ==
  /\ tx[s].new[r].made = tx[s].rows[r].made
  /\ tx[s].new[r].vest = tx[s].rows[r].vest
  /\ tx[s].new[r].status = "none" => tx[s].rows[r].status = "none"
  /\ tx[s].new[r].status # "none" \/ r \in tx[s].left => ReferredBy[r] \in Users

LoadedTyped == \A s \in Sessions : \A r \in Users : Keeps(s, r)

TypeInv == TypeOK /\ PayTyped /\ CurTyped /\ Referred /\ LoadedTyped

\* Closing a session leaves the rest of the invariant.
LEMMA CloseKeeps ==
  ASSUME TypeOK, PayTyped, CurTyped, LoadedTyped, NEW s \in Sessions, Close(s)
  PROVE  PayTyped' /\ CurTyped' /\ LoadedTyped'
<1>1. \A o \in Sessions : tx'[o] = IF o = s THEN NoTx ELSE tx[o]
  BY DEF Close, Becomes, TypeOK
<1>2. PayTyped' /\ CurTyped'
  BY <1>1 DEF PayTyped, CurTyped, NoTx
<1>3. LoadedTyped'
  BY <1>1 DEF LoadedTyped, Keeps, NoTx, NoReward
<1> QED
  BY <1>2, <1>3

\* So does a session that opens, or goes on, with rows it may change.
LEMMA BecomesKeeps ==
  ASSUME TypeOK, PayTyped, CurTyped, LoadedTyped, NEW s \in Sessions, NEW x, Becomes(s, x),
         x.op = "pay" => x.who \in Users /\ x.tier \in Tiers,
         x.op \in {"credit", "bank"} => x.cur \in Users /\ ReferredBy[x.cur] \in Users,
         \A r \in Users :
           /\ x.new[r].made = x.rows[r].made
           /\ x.new[r].vest = x.rows[r].vest
           /\ x.new[r].status = "none" => x.rows[r].status = "none"
           /\ x.new[r].status # "none" \/ r \in x.left => ReferredBy[r] \in Users
  PROVE  PayTyped' /\ CurTyped' /\ LoadedTyped'
<1>1. \A o \in Sessions : tx'[o] = IF o = s THEN x ELSE tx[o]
  BY DEF Becomes, TypeOK
<1>2. PayTyped' /\ CurTyped'
  BY <1>1 DEF PayTyped, CurTyped
<1>3. LoadedTyped'
  BY <1>1 DEF LoadedTyped, Keeps
<1> QED
  BY <1>2, <1>3

LEMMA BeginPayKeeps ==
  ASSUME TypeInv, NEW s \in Sessions, NEW u \in Users, NEW t \in Tiers, BeginPay(s, u, t)
  PROVE  TypeInv'
<1> USE DEF TypeInv
<1> DEFINE x == [NoTx EXCEPT !.op = "pay", !.who = u, !.tier = t, !.at = now, !.seen = plan[u]]
<1>1. /\ x.op = "pay" /\ x.who = u /\ x.tier = t /\ x.left = {}
      /\ x.new = NoTx.new /\ x.rows = NoTx.rows
  BY DEF NoTx
<1>2. Becomes(s, x)
  BY DEF BeginPay
<1> HIDE DEF x
<1>3. PayTyped' /\ CurTyped' /\ LoadedTyped'
  BY <1>1, <1>2, BecomesKeeps DEF NoTx, NoReward
<1> QED
  BY <1>3, BeginPayType DEF BeginPay, Referred

LEMMA FinishPayKeeps ==
  ASSUME TypeInv, NEW s \in Sessions, FinishPay(s)
  PROVE  TypeInv'
<1> USE DEF TypeInv
<1>1. TypeOK' /\ PayTyped' /\ CurTyped' /\ LoadedTyped'
  BY FinishPayType, CloseKeeps DEF FinishPay
<1>2. Referred'
  <2> SUFFICES ASSUME NEW r \in Users, reward[r].status = "none", reward'[r].status # "none"
               PROVE  ReferredBy[r] \in Users
    BY <1>1 DEF Referred
  <2>1. r \notin Released(tx[s].who) /\ r \notin Expired(tx[s].who)
    BY DEF Released, Expired, InBank
  <2>2. Awarded(r)
    BY <2>1 DEF FinishPay
  <2> QED
    BY <2>2, RewardsAssumption DEF Awarded, RewardsAssumption
<1> QED
  BY <1>1, <1>2

LEMMA BeginSweepKeeps ==
  ASSUME TypeInv, NEW s \in Sessions, BeginSweep(s)
  PROVE  TypeInv'
<1> USE DEF TypeInv
<1>1. PICK batch \in SUBSET Due :
        LET loaded == [r \in Users |-> IF r \in batch THEN reward[r] ELSE NoReward] IN
        Becomes(s, [NoTx EXCEPT !.op = "sweep", !.at = now, !.left = batch,
                                !.rows = loaded, !.new = loaded])
  BY DEF BeginSweep
<1> DEFINE loaded == [r \in Users |-> IF r \in batch THEN reward[r] ELSE NoReward]
           x == [NoTx EXCEPT !.op = "sweep", !.at = now, !.left = batch,
                             !.rows = loaded, !.new = loaded]
<1>2. x.op = "sweep" /\ x.left = batch /\ x.new = loaded /\ x.rows = loaded
  BY DEF NoTx
<1>3. \A r \in Users : /\ r \in batch => ReferredBy[r] \in Users
                       /\ loaded[r].status # "none" => ReferredBy[r] \in Users
  BY DEF Due, Referred, NoReward
<1> HIDE DEF loaded, x
<1>4. Becomes(s, x)
  BY <1>1 DEF x, loaded
<1>5. PayTyped' /\ CurTyped' /\ LoadedTyped'
  BY <1>2, <1>3, <1>4, BecomesKeeps
<1> QED
  BY <1>5, BeginSweepType DEF BeginSweep, Referred

LEMMA LookKeeps ==
  ASSUME TypeInv, NEW s \in Sessions, Look(s)
  PROVE  TypeInv'
<1> USE DEF TypeInv
<1>1. PICK r \in tx[s].left :
        LET held == VisiblePlan(s, ReferredBy[r]) IN
        Becomes(s, [tx[s] EXCEPT !.op = IF HasAPlan(held) THEN "credit" ELSE "bank",
                                 !.cur = r, !.left = @ \ {r}, !.seen = held])
  BY DEF Look
<1> DEFINE held == VisiblePlan(s, ReferredBy[r])
           x == [tx[s] EXCEPT !.op = IF HasAPlan(held) THEN "credit" ELSE "bank",
                              !.cur = r, !.left = @ \ {r}, !.seen = held]
<1>2. /\ x.op \in {"credit", "bank"} /\ x.cur = r /\ x.left = tx[s].left \ {r}
      /\ x.new = tx[s].new /\ x.rows = tx[s].rows
  BY DEF TypeOK, TxType
<1>3. r \in Users /\ \A q \in tx[s].left : ReferredBy[q] \in Users
  BY DEF LoadedTyped, Keeps, TypeOK, TxType
<1>4. Becomes(s, x)
  BY <1>1
<1> HIDE DEF x
<1>5. PayTyped' /\ CurTyped' /\ LoadedTyped'
  BY <1>2, <1>3, <1>4, BecomesKeeps DEF LoadedTyped, Keeps
<1> QED
  BY <1>3, <1>5, LookType DEF Look, Referred

LEMMA CreditKeeps ==
  ASSUME TypeInv, NEW s \in Sessions, Credit(s)
  PROVE  TypeInv'
<1> USE DEF TypeInv
<1> DEFINE r == tx[s].cur
           new == [tx[s].new EXCEPT ![r].status = "credited"]
           put == [tx[s].put EXCEPT ![ReferredBy[r]] = Extended(tx[s].seen, tx[s].new[r].days, @)]
           x == [tx[s] EXCEPT !.op = "sweep", !.cur = None, !.new = new,
                              !.sent = Changed(s) \cup {r}, !.put = put]
<1>1. tx[s] \in TxType /\ r \in Users /\ ReferredBy[r] \in Users
  BY DEF Credit, CurTyped, TypeOK
<1>2. /\ new[r].status = "credited"
      /\ new[r].made = tx[s].new[r].made /\ new[r].vest = tx[s].new[r].vest
      /\ \A q \in Users \ {r} : new[q] = tx[s].new[q]
  BY <1>1 DEF TxType, RowType
<1> HIDE DEF new, put
<1>3. x.op = "sweep" /\ x.left = tx[s].left /\ x.new = new /\ x.rows = tx[s].rows
  BY <1>1 DEF TxType
<1>4. Becomes(s, x)
  BY <1>1 DEF Credit, TxType, new, put
<1> HIDE DEF x
<1>5. \A q \in Users :
        /\ new[q].made = tx[s].rows[q].made
        /\ new[q].vest = tx[s].rows[q].vest
        /\ new[q].status = "none" => tx[s].rows[q].status = "none"
        /\ new[q].status # "none" \/ q \in tx[s].left => ReferredBy[q] \in Users
  BY <1>1, <1>2 DEF LoadedTyped, Keeps
<1>6. PayTyped' /\ CurTyped' /\ LoadedTyped'
  BY <1>3, <1>4, <1>5, BecomesKeeps
<1> QED
  BY <1>6, CreditType DEF Credit, Referred

\* The row that goes into the bank, or finds no room there.
LEMMA BankedIs ==
  ASSUME NEW row \in RowType, NEW room \in Nat, NEW b, b = Banked(row, room)
  PROVE  /\ b.made = row.made /\ b.vest = row.vest
         /\ \/ b.status = "voided" /\ b.days = row.days
            \/ /\ b.status = "banked" /\ room # 0 /\ b.until = now + BankDaysToLive
               /\ b.days = IF row.days < room THEN row.days ELSE room
  BY DEF Banked, RowType

LEMMA BankKeeps ==
  ASSUME TypeInv, NEW s \in Sessions, Bank(s)
  PROVE  TypeInv'
<1> USE DEF TypeInv
<1> DEFINE r == tx[s].cur
           held == Held(s, ReferredBy[r])
           room == IF held < BankCap THEN BankCap - held ELSE 0
           row == Banked(tx[s].new[r], room)
           new == [tx[s].new EXCEPT ![r] = row]
           x == [tx[s] EXCEPT !.op = "sweep", !.cur = None, !.new = new]
<1>1. tx[s] \in TxType /\ r \in Users /\ ReferredBy[r] \in Users
  BY DEF Bank, CurTyped, TypeOK
<1>2. room \in Nat
  BY HeldType, RewardsAssumption DEF RewardsAssumption
<1>3. row.made = tx[s].new[r].made /\ row.vest = tx[s].new[r].vest /\ row.status # "none"
  <2>1. tx[s].new[r] \in RowType
    BY <1>1 DEF TxType
  <2> HIDE DEF room
  <2> QED
    BY <1>2, <2>1, BankedIs
<1> HIDE DEF row
<1>4. new[r] = row /\ \A q \in Users \ {r} : new[q] = tx[s].new[q]
  BY <1>1 DEF TxType
<1> HIDE DEF new
<1>5. x.op = "sweep" /\ x.left = tx[s].left /\ x.new = new /\ x.rows = tx[s].rows
  BY <1>1 DEF TxType
<1>6. Becomes(s, x)
  BY <1>1 DEF Bank, TxType, new, row
<1> HIDE DEF x
<1>7. \A q \in Users :
        /\ new[q].made = tx[s].rows[q].made
        /\ new[q].vest = tx[s].rows[q].vest
        /\ new[q].status = "none" => tx[s].rows[q].status = "none"
        /\ new[q].status # "none" \/ q \in tx[s].left => ReferredBy[q] \in Users
  BY <1>1, <1>3, <1>4 DEF LoadedTyped, Keeps
<1>8. PayTyped' /\ CurTyped' /\ LoadedTyped'
  BY <1>5, <1>6, <1>7, BecomesKeeps
<1> QED
  BY <1>8, BankType DEF Bank, Referred

\* What a commit of a pass does to a row.
LEMMA CommittedRow ==
  ASSUME TypeInv, NEW s \in Sessions, FinishSweep(s), NEW r \in Users
  PROVE  /\ reward'[r].made = reward[r].made /\ reward'[r].vest = reward[r].vest
         /\ reward[r].status # "none" => reward'[r].status # "none"
         /\ reward'[r].status # "none" => ReferredBy[r] \in Users
<1> USE DEF TypeInv
<1> DEFINE m == Merged(reward[r], tx[s].rows[r], tx[s].new[r])
           v == Visible(s, r)
<1>1. reward[r] \in RowType /\ tx[s].rows[r] \in RowType /\ tx[s].new[r] \in RowType
  BY DEF TypeOK, TxType
<1>2. Keeps(s, r)
  BY DEF LoadedTyped
<1>3. /\ m.made = reward[r].made /\ m.vest = reward[r].vest
      /\ m.status = IF tx[s].new[r].status # tx[s].rows[r].status
                    THEN tx[s].new[r].status ELSE reward[r].status
  BY <1>1, <1>2, MergedColumns DEF Keeps
<1>4. m.status # "none" => ReferredBy[r] \in Users
  BY <1>2, <1>3 DEF Keeps, Referred
<1>5. reward[r].status # "none" => m.status # "none"
  BY <1>2, <1>3 DEF Keeps
<1>6. v \in RowType /\ (v = m \/ v = reward[r])
  BY VisibleType DEF Visible
<1>7. CASE r \in Stale(s)
  <2>1. reward'[r] = [v EXCEPT !.status = "voided"] /\ v.status = "banked"
    BY <1>7 DEF FinishSweep, Stale
  <2>2. reward'[r].status = "voided" /\ reward'[r].made = v.made /\ reward'[r].vest = v.vest
    BY <1>6, <2>1 DEF RowType
  <2> HIDE DEF m, v
  <2> QED
    BY <1>3, <1>4, <1>6, <2>1, <2>2 DEF Referred
<1>8. CASE r \notin Stale(s)
  <2>1. reward'[r] = m
    BY <1>8 DEF FinishSweep
  <2> HIDE DEF m, v
  <2> QED
    BY <1>3, <1>4, <1>5, <2>1
<1> QED
  BY <1>7, <1>8

LEMMA FinishSweepKeeps ==
  ASSUME TypeInv, NEW s \in Sessions, FinishSweep(s)
  PROVE  TypeInv'
<1>1. TypeOK' /\ PayTyped' /\ CurTyped' /\ LoadedTyped'
  BY FinishSweepType, CloseKeeps DEF FinishSweep, TypeInv
<1>2. Referred'
  BY CommittedRow DEF Referred
<1> QED
  BY <1>1, <1>2 DEF TypeInv

LEMMA AbortKeeps ==
  ASSUME TypeInv, NEW s \in Sessions, Abort(s)
  PROVE  TypeInv'
<1> USE DEF TypeInv
<1>1. PayTyped' /\ CurTyped' /\ LoadedTyped'
  BY CloseKeeps DEF Abort
<1>2. TypeOK'
  BY CloseType DEF Abort, TypeOK
<1> QED
  BY <1>1, <1>2 DEF Abort, Referred

LEMMA TypeStep ==
  ASSUME TypeInv, [Next]_vars
  PROVE  TypeInv'
<1>1. CASE Tick
  BY <1>1 DEF Tick, TypeInv, TypeOK, PayTyped, CurTyped, Referred, LoadedTyped, Keeps
<1>2. CASE UNCHANGED vars
  BY <1>2 DEF vars, TypeInv, TypeOK, PayTyped, CurTyped, Referred, LoadedTyped, Keeps
<1>3. ASSUME NEW s \in Sessions, NEW u \in Users, NEW t \in Tiers, BeginPay(s, u, t)
      PROVE  TypeInv'
  BY <1>3, BeginPayKeeps
<1>4. ASSUME NEW s \in Sessions, BeginSweep(s) \/ Continue(s) \/ Abort(s)
      PROVE  TypeInv'
  BY <1>4, BeginSweepKeeps, FinishPayKeeps, LookKeeps, CreditKeeps, BankKeeps,
     FinishSweepKeeps, AbortKeeps DEF Continue
<1> QED
  BY <1>1, <1>2, <1>3, <1>4 DEF Next

LEMMA TypeInit == Init => TypeInv
<1> SUFFICES ASSUME Init PROVE TypeInv
  OBVIOUS
<1>1. TypeOK
  BY NoTxType, NoRewardType DEF Init, TypeOK, FreePlan
<1>2. PayTyped /\ CurTyped
  BY DEF Init, NoTx, PayTyped, CurTyped
<1>3. Referred /\ LoadedTyped
  BY DEF Init, NoTx, NoReward, Referred, LoadedTyped, Keeps
<1> QED
  BY <1>1, <1>2, <1>3 DEF TypeInv

\* Every variable keeps to its type, whatever sessions are in flight: no plan
\* is ever extended by, and no reward row ever holds, anything but what the
\* columns can.
THEOREM TypeCorrect == Spec => []TypeOK
<1>1. Init => TypeInv
  BY TypeInit
<1>2. TypeInv /\ [Next]_vars => TypeInv'
  BY TypeStep
<1>3. TypeInv => TypeOK
  BY DEF TypeInv
<1> QED
  BY <1>1, <1>2, <1>3, PTL DEF Spec

\* One reward per person referred, ever: a row once written is never taken
\* back or written again, its day and its hold never change, and it is about
\* somebody a student really brought in. Holds with any number of payments and
\* passes in flight (_award, the unique constraint on the referred student).
OneReward ==
  \A r \in Users :
    reward[r].status # "none" =>
      /\ ReferredBy[r] \in Users
      /\ reward'[r].status # "none"
      /\ reward'[r].made = reward[r].made
      /\ reward'[r].vest = reward[r].vest

LEMMA PaymentKeepsRows ==
  ASSUME TypeInv, NEW s \in Sessions, FinishPay(s), NEW r \in Users, reward[r].status # "none"
  PROVE  /\ reward'[r].status # "none"
         /\ reward'[r].made = reward[r].made /\ reward'[r].vest = reward[r].vest
<1>1. reward[r] \in RowType
  BY DEF TypeInv, TypeOK
<1>2. ~Awarded(r)
  BY DEF Awarded
<1>3. \/ reward'[r] = [reward[r] EXCEPT !.status = "credited"]
      \/ reward'[r] = [reward[r] EXCEPT !.status = "voided"]
      \/ reward'[r] = reward[r]
  BY <1>2 DEF FinishPay
<1> QED
  BY <1>1, <1>3 DEF RowType

\* One reward for each student brought in, ever, whatever overlaps (_award and
\* the unique constraint on the referred student).
THEOREM OneRewardEver == Spec => [][OneReward]_vars
<1>1. Init => TypeInv
  BY TypeInit
<1>2. TypeInv /\ [Next]_vars => TypeInv'
  BY TypeStep
<1>3. TypeInv /\ [Next]_vars => [OneReward]_vars
  <2> SUFFICES ASSUME TypeInv, Next
               PROVE  OneReward
    OBVIOUS
  <2>1. \A r \in Users : reward[r].status # "none" => ReferredBy[r] \in Users
    BY DEF TypeInv, Referred
  <2>2. ASSUME UNCHANGED reward PROVE OneReward
    BY <2>1, <2>2 DEF OneReward
  <2>3. ASSUME NEW s \in Sessions, FinishPay(s) PROVE OneReward
    BY <2>1, <2>3, PaymentKeepsRows DEF OneReward
  <2>4. ASSUME NEW s \in Sessions, FinishSweep(s) PROVE OneReward
    BY <2>1, <2>4, CommittedRow DEF OneReward
  <2> QED
    BY <2>2, <2>3, <2>4
       DEF Next, Tick, BeginPay, BeginSweep, Continue, Look, Credit, Bank, Abort
<1> QED
  BY <1>1, <1>2, <1>3, PTL DEF Spec

-----------------------------------------------------------------------------
(* One session at a time.                                                  *)

Serial == \A s, o \in Sessions : s = o

Sweeping(s) == tx[s].op \in {"sweep", "credit", "bank"}

\* A row of the batch that the pass has yet to move: as committed, and pending.
Fresh(s, r) ==
  /\ reward[r].status = "pending"
  /\ tx[s].rows[r] = reward[r]
  /\ tx[s].new[r] = reward[r]

\* A row the pass has moved: loaded as it is committed, and changed as the
\* rules for a credit, a place in the bank and a full bank change it.
Moved(s, r) ==
  LET row == tx[s].rows[r]  new == tx[s].new[r] IN
  /\ reward[r].status = "pending"
  /\ row = reward[r]
  /\ new.made = row.made /\ new.vest = row.vest
  /\ \/ new.status \in {"credited", "voided"} /\ new.days = row.days
     \/ new.status = "banked" /\ new.days \in 1 .. row.days /\ new.until > tx[s].at

Untouched(s, r) == tx[s].rows[r] = NoReward /\ tx[s].new[r] = NoReward

RowsInv(s) ==
  /\ \A r \in Users : Untouched(s, r) \/ Fresh(s, r) \/ Moved(s, r)
  /\ \A r \in Users : r \in tx[s].left => Fresh(s, r)

CurInv(s) ==
  tx[s].op \in {"credit", "bank"} =>
    /\ tx[s].cur \in Users
    /\ Fresh(s, tx[s].cur)
    /\ tx[s].cur \notin tx[s].left

\* Outside a pass a session holds nothing.
AtRest(s) ==
  ~Sweeping(s) =>
    /\ tx[s].left = {} /\ tx[s].sent = {}
    /\ tx[s].put = [u \in Users |-> None]
    /\ \A r \in Users : Untouched(s, r)

PayInv(s) ==
  tx[s].op = "pay" =>
    /\ tx[s].who \in Users /\ tx[s].tier \in Tiers
    /\ tx[s].seen = plan[tx[s].who]

LookInv(s) ==
  LET f == ReferredBy[tx[s].cur] IN
  /\ tx[s].op = "credit" => /\ tx[s].seen = VisiblePlan(s, f)
                            /\ tx[s].seen.tier # "free"
  /\ tx[s].op = "bank" => VisiblePlan(s, f).ends <= now

PutInv(s) == \A u \in Users : tx[s].put[u] # None => plan[u].tier # "free"

BankInv(s) ==
  \A r \in Users :
    reward[r].status = "banked" \/ tx[s].new[r].status = "banked"
      => VisiblePlan(s, ReferredBy[r]).ends <= now

Given(s, u) == {r \in Earned(u) : tx[s].new[r].status = "credited"}
NewDays(s) == [r \in Users |-> tx[s].new[r].days]

ArrivedInv(s) ==
  \A u \in Users : \E arrived \in SUBSET Given(s, u) :
    /\ VisiblePlan(s, u).ends = plan[u].ends + Total(arrived, NewDays(s))
    /\ arrived # Given(s, u) => plan[u].ends <= now

FreeEnds == \A u \in Users : plan[u].tier = "free" => plan[u].ends = 0

RewardsInv ==
  \A r \in Users :
    /\ reward[r].status # "none" => ReferredBy[r] # None
    /\ reward[r].status = "pending" => reward[r].days >= 1
    /\ Standing(r) => reward[r].vest <= now + VestDays

SessionInv(s) ==
  /\ tx[s].at <= now
  /\ RowsInv(s) /\ CurInv(s) /\ AtRest(s)
  /\ PayInv(s) /\ LookInv(s) /\ PutInv(s)
  /\ BankInv(s) /\ ArrivedInv(s)

SerialInv ==
  /\ FreeEnds
  /\ RewardsInv
  /\ \A s \in Sessions : SessionInv(s)

SerialIInv == TypeInv /\ SerialInv /\ BankedHaveNoPlan

-----------------------------------------------------------------------------
\* Where a row stands fixes what a commit writes to it and what the pass reads.
LEMMA RowStands ==
  ASSUME TypeOK, NEW s \in Sessions, NEW r \in Users
  PROVE  LET m == Merged(reward[r], tx[s].rows[r], tx[s].new[r]) IN
         /\ Untouched(s, r) => m = reward[r] /\ Visible(s, r) = reward[r]
         /\ Fresh(s, r) => m = reward[r] /\ Visible(s, r) = reward[r]
         /\ Moved(s, r) => m = tx[s].new[r] /\ (Visible(s, r) = reward[r] \/ Visible(s, r) = tx[s].new[r])
<1> DEFINE row == reward[r]
           was == tx[s].rows[r]
           new == tx[s].new[r]
           m == Merged(row, was, new)
<1>1. row \in RowType /\ was \in RowType /\ new \in RowType
  BY DEF TypeOK, TxType
<1>2. /\ was = new => m = row
      /\ was = row => m = new
  BY <1>1, MergedIs
<1>3. Visible(s, r) = m \/ Visible(s, r) = row
  BY DEF Visible
<1>4. Untouched(s, r) => m = row
  BY <1>2 DEF Untouched
<1>5. Fresh(s, r) => m = row
  BY <1>2 DEF Fresh
<1>6. Moved(s, r) => m = new
  BY <1>2 DEF Moved
<1> QED
  BY <1>3, <1>4, <1>5, <1>6

\* The only session stands for all of them.
LEMMA OnlySession ==
  ASSUME Serial, NEW s \in Sessions, FreeEnds', RewardsInv', SessionInv(s)'
  PROVE  SerialInv'
<1>1. \A o \in Sessions : o = s
  BY DEF Serial
<1>2. \A o \in Sessions : SessionInv(o)'
  BY <1>1
<1> QED
  BY <1>2 DEF SerialInv

\* A session that has changed no reward has nothing to answer for after the
\* step.
LEMMA NothingYet ==
  ASSUME TypeInv', BankedHaveNoPlan', NEW s \in Sessions,
         tx'[s].put = [u \in Users |-> None],
         \A r \in Users : tx'[s].new[r].status \notin {"banked", "credited"}
  PROVE  BankInv(s)' /\ ArrivedInv(s)' /\ PutInv(s)'
<1>1. \A u \in Users : VisiblePlan(s, u)' = plan'[u]
  BY DEF VisiblePlan
<1>2. BankInv(s)'
  BY <1>1 DEF BankInv, BankedHaveNoPlan, TypeInv, Referred
<1>3. PutInv(s)'
  BY DEF PutInv
<1>4. ArrivedInv(s)'
  <2> SUFFICES ASSUME NEW u \in Users
               PROVE  \E arrived \in SUBSET Given(s, u)' :
                        /\ VisiblePlan(s, u)'.ends = plan'[u].ends + Total(arrived, NewDays(s)')
                        /\ arrived # Given(s, u)' => plan'[u].ends <= now'
    BY DEF ArrivedInv
  <2>1. Given(s, u)' = {}
    BY DEF Given, Earned
  <2>2. Total({}, NewDays(s)') = 0
    BY TotalNone
  <2>3. VisiblePlan(s, u)'.ends = plan'[u].ends + 0
    BY <1>1 DEF TypeInv, TypeOK
  <2> QED
    BY <2>1, <2>2, <2>3
<1> QED
  BY <1>2, <1>3, <1>4

\* So does one that is closed then, or has just begun a payment.
LEMMA RestInv ==
  ASSUME TypeInv', BankedHaveNoPlan', NEW s \in Sessions,
         tx'[s].op \in {"idle", "pay"}, tx'[s].at <= now',
         tx'[s].left = {}, tx'[s].sent = {}, tx'[s].put = [u \in Users |-> None],
         tx'[s].rows = NoTx.rows, tx'[s].new = NoTx.new,
         PayInv(s)'
  PROVE  SessionInv(s)'
<1>1. \A r \in Users : NoTx.rows[r] = NoReward /\ NoTx.new[r] = NoReward
  BY DEF NoTx
<1>2. \A r \in Users : Untouched(s, r)'
  BY <1>1 DEF Untouched
<1>3. RowsInv(s)' /\ AtRest(s)' /\ CurInv(s)' /\ LookInv(s)'
  BY <1>2 DEF RowsInv, AtRest, CurInv, LookInv, Sweeping
<1>4. \A r \in Users : tx'[s].new[r].status \notin {"banked", "credited"}
  BY <1>1 DEF NoReward
<1>5. BankInv(s)' /\ ArrivedInv(s)' /\ PutInv(s)'
  BY <1>4, NothingYet
<1> QED
  BY <1>3, <1>5 DEF SessionInv

LEMMA ClosedInv ==
  ASSUME TypeOK, TypeInv', BankedHaveNoPlan', NEW s \in Sessions, Close(s)
  PROVE  SessionInv(s)'
<1>1. tx'[s] = NoTx
  BY DEF Close, Becomes, TypeOK
<1>2. /\ NoTx.op = "idle" /\ NoTx.at = 0 /\ NoTx.left = {} /\ NoTx.sent = {}
      /\ NoTx.put = [u \in Users |-> None]
  BY DEF NoTx
<1>3. tx'[s].at <= now' /\ PayInv(s)'
  BY <1>1, <1>2 DEF TypeInv, TypeOK, PayInv
<1> QED
  BY <1>1, <1>2, <1>3, RestInv

\* Plans, rewards and the clock left alone.
LEMMA Frame ==
  ASSUME SerialInv, BankedHaveNoPlan, UNCHANGED <<now, plan, reward>>
  PROVE  FreeEnds' /\ RewardsInv' /\ BankedHaveNoPlan'
<1>1. FreeEnds'
  BY DEF SerialInv, FreeEnds
<1>2. RewardsInv'
  BY DEF SerialInv, RewardsInv, Standing
<1>3. BankedHaveNoPlan'
  BY DEF BankedHaveNoPlan
<1> QED
  BY <1>1, <1>2, <1>3

LEMMA BeginPaySerial ==
  ASSUME Serial, SerialIInv, TypeInv', NEW s \in Sessions, NEW u \in Users, NEW t \in Tiers,
         BeginPay(s, u, t)
  PROVE  SerialIInv'
<1> DEFINE x == [NoTx EXCEPT !.op = "pay", !.who = u, !.tier = t, !.at = now, !.seen = plan[u]]
<1>1. /\ x.op = "pay" /\ x.who = u /\ x.tier = t /\ x.at = now /\ x.seen = plan[u]
      /\ x.left = {} /\ x.sent = {} /\ x.put = [v \in Users |-> None]
      /\ x.new = NoTx.new /\ x.rows = NoTx.rows
  BY DEF NoTx
<1>2. Becomes(s, x)
  BY DEF BeginPay
<1> HIDE DEF x
<1>3. tx'[s] = x
  BY <1>2 DEF Becomes, SerialIInv, TypeInv, TypeOK
<1>4. FreeEnds' /\ RewardsInv' /\ BankedHaveNoPlan'
  BY Frame DEF BeginPay, SerialIInv
<1>5. tx'[s].at <= now' /\ PayInv(s)'
  BY <1>1, <1>3 DEF PayInv, BeginPay, SerialIInv, TypeInv, TypeOK
<1>6. SessionInv(s)'
  BY <1>1, <1>3, <1>4, <1>5, RestInv
<1> QED
  BY <1>4, <1>6, OnlySession DEF SerialIInv

LEMMA AbortSerial ==
  ASSUME Serial, SerialIInv, TypeInv', NEW s \in Sessions, Abort(s)
  PROVE  SerialIInv'
<1>1. FreeEnds' /\ RewardsInv' /\ BankedHaveNoPlan'
  BY Frame DEF Abort, SerialIInv
<1>2. SessionInv(s)'
  BY <1>1, ClosedInv DEF Abort, SerialIInv, TypeInv
<1> QED
  BY <1>1, <1>2, OnlySession DEF SerialIInv

LEMMA BeginSweepSerial ==
  ASSUME Serial, SerialIInv, TypeInv', NEW s \in Sessions, BeginSweep(s)
  PROVE  SerialIInv'
<1>1. PICK batch \in SUBSET Due :
        LET loaded == [r \in Users |-> IF r \in batch THEN reward[r] ELSE NoReward] IN
        Becomes(s, [NoTx EXCEPT !.op = "sweep", !.at = now, !.left = batch,
                                !.rows = loaded, !.new = loaded])
  BY DEF BeginSweep
<1> DEFINE loaded == [r \in Users |-> IF r \in batch THEN reward[r] ELSE NoReward]
           x == [NoTx EXCEPT !.op = "sweep", !.at = now, !.left = batch,
                             !.rows = loaded, !.new = loaded]
<1>2. /\ x.op = "sweep" /\ x.at = now /\ x.left = batch
      /\ x.new = loaded /\ x.rows = loaded
      /\ x.put = [u \in Users |-> None]
  BY DEF NoTx
<1>3. \A r \in Users : loaded[r] = IF r \in batch THEN reward[r] ELSE NoReward
  OBVIOUS
<1>4. \A r \in batch : r \in Users /\ reward[r].status = "pending"
  BY DEF Due
<1> HIDE DEF loaded, x
<1>5. Becomes(s, x)
  BY <1>1 DEF x, loaded
<1>6. tx'[s] = x
  BY <1>5 DEF Becomes, SerialIInv, TypeInv, TypeOK
<1>7. FreeEnds' /\ RewardsInv' /\ BankedHaveNoPlan'
  BY Frame DEF BeginSweep, SerialIInv
<1>8. RowsInv(s)'
  BY <1>2, <1>3, <1>4, <1>6 DEF RowsInv, Fresh, Untouched, BeginSweep
<1>9. \A r \in Users : tx'[s].new[r].status \notin {"banked", "credited"}
  BY <1>2, <1>3, <1>4, <1>6 DEF NoReward
<1>10. BankInv(s)' /\ ArrivedInv(s)' /\ PutInv(s)'
  <2>1. tx'[s].put = [u \in Users |-> None]
    BY <1>2, <1>6
  <2> QED
    BY <1>7, <1>9, <2>1, NothingYet
<1>11. tx'[s].at <= now'
  BY <1>2, <1>6 DEF BeginSweep, SerialIInv, TypeInv, TypeOK
<1>12. AtRest(s)' /\ CurInv(s)' /\ LookInv(s)' /\ PayInv(s)'
  BY <1>2, <1>6 DEF AtRest, CurInv, LookInv, PayInv, Sweeping
<1>13. SessionInv(s)'
  BY <1>8, <1>10, <1>11, <1>12 DEF SessionInv
<1> QED
  BY <1>7, <1>13, OnlySession DEF SerialIInv

\* While a session goes on, what it reads of plans moves with what it flushes.
LEMMA SamePlans ==
  ASSUME NEW s \in Sessions, UNCHANGED plan, tx'[s].put = tx[s].put
  PROVE  \A u \in Users : VisiblePlan(s, u)' = VisiblePlan(s, u)
  BY DEF VisiblePlan

LEMMA SameArrived ==
  ASSUME NEW s \in Sessions, ArrivedInv(s), UNCHANGED <<now, plan>>,
         tx'[s].put = tx[s].put,
         \A r \in Users : /\ tx'[s].new[r].status = "credited" <=> tx[s].new[r].status = "credited"
                          /\ tx[s].new[r].status = "credited" => tx'[s].new[r].days = tx[s].new[r].days
  PROVE  ArrivedInv(s)'
<1> SUFFICES ASSUME NEW u \in Users
             PROVE  \E arrived \in SUBSET Given(s, u)' :
                      /\ VisiblePlan(s, u)'.ends = plan'[u].ends + Total(arrived, NewDays(s)')
                      /\ arrived # Given(s, u)' => plan'[u].ends <= now'
  BY DEF ArrivedInv
<1>1. VisiblePlan(s, u)' = VisiblePlan(s, u)
  BY SamePlans
<1>2. Given(s, u)' = Given(s, u)
  BY DEF Given, Earned
<1>3. PICK arrived \in SUBSET Given(s, u) :
        /\ VisiblePlan(s, u).ends = plan[u].ends + Total(arrived, NewDays(s))
        /\ arrived # Given(s, u) => plan[u].ends <= now
  BY DEF ArrivedInv
<1>4. \A r \in arrived : NewDays(s)'[r] = NewDays(s)[r]
  BY DEF NewDays, Given, Earned
<1>5. Total(arrived, NewDays(s)') = Total(arrived, NewDays(s))
  BY <1>4, TotalSame
<1> QED
  BY <1>1, <1>2, <1>3, <1>5

LEMMA LookSerial ==
  ASSUME Serial, SerialIInv, TypeInv', NEW s \in Sessions, Look(s)
  PROVE  SerialIInv'
<1>1. PICK r \in tx[s].left :
        LET held == VisiblePlan(s, ReferredBy[r]) IN
        Becomes(s, [tx[s] EXCEPT !.op = IF HasAPlan(held) THEN "credit" ELSE "bank",
                                 !.cur = r, !.left = @ \ {r}, !.seen = held])
  BY DEF Look
<1> DEFINE held == VisiblePlan(s, ReferredBy[r])
           x == [tx[s] EXCEPT !.op = IF HasAPlan(held) THEN "credit" ELSE "bank",
                              !.cur = r, !.left = @ \ {r}, !.seen = held]
<1>2. tx[s] \in TxType /\ SessionInv(s) /\ TypeOK /\ Referred
  BY DEF SerialIInv, TypeInv, TypeOK, SerialInv
<1>3. /\ x.op = IF HasAPlan(held) THEN "credit" ELSE "bank"
      /\ x.cur = r /\ x.left = tx[s].left \ {r} /\ x.seen = held /\ x.at = tx[s].at
      /\ x.new = tx[s].new /\ x.rows = tx[s].rows /\ x.put = tx[s].put
  BY <1>2 DEF TxType
<1>4. tx'[s] = x
  BY <1>1, <1>2 DEF Becomes, TypeOK
<1> HIDE DEF x
<1>5. UNCHANGED <<now, plan, reward>>
  BY DEF Look
<1>6. r \in Users /\ Fresh(s, r) /\ ReferredBy[r] \in Users
  BY <1>2 DEF TxType, SessionInv, RowsInv, Fresh, Referred
<1>7. \A u \in Users : VisiblePlan(s, u)' = VisiblePlan(s, u)
  BY <1>3, <1>4, <1>5, SamePlans
<1>8. \A q \in Users : /\ Fresh(s, q)' = Fresh(s, q)
                       /\ Moved(s, q)' = Moved(s, q)
                       /\ Untouched(s, q)' = Untouched(s, q)
  BY <1>3, <1>4, <1>5 DEF Fresh, Moved, Untouched
<1>9. RowsInv(s)' /\ CurInv(s)'
  BY <1>2, <1>3, <1>4, <1>6, <1>8 DEF SessionInv, RowsInv, CurInv
<1>10. AtRest(s)' /\ PayInv(s)' /\ tx'[s].at <= now'
  BY <1>2, <1>3, <1>4, <1>5 DEF AtRest, PayInv, Sweeping, SessionInv
<1>11. PutInv(s)'
  BY <1>2, <1>3, <1>4, <1>5 DEF PutInv, SessionInv
<1>12. BankInv(s)'
  BY <1>2, <1>3, <1>4, <1>5, <1>7 DEF BankInv, SessionInv, SerialIInv, TypeInv, Referred,
     LoadedTyped, Keeps
<1>13. ArrivedInv(s)'
  BY <1>2, <1>3, <1>4, <1>5, SameArrived DEF SessionInv
<1>14. LookInv(s)'
  <2>1. VisiblePlan(s, ReferredBy[r])' = held
    BY <1>6, <1>7
  <2>2. CASE HasAPlan(held)
    <3>1. x.op = "credit" /\ held.tier # "free"
      BY <1>3, <2>2 DEF HasAPlan
    <3> HIDE DEF held
    <3> QED
      BY <1>3, <1>4, <2>1, <3>1 DEF LookInv
  <2>3. CASE ~HasAPlan(held)
    <3>1. x.op = "bank"
      BY <1>3, <2>3
    <3>2. held.ends \in Nat /\ held.tier = plan[ReferredBy[r]].tier
          /\ held.ends = IF tx[s].put[ReferredBy[r]] = None THEN plan[ReferredBy[r]].ends
                         ELSE tx[s].put[ReferredBy[r]]
      BY <1>2, <1>6, VisiblePlanType
    <3>3. held.tier = "free" => held.ends = 0
      BY <1>2, <1>6, <3>2 DEF SessionInv, PutInv, SerialIInv, SerialInv, FreeEnds
    <3>4. now \in Nat
      BY <1>2 DEF TypeOK
    <3>5. held.ends <= now
      BY <2>3, <3>2, <3>3, <3>4 DEF HasAPlan
    <3> HIDE DEF held
    <3> QED
      BY <1>3, <1>4, <1>5, <2>1, <3>1, <3>5 DEF LookInv
  <2> QED
    BY <2>2, <2>3
<1>15. SessionInv(s)'
  BY <1>9, <1>10, <1>11, <1>12, <1>13, <1>14 DEF SessionInv
<1> QED
  BY <1>5, <1>15, Frame, OnlySession DEF SerialIInv

\* The rows of a session where only the one in hand changed.
LEMMA OneRowMoved ==
  ASSUME NEW s \in Sessions, NEW r \in Users, RowsInv(s), r \notin tx[s].left, UNCHANGED reward,
         tx'[s].rows = tx[s].rows, tx'[s].left = tx[s].left, tx'[s].at = tx[s].at,
         \A q \in Users \ {r} : tx'[s].new[q] = tx[s].new[q],
         Moved(s, r)'
  PROVE  RowsInv(s)'
<1>1. \A q \in Users \ {r} : /\ Fresh(s, q) => Fresh(s, q)'
                             /\ Moved(s, q) => Moved(s, q)'
                             /\ Untouched(s, q) => Untouched(s, q)'
  BY DEF Fresh, Moved, Untouched
<1> QED
  BY <1>1 DEF RowsInv

LEMMA BankSerial ==
  ASSUME Serial, SerialIInv, TypeInv', NEW s \in Sessions, Bank(s),
         NEW r \in Users, r = tx[s].cur
  PROVE  SerialIInv'
<1> DEFINE held == Held(s, ReferredBy[r])
           room == IF held < BankCap THEN BankCap - held ELSE 0
           row == Banked(tx[s].new[r], room)
           new == [tx[s].new EXCEPT ![r] = row]
           x == [tx[s] EXCEPT !.op = "sweep", !.cur = None, !.new = new]
<1>1. tx[s] \in TxType /\ SessionInv(s) /\ TypeOK /\ TypeInv
  BY DEF SerialIInv, TypeInv, TypeOK, SerialInv
<1>2. Fresh(s, r) /\ r \notin tx[s].left /\ VisiblePlan(s, ReferredBy[r]).ends <= now
  BY <1>1 DEF Bank, SessionInv, CurInv, LookInv
<1>3. room \in Nat
  BY <1>1, HeldType, RewardsAssumption DEF RewardsAssumption
<1>4. /\ row.made = tx[s].new[r].made /\ row.vest = tx[s].new[r].vest
      /\ \/ row.status = "voided" /\ row.days = tx[s].new[r].days
         \/ /\ row.status = "banked" /\ room # 0 /\ row.until = now + BankDaysToLive
            /\ row.days = IF tx[s].new[r].days < room THEN tx[s].new[r].days ELSE room
  <2>1. tx[s].new[r] \in RowType
    BY <1>1, <1>2 DEF TxType
  <2> HIDE DEF room
  <2> QED
    BY <1>3, <2>1, BankedIs
<1> HIDE DEF row
<1>5. new[r] = row /\ \A q \in Users \ {r} : new[q] = tx[s].new[q]
  BY <1>1, <1>2 DEF TxType
<1> HIDE DEF new
<1>6. /\ x.op = "sweep" /\ x.left = tx[s].left /\ x.at = tx[s].at
      /\ x.new = new /\ x.rows = tx[s].rows /\ x.put = tx[s].put
  BY <1>1 DEF TxType
<1>7. Becomes(s, x)
  BY <1>1 DEF Bank, TxType, new, row
<1> HIDE DEF x
<1>8. tx'[s] = x
  BY <1>1, <1>7 DEF Becomes, TypeOK
<1>9. UNCHANGED <<now, plan, reward>>
  BY DEF Bank
<1>10. Moved(s, r)'
  <2>1. /\ reward[r].status = "pending" /\ tx[s].rows[r] = reward[r] /\ tx[s].new[r] = reward[r]
        /\ reward[r].days \in Nat /\ reward[r].days >= 1
    BY <1>1, <1>2 DEF Fresh, SerialIInv, SerialInv, RewardsInv, TypeOK, RowType
  <2>2. now + BankDaysToLive > tx[s].at
    <3>1. tx[s].at \in Nat /\ now \in Nat /\ tx[s].at <= now
      BY <1>1 DEF SessionInv, TypeOK, TxType
    <3>2. BankDaysToLive \in Nat \ {0}
      BY RewardsAssumption DEF RewardsAssumption
    <3> QED
      BY <3>1, <3>2
  <2>3. row.status = "banked" => row.days \in 1 .. reward[r].days /\ row.until > tx[s].at
    <3> HIDE DEF room
    <3> QED
      BY <1>3, <1>4, <2>1, <2>2
  <2>4. tx'[s].new[r] = row /\ tx'[s].rows[r] = reward[r] /\ tx'[s].at = tx[s].at
    BY <1>5, <1>6, <1>8, <2>1
  <2>5. row.made = reward[r].made /\ row.vest = reward[r].vest
    BY <1>4, <2>1
  <2>6. \/ row.status = "voided" /\ row.days = reward[r].days
        \/ row.status = "banked" /\ row.days \in 1 .. reward[r].days /\ row.until > tx[s].at
    BY <1>4, <2>1, <2>3
  <2> QED
    BY <1>9, <2>1, <2>4, <2>5, <2>6 DEF Moved
<1>11. RowsInv(s)'
  <2>1. /\ tx'[s].rows = tx[s].rows /\ tx'[s].left = tx[s].left /\ tx'[s].at = tx[s].at
        /\ \A q \in Users \ {r} : tx'[s].new[q] = tx[s].new[q]
    BY <1>5, <1>6, <1>8
  <2>2. RowsInv(s) /\ UNCHANGED reward
    BY <1>1, <1>9 DEF SessionInv
  <2> QED
    BY <1>2, <1>10, <2>1, <2>2, OneRowMoved
<1>12. CurInv(s)' /\ LookInv(s)' /\ AtRest(s)' /\ PayInv(s)' /\ tx'[s].at <= now'
  BY <1>1, <1>6, <1>8, <1>9 DEF CurInv, LookInv, AtRest, PayInv, Sweeping, SessionInv
<1>13. PutInv(s)'
  BY <1>1, <1>6, <1>8, <1>9 DEF PutInv, SessionInv
<1>14. BankInv(s)'
  <2> SUFFICES ASSUME NEW q \in Users,
                      reward[q].status = "banked" \/ new[q].status = "banked"
               PROVE  VisiblePlan(s, ReferredBy[q])'.ends <= now
    BY <1>6, <1>8, <1>9 DEF BankInv
  <2>1. ReferredBy[q] \in Users
    BY <1>1, <1>2, <1>5 DEF TypeInv, Referred, LoadedTyped, Keeps, Fresh
  <2>2. VisiblePlan(s, ReferredBy[q])' = VisiblePlan(s, ReferredBy[q])
    BY <1>6, <1>8, <1>9, <2>1, SamePlans
  <2>3. CASE q = r
    BY <1>2, <2>2, <2>3
  <2>4. CASE q # r
    BY <1>1, <1>5, <2>2, <2>4 DEF SessionInv, BankInv
  <2> QED
    BY <2>3, <2>4
<1>15. ArrivedInv(s)'
  <2>1. tx[s].new[r].status = "pending" /\ row.status # "credited"
    BY <1>2, <1>4 DEF Fresh
  <2>2. \A q \in Users :
          /\ tx'[s].new[q].status = "credited" <=> tx[s].new[q].status = "credited"
          /\ tx[s].new[q].status = "credited" => tx'[s].new[q].days = tx[s].new[q].days
    BY <1>5, <1>6, <1>8, <2>1
  <2> QED
    BY <1>1, <1>6, <1>8, <1>9, <2>2, SameArrived DEF SessionInv
<1>16. SessionInv(s)'
  BY <1>11, <1>12, <1>13, <1>14, <1>15 DEF SessionInv
<1> QED
  BY <1>9, <1>16, Frame, OnlySession DEF SerialIInv

LEMMA CreditSerial ==
  ASSUME Serial, SerialIInv, TypeInv', NEW s \in Sessions, Credit(s),
         NEW r \in Users, r = tx[s].cur, NEW f, f = ReferredBy[r]
  PROVE  SerialIInv'
<1> DEFINE days == tx[s].new[r].days
           new == [tx[s].new EXCEPT ![r].status = "credited"]
           put == [tx[s].put EXCEPT ![f] = Extended(tx[s].seen, tx[s].new[r].days, @)]
           x == [tx[s] EXCEPT !.op = "sweep", !.cur = None, !.new = new,
                              !.sent = Changed(s) \cup {r}, !.put = put]
<1>1. tx[s] \in TxType /\ SessionInv(s) /\ TypeOK /\ TypeInv
  BY DEF SerialIInv, TypeInv, TypeOK, SerialInv
<1>2. /\ Fresh(s, r) /\ r \notin tx[s].left
      /\ tx[s].seen = VisiblePlan(s, f) /\ tx[s].seen.tier # "free"
  BY <1>1 DEF Credit, SessionInv, CurInv, LookInv
<1>3. f \in Users
  BY <1>1 DEF Credit, TypeInv, CurTyped
<1>4. /\ new[r].status = "credited" /\ new[r].days = days
      /\ new[r].made = tx[s].new[r].made /\ new[r].vest = tx[s].new[r].vest
      /\ \A q \in Users \ {r} : new[q] = tx[s].new[q]
  BY <1>1 DEF TxType, RowType
<1>5. /\ put[f] = Extended(tx[s].seen, days, tx[s].put[f])
      /\ \A u \in Users \ {f} : put[u] = tx[s].put[u]
  BY <1>1, <1>3 DEF TxType
<1> HIDE DEF new, put
<1>6. /\ x.op = "sweep" /\ x.left = tx[s].left /\ x.at = tx[s].at
      /\ x.new = new /\ x.rows = tx[s].rows /\ x.put = put
  BY <1>1 DEF TxType
<1>7. Becomes(s, x)
  BY <1>1 DEF Credit, TxType, new, put
<1> HIDE DEF x
<1>8. tx'[s] = x
  BY <1>1, <1>7 DEF Becomes, TypeOK
<1>9. UNCHANGED <<now, plan, reward>>
  BY DEF Credit
<1>10. /\ reward[r].status = "pending" /\ tx[s].rows[r] = reward[r] /\ tx[s].new[r] = reward[r]
       /\ days \in Nat
  BY <1>1, <1>2 DEF Fresh, TypeOK, RowType
<1>11. Moved(s, r)'
  <2>1. tx'[s].new[r] = new[r] /\ tx'[s].rows[r] = reward[r]
    BY <1>6, <1>8, <1>10
  <2>2. /\ new[r].status = "credited" /\ new[r].days = reward[r].days
        /\ new[r].made = reward[r].made /\ new[r].vest = reward[r].vest
    BY <1>4, <1>10
  <2> QED
    BY <1>9, <1>10, <2>1, <2>2 DEF Moved
<1>12. RowsInv(s)'
  <2>1. /\ tx'[s].rows = tx[s].rows /\ tx'[s].left = tx[s].left /\ tx'[s].at = tx[s].at
        /\ \A q \in Users \ {r} : tx'[s].new[q] = tx[s].new[q]
    BY <1>4, <1>6, <1>8
  <2>2. RowsInv(s) /\ UNCHANGED reward
    BY <1>1, <1>9 DEF SessionInv
  <2> QED
    BY <1>2, <1>11, <2>1, <2>2, OneRowMoved
<1>13. CurInv(s)' /\ LookInv(s)' /\ AtRest(s)' /\ PayInv(s)' /\ tx'[s].at <= now'
  BY <1>1, <1>6, <1>8, <1>9 DEF CurInv, LookInv, AtRest, PayInv, Sweeping, SessionInv
<1>14. /\ tx[s].seen.ends \in Nat /\ tx[s].seen.tier = plan[f].tier
       /\ tx[s].seen.ends = IF tx[s].put[f] = None THEN plan[f].ends ELSE tx[s].put[f]
       /\ now \in Nat /\ plan[f].ends \in Nat
  BY <1>1, <1>2, <1>3, VisiblePlanType DEF TypeOK
<1>15. PutInv(s)'
  <2> SUFFICES ASSUME NEW u \in Users, put[u] # None
               PROVE  plan[u].tier # "free"
    BY <1>6, <1>8, <1>9 DEF PutInv
  <2>1. CASE u = f
    BY <1>2, <1>14, <2>1
  <2>2. CASE u # f
    BY <1>1, <1>5, <2>2 DEF SessionInv, PutInv
  <2> QED
    BY <2>1, <2>2
<1>16. \A u \in Users \ {f} : VisiblePlan(s, u)' = VisiblePlan(s, u)
  BY <1>5, <1>6, <1>8, <1>9 DEF VisiblePlan
<1>17. VisiblePlan(s, f)'.ends = IF tx[s].seen.ends > now THEN tx[s].seen.ends + days
                                 ELSE tx[s].seen.ends
  <2>1. put[f] = IF tx[s].seen.ends > now THEN tx[s].seen.ends + days ELSE tx[s].put[f]
    BY <1>5 DEF Extended
  <2>2. VisiblePlan(s, f)'.ends = IF put[f] = None THEN plan[f].ends ELSE put[f]
    <3>1. TypeOK' /\ tx'[s].put[f] = put[f] /\ plan'[f] = plan[f]
      BY <1>6, <1>8, <1>9 DEF TypeInv
    <3>2. plan[f] \in [tier : Tiers \cup {"free"}, ends : Nat]
      BY <1>1, <1>3 DEF TypeOK
    <3>3. [plan[f] EXCEPT !.ends = put[f]].ends = put[f]
      BY <3>2
    <3> QED
      BY <3>1, <3>3 DEF VisiblePlan
  <2>3. tx[s].seen.ends + days # None
    BY <1>10, <1>14, RewardsAssumption DEF RewardsAssumption
  <2> QED
    BY <1>14, <2>1, <2>2, <2>3
<1>18. BankInv(s)'
  <2> SUFFICES ASSUME NEW q \in Users,
                      reward[q].status = "banked" \/ new[q].status = "banked"
               PROVE  VisiblePlan(s, ReferredBy[q])'.ends <= now
    BY <1>6, <1>8, <1>9 DEF BankInv
  <2>1. q # r
    BY <1>4, <1>10
  <2>2. VisiblePlan(s, ReferredBy[q]).ends <= now
    BY <1>1, <1>4, <2>1 DEF SessionInv, BankInv
  <2>3. ReferredBy[q] \in Users
    BY <1>1, <1>4, <2>1 DEF TypeInv, Referred, LoadedTyped, Keeps
  <2>4. CASE ReferredBy[q] = f
    BY <1>2, <1>14, <1>17, <2>2, <2>4
  <2>5. CASE ReferredBy[q] # f
    BY <1>16, <2>2, <2>3, <2>5
  <2> QED
    BY <2>4, <2>5
<1>19. ArrivedInv(s)'
  <2> SUFFICES ASSUME NEW u \in Users
               PROVE  \E arrived \in SUBSET Given(s, u)' :
                        /\ VisiblePlan(s, u)'.ends = plan'[u].ends + Total(arrived, NewDays(s)')
                        /\ arrived # Given(s, u)' => plan'[u].ends <= now'
    BY DEF ArrivedInv
  <2>1. PICK arrived \in SUBSET Given(s, u) :
          /\ VisiblePlan(s, u).ends = plan[u].ends + Total(arrived, NewDays(s))
          /\ arrived # Given(s, u) => plan[u].ends <= now
    BY <1>1 DEF SessionInv, ArrivedInv
  <2>2. arrived \in SUBSET Users /\ r \notin arrived
    BY <1>10 DEF Given, Earned
  <2>3. NewDays(s) \in [Users -> Nat] /\ NewDays(s)' \in [Users -> Nat]
    BY <1>1 DEF NewDays, TypeInv, TypeOK, TxType, RowType
  <2>4. \A q \in Users : NewDays(s)'[q] = NewDays(s)[q]
    BY <1>4, <1>6, <1>8 DEF NewDays
  <2>5. /\ Total(arrived, NewDays(s)') = Total(arrived, NewDays(s))
        /\ Total(arrived, NewDays(s)) \in Nat
    BY <2>2, <2>3, <2>4, TotalSame, TotalFinite
  <2>6. CASE u # f
    <3>1. Given(s, u)' = Given(s, u)
      BY <1>4, <1>6, <1>8, <2>6 DEF Given, Earned
    <3> QED
      BY <1>9, <1>16, <2>1, <2>5, <2>6, <3>1
  <2>7. CASE u = f
    <3>1. Given(s, u)' = Given(s, u) \cup {r} /\ r \notin Given(s, u)
      BY <1>4, <1>6, <1>8, <1>10, <2>7 DEF Given, Earned
    <3>2. CASE tx[s].seen.ends > now
      <4>1. Total(arrived \cup {r}, NewDays(s)') = Total(arrived, NewDays(s)') + NewDays(s)'[r]
        BY <2>2, <2>3, TotalAdd
      <4>2. NewDays(s)'[r] = days
        BY <2>4 DEF NewDays
      <4>3. VisiblePlan(s, u)'.ends = plan[u].ends + Total(arrived \cup {r}, NewDays(s)')
        BY <1>2, <1>10, <1>14, <1>17, <2>1, <2>5, <2>7, <3>2, <4>1, <4>2
      <4>4. arrived \cup {r} # Given(s, u)' => plan[u].ends <= now
        BY <2>1, <3>1
      <4>5. arrived \cup {r} \in SUBSET Given(s, u)'
        BY <3>1
      <4> QED
        BY <1>9, <4>3, <4>4, <4>5
    <3>3. CASE ~(tx[s].seen.ends > now)
      <4>1. VisiblePlan(s, u)'.ends = plan[u].ends + Total(arrived, NewDays(s)')
        BY <1>2, <1>17, <2>1, <2>5, <2>7, <3>3
      <4>2. plan[u].ends <= now
        BY <1>2, <1>14, <2>1, <2>5, <2>7, <3>3
      <4> QED
        BY <1>9, <3>1, <4>1, <4>2
    <3> QED
      BY <3>2, <3>3
  <2> QED
    BY <2>6, <2>7
<1>20. SessionInv(s)'
  BY <1>12, <1>13, <1>15, <1>18, <1>19 DEF SessionInv
<1> QED
  BY <1>9, <1>20, Frame, OnlySession DEF SerialIInv

LEMMA TickSerial ==
  ASSUME SerialIInv, TypeInv', Tick
  PROVE  SerialIInv'
<1> USE DEF Tick
<1>1. now \in Nat /\ now' = now + 1 /\ UNCHANGED <<plan, reward, tx>>
  BY DEF SerialIInv, TypeInv, TypeOK
<1>2. TypeOK /\ Referred /\ TypeInv
  BY DEF SerialIInv, TypeInv
<1>3. \A u \in Users : plan[u].ends \in Nat
  BY <1>2 DEF TypeOK
<1>4. BankedHaveNoPlan'
  BY <1>1, <1>2, <1>3 DEF SerialIInv, BankedHaveNoPlan, Referred
<1>5. FreeEnds'
  BY <1>1 DEF SerialIInv, SerialInv, FreeEnds
<1>6. RewardsInv'
  <2>1. VestDays \in Nat /\ \A r \in Users : reward[r].vest \in Nat
    BY <1>2, RewardsAssumption DEF RewardsAssumption, TypeOK, RowType
  <2> QED
    BY <1>1, <2>1 DEF SerialIInv, SerialInv, RewardsInv, Standing
<1>7. ASSUME NEW s \in Sessions PROVE SessionInv(s)'
  <2>1. SessionInv(s)
    BY DEF SerialIInv, SerialInv
  <2>2. \A u \in Users : /\ VisiblePlan(s, u)' = VisiblePlan(s, u)
                         /\ VisiblePlan(s, u).ends \in Nat
    BY <1>1, <1>2, VisiblePlanType DEF VisiblePlan
  <2>3. tx'[s].at <= now'
    BY <1>1, <1>2, <2>1 DEF SessionInv, TypeOK, TxType
  <2>4. RowsInv(s)' /\ CurInv(s)'
    BY <1>1, <2>1 DEF SessionInv, RowsInv, CurInv, Fresh, Moved, Untouched
  <2>5. AtRest(s)' /\ PayInv(s)' /\ PutInv(s)'
    BY <1>1, <2>1 DEF SessionInv, AtRest, PayInv, PutInv, Sweeping, Untouched
  <2>6. LookInv(s)'
    <3> DEFINE f == ReferredBy[tx[s].cur]
    <3>1. ASSUME tx[s].op = "credit" \/ tx[s].op = "bank" PROVE f \in Users
      BY <1>2, <3>1 DEF TypeInv, CurTyped
    <3>2. tx[s].op = "credit" => tx[s].seen = VisiblePlan(s, f)' /\ tx[s].seen.tier # "free"
      BY <2>1, <2>2, <3>1 DEF SessionInv, LookInv
    <3>3. tx[s].op = "bank" => VisiblePlan(s, f)'.ends <= now'
      BY <1>1, <2>1, <2>2, <3>1 DEF SessionInv, LookInv
    <3> QED
      BY <1>1, <3>2, <3>3 DEF LookInv
  <2>7. BankInv(s)'
    <3> SUFFICES ASSUME NEW r \in Users,
                        reward[r].status = "banked" \/ tx[s].new[r].status = "banked"
                 PROVE  VisiblePlan(s, ReferredBy[r])'.ends <= now'
      BY <1>1 DEF BankInv
    <3>1. ReferredBy[r] \in Users
      BY <1>2 DEF TypeInv, Referred, LoadedTyped, Keeps
    <3> QED
      BY <1>1, <2>1, <2>2, <3>1 DEF SessionInv, BankInv
  <2>8. ArrivedInv(s)'
    <3> SUFFICES ASSUME NEW u \in Users
                 PROVE  \E arrived \in SUBSET Given(s, u)' :
                          /\ VisiblePlan(s, u)'.ends = plan'[u].ends + Total(arrived, NewDays(s)')
                          /\ arrived # Given(s, u)' => plan'[u].ends <= now'
      BY DEF ArrivedInv
    <3>1. PICK arrived \in SUBSET Given(s, u) :
            /\ VisiblePlan(s, u).ends = plan[u].ends + Total(arrived, NewDays(s))
            /\ arrived # Given(s, u) => plan[u].ends <= now
      BY <2>1 DEF SessionInv, ArrivedInv
    <3>2. Given(s, u)' = Given(s, u) /\ NewDays(s)' = NewDays(s)
      BY <1>1 DEF Given, Earned, NewDays
    <3> QED
      BY <1>1, <1>3, <2>2, <3>1, <3>2
  <2> QED
    BY <2>3, <2>4, <2>5, <2>6, <2>7, <2>8 DEF SessionInv
<1> QED
  BY <1>4, <1>5, <1>6, <1>7 DEF SerialIInv, SerialInv

-----------------------------------------------------------------------------
(* The commits.                                                            *)

\* What a payment leaves, when nothing came between its select and its commit.
PayLeaves(u, t, refused, began) ==
  /\ refused \in BOOLEAN
  /\ ~refused => ~(Cardinality(Recent(ReferredBy[u])) >= MaxPerMonth)
  /\ plan' = [plan EXCEPT ![u] =
       [tier |-> t,
        ends |-> Base(plan[u], t) + PeriodOf[t]
                   + (IF Awarded(u) /\ ~refused THEN FriendDays ELSE 0)
                   + Total(Released(u), Days)]]
  /\ Awarded(u) => reward'[u] = Award(t, refused, began)
  /\ \A r \in Users : ~(r = u /\ Awarded(u)) =>
       /\ r \in Released(u) => reward'[r] = [reward[r] EXCEPT !.status = "credited"]
       /\ r \in Expired(u) => reward'[r] = [reward[r] EXCEPT !.status = "voided"]
       /\ r \notin Released(u) /\ r \notin Expired(u) => reward'[r] = reward[r]

\* A banked reward is one or the other.
LEMMA BankSplits ==
  ASSUME TypeOK, NEW u, NEW r \in Users
  PROVE  /\ r \in Released(u) => r \notin Expired(u)
         /\ r \in InBank(u) <=> (r \in Released(u) \/ r \in Expired(u))
  BY DEF Released, Expired, InBank, Earned, TypeOK, RowType

\* Nobody is rewarded for bringing themselves in.
LEMMA NotOwn ==
  ASSUME NEW u \in Users
  PROVE  u \notin Released(u) /\ u \notin Expired(u)
  BY RewardsAssumption DEF RewardsAssumption, Released, Expired, InBank, Earned

LEMMA Paying ==
  ASSUME TypeOK, NEW s \in Sessions, SessionInv(s), FinishPay(s)
  PROVE  /\ tx[s].who \in Users /\ tx[s].tier \in Tiers
         /\ tx[s].at <= now /\ tx[s].at \in Nat
         /\ \E refused \in BOOLEAN : PayLeaves(tx[s].who, tx[s].tier, refused, tx[s].at)
<1> DEFINE u == tx[s].who
           t == tx[s].tier
<1>1. u \in Users /\ t \in Tiers /\ tx[s].seen = plan[u]
  BY DEF FinishPay, SessionInv, PayInv
<1>2. tx[s].at <= now /\ tx[s].at \in Nat
  BY DEF SessionInv, TypeOK, TxType
<1>3. PICK sameDevice \in BOOLEAN :
        LET refused == Refused(u, sameDevice)
            gift == IF Awarded(u) /\ ~refused THEN FriendDays ELSE 0
            end == Base(tx[s].seen, t) + PeriodOf[t] + gift + Total(Released(u), Days)
        IN /\ plan' = [plan EXCEPT ![u] =
                [tier |-> IF t = tx[s].seen.tier THEN @.tier ELSE t, ends |-> end]]
           /\ reward' = [r \in Users |->
                CASE r = u /\ Awarded(u) -> Award(t, refused, tx[s].at)
                  [] r \in Released(u)   -> [reward[r] EXCEPT !.status = "credited"]
                  [] r \in Expired(u)    -> [reward[r] EXCEPT !.status = "voided"]
                  [] OTHER               -> reward[r]]
  BY DEF FinishPay
<1> DEFINE refused == Refused(u, sameDevice)
           end == Base(plan[u], t) + PeriodOf[t]
                    + (IF Awarded(u) /\ ~refused THEN FriendDays ELSE 0)
                    + Total(Released(u), Days)
<1>4. refused \in BOOLEAN
  BY DEF Refused
<1>5. ~refused => ~(Cardinality(Recent(ReferredBy[u])) >= MaxPerMonth)
  BY DEF Refused
<1>6. plan' = [plan EXCEPT ![u] = [tier |-> t, ends |-> end]]
  <2>1. plan' = [plan EXCEPT ![u] = [tier |-> IF t = plan[u].tier THEN @.tier ELSE t, ends |-> end]]
    BY <1>1, <1>3
  <2> HIDE DEF end
  <2>2. plan' = [plan EXCEPT ![u] = [tier |-> IF t = plan[u].tier THEN plan[u].tier ELSE t, ends |-> end]]
    BY <1>1, <2>1 DEF TypeOK
  <2> QED
    BY <2>2
<1> HIDE DEF refused
<1>7. Awarded(u) => reward'[u] = Award(t, refused, tx[s].at)
  BY <1>1, <1>3, NotOwn DEF refused
<1>8. \A r \in Users : ~(r = u /\ Awarded(u)) =>
        /\ r \in Released(u) => reward'[r] = [reward[r] EXCEPT !.status = "credited"]
        /\ r \in Expired(u) => reward'[r] = [reward[r] EXCEPT !.status = "voided"]
        /\ r \notin Released(u) /\ r \notin Expired(u) => reward'[r] = reward[r]
  BY <1>1, <1>3, BankSplits
<1>9. PayLeaves(u, t, refused, tx[s].at)
  BY <1>4, <1>5, <1>6, <1>7, <1>8 DEF PayLeaves
<1> QED
  BY <1>1, <1>2, <1>4, <1>9

\* The columns of a reward just written.
LEMMA AwardIs ==
  ASSUME TypeOK, NEW t \in Tiers, NEW refused \in BOOLEAN, NEW began \in Nat, NEW a,
         a = Award(t, refused, began)
  PROVE  /\ refused => a.status = "voided" /\ a.days = 0
         /\ ~refused => /\ a.status = "pending" /\ a.days = EarnsOf[t]
                        /\ a.made = began /\ a.vest = now + VestDays
         /\ a.status = (IF refused THEN "voided" ELSE "pending")
  BY DEF Award, NoReward

\* What a payment does to the row of anybody but a friend just referred.
LEMMA PaidRow ==
  ASSUME TypeOK, NEW u \in Users, NEW t, NEW refused, NEW began, PayLeaves(u, t, refused, began),
         NEW r \in Users, ~(r = u /\ Awarded(u))
  PROVE  /\ reward'[r].days = reward[r].days
         /\ reward'[r].made = reward[r].made /\ reward'[r].vest = reward[r].vest
         /\ reward'[r].until = reward[r].until
         /\ r \in Released(u) => reward[r].status = "banked" /\ reward'[r].status = "credited"
         /\ r \in Expired(u) => reward[r].status = "banked" /\ reward'[r].status = "voided"
         /\ r \notin Released(u) /\ r \notin Expired(u) => reward'[r].status = reward[r].status
<1>1. reward[r] \in RowType
  BY DEF TypeOK
<1>2. CASE r \in Released(u)
  <2>1. reward'[r] = [reward[r] EXCEPT !.status = "credited"] /\ reward[r].status = "banked"
    BY <1>2 DEF PayLeaves, Released, InBank
  <2> QED
    BY <1>1, <1>2, <2>1, BankSplits DEF RowType
<1>3. CASE r \in Expired(u)
  <2>1. reward'[r] = [reward[r] EXCEPT !.status = "voided"] /\ reward[r].status = "banked"
    BY <1>3 DEF PayLeaves, Expired, InBank
  <2> QED
    BY <1>1, <1>3, <2>1, BankSplits DEF RowType
<1>4. CASE r \notin Released(u) /\ r \notin Expired(u)
  BY <1>4 DEF PayLeaves
<1> QED
  BY <1>2, <1>3, <1>4

LEMMA FinishPaySerial ==
  ASSUME Serial, SerialIInv, TypeInv', NEW s \in Sessions, FinishPay(s),
         NEW u, u = tx[s].who, NEW t, t = tx[s].tier
  PROVE  SerialIInv'
<1>1. TypeOK /\ TypeInv /\ SessionInv(s)
  BY DEF SerialIInv, TypeInv, SerialInv
<1>2. PICK refused \in BOOLEAN : PayLeaves(u, t, refused, tx[s].at)
  BY <1>1, Paying
<1>3. u \in Users /\ t \in Tiers /\ tx[s].at \in Nat /\ tx[s].at <= now
  BY <1>1, Paying
<1>4. now' = now /\ Close(s)
  BY DEF FinishPay
<1> DEFINE end == Base(plan[u], t) + PeriodOf[t]
                    + (IF Awarded(u) /\ ~refused THEN FriendDays ELSE 0)
                    + Total(Released(u), Days)
<1>5. /\ plan'[u] = [tier |-> t, ends |-> end]
      /\ \A v \in Users \ {u} : plan'[v] = plan[v]
  BY <1>1, <1>2, <1>3 DEF PayLeaves, TypeOK
<1> HIDE DEF end
<1>6. FreeEnds'
  BY <1>3, <1>5, RewardsAssumption DEF FreeEnds, SerialIInv, SerialInv, RewardsAssumption
<1>7. BankedHaveNoPlan'
  <2> SUFFICES ASSUME NEW r \in Users, reward'[r].status = "banked"
               PROVE  plan'[ReferredBy[r]].ends <= now
    BY <1>4 DEF BankedHaveNoPlan
  <2>1. ~(r = u /\ Awarded(u))
    BY <1>1, <1>2, <1>3, AwardIs DEF PayLeaves
  <2>2. r \notin Released(u) /\ r \notin Expired(u) /\ reward[r].status = "banked"
    BY <1>1, <1>2, <1>3, <2>1, PaidRow
  <2>3. ReferredBy[r] # u
    BY <1>1, <2>2, BankSplits DEF InBank, Earned
  <2>4. ReferredBy[r] \in Users
    BY <1>1, <2>2 DEF TypeInv, Referred
  <2> QED
    BY <1>5, <2>2, <2>3, <2>4 DEF SerialIInv, BankedHaveNoPlan
<1>8. RewardsInv'
  <2> SUFFICES ASSUME NEW r \in Users
               PROVE  /\ reward'[r].status # "none" => ReferredBy[r] # None
                      /\ reward'[r].status = "pending" => reward'[r].days >= 1
                      /\ Standing(r)' => reward'[r].vest <= now + VestDays
    BY <1>4 DEF RewardsInv
  <2>1. reward'[r].status # "none" => ReferredBy[r] # None
    BY RewardsAssumption DEF TypeInv, Referred, RewardsAssumption
  <2>2. CASE r = u /\ Awarded(u)
    <3>1. EarnsOf[t] \in Nat \ {0} /\ now + VestDays \in Nat
      BY <1>1, <1>3, RewardsAssumption DEF RewardsAssumption, TypeOK
    <3>2. reward'[r] = Award(t, refused, tx[s].at)
      BY <1>2, <2>2 DEF PayLeaves
    <3> QED
      BY <1>1, <1>3, <2>1, <3>1, <3>2, AwardIs DEF Standing
  <2>3. CASE ~(r = u /\ Awarded(u))
    <3>1. /\ reward'[r].days = reward[r].days /\ reward'[r].vest = reward[r].vest
          /\ reward'[r].status = "pending" => reward[r].status = "pending"
          /\ Standing(r)' => Standing(r)
      BY <1>1, <1>2, <1>3, <2>3, PaidRow DEF Standing
    <3> QED
      BY <2>1, <3>1 DEF SerialIInv, SerialInv, RewardsInv
  <2> QED
    BY <2>2, <2>3
<1>9. SessionInv(s)'
  BY <1>1, <1>4, <1>7, ClosedInv
<1> QED
  BY <1>6, <1>7, <1>8, <1>9, OnlySession DEF SerialIInv

\* What the commit of a pass does to a row: nothing, the end of its time in
\* the bank, or what the pass decided about it.
LEMMA SweptRow ==
  ASSUME TypeOK, NEW s \in Sessions, SessionInv(s), FinishSweep(s), NEW r \in Users
  PROVE  \/ /\ reward'[r] = reward[r]
            /\ tx[s].new[r].status \in {"none", "pending"}
         \/ /\ reward[r].status = "banked" /\ tx[s].new[r].status = "none"
            /\ reward'[r] = [reward[r] EXCEPT !.status = "voided"]
         \/ Moved(s, r) /\ reward'[r] = tx[s].new[r]
<1> DEFINE m == Merged(reward[r], tx[s].rows[r], tx[s].new[r])
           v == Visible(s, r)
<1>1. Untouched(s, r) \/ Fresh(s, r) \/ Moved(s, r)
  BY DEF SessionInv, RowsInv
<1>2. /\ Untouched(s, r) => m = reward[r] /\ v = reward[r]
      /\ Fresh(s, r) => m = reward[r] /\ v = reward[r]
      /\ Moved(s, r) => m = tx[s].new[r] /\ (v = reward[r] \/ v = tx[s].new[r])
  BY RowStands
<1>3. reward'[r] = IF r \in Stale(s) THEN [v EXCEPT !.status = "voided"] ELSE m
  BY DEF FinishSweep
<1>4. r \in Stale(s) => v.status = "banked" /\ v.until <= tx[s].at
  BY DEF Stale
<1>5. CASE Untouched(s, r)
  <2>1. tx[s].new[r].status = "none"
    BY <1>5 DEF Untouched, NoReward
  <2> QED
    BY <1>2, <1>3, <1>4, <1>5, <2>1
<1>6. CASE Fresh(s, r)
  <2>1. tx[s].new[r].status = "pending" /\ reward[r].status = "pending"
    BY <1>6 DEF Fresh
  <2>2. r \notin Stale(s)
    BY <1>2, <1>4, <1>6, <2>1
  <2> QED
    BY <1>2, <1>3, <1>6, <2>1, <2>2
<1>7. CASE Moved(s, r)
  <2>1. reward[r].status = "pending"
    BY <1>7 DEF Moved
  <2>2. tx[s].new[r].status = "banked" => tx[s].new[r].until > tx[s].at
    BY <1>7 DEF Moved
  <2>3. tx[s].new[r].until \in Nat /\ tx[s].at \in Nat
    BY DEF TypeOK, TxType, RowType
  <2>4. r \notin Stale(s)
    BY <1>2, <1>4, <1>7, <2>1, <2>2, <2>3
  <2> QED
    BY <1>2, <1>3, <1>7, <2>4
<1> QED
  BY <1>1, <1>5, <1>6, <1>7

LEMMA FinishSweepSerial ==
  ASSUME Serial, SerialIInv, TypeInv', NEW s \in Sessions, FinishSweep(s)
  PROVE  SerialIInv'
<1>1. TypeOK /\ TypeInv /\ SessionInv(s)
  BY DEF SerialIInv, TypeInv, SerialInv
<1>2. now' = now /\ Close(s) /\ \A u \in Users : plan'[u] = VisiblePlan(s, u)
  BY DEF FinishSweep
<1>3. FreeEnds'
  <2> SUFFICES ASSUME NEW u \in Users, plan'[u].tier = "free" PROVE plan'[u].ends = 0
    BY DEF FreeEnds
  <2>1. plan'[u] = VisiblePlan(s, u)
    BY <1>2
  <2>2. plan[u].tier = "free"
    BY <1>1, <2>1, VisiblePlanType
  <2>3. tx[s].put[u] = None
    BY <1>1, <2>2 DEF SessionInv, PutInv
  <2>4. plan'[u] = plan[u]
    BY <2>1, <2>3 DEF VisiblePlan
  <2> QED
    BY <2>2, <2>4 DEF SerialIInv, SerialInv, FreeEnds
<1>4. BankedHaveNoPlan'
  <2> SUFFICES ASSUME NEW r \in Users, reward'[r].status = "banked"
               PROVE  plan'[ReferredBy[r]].ends <= now
    BY <1>2 DEF BankedHaveNoPlan
  <2>1. ReferredBy[r] \in Users
    BY DEF TypeInv, Referred
  <2>2. reward[r] \in RowType
    BY <1>1 DEF TypeOK
  <2>3. reward'[r] # [reward[r] EXCEPT !.status = "voided"]
    BY <2>2 DEF RowType
  <2>4. reward[r].status = "banked" \/ tx[s].new[r].status = "banked"
    BY <1>1, <2>3, SweptRow
  <2> QED
    BY <1>1, <1>2, <2>1, <2>4 DEF SessionInv, BankInv
<1>5. RewardsInv'
  <2> SUFFICES ASSUME NEW r \in Users
               PROVE  /\ reward'[r].status # "none" => ReferredBy[r] # None
                      /\ reward'[r].status = "pending" => reward'[r].days >= 1
                      /\ Standing(r)' => reward'[r].vest <= now + VestDays
    BY <1>2 DEF RewardsInv
  <2>1. reward'[r].status # "none" => ReferredBy[r] # None
    BY RewardsAssumption DEF TypeInv, Referred, RewardsAssumption
  <2>2. /\ reward[r].status = "pending" => reward[r].days >= 1
        /\ Standing(r) => reward[r].vest <= now + VestDays
    BY DEF SerialIInv, SerialInv, RewardsInv
  <2>3. CASE reward'[r] = reward[r]
    BY <2>1, <2>2, <2>3 DEF Standing
  <2>4. CASE reward'[r] = [reward[r] EXCEPT !.status = "voided"]
    <3>1. reward'[r].status = "voided"
      BY <1>1, <2>4 DEF TypeOK, RowType
    <3> QED
      BY <2>1, <3>1 DEF Standing
  <2>5. CASE Moved(s, r) /\ reward'[r] = tx[s].new[r]
    <3>1. reward'[r].status # "pending" /\ reward'[r].vest = reward[r].vest /\ Standing(r)
      BY <2>5 DEF Moved, Standing
    <3> QED
      BY <2>1, <2>2, <3>1
  <2> QED
    BY <1>1, <2>3, <2>4, <2>5, SweptRow
<1>6. SessionInv(s)'
  BY <1>1, <1>2, <1>4, ClosedInv
<1> QED
  BY <1>3, <1>4, <1>5, <1>6, OnlySession DEF SerialIInv

LEMMA SerialStep ==
  ASSUME Serial, SerialIInv, [Next]_vars
  PROVE  SerialIInv'
<1>1. TypeInv'
  BY TypeStep DEF SerialIInv
<1>2. CASE Tick
  BY <1>1, <1>2, TickSerial
<1>3. CASE UNCHANGED vars
  <2>1. UNCHANGED <<now, plan, reward, tx>>
    BY <1>3 DEF vars
  <2>2. FreeEnds' /\ RewardsInv' /\ BankedHaveNoPlan'
    BY <2>1, Frame DEF SerialIInv
  <2>3. ASSUME NEW s \in Sessions PROVE SessionInv(s)'
    <3>1. SessionInv(s) /\ tx'[s] = tx[s]
      BY <2>1 DEF SerialIInv, SerialInv
    <3>2. tx'[s].at <= now' /\ RowsInv(s)' /\ CurInv(s)' /\ AtRest(s)'
      BY <2>1, <3>1 DEF SessionInv, RowsInv, CurInv, AtRest, Fresh, Moved, Untouched, Sweeping
    <3>3. PayInv(s)' /\ LookInv(s)' /\ PutInv(s)' /\ BankInv(s)'
      BY <2>1, <3>1 DEF SessionInv, PayInv, LookInv, PutInv, BankInv, VisiblePlan
    <3>4. ArrivedInv(s)'
      BY <2>1, <3>1, SameArrived DEF SessionInv
    <3> QED
      BY <3>2, <3>3, <3>4 DEF SessionInv
  <2> QED
    BY <1>1, <2>2, <2>3 DEF SerialIInv, SerialInv
<1>4. ASSUME NEW s \in Sessions, NEW u \in Users, NEW t \in Tiers, BeginPay(s, u, t)
      PROVE  SerialIInv'
  BY <1>1, <1>4, BeginPaySerial
<1>5. ASSUME NEW s \in Sessions, Credit(s) \/ Bank(s)
      PROVE  SerialIInv'
  <2>1. PICK r \in Users : r = tx[s].cur
    BY <1>5 DEF Credit, Bank, SerialIInv, TypeInv, CurTyped
  <2>2. CASE Credit(s)
    BY <1>1, <2>1, <2>2, CreditSerial
  <2>3. CASE Bank(s)
    BY <1>1, <2>1, <2>3, BankSerial
  <2> QED
    BY <1>5, <2>2, <2>3
<1>6. ASSUME NEW s \in Sessions, BeginSweep(s) \/ FinishPay(s) \/ Look(s) \/ FinishSweep(s) \/ Abort(s)
      PROVE  SerialIInv'
  BY <1>1, <1>6, BeginSweepSerial, FinishPaySerial, LookSerial, FinishSweepSerial, AbortSerial
<1> QED
  BY <1>2, <1>3, <1>4, <1>5, <1>6 DEF Next, Continue

LEMMA SerialInit == Init => SerialIInv
<1> SUFFICES ASSUME Init PROVE SerialIInv
  OBVIOUS
<1>1. TypeInv
  BY TypeInit
<1>2. \A r \in Users : reward[r] = NoReward
  BY DEF Init
<1>3. FreeEnds /\ RewardsInv /\ BankedHaveNoPlan
  BY <1>2 DEF Init, FreeEnds, FreePlan, RewardsInv, Standing, BankedHaveNoPlan, NoReward
<1>4. ASSUME NEW s \in Sessions PROVE SessionInv(s)
  <2>1. tx[s] = NoTx /\ now = 1
    BY DEF Init
  <2>2. /\ NoTx.op = "idle" /\ NoTx.at = 0 /\ NoTx.left = {} /\ NoTx.sent = {}
        /\ NoTx.put = [u \in Users |-> None]
        /\ \A r \in Users : NoTx.rows[r] = NoReward /\ NoTx.new[r] = NoReward
    BY DEF NoTx
  <2>3. \A r \in Users : Untouched(s, r)
    BY <2>1, <2>2 DEF Untouched
  <2>4. RowsInv(s) /\ CurInv(s) /\ AtRest(s) /\ PayInv(s) /\ LookInv(s) /\ PutInv(s)
    BY <2>1, <2>2, <2>3 DEF RowsInv, CurInv, AtRest, PayInv, LookInv, PutInv, Sweeping
  <2>5. BankInv(s)
    BY <1>2, <2>1, <2>2 DEF BankInv, NoReward
  <2>6. ArrivedInv(s)
    <3> SUFFICES ASSUME NEW u \in Users
                 PROVE  \E arrived \in SUBSET Given(s, u) :
                          /\ VisiblePlan(s, u).ends = plan[u].ends + Total(arrived, NewDays(s))
                          /\ arrived # Given(s, u) => plan[u].ends <= now
      BY DEF ArrivedInv
    <3>1. Given(s, u) = {}
      BY <2>1, <2>2 DEF Given, Earned, NoReward
    <3>2. Total({}, NewDays(s)) = 0
      BY TotalNone
    <3>3. VisiblePlan(s, u).ends = plan[u].ends + 0
      BY <1>1, <2>1, <2>2 DEF VisiblePlan, TypeInv, TypeOK
    <3> QED
      BY <3>1, <3>2, <3>3
  <2>7. tx[s].at <= now
    BY <2>1, <2>2
  <2> QED
    BY <2>4, <2>5, <2>6, <2>7 DEF SessionInv
<1> QED
  BY <1>1, <1>3, <1>4 DEF SerialIInv, SerialInv

\* With sessions that do not overlap, nothing waits in the bank of a student
\* who has a plan: the pass credits whoever has one at that moment, the hook of
\* a payment releases the bank of whoever pays, and a plan that a pass is
\* extending is read by that pass as extended.
THEOREM SerialBankedHaveNoPlan ==
  ASSUME Serial
  PROVE  Spec => []BankedHaveNoPlan
<1>1. Init => SerialIInv
  BY SerialInit
<1>2. SerialIInv /\ [Next]_vars => SerialIInv'
  BY SerialStep
<1>3. SerialIInv => BankedHaveNoPlan
  BY DEF SerialIInv
<1> QED
  BY <1>1, <1>2, <1>3, PTL DEF Spec

-----------------------------------------------------------------------------
(* The rolling month.                                                      *)

\* What counts against the reward r at the moment it was granted.
Counted(r) ==
  {q \in Earned(ReferredBy[r]) :
    Standing(q) /\ reward[q].vest <= reward[r].vest
      /\ reward[q].made + Month > reward[r].vest - VestDays}

LEMMA CapIs == MonthlyCap <=> \A r \in Users : Standing(r) => Cardinality(Counted(r)) <= MaxPerMonth
  BY DEF MonthlyCap, Counted

\* A smaller set of rewards is still within the cap.
LEMMA FewerWithinCap ==
  ASSUME NEW A \in SUBSET Users, NEW B \in SUBSET A, Cardinality(A) <= MaxPerMonth
  PROVE  Cardinality(B) <= MaxPerMonth
<1>1. IsFiniteSet(A)
  BY RewardsAssumption, FS_Subset DEF RewardsAssumption
<1>2. IsFiniteSet(B) /\ Cardinality(B) <= Cardinality(A)
  BY <1>1, FS_Subset
<1>3. Cardinality(A) \in Nat /\ Cardinality(B) \in Nat /\ MaxPerMonth \in Nat
  BY <1>1, <1>2, FS_CardinalityType, RewardsAssumption DEF RewardsAssumption
<1> QED
  BY <1>2, <1>3

\* The cap holds of r after a step that leaves what stands as it was written,
\* but for rewards the month of r does not count.
LEMMA NothingNewCounts ==
  ASSUME MonthlyCap, NEW r \in Users, Standing(r),
         reward'[r].vest = reward[r].vest,
         \A q \in Users : q \in Counted(r)' =>
           Standing(q) /\ reward'[q].vest = reward[q].vest /\ reward'[q].made = reward[q].made
  PROVE  Cardinality(Counted(r)') <= MaxPerMonth
<1>1. Counted(r) \in SUBSET Users /\ Counted(r)' \in SUBSET Counted(r)
  BY DEF Counted, Earned
<1>2. Cardinality(Counted(r)) <= MaxPerMonth
  BY CapIs
<1> QED
  BY <1>1, <1>2, FewerWithinCap

LEMMA CapShrinks ==
  ASSUME MonthlyCap,
         \A q \in Users : Standing(q)' =>
           Standing(q) /\ reward'[q].vest = reward[q].vest /\ reward'[q].made = reward[q].made
  PROVE  MonthlyCap'
<1>1. ASSUME NEW r \in Users, Standing(r)'
      PROVE  Cardinality(Counted(r)') <= MaxPerMonth
  <2>1. \A q \in Users : q \in Counted(r)' => Standing(q)'
    BY DEF Counted
  <2> QED
    BY <1>1, <2>1, NothingNewCounts
<1>2. MonthlyCap' <=> \A r \in Users : Standing(r)' => Cardinality(Counted(r)') <= MaxPerMonth
  BY DEF MonthlyCap, Counted
<1> QED
  BY <1>1, <1>2

LEMMA SweepKeepsCap ==
  ASSUME SerialIInv, MonthlyCap, NEW s \in Sessions, FinishSweep(s)
  PROVE  MonthlyCap'
<1>1. TypeOK /\ TypeInv /\ SessionInv(s)
  BY DEF SerialIInv, TypeInv, SerialInv
<1>2. ASSUME NEW q \in Users, Standing(q)'
      PROVE  Standing(q) /\ reward'[q].vest = reward[q].vest /\ reward'[q].made = reward[q].made
  <2>1. reward'[q].vest = reward[q].vest /\ reward'[q].made = reward[q].made
    BY <1>1, CommittedRow
  <2>2. reward[q] \in RowType
    BY <1>1 DEF TypeOK
  <2>3. reward'[q] # [reward[q] EXCEPT !.status = "voided"]
    BY <1>2, <2>2 DEF Standing, RowType
  <2>4. reward'[q] = reward[q] \/ Moved(s, q)
    BY <1>1, <2>3, SweptRow
  <2> QED
    BY <1>2, <2>1, <2>4 DEF Standing, Moved
<1> QED
  BY <1>2, CapShrinks

LEMMA PayKeepsCap ==
  ASSUME SerialIInv, MonthlyCap, NEW s \in Sessions, FinishPay(s),
         NEW u, u = tx[s].who, NEW t, t = tx[s].tier
  PROVE  MonthlyCap'
<1>1. TypeOK /\ TypeInv /\ SessionInv(s)
  BY DEF SerialIInv, TypeInv, SerialInv
<1>2. PICK refused \in BOOLEAN : PayLeaves(u, t, refused, tx[s].at)
  BY <1>1, Paying
<1>3. u \in Users /\ t \in Tiers /\ tx[s].at \in Nat /\ tx[s].at <= now
  BY <1>1, Paying
<1>4. ASSUME NEW q \in Users, ~(q = u /\ Awarded(u)), Standing(q)'
      PROVE  Standing(q) /\ reward'[q].vest = reward[q].vest /\ reward'[q].made = reward[q].made
  BY <1>1, <1>2, <1>3, <1>4, PaidRow DEF Standing
<1>5. CASE ~Awarded(u) \/ refused
  <2>1. Awarded(u) => ~Standing(u)'
    <3> SUFFICES ASSUME Awarded(u) PROVE reward'[u].status = "voided"
      BY DEF Standing
    <3>1. refused
      BY <1>5
    <3>2. reward'[u] = Award(t, refused, tx[s].at)
      BY <1>2 DEF PayLeaves
    <3>3. reward'[u] = [NoReward EXCEPT !.status = "voided", !.made = tx[s].at]
      BY <3>1, <3>2 DEF Award
    <3> QED
      BY <3>3 DEF NoReward
  <2> QED
    BY <1>4, <2>1, CapShrinks
<1>6. CASE Awarded(u) /\ ~refused
  <2> DEFINE f == ReferredBy[u]
  <2>1. reward'[u].vest = now + VestDays /\ now \in Nat /\ VestDays \in Nat
    BY <1>1, <1>2, <1>3, <1>6, AwardIs, RewardsAssumption
       DEF PayLeaves, TypeOK, RewardsAssumption
  <2>2. ~Standing(u)
    BY <1>6 DEF Awarded, Standing
  <2>3. ~(Cardinality(Recent(f)) >= MaxPerMonth)
    BY <1>2, <1>6 DEF PayLeaves
  <2>4. Cardinality(Recent(f) \cup {u}) <= MaxPerMonth
    <3>1. IsFiniteSet(Recent(f))
      BY RewardsAssumption, FS_Subset DEF RewardsAssumption, Recent, Earned
    <3>2. Cardinality(Recent(f)) \in Nat /\ MaxPerMonth \in Nat
      BY <3>1, FS_CardinalityType, RewardsAssumption DEF RewardsAssumption
    <3>3. Cardinality(Recent(f) \cup {u}) =
            IF u \in Recent(f) THEN Cardinality(Recent(f)) ELSE Cardinality(Recent(f)) + 1
      BY <3>1, FS_AddElement
    <3> QED
      BY <2>3, <3>2, <3>3
  <2>5. ASSUME NEW r \in Users, ReferredBy[r] = f, reward'[r].vest = now + VestDays
        PROVE  Counted(r)' \in SUBSET (Recent(f) \cup {u})
    <3> SUFFICES ASSUME NEW q \in Counted(r)' PROVE q \in Recent(f) \cup {u}
      OBVIOUS
    <3>1. q \in Users /\ ReferredBy[q] = f
      BY <2>5 DEF Counted, Earned
    <3>2. Standing(q)'
      BY DEF Counted
    <3>3. reward'[q].made + Month > reward'[r].vest - VestDays
      BY DEF Counted
    <3>4. reward'[r].vest - VestDays = now
      BY <2>1, <2>5
    <3>5. q # u => Standing(q) /\ reward'[q].made = reward[q].made
      BY <1>4, <3>1, <3>2
    <3>6. q # u => reward[q].made + Month > now
      BY <3>3, <3>4, <3>5
    <3> QED
      BY <3>1, <3>5, <3>6 DEF Recent, Standing, Earned
  <2>6. ASSUME NEW r \in Users, Standing(r)'
        PROVE  Cardinality(Counted(r)') <= MaxPerMonth
    <3>1. CASE u \notin Counted(r)'
      <4>1. r # u => Standing(r) /\ reward'[r].vest = reward[r].vest
        BY <1>4, <2>6
      <4>2. \A q \in Users : q \in Counted(r)' =>
              Standing(q) /\ reward'[q].vest = reward[q].vest /\ reward'[q].made = reward[q].made
        BY <1>4, <3>1 DEF Counted
      <4>3. CASE r # u
        BY <4>1, <4>2, <4>3, NothingNewCounts
      <4>4. CASE r = u
        <5>1. Counted(r)' \in SUBSET (Recent(f) \cup {u})
          BY <2>1, <2>5, <4>4
        <5>2. Recent(f) \cup {u} \in SUBSET Users
          BY <1>3 DEF Recent, Earned
        <5> QED
          BY <2>4, <5>1, <5>2, FewerWithinCap
      <4> QED
        BY <4>3, <4>4
    <3>2. CASE u \in Counted(r)'
      <4>1. ReferredBy[r] = f /\ reward'[u].vest <= reward'[r].vest
        BY <3>2 DEF Counted, Earned
      <4>2. reward'[r].vest = now + VestDays
        <5>1. CASE r = u
          BY <2>1, <5>1
        <5>2. CASE r # u
          <6>1. reward'[r].vest = reward[r].vest /\ Standing(r)
            BY <1>4, <2>6, <5>2
          <6>2. reward[r].vest <= now + VestDays /\ reward[r].vest \in Nat
            BY <1>1, <6>1 DEF SerialIInv, SerialInv, RewardsInv, TypeOK, RowType
          <6> QED
            BY <2>1, <4>1, <6>1, <6>2
        <5> QED
          BY <5>1, <5>2
      <4>3. Counted(r)' \in SUBSET (Recent(f) \cup {u})
        BY <2>5, <4>1, <4>2
      <4>4. Recent(f) \cup {u} \in SUBSET Users
        BY <1>3 DEF Recent, Earned
      <4> QED
        BY <2>4, <4>3, <4>4, FewerWithinCap
    <3> QED
      BY <3>1, <3>2
  <2>7. MonthlyCap' <=> \A r \in Users : Standing(r)' => Cardinality(Counted(r)') <= MaxPerMonth
    BY DEF MonthlyCap, Counted
  <2> QED
    BY <2>6, <2>7
<1> QED
  BY <1>5, <1>6

\* With sessions that do not overlap, no referrer is granted more than
\* MaxPerMonth rewards in any month, counted back from each of them: the count
\* of _refusal is by the day a payment began and a reward is dated no later
\* than it is granted, so every reward counted here was counted there.
THEOREM SerialMonthlyCap ==
  ASSUME Serial
  PROVE  Spec => []MonthlyCap
<1>1. Init => SerialIInv /\ MonthlyCap
  <2>1. Init => MonthlyCap
    BY DEF Init, MonthlyCap, Standing, NoReward
  <2> QED
    BY <2>1, SerialInit
<1>2. SerialIInv /\ MonthlyCap /\ [Next]_vars => SerialIInv' /\ MonthlyCap'
  <2> SUFFICES ASSUME SerialIInv, MonthlyCap, [Next]_vars
               PROVE  MonthlyCap'
    BY SerialStep
  <2>1. ASSUME UNCHANGED reward PROVE MonthlyCap'
    BY <2>1, CapShrinks DEF Standing
  <2>2. ASSUME NEW s \in Sessions, FinishPay(s) PROVE MonthlyCap'
    BY <2>2, PayKeepsCap
  <2>3. ASSUME NEW s \in Sessions, FinishSweep(s) PROVE MonthlyCap'
    BY <2>3, SweepKeepsCap
  <2> QED
    BY <2>1, <2>2, <2>3
       DEF Next, vars, Tick, BeginPay, BeginSweep, Continue, Look, Credit, Bank, Abort
<1> QED
  BY <1>1, <1>2, PTL DEF Spec

-----------------------------------------------------------------------------
(* The ledger.                                                             *)

\* Rewards that a step credits to the one who earned them.
CreditedNow(u) == {r \in Earned(u) : reward[r].status # "credited" /\ reward'[r].status = "credited"}

\* The ledger's own counting is ours.
LEMMA LedgerCounts ==
  /\ \A u : Ledger!Credited(u) = CreditedNow(u)
  /\ \A R : Ledger!Worth(R) = Total(R, Days')
<1>1. ASSUME NEW u PROVE Ledger!Credited(u) = CreditedNow(u)
  BY DEF Ledger!Credited, Ledger!Earned, CreditedNow, Earned
<1>2. ASSUME NEW R PROVE Ledger!Worth(R) = Total(R, Days')
  BY DEF Ledger!Worth, Ledger!Total, Ledger!DaysOf, Ledger!Cardinality, Total, DaysOf, Cardinality
<1> QED
  BY <1>1, <1>2

\* A step that leaves a row, or ends its life in one of the ways there are.
RowMoves(r) ==
  /\ reward'[r].status \in Ledger!After(reward[r].status)
  /\ \/ reward[r].status = "none"
     \/ reward'[r].days = reward[r].days
     \/ /\ reward[r].status = "pending" /\ reward'[r].status = "banked"
        /\ reward'[r].days \in 1 .. reward[r].days

\* A plan that takes days other than by a purchase.
PlanRewarded(u) ==
  /\ reward'[u].status # "none" => reward[u].status # "none"
  /\ \A r \in CreditedNow(u) : reward[r].status = "pending"
  /\ \E arrived \in SUBSET CreditedNow(u) :
       /\ plan'[u] = [plan[u] EXCEPT !.ends = @ + Total(arrived, Days')]
       /\ arrived # CreditedNow(u) => plan[u].ends <= now

\* And one that is bought.
PlanBought(u, t) ==
  /\ plan'[u] = [tier |-> t,
                 ends |-> Base(plan[u], t) + PeriodOf[t]
                   + (IF reward[u].status = "none" /\ reward'[u].status = "pending"
                      THEN FriendDays ELSE 0)
                   + Total(CreditedNow(u), Days')]
  /\ \A r \in Earned(u) : reward'[r].status = "banked" => reward[r].status = "pending"

LEMMA BookIs ==
  ASSUME now' = now,
         \A r \in Users : RowMoves(r),
         \A u \in Users : PlanRewarded(u) \/ \E t \in Tiers : PlanBought(u, t)
  PROVE  Ledger!Book
<1> DEFINE status == [r \in Users |-> reward[r].status]
<1>1. \A r \in Users : /\ status[r] = reward[r].status /\ status'[r] = reward'[r].status
                       /\ Days[r] = reward[r].days /\ Days'[r] = reward'[r].days
  BY DEF Days
<1>2. ASSUME NEW r \in Users
      PROVE  status'[r] \in Ledger!After(status[r]) /\ Ledger!KeepsWorth(r)
  <2>1. status'[r] \in Ledger!After(status[r])
    BY <1>1 DEF RowMoves
  <2>2. Ledger!KeepsWorth(r)
    BY <1>1 DEF RowMoves, Ledger!KeepsWorth
  <2> QED
    BY <2>1, <2>2
<1>3. ASSUME NEW u \in Users, PlanRewarded(u)
      PROVE  Ledger!Rewarded(u)
  <2>1. status'[u] # "none" => status[u] # "none"
    BY <1>1, <1>3 DEF PlanRewarded
  <2>2. \A r \in Ledger!Credited(u) : status[r] = "pending"
    BY <1>1, <1>3, LedgerCounts DEF PlanRewarded, CreditedNow, Earned
  <2>3. \E arrived \in SUBSET Ledger!Credited(u) :
          /\ plan'[u] = [plan[u] EXCEPT !.ends = @ + Ledger!Worth(arrived)]
          /\ arrived # Ledger!Credited(u) => plan[u].ends <= now
    BY <1>3, LedgerCounts DEF PlanRewarded
  <2> QED
    BY <2>1, <2>2, <2>3 DEF Ledger!Rewarded
<1>4. ASSUME NEW u \in Users, NEW t \in Tiers, PlanBought(u, t)
      PROVE  Ledger!Bought(u, t)
  <2>1. Ledger!Worth(Ledger!Credited(u)) = Total(CreditedNow(u), Days')
    BY LedgerCounts
  <2>2. \A r \in Ledger!Earned(u) : status'[r] = "banked" => status[r] = "pending"
    BY <1>1, <1>4 DEF PlanBought, Ledger!Earned, Earned
  <2>3. plan'[u] =
          [tier |-> t,
           ends |-> (IF plan[u].tier = t /\ plan[u].ends > now THEN plan[u].ends ELSE now)
             + PeriodOf[t]
             + (IF status[u] = "none" /\ status'[u] = "pending" THEN FriendDays ELSE 0)
             + Ledger!Worth(Ledger!Credited(u))]
    BY <1>1, <1>4, <2>1 DEF PlanBought, Base
  <2> QED
    BY <2>2, <2>3 DEF Ledger!Bought
<1> QED
  BY <1>2, <1>3, <1>4 DEF Ledger!Book

\* The life of a reward, step by step.
LEMMA AfterIs ==
  /\ Ledger!After("none") = {"none", "pending", "voided"}
  /\ Ledger!After("pending") = {"pending", "banked", "credited", "voided"}
  /\ Ledger!After("banked") = {"banked", "credited", "voided"}
  /\ Ledger!After("credited") = {"credited"}
  /\ Ledger!After("voided") = {"voided"}
  BY DEF Ledger!After

LEMMA SameStatus ==
  ASSUME TypeOK, NEW r \in Users
  PROVE  reward[r].status \in Ledger!After(reward[r].status)
<1>1. reward[r].status \in {"none", "pending", "banked", "credited", "voided"}
  BY DEF TypeOK, RowType
<1> QED
  BY <1>1, AfterIs

LEMMA PayIsBook ==
  ASSUME SerialIInv, TypeInv', NEW s \in Sessions, FinishPay(s),
         NEW u, u = tx[s].who, NEW t, t = tx[s].tier
  PROVE  Ledger!Book
<1>1. TypeOK /\ TypeInv /\ SessionInv(s) /\ TypeOK'
  BY DEF SerialIInv, TypeInv, SerialInv
<1>2. PICK refused \in BOOLEAN : PayLeaves(u, t, refused, tx[s].at)
  BY <1>1, Paying
<1>3. u \in Users /\ t \in Tiers /\ tx[s].at \in Nat
  BY <1>1, Paying
<1>4. now' = now
  BY DEF FinishPay
<1>5. Awarded(u) => reward'[u].status = IF refused THEN "voided" ELSE "pending"
  BY <1>2 DEF PayLeaves, Award, NoReward
<1>6. ASSUME NEW r \in Users PROVE RowMoves(r)
  <2>1. CASE r = u /\ Awarded(u)
    <3>1. reward[r].status = "none" /\ reward'[r].status \in {"voided", "pending"}
      BY <1>5, <2>1 DEF Awarded
    <3> QED
      BY <3>1, AfterIs DEF RowMoves
  <2>2. CASE ~(r = u /\ Awarded(u))
    <3>1. /\ reward'[r].days = reward[r].days
          /\ \/ reward'[r].status = reward[r].status
             \/ reward[r].status = "banked" /\ reward'[r].status \in {"credited", "voided"}
      BY <1>1, <1>2, <1>3, <2>2, PaidRow
    <3> QED
      BY <1>1, <3>1, AfterIs, SameStatus DEF RowMoves
  <2> QED
    BY <2>1, <2>2
<1>7. \A w \in Users : CreditedNow(w) = IF w = u THEN Released(u) ELSE {}
  <2> SUFFICES ASSUME NEW w \in Users, NEW r \in Users
               PROVE  r \in CreditedNow(w) <=> w = u /\ r \in Released(u)
    BY DEF CreditedNow, Earned, Released, InBank
  <2>1. CASE r = u /\ Awarded(u)
    <3>1. reward'[r].status # "credited" /\ r \notin Released(u)
      BY <1>3, <1>5, <2>1, NotOwn
    <3> QED
      BY <3>1 DEF CreditedNow
  <2>2. CASE ~(r = u /\ Awarded(u))
    <3>1. r \in Released(u) => ReferredBy[r] = u
      BY DEF Released, InBank, Earned
    <3>2. reward[r].status # "credited" /\ reward'[r].status = "credited" <=> r \in Released(u)
      BY <1>1, <1>2, <1>3, <2>2, PaidRow
    <3> QED
      BY <3>1, <3>2 DEF CreditedNow, Earned
  <2> QED
    BY <2>1, <2>2
<1>8. PlanBought(u, t)
  <2>1. \A r \in Released(u) : Days'[r] = Days[r]
    <3> SUFFICES ASSUME NEW r \in Released(u) PROVE Days'[r] = Days[r]
      OBVIOUS
    <3>1. r \in Users /\ r # u
      BY <1>3, NotOwn DEF Released, InBank, Earned
    <3>2. reward'[r].days = reward[r].days
      BY <1>1, <1>2, <1>3, <3>1, PaidRow
    <3> QED
      BY <3>1, <3>2 DEF Days
  <2>2. Total(CreditedNow(u), Days') = Total(Released(u), Days)
    BY <1>3, <1>7, <2>1, TotalSame
  <2>3. Awarded(u) /\ ~refused <=> reward[u].status = "none" /\ reward'[u].status = "pending"
    <3>1. CASE Awarded(u)
      BY <1>5, <3>1 DEF Awarded
    <3>2. CASE ~Awarded(u)
      <4>1. \/ reward'[u].status = reward[u].status
            \/ reward[u].status = "banked"
        BY <1>1, <1>2, <1>3, <3>2, PaidRow
      <4> QED
        BY <3>2, <4>1
    <3> QED
      BY <3>1, <3>2
  <2>4. plan'[u] = [tier |-> t,
                    ends |-> Base(plan[u], t) + PeriodOf[t]
                      + (IF Awarded(u) /\ ~refused THEN FriendDays ELSE 0)
                      + Total(Released(u), Days)]
    BY <1>1, <1>2, <1>3 DEF PayLeaves, TypeOK
  <2>5. (IF Awarded(u) /\ ~refused THEN FriendDays ELSE 0)
          = (IF reward[u].status = "none" /\ reward'[u].status = "pending" THEN FriendDays ELSE 0)
    BY <2>3
  <2>6. ASSUME NEW r \in Earned(u), reward'[r].status = "banked" PROVE reward[r].status = "pending"
    <3>1. r \in Users /\ r # u
      BY RewardsAssumption DEF Earned, RewardsAssumption
    <3>2. r \notin Released(u) /\ r \notin Expired(u) /\ reward[r].status = "banked"
      BY <1>1, <1>2, <1>3, <2>6, <3>1, PaidRow
    <3> QED
      BY <1>1, <3>1, <3>2, BankSplits DEF InBank
  <2> QED
    BY <2>2, <2>4, <2>5, <2>6 DEF PlanBought
<1>9. ASSUME NEW w \in Users, w # u PROVE PlanRewarded(w)
  <2>1. reward'[w].status # "none" => reward[w].status # "none"
    BY <1>1, <1>2, <1>3, <1>9, PaidRow
  <2>2. CreditedNow(w) = {}
    BY <1>7, <1>9
  <2>3. plan'[w] = plan[w] /\ plan[w] \in [tier : Tiers \cup {"free"}, ends : Nat]
    BY <1>1, <1>2, <1>3, <1>9 DEF PayLeaves, TypeOK
  <2>4. Total({}, Days') = 0
    BY TotalNone
  <2>5. [plan[w] EXCEPT !.ends = @ + 0] = plan[w]
    BY <2>3
  <2>6. plan'[w] = [plan[w] EXCEPT !.ends = @ + Total({}, Days')]
    BY <2>3, <2>4, <2>5
  <2> QED
    BY <2>1, <2>2, <2>6 DEF PlanRewarded
<1> QED
  BY <1>3, <1>4, <1>6, <1>8, <1>9, BookIs

LEMMA SweepIsBook ==
  ASSUME SerialIInv, TypeInv', NEW s \in Sessions, FinishSweep(s)
  PROVE  Ledger!Book
<1>1. TypeOK /\ TypeInv /\ SessionInv(s) /\ TypeOK'
  BY DEF SerialIInv, TypeInv, SerialInv
<1>2. now' = now /\ \A u \in Users : plan'[u] = VisiblePlan(s, u)
  BY DEF FinishSweep
<1>3. ASSUME NEW r \in Users
      PROVE  /\ RowMoves(r)
             /\ reward'[r].status # "none" => reward[r].status # "none"
             /\ reward[r].status # "credited" /\ reward'[r].status = "credited"
                  <=> tx[s].new[r].status = "credited"
             /\ tx[s].new[r].status = "credited" =>
                  reward'[r].days = tx[s].new[r].days /\ reward[r].status = "pending"
  <2>1. CASE reward'[r] = reward[r] /\ tx[s].new[r].status \in {"none", "pending"}
    BY <1>1, <2>1, SameStatus DEF RowMoves
  <2>2. CASE /\ reward[r].status = "banked" /\ tx[s].new[r].status = "none"
             /\ reward'[r] = [reward[r] EXCEPT !.status = "voided"]
    <3>1. reward'[r].status = "voided" /\ reward'[r].days = reward[r].days
      BY <1>1, <2>2 DEF TypeOK, RowType
    <3> QED
      BY <2>2, <3>1, AfterIs DEF RowMoves
  <2>3. CASE Moved(s, r) /\ reward'[r] = tx[s].new[r]
    <3>1. /\ reward[r].status = "pending"
          /\ \/ reward'[r].status \in {"credited", "voided"} /\ reward'[r].days = reward[r].days
             \/ reward'[r].status = "banked" /\ reward'[r].days \in 1 .. reward[r].days
      BY <2>3 DEF Moved
    <3> QED
      BY <2>3, <3>1, AfterIs DEF RowMoves
  <2> QED
    BY <1>1, <2>1, <2>2, <2>3, SweptRow
<1>4. ASSUME NEW u \in Users PROVE PlanRewarded(u)
  <2>1. CreditedNow(u) = Given(s, u)
    BY <1>3 DEF CreditedNow, Given, Earned
  <2>2. PICK arrived \in SUBSET Given(s, u) :
          /\ VisiblePlan(s, u).ends = plan[u].ends + Total(arrived, NewDays(s))
          /\ arrived # Given(s, u) => plan[u].ends <= now
    BY <1>1 DEF SessionInv, ArrivedInv
  <2>3. \A r \in arrived : Days'[r] = NewDays(s)[r]
    BY <1>3 DEF Given, Earned, Days, NewDays
  <2>4. Total(arrived, Days') = Total(arrived, NewDays(s))
    BY <2>3, TotalSame
  <2>5. plan'[u] = [plan[u] EXCEPT !.ends = @ + Total(arrived, Days')]
    <3>1. /\ plan'[u] \in [tier : Tiers \cup {"free"}, ends : Nat]
          /\ plan[u] \in [tier : Tiers \cup {"free"}, ends : Nat]
          /\ plan'[u].tier = plan[u].tier
          /\ plan'[u].ends = plan[u].ends + Total(arrived, Days')
      BY <1>1, <1>2, <2>2, <2>4, VisiblePlanType DEF TypeOK
    <3> QED
      BY <3>1
  <2>6. \A r \in CreditedNow(u) : reward[r].status = "pending"
    BY <1>3, <2>1 DEF Given, Earned
  <2> QED
    BY <1>3, <2>1, <2>2, <2>5, <2>6 DEF PlanRewarded
<1> QED
  BY <1>2, <1>3, <1>4, BookIs

LEMMA LedgerStep ==
  ASSUME SerialIInv, TypeInv', [Next]_vars
  PROVE  [Ledger!Book \/ Ledger!Tick]_<<now, plan, [r \in Users |-> reward[r].status], Days>>
<1>1. CASE Tick
  BY <1>1 DEF Tick, Ledger!Tick, Days
<1>2. ASSUME UNCHANGED <<now, plan, reward>>
      PROVE  UNCHANGED <<now, plan, [r \in Users |-> reward[r].status], Days>>
  BY <1>2 DEF Days
<1>3. ASSUME NEW s \in Sessions, FinishPay(s) PROVE Ledger!Book
  BY <1>3, PayIsBook
<1>4. ASSUME NEW s \in Sessions, FinishSweep(s) PROVE Ledger!Book
  BY <1>4, SweepIsBook
<1>5. CASE UNCHANGED vars
  BY <1>2, <1>5 DEF vars
<1>6. ASSUME NEW s \in Sessions,
             \/ \E u \in Users : \E t \in Tiers : BeginPay(s, u, t)
             \/ BeginSweep(s) \/ Look(s) \/ Credit(s) \/ Bank(s) \/ Abort(s)
      PROVE  UNCHANGED <<now, plan, reward>>
  BY <1>6 DEF BeginPay, BeginSweep, Look, Credit, Bank, Abort
<1> QED
  BY <1>1, <1>2, <1>3, <1>4, <1>5, <1>6 DEF Next, Continue

\* With sessions that do not overlap, the programme keeps the ledger's
\* promise: every commit moves plans by exactly what was bought and by the
\* days of the rewards credited with it, each reward is credited once, and one
\* that waited in the bank is credited by the purchase it waited for.
THEOREM SerialImplementsLedger ==
  ASSUME Serial
  PROVE  Spec => ImplementsLedger
<1>1. Init => SerialIInv /\ TypeInv
  BY SerialInit, TypeInit
<1>2. SerialIInv /\ TypeInv /\ [Next]_vars => SerialIInv' /\ TypeInv'
  BY SerialStep, TypeStep
<1>3. Init => Ledger!Init
  BY DEF Init, Ledger!Init, FreePlan, NoReward, Days
<1>4. SerialIInv /\ TypeInv' /\ [Next]_vars
        => [Ledger!Book \/ Ledger!Tick]_<<now, plan, [r \in Users |-> reward[r].status], Days>>
  BY LedgerStep
<1> QED
  BY <1>1, <1>2, <1>3, <1>4, PTL DEF Spec, ImplementsLedger, Ledger!Spec
=============================================================================
