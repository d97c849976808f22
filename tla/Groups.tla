------------------------------- MODULE Groups -------------------------------
(***************************************************************************)
(* Who is on which plan until when: a student's own subscription, the      *)
(* Friends groups that hand out seats, and the console's changes to both.  *)
(*                                                                         *)
(* A handler is two steps.  It first reads everything it decides on, with  *)
(* plain selects; then it takes its first row lock and from there writes   *)
(* and commits.  What other sessions committed between the two it does     *)
(* not see in the rows it had loaded, and of those rows it writes only the *)
(* columns it changed.  A payment that renews a group is three: it counts  *)
(* the seats with the payer's row locked, and writes the count later.      *)
(*                                                                         *)
(* Tiers are told apart by what they do here: no plan, a plan for one, a   *)
(* plan with seats.  An end of 0 stands for a plan that never had one.     *)
(***************************************************************************)
EXTENDS Naturals, FiniteSets

CONSTANTS
  Users,
  Groups,      \* identities a group may be created under
  Sessions,    \* requests in flight at once
  Operations,  \* the handlers in play
  Plans,       \* the tiers on sale
  Seats,       \* seats a Friends plan has, its owner's included
  Period,      \* what a payment adds to a plan
  Bonus,       \* what an earned reward adds to a plan that runs
  MaxTime,     \* bound on the clock
  Horizon,     \* bound: a plan that ends later than this gets nothing more
  MaxJoins,    \* bound on seats ever taken
  None

AllOperations == {"pay", "open", "join", "remove", "grant", "revoke", "reward"}
Paid == {"solo", "friends"}
Tiers == Paid \cup {"free"}

ASSUME GroupsAssumption ==
  /\ IsFiniteSet(Users)
  /\ IsFiniteSet(Sessions) /\ Sessions # {}
  /\ Operations \subseteq AllOperations
  /\ Plans \subseteq Paid
  /\ {Seats, Period, Bonus, MaxTime, Horizon, MaxJoins} \subseteq Nat
  /\ Seats > 1
  /\ None \notin Users \cup Groups

VARIABLES
  now,
  sub,     \* a user's subscription row: tier, end, and the group it came from
  grp,     \* a group's row, owned by None before it is created
  seat,    \* the seat rows: which one a user has in a group, 0 for none
  joins,   \* seats ever taken, the next one's key
  due,     \* until when a user's own plan was bought or granted (history)
  extra,   \* reward days a seat has on top of its group's date (history)
  raced,   \* seats of a group taken while another join was on its way (history)
  tx       \* the open sessions

vars == <<now, sub, grp, seat, joins, due, extra, raced, tx>>

FreePlan == [tier |-> "free", ends |-> 0, verified |-> TRUE, group |-> None]

NoGroup == [owner |-> None, seats |-> 0, ends |-> 0]

\* What a session has in hand: whom and what it is about, the subscription and
\* the group as it loaded them, the plan it is writing, the seats it counted and
\* the seat row it is to delete.
NoTx == [op |-> "idle", who |-> None, tier |-> "free", group |-> None,
         saw |-> FreePlan, old |-> NoGroup, want |-> FreePlan, seats |-> 0, row |-> 0]

\* Accounts start on Free, which has no end.
Init ==
  /\ now = 1
  /\ sub = [u \in Users |-> FreePlan]
  /\ grp = [g \in Groups |-> NoGroup]
  /\ seat = [g \in Groups |-> [u \in Users |-> 0]]
  /\ joins = 0
  /\ due = [u \in Users |-> 0]
  /\ extra = [u \in Users |-> 0]
  /\ raced = [g \in Groups |-> 0]
  /\ tx = [s \in Sessions |-> NoTx]

-----------------------------------------------------------------------------
Live(ends) == ends > now

\* What a subscription is worth now: a plan that lapsed or was never confirmed
\* is worth the Free floor.
Effective(r) == IF Live(r.ends) /\ r.verified THEN r.tier ELSE "free"

Serves(r) == Effective(r) # "free"

OwnedBy(u) == {g \in Groups : grp[g].owner = u}
Unused == {g \in Groups : grp[g].owner = None}
Taken(g) == {u \in Users : seat[g][u] # 0}

\* A row loaded as `saw` and changed to `want` writes the columns that differ
\* between the two over whatever the row holds by then.
Column(saw, want, cur) == IF want = saw THEN cur ELSE want

Merged(saw, want, cur) ==
  [tier     |-> Column(saw.tier, want.tier, cur.tier),
   ends     |-> Column(saw.ends, want.ends, cur.ends),
   verified |-> Column(saw.verified, want.verified, cur.verified),
   group    |-> Column(saw.group, want.group, cur.group)]

Idle(s) == tx[s].op = "idle"
Begin(s, r) == tx' = [tx EXCEPT ![s] = r]
End(s) == tx' = [tx EXCEPT ![s] = NoTx]
World == <<now, sub, grp, seat, joins, due, extra, raced>>

\* A payment that is renewing a group has written its payer's subscription and
\* not committed: whoever else writes that row waits.
Unheld(s, u) == \A o \in Sessions \ {s} : tx[o].op = "renew" => tx[o].who # u

Tick ==
  /\ now < MaxTime
  /\ now' = now + 1
  /\ UNCHANGED <<sub, grp, seat, joins, due, extra, raced, tx>>

\* A handler that raises, whose process dies, or that the database picks to break
\* a deadlock, writes nothing.
Abort(s) ==
  /\ ~Idle(s)
  /\ End(s)
  /\ UNCHANGED World

(***************************************************************************)
(* Renewing: activate, and the console's grant, which follows its rule.    *)
(***************************************************************************)

\* The tier already held is extended, any other starts a fresh period, and
\* either way the plan is the account's own.
RenewedFrom(base, t) ==
  [tier |-> t, ends |-> base + Period, verified |-> TRUE, group |-> None]

Renewed(r, t) ==
  RenewedFrom(IF r.tier = t /\ Live(r.ends) THEN r.ends ELSE now, t)

\* Mutant of WithSeats: a renewal moves the group and leaves its seats behind.
WithSeatsLeftBehind(subs, g, ends) == subs

\* Everyone whose subscription came from the group follows it.
WithSeats(subs, g, ends) ==
  [v \in Users |-> IF subs[v].group = g
                   THEN [tier |-> "friends", ends |-> ends, verified |-> TRUE, group |-> g]
                   ELSE subs[v]]

NewGroup(u, g) ==
  /\ grp' = [grp EXCEPT ![g] = [owner |-> u, seats |-> Seats, ends |-> now + Period]]
  /\ seat' = [seat EXCEPT ![g] = [@ EXCEPT ![u] = joins + 1]]
  /\ joins' = joins + 1

\* Never fewer seats than are taken.
SeatsFor(g) == IF Cardinality(Taken(g)) > Seats THEN Cardinality(Taken(g)) ELSE Seats

\* The group as it was loaded gets a date and a number of seats.
Redated(g, old, ends, seats) ==
  grp' = [grp EXCEPT ![g].seats = Column(old.seats, seats, @),
                     ![g].ends = Column(old.ends, ends, @)]

\* One update of every subscription that came from the group, which waits for
\* the rows others hold.
SeatsRedated(s, subs, g, ends) ==
  /\ \A v \in Users : subs[v].group = g => Unheld(s, v)
  /\ sub' = WithSeats(subs, g, ends)
  /\ extra' = [v \in Users |-> IF subs[v].group = g THEN 0 ELSE extra[v]]

\* extend_plan: days on a plan that runs, and nothing on one that does not.
Extended(r, days) == [r EXCEPT !.ends = IF Live(@) THEN @ + days ELSE @]

BeginPay(s, u, t) ==
  /\ Idle(s) /\ "pay" \in Operations
  /\ sub[u].ends <= Horizon
  /\ Begin(s, [NoTx EXCEPT !.op = "pay", !.who = u, !.tier = t, !.saw = sub[u]])
  /\ UNCHANGED World

\* What a payment leaves of the payer's row: the plan `want` written over what
\* was loaded, and then the referral days it earned, if any.
Bought(r, want, days, cur) == Merged(want, Extended(want, days), Merged(r, want, cur))

\* apply_payment: the plan, a group for it if it has seats and the payer has none
\* yet, open for a period from now, and the referral hook.
FinishPay(s) ==
  LET u == tx[s].who
      want == Renewed(tx[s].saw, tx[s].tier)
  IN
  /\ tx[s].op = "pay"
  /\ Unheld(s, u)
  /\ \E days \in {0, Bonus} :
       sub' = [sub EXCEPT ![u] = Bought(tx[s].saw, want, days, @)]
  /\ due' = [due EXCEPT ![u] = sub'[u].ends]
  /\ \/ /\ tx[s].tier = "solo"
        /\ UNCHANGED <<grp, seat, joins>>
     \/ /\ tx[s].tier = "friends" /\ OwnedBy(u) = {}
        /\ joins < MaxJoins
        /\ \E g \in Unused : NewGroup(u, g)
  /\ End(s)
  /\ UNCHANGED <<now, extra, raced>>

\* A group there is, is renewed: the plan is written and its row stays locked, the
\* group is loaded and its seats are counted.
Activate(s) ==
  LET u == tx[s].who IN
  /\ tx[s].op = "pay" /\ tx[s].tier = "friends"
  /\ Unheld(s, u)
  /\ \E g \in OwnedBy(u) :
       Begin(s, [tx[s] EXCEPT !.op = "renew", !.want = Renewed(tx[s].saw, "friends"),
                              !.group = g, !.old = grp[g], !.seats = SeatsFor(g)])
  /\ UNCHANGED World

\* Everyone in the group follows the payer's plan to its new end, the group gets
\* the seats that were counted, and then comes the hook.
Renew(s) ==
  LET u == tx[s].who
      want == tx[s].want
  IN
  /\ tx[s].op = "renew"
  /\ \E days \in {0, Bonus} :
       SeatsRedated(s, [sub EXCEPT ![u] = Bought(tx[s].saw, want, days, @)],
                    tx[s].group, want.ends)
  /\ Redated(tx[s].group, tx[s].old, want.ends, tx[s].seats)
  /\ due' = [due EXCEPT ![u] = sub'[u].ends]
  /\ End(s)
  /\ UNCHANGED <<now, seat, joins, raced>>

(***************************************************************************)
(* Reward days that fall due: referrals.sweep credits whoever has a plan.  *)
(***************************************************************************)
BeginReward(s, u) ==
  /\ Idle(s) /\ "reward" \in Operations
  /\ Serves(sub[u]) /\ sub[u].ends <= Horizon
  /\ Begin(s, [NoTx EXCEPT !.op = "reward", !.who = u, !.saw = sub[u]])
  /\ UNCHANGED World

FinishReward(s) ==
  LET u == tx[s].who
      saw == tx[s].saw
      more == Extended(saw, Bonus)
  IN
  /\ tx[s].op = "reward"
  /\ Unheld(s, u)
  /\ sub' = [sub EXCEPT ![u] = Merged(saw, more, @)]
  /\ IF saw.group = None
     THEN due' = [due EXCEPT ![u] = sub'[u].ends] /\ UNCHANGED extra
     ELSE extra' = [extra EXCEPT ![u] = @ + (more.ends - saw.ends)] /\ UNCHANGED due
  /\ End(s)
  /\ UNCHANGED <<now, grp, seat, joins, raced>>

(***************************************************************************)
(* POST /group: allowed to whoever is on a plan with seats.                *)
(***************************************************************************)
BeginOpen(s, u) ==
  /\ Idle(s) /\ "open" \in Operations
  /\ Effective(sub[u]) = "friends"
  /\ \/ /\ OwnedBy(u) = {}
        /\ Begin(s, [NoTx EXCEPT !.op = "open", !.who = u, !.saw = sub[u]])
     \/ \E g \in OwnedBy(u) :
          Begin(s, [NoTx EXCEPT !.op = "open", !.who = u, !.saw = sub[u], !.group = g,
                                !.old = grp[g], !.seats = SeatsFor(g)])
  /\ UNCHANGED World

FinishOpen(s) ==
  LET g == tx[s].group
      end == tx[s].saw.ends
  IN
  /\ tx[s].op = "open"
  /\ \/ /\ g = None
        /\ joins < MaxJoins
        /\ \E h \in Unused : NewGroup(tx[s].who, h)
        /\ UNCHANGED <<sub, extra>>
     \/ /\ g # None
        /\ Redated(g, tx[s].old, end, tx[s].seats)
        /\ SeatsRedated(s, sub, g, end)
        /\ UNCHANGED <<seat, joins>>
  /\ End(s)
  /\ UNCHANGED <<now, due, raced>>

(***************************************************************************)
(* POST /group/join.  An expired group, a full one and a member who taps   *)
(* the link again are answered without a write.                            *)
(***************************************************************************)

\* Mutant of HasRoom: the owner's own seat is not counted.
HasRoomForOneMore(g) == Cardinality(Taken(g)) <= grp[g].seats

HasRoom(g) == Cardinality(Taken(g)) < grp[g].seats

BeginJoin(s, u, g) ==
  /\ Idle(s) /\ "join" \in Operations
  /\ grp[g].owner # None
  /\ Live(grp[g].ends)
  /\ seat[g][u] = 0
  /\ HasRoom(g)
  /\ joins < MaxJoins
  /\ Begin(s, [NoTx EXCEPT !.op = "join", !.who = u, !.group = g, !.saw = sub[u],
                            !.old = grp[g]])
  /\ UNCHANGED World

\* Mutant of OwnPlanLive: a seat replaces whatever plan there was.
OwnPlanNever(r) == FALSE

OwnPlanLive(r) == r.group = None /\ Serves(r)

Joining(g) == {s \in Sessions : tx[s].op = "join" /\ tx[s].group = g}

\* The unique (group, user) key refuses a second row, and the handler raises.
\* The subscription is read after the group, so it may be fresher.
FinishJoin(s) ==
  LET u == tx[s].who
      g == tx[s].group
      want == [tier |-> "friends", ends |-> tx[s].old.ends, verified |-> TRUE, group |-> g]
  IN
  /\ tx[s].op = "join"
  /\ seat[g][u] = 0
  /\ joins < MaxJoins
  /\ seat' = [seat EXCEPT ![g] = [@ EXCEPT ![u] = joins + 1]]
  /\ joins' = joins + 1
  /\ \E saw \in {tx[s].saw, sub[u]} :
       IF OwnPlanLive(saw)
       THEN UNCHANGED <<sub, extra>>
       ELSE /\ Unheld(s, u)
            /\ sub' = [sub EXCEPT ![u] = Merged(saw, want, @)]
            /\ extra' = [extra EXCEPT ![u] = 0]
  /\ raced' = [raced EXCEPT ![g] = IF Joining(g) = {s} THEN @ ELSE @ + 1]
  /\ End(s)
  /\ UNCHANGED <<now, grp, due>>

(***************************************************************************)
(* DELETE /group/members: the owner frees a seat, not their own.           *)
(***************************************************************************)
BeginRemove(s, g, m) ==
  /\ Idle(s) /\ "remove" \in Operations
  /\ grp[g].owner \notin {None, m}
  /\ seat[g][m] # 0
  /\ Begin(s, [NoTx EXCEPT !.op = "remove", !.who = m, !.group = g, !.saw = sub[m],
                            !.row = seat[g][m]])
  /\ UNCHANGED World

\* Mutant of Removed: the seat goes and the entitlement stays.
RemovedKeepsPlan(r) == r

Removed(r) == [tier |-> "free", ends |-> now, verified |-> r.verified, group |-> None]

\* The row that was loaded is deleted by its key; the entitlement goes with
\* it if it came from this group.  Here too the subscription is read later.
FinishRemove(s) ==
  LET m == tx[s].who
      g == tx[s].group
  IN
  /\ tx[s].op = "remove"
  /\ seat' = IF seat[g][m] = tx[s].row
             THEN [seat EXCEPT ![g] = [@ EXCEPT ![m] = 0]]
             ELSE seat
  /\ \E saw \in {tx[s].saw, sub[m]} :
       IF saw.group = g
       THEN Unheld(s, m) /\ sub' = [sub EXCEPT ![m] = Merged(saw, Removed(saw), @)]
       ELSE UNCHANGED sub
  /\ End(s)
  /\ UNCHANGED <<now, grp, joins, due, extra, raced>>

(***************************************************************************)
(* The console: a plan granted without a payment, or ended now.            *)
(***************************************************************************)
BeginGrant(s, u, t) ==
  /\ Idle(s) /\ "grant" \in Operations
  /\ sub[u].ends <= Horizon
  /\ Begin(s, [NoTx EXCEPT !.op = "grant", !.who = u, !.tier = t, !.saw = sub[u]])
  /\ UNCHANGED World

\* Granting Free is how a plan is taken away; any other tier is extended like
\* a renewal or, if the console says so, started over.
Granted(r, t, extend) ==
  IF t = "free"
  THEN [tier |-> t, ends |-> now, verified |-> FALSE, group |-> None]
  ELSE IF extend THEN Renewed(r, t) ELSE RenewedFrom(now, t)

FinishGrant(s) ==
  LET u == tx[s].who
      saw == tx[s].saw
  IN
  /\ tx[s].op = "grant"
  /\ Unheld(s, u)
  /\ \E extend \in BOOLEAN :
       sub' = [sub EXCEPT ![u] = Merged(saw, Granted(saw, tx[s].tier, extend), @)]
  /\ due' = [due EXCEPT ![u] = sub'[u].ends]
  /\ End(s)
  /\ UNCHANGED <<now, grp, seat, joins, extra, raced>>

\* revoke_subscription writes constants, so when it read the row is no matter.
Revoke(s, u) ==
  /\ Idle(s) /\ "revoke" \in Operations
  /\ Unheld(s, u)
  /\ sub' = [sub EXCEPT ![u] = [@ EXCEPT !.ends = now, !.verified = FALSE]]
  /\ due' = [due EXCEPT ![u] = now]
  /\ UNCHANGED <<now, grp, seat, joins, extra, raced, tx>>

-----------------------------------------------------------------------------
Arrive(s) ==
  \/ \E u \in Users :
       \/ \E t \in Plans : BeginPay(s, u, t)
       \/ BeginOpen(s, u) \/ BeginReward(s, u)
       \/ \E t \in Tiers : BeginGrant(s, u, t)
       \/ \E g \in Groups : BeginJoin(s, u, g) \/ BeginRemove(s, g, u)
       \/ Revoke(s, u)

Finish(s) ==
  \/ FinishPay(s) \/ Renew(s) \/ FinishReward(s)
  \/ FinishOpen(s) \/ FinishJoin(s) \/ FinishRemove(s) \/ FinishGrant(s)

Next ==
  \/ Tick
  \/ \E s \in Sessions : Arrive(s) \/ Activate(s) \/ Finish(s) \/ Abort(s)

Spec == Init /\ [][Next]_vars

-----------------------------------------------------------------------------
SubRow == [tier : Tiers, ends : Nat, verified : BOOLEAN, group : Groups \cup {None}]

GrpRow == [owner : Users \cup {None}, seats : Nat, ends : Nat]

TxType ==
  [op    : {"idle", "pay", "renew", "reward", "open", "join", "remove", "grant"},
   who   : Users \cup {None},
   tier  : Tiers,
   group : Groups \cup {None},
   saw   : SubRow,
   old   : GrpRow,
   want  : SubRow,
   seats : Nat,
   row   : Nat]

\* A session holds what its operation is about, and the plan it writes is the
\* payer's own.
TxOK(r) ==
  /\ r \in TxType
  /\ r.op # "idle" => r.who \in Users
  /\ r.op \in {"join", "remove", "renew"} => r.group \in Groups
  /\ r.want.group = None

\* Every variable keeps to its type.
TypeOK ==
  /\ now \in Nat
  /\ sub \in [Users -> SubRow]
  /\ grp \in [Groups -> GrpRow]
  /\ seat \in [Groups -> [Users -> Nat]]
  /\ joins \in Nat
  /\ due \in [Users -> Nat]
  /\ extra \in [Users -> Nat]
  /\ raced \in [Groups -> Nat]
  /\ tx \in [Sessions -> TxType]
  /\ \A s \in Sessions : TxOK(tx[s])

(***************************************************************************)
(* Safety.                                                                 *)
(***************************************************************************)

\* "Anything else would sell six seats and give away seven": a group has more
\* people on it than the plan has seats only by as many as took their seat while
\* another join of the same group was on its way, whatever renewals wrote to the
\* group's row meanwhile.
OversellIsBounded ==
  \A g \in Groups : Cardinality(Taken(g)) <= Seats + raced[g]

\* What makes it inductive: no row and no count says more, a join on its way has
\* seen a seat free, and a group nobody owns has neither members nor joins.
Roomy(g) ==
  /\ Cardinality(Taken(g)) <= Seats + raced[g]
  /\ grp[g].seats <= Seats + raced[g]
  /\ \A s \in Sessions : tx[s].group = g => tx[s].seats <= Seats + raced[g]
  /\ Joining(g) # {} => Cardinality(Taken(g)) < Seats + raced[g]
  /\ grp[g].owner = None => Taken(g) = {} /\ Joining(g) = {}

\* Nobody keeps an entitlement that came from a group after losing the seat.
EntitledHaveSeats ==
  \A u \in Users : \A g \in Groups : sub[u].group = g => seat[g][u] # 0

\* What makes it inductive: seats are numbered as they are taken, and as long
\* as the row a removal loaded is there, the entitlement it loaded still tells
\* whether it came from the group.
RemovalsSee(r) ==
  r.op = "remove" =>
    /\ r.row \in 1 .. joins
    /\ seat[r.group][r.who] = r.row /\ sub[r.who].group = r.group => r.saw.group = r.group

GroupsInv ==
  /\ EntitledHaveSeats
  /\ \A g \in Groups : \A u \in Users : seat[g][u] <= joins
  /\ \A s \in Sessions : RemovalsSee(tx[s])

\* A seat that is worth anything ends when its group does, also after the group
\* is renewed, and later only by the reward days earned on it since.
SeatsFollowGroup ==
  \A u \in Users : \A g \in Groups :
    sub[u].group = g /\ Serves(sub[u]) => sub[u].ends = grp[g].ends + extra[u]

\* "Never trample a live plan they already paid for": joining, leaving and a
\* friend's renewal take nothing from a plan that was bought or granted.
OwnPlanKept ==
  \A u \in Users :
    Live(due[u]) => Serves(sub[u]) /\ sub[u].ends >= due[u]

\* "A group without a payment behind it is six free Synapse seats": whoever
\* owns a group has been on a plan of their own.
GroupsAreBought ==
  \A g \in Groups : grp[g].owner # None => due[grp[g].owner] > 0
=============================================================================
