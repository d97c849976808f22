--------------------------- MODULE Groups_proofs ---------------------------
(***************************************************************************)
(* What holds of Groups for every set of users, groups and sessions, every *)
(* number of seats and every bound.                                        *)
(***************************************************************************)
EXTENDS Groups, FiniteSetTheorems, TLAPS

-----------------------------------------------------------------------------
(* Types.                                                                  *)

\* A flush writes a well-typed row.
LEMMA MergedType ==
  ASSUME NEW saw \in SubRow, NEW want \in SubRow, NEW cur \in SubRow
  PROVE  Merged(saw, want, cur) \in SubRow
  BY DEF Merged, Column, SubRow

\* So do the rules for a renewal, a grant, a seat and a seat taken away.
LEMMA RuleTypes ==
  ASSUME NEW r \in SubRow, NEW t \in Tiers, NEW extend \in BOOLEAN, now \in Nat
  PROVE  /\ Renewed(r, t) \in SubRow
         /\ Granted(r, t, extend) \in SubRow
         /\ Removed(r) \in SubRow
<1>1. ASSUME NEW base \in Nat
      PROVE  RenewedFrom(base, t) \in SubRow
  BY GroupsAssumption DEF GroupsAssumption, RenewedFrom, SubRow
<1>2. Renewed(r, t) \in SubRow
  BY <1>1 DEF Renewed, SubRow
<1>3. Granted(r, t, extend) \in SubRow
  BY <1>1, <1>2 DEF Granted, SubRow, Tiers
<1>4. Removed(r) \in SubRow
  BY DEF Removed, SubRow, Tiers
<1> QED
  BY <1>2, <1>3, <1>4

\* So do days added to a plan, and what a payment leaves of the payer's row.
LEMMA BoughtType ==
  ASSUME NEW r \in SubRow, NEW want \in SubRow, NEW cur \in SubRow, NEW days \in Nat
  PROVE  /\ Extended(r, days) \in SubRow
         /\ Bought(r, want, days, cur) \in SubRow
<1>1. \A x \in SubRow : Extended(x, days) \in SubRow
  BY DEF Extended, SubRow
<1> QED
  BY <1>1, MergedType DEF Bought

LEMMA WithSeatsType ==
  ASSUME NEW subs \in [Users -> SubRow], NEW g \in Groups, NEW ends \in Nat
  PROVE  WithSeats(subs, g, ends) \in [Users -> SubRow]
<1>1. [tier |-> "friends", ends |-> ends, verified |-> TRUE, group |-> g] \in SubRow
  BY DEF SubRow, Tiers, Paid
<1> QED
  BY <1>1 DEF WithSeats

\* The seats of a group can be counted.
LEMMA TakenFinite ==
  ASSUME NEW g \in Groups
  PROVE  IsFiniteSet(Taken(g)) /\ Cardinality(Taken(g)) \in Nat
<1>1. IsFiniteSet(Taken(g))
  BY GroupsAssumption, FS_Subset DEF GroupsAssumption, Taken
<1> QED
  BY <1>1, FS_CardinalityType

LEMMA SeatsForType ==
  ASSUME NEW g \in Groups
  PROVE  /\ SeatsFor(g) \in Nat
         /\ SeatsFor(g) >= Cardinality(Taken(g))
  BY TakenFinite, GroupsAssumption DEF GroupsAssumption, SeatsFor

\* A session that is idle, and a group nobody created, are well typed.
LEMMA EmptyType ==
  /\ FreePlan \in SubRow /\ NoGroup \in GrpRow
  /\ NoTx \in TxType /\ TxOK(NoTx) /\ FreePlan.group = None
  BY DEF TxOK, NoTx, NoGroup, FreePlan, TxType, SubRow, GrpRow, Tiers

\* A session that opens well typed leaves all of them well typed.
LEMMA BeginType ==
  ASSUME TypeOK, NEW s \in Sessions, NEW r, TxOK(r), Begin(s, r), UNCHANGED World
  PROVE  TypeOK'
<1>1. tx' \in [Sessions -> TxType] /\ \A x \in Sessions : TxOK(tx'[x])
  BY DEF TypeOK, Begin, TxOK
<1> QED
  BY <1>1 DEF TypeOK, World, TxOK, TxType, SubRow, GrpRow

\* So does one that ends.
LEMMA EndType ==
  ASSUME TypeOK, NEW s \in Sessions, End(s)
  PROVE  tx' \in [Sessions -> TxType] /\ \A x \in Sessions : TxOK(tx'[x])
  BY EmptyType DEF TypeOK, End, TxOK

\* What a request loads is well typed.
LEMMA ArriveType ==
  ASSUME TypeOK, NEW s \in Sessions, Arrive(s)
  PROVE  TypeOK'
<1>0. /\ \A u \in Users : sub[u] \in SubRow
      /\ \A g \in Groups : grp[g] \in GrpRow /\ SeatsFor(g) \in Nat
      /\ \A g \in Groups : \A u \in Users : seat[g][u] \in Nat
  BY SeatsForType DEF TypeOK
<1>1. ASSUME NEW u \in Users, NEW t \in Plans, BeginPay(s, u, t)
      PROVE  TypeOK'
  <2>1. TxOK([NoTx EXCEPT !.op = "pay", !.who = u, !.tier = t, !.saw = sub[u]])
    BY <1>0, EmptyType, GroupsAssumption DEF GroupsAssumption, TxOK, TxType, NoTx, Tiers
  <2> QED
    BY <1>1, <2>1, BeginType DEF BeginPay
<1>2. ASSUME NEW u \in Users, BeginOpen(s, u)
      PROVE  TypeOK'
  <2>1. CASE Begin(s, [NoTx EXCEPT !.op = "open", !.who = u, !.saw = sub[u]])
    <3>1. TxOK([NoTx EXCEPT !.op = "open", !.who = u, !.saw = sub[u]])
      BY <1>0, EmptyType DEF TxOK, TxType, NoTx
    <3> QED
      BY <1>2, <2>1, <3>1, BeginType DEF BeginOpen
  <2>2. CASE \E g \in Groups :
               Begin(s, [NoTx EXCEPT !.op = "open", !.who = u, !.saw = sub[u], !.group = g,
                                     !.old = grp[g], !.seats = SeatsFor(g)])
    <3>1. PICK g \in Groups :
               Begin(s, [NoTx EXCEPT !.op = "open", !.who = u, !.saw = sub[u], !.group = g,
                                     !.old = grp[g], !.seats = SeatsFor(g)])
      BY <2>2
    <3>2. TxOK([NoTx EXCEPT !.op = "open", !.who = u, !.saw = sub[u], !.group = g,
                            !.old = grp[g], !.seats = SeatsFor(g)])
      BY <1>0, EmptyType DEF TxOK, TxType, NoTx
    <3> QED
      BY <1>2, <3>1, <3>2, BeginType DEF BeginOpen
  <2> QED
    BY <1>2, <2>1, <2>2 DEF BeginOpen, OwnedBy
<1>3. ASSUME NEW u \in Users, NEW t \in Tiers, BeginGrant(s, u, t)
      PROVE  TypeOK'
  <2>1. TxOK([NoTx EXCEPT !.op = "grant", !.who = u, !.tier = t, !.saw = sub[u]])
    BY <1>0, EmptyType DEF TxOK, TxType, NoTx
  <2> QED
    BY <1>3, <2>1, BeginType DEF BeginGrant
<1>4. ASSUME NEW u \in Users, NEW g \in Groups, BeginJoin(s, u, g)
      PROVE  TypeOK'
  <2>1. TxOK([NoTx EXCEPT !.op = "join", !.who = u, !.group = g, !.saw = sub[u],
                          !.old = grp[g]])
    BY <1>0, EmptyType DEF TxOK, TxType, NoTx
  <2> QED
    BY <1>4, <2>1, BeginType DEF BeginJoin
<1>5. ASSUME NEW u \in Users, NEW g \in Groups, BeginRemove(s, g, u)
      PROVE  TypeOK'
  <2>1. TxOK([NoTx EXCEPT !.op = "remove", !.who = u, !.group = g, !.saw = sub[u],
                          !.row = seat[g][u]])
    BY <1>0, EmptyType DEF TxOK, TxType, NoTx
  <2> QED
    BY <1>5, <2>1, BeginType DEF BeginRemove
<1>6. ASSUME NEW u \in Users, BeginReward(s, u)
      PROVE  TypeOK'
  <2>1. TxOK([NoTx EXCEPT !.op = "reward", !.who = u, !.saw = sub[u]])
    BY <1>0, EmptyType DEF TxOK, TxType, NoTx
  <2> QED
    BY <1>6, <2>1, BeginType DEF BeginReward
<1>7. ASSUME NEW u \in Users, Revoke(s, u)
      PROVE  TypeOK'
  <2>1. [sub[u] EXCEPT !.ends = now, !.verified = FALSE] \in SubRow
    BY <1>0 DEF SubRow, TypeOK
  <2> QED
    BY <1>7, <2>1 DEF Revoke, TypeOK
<1> QED
  BY <1>1, <1>2, <1>3, <1>4, <1>5, <1>6, <1>7 DEF Arrive

\* So is what a payment has in hand once it renews a group.
LEMMA ActivateType ==
  ASSUME TypeOK, NEW s \in Sessions, Activate(s)
  PROVE  TypeOK'
<1>1. PICK g \in OwnedBy(tx[s].who) :
        Begin(s, [tx[s] EXCEPT !.op = "renew", !.want = Renewed(tx[s].saw, "friends"),
                               !.group = g, !.old = grp[g], !.seats = SeatsFor(g)])
  BY DEF Activate
<1>2. g \in Groups /\ grp[g] \in GrpRow /\ SeatsFor(g) \in Nat
  BY SeatsForType DEF OwnedBy, TypeOK
<1>3. tx[s] \in TxType /\ tx[s].who \in Users /\ tx[s].saw \in SubRow
  BY DEF TypeOK, TxOK, TxType, Activate
<1>4. Renewed(tx[s].saw, "friends") \in SubRow
  BY <1>3, RuleTypes DEF TypeOK, Tiers, Paid
<1>6. Renewed(tx[s].saw, "friends").group = None
  BY DEF Renewed, RenewedFrom
<1>7. TxOK([tx[s] EXCEPT !.op = "renew", !.want = Renewed(tx[s].saw, "friends"),
                         !.group = g, !.old = grp[g], !.seats = SeatsFor(g)])
  BY <1>2, <1>3, <1>4, <1>6 DEF TxOK, TxType
<1> QED
  BY <1>1, <1>7, BeginType DEF Activate

\* The group that is created, and the one that is re-dated, are well typed.
LEMMA NewGroupType ==
  ASSUME TypeOK, NEW g \in Groups, NEW u \in Users, NewGroup(u, g)
  PROVE  /\ grp' \in [Groups -> GrpRow]
         /\ seat' \in [Groups -> [Users -> Nat]]
         /\ joins' \in Nat
<1>1. [owner |-> u, seats |-> Seats, ends |-> now + Period] \in GrpRow
  BY GroupsAssumption DEF GroupsAssumption, GrpRow, TypeOK
<1>2. [seat[g] EXCEPT ![u] = joins + 1] \in [Users -> Nat]
  BY DEF TypeOK
<1> QED
  BY <1>1, <1>2 DEF NewGroup, TypeOK

LEMMA RedatedType ==
  ASSUME TypeOK, NEW g \in Groups, NEW old, NEW ends \in Nat, NEW n \in Nat,
         Redated(g, old, ends, n)
  PROVE  /\ grp' \in [Groups -> GrpRow]
         /\ grp'[g].owner = grp[g].owner
         /\ grp'[g].seats \in {n, grp[g].seats} /\ grp'[g].ends \in {ends, grp[g].ends}
         /\ old = grp[g] => grp'[g].ends = ends
         /\ \A h \in Groups \ {g} : grp'[h] = grp[h]
<1>1. grp[g] \in GrpRow
  BY DEF TypeOK
<1>2. /\ Column(old.seats, n, grp[g].seats) \in {n, grp[g].seats}
      /\ Column(old.ends, ends, grp[g].ends) \in {ends, grp[g].ends}
      /\ old = grp[g] => Column(old.ends, ends, grp[g].ends) = ends
  BY DEF Column
<1>3. PICK row : row = [grp[g] EXCEPT !.seats = Column(old.seats, n, grp[g].seats),
                                      !.ends = Column(old.ends, ends, grp[g].ends)]
  OBVIOUS
<1>4. /\ row \in GrpRow /\ row.owner = grp[g].owner
      /\ row.seats = Column(old.seats, n, grp[g].seats)
      /\ row.ends = Column(old.ends, ends, grp[g].ends)
  BY <1>1, <1>2, <1>3 DEF GrpRow
<1>5. grp' = [grp EXCEPT ![g] = row]
  BY <1>1, <1>3 DEF Redated, TypeOK, GrpRow
<1> QED
  BY <1>2, <1>4, <1>5 DEF TypeOK

\* Moving everyone's date keeps the types, and takes back the reward days.
LEMMA SeatsRedatedType ==
  ASSUME TypeOK, NEW s, NEW subs \in [Users -> SubRow], NEW g \in Groups, NEW ends \in Nat,
         SeatsRedated(s, subs, g, ends)
  PROVE  sub' \in [Users -> SubRow] /\ extra' \in [Users -> Nat]
  BY WithSeatsType DEF SeatsRedated, TypeOK

\* What every handler that runs to its end can rely on.
LEMMA FinishKnows ==
  ASSUME TypeOK, NEW s \in Sessions, Finish(s)
  PROVE  /\ End(s) /\ now' = now /\ tx[s].op # "idle"
         /\ tx' \in [Sessions -> TxType] /\ \A x \in Sessions : TxOK(tx'[x])
         /\ tx[s] \in TxType /\ tx[s].saw \in SubRow /\ tx[s].want \in SubRow
         /\ tx[s].tier \in Tiers /\ tx[s].old \in GrpRow /\ tx[s].seats \in Nat
         /\ tx[s].who \in Users /\ tx[s].group \in Groups \cup {None}
         /\ tx[s].op \in {"join", "remove", "renew"} => tx[s].group \in Groups
         /\ tx[s].want.group = None
         /\ \A v \in Users : sub[v] \in SubRow
<1>1. End(s) /\ now' = now /\ tx[s].op # "idle"
  BY DEF Finish, FinishPay, Renew, FinishReward, FinishOpen, FinishJoin, FinishRemove, FinishGrant
<1> QED
  BY <1>1, EndType DEF TypeOK, TxOK, TxType

LEMMA FinishPayType ==
  ASSUME TypeOK, NEW s \in Sessions, FinishPay(s) \/ Renew(s)
  PROVE  TypeOK'
<1> DEFINE u == tx[s].who
           saw == tx[s].saw
<1>0. /\ tx[s].saw \in SubRow /\ tx[s].want \in SubRow
      /\ tx[s].tier \in Tiers /\ tx[s].old \in GrpRow /\ tx[s].seats \in Nat
      /\ tx[s].who \in Users /\ tx[s].group \in Groups \cup {None}
      /\ tx[s].op \in {"join", "remove", "renew"} => tx[s].group \in Groups
      /\ \A v \in Users : sub[v] \in SubRow
      /\ tx' \in [Sessions -> TxType] /\ \A x \in Sessions : TxOK(tx'[x])
  BY FinishKnows DEF Finish
<1> USE <1>0
<1>1. ASSUME NEW want \in SubRow, NEW days \in {0, Bonus}
      PROVE  [sub EXCEPT ![u] = Bought(saw, want, days, sub[u])] \in [Users -> SubRow]
  BY BoughtType, GroupsAssumption DEF GroupsAssumption, TypeOK
<1>2. ASSUME sub' \in [Users -> SubRow], due' = [due EXCEPT ![u] = sub'[u].ends]
      PROVE  due' \in [Users -> Nat]
  BY <1>2 DEF TypeOK, SubRow
<1>3. CASE FinishPay(s)
  <2> DEFINE want == Renewed(saw, tx[s].tier)
  <2>1. want \in SubRow
    BY RuleTypes DEF TypeOK
  <2>2. sub' \in [Users -> SubRow]
    BY <1>1, <1>3, <2>1 DEF FinishPay
  <2>3. due' \in [Users -> Nat]
    BY <1>2, <1>3, <2>2 DEF FinishPay
  <2>4. /\ grp' \in [Groups -> GrpRow]
        /\ seat' \in [Groups -> [Users -> Nat]]
        /\ joins' \in Nat
    BY <1>3, NewGroupType DEF FinishPay, Unused, TypeOK
  <2> QED
    BY <1>3, <2>2, <2>3, <2>4 DEF FinishPay, TypeOK
<1>4. CASE Renew(s)
  <2> DEFINE g == tx[s].group
             want == tx[s].want
  <2>1. g \in Groups /\ want.ends \in Nat
    BY <1>4 DEF Renew, SubRow
  <2>2. PICK days \in {0, Bonus} :
          SeatsRedated(s, [sub EXCEPT ![u] = Bought(saw, want, days, sub[u])], g, want.ends)
    BY <1>4 DEF Renew
  <2>3. [sub EXCEPT ![u] = Bought(saw, want, days, sub[u])] \in [Users -> SubRow]
    BY <1>1
  <2>4. sub' \in [Users -> SubRow] /\ extra' \in [Users -> Nat]
    BY <2>1, <2>2, <2>3, SeatsRedatedType
  <2>5. grp' \in [Groups -> GrpRow]
    BY <1>4, <2>1, RedatedType DEF Renew
  <2>6. due' \in [Users -> Nat]
    BY <1>2, <1>4, <2>4 DEF Renew
  <2> QED
    BY <1>4, <2>4, <2>5, <2>6 DEF Renew, TypeOK
<1> QED
  BY <1>3, <1>4

\* Every handler that runs to its end writes well-typed rows.
LEMMA FinishType ==
  ASSUME TypeOK, NEW s \in Sessions, Finish(s)
  PROVE  TypeOK'
<1> DEFINE u == tx[s].who
           g == tx[s].group
           saw == tx[s].saw
<1>0. /\ tx[s].saw \in SubRow /\ tx[s].want \in SubRow
      /\ tx[s].tier \in Tiers /\ tx[s].old \in GrpRow /\ tx[s].seats \in Nat
      /\ tx[s].who \in Users /\ tx[s].group \in Groups \cup {None}
      /\ tx[s].op \in {"join", "remove", "renew"} => tx[s].group \in Groups
      /\ \A v \in Users : sub[v] \in SubRow
      /\ tx' \in [Sessions -> TxType] /\ \A x \in Sessions : TxOK(tx'[x])
  BY FinishKnows
<1> USE <1>0
<1>1. CASE FinishReward(s)
  <2> DEFINE more == Extended(saw, Bonus)
             row == Merged(saw, more, sub[u])
  <2>1. more \in SubRow /\ row \in SubRow
    BY BoughtType, MergedType, GroupsAssumption DEF GroupsAssumption
  <2>2. more.ends - saw.ends \in Nat
    BY GroupsAssumption DEF GroupsAssumption, Extended, SubRow
  <2> HIDE DEF more, row
  <2>3. sub' = [sub EXCEPT ![u] = row]
    BY <1>1 DEF FinishReward, row, more
  <2>4. sub' \in [Users -> SubRow] /\ sub'[u].ends \in Nat
    BY <2>1, <2>3 DEF TypeOK, SubRow
  <2>5. \/ due' = [due EXCEPT ![u] = sub'[u].ends] /\ extra' = extra
        \/ extra' = [extra EXCEPT ![u] = @ + (more.ends - saw.ends)] /\ due' = due
    BY <1>1 DEF FinishReward, more
  <2>6. due' \in [Users -> Nat] /\ extra' \in [Users -> Nat]
    BY <2>2, <2>4, <2>5 DEF TypeOK
  <2> QED
    BY <1>1, <2>4, <2>6 DEF FinishReward, TypeOK
<1>2. CASE FinishOpen(s)
  <2>1. CASE g = None
    BY <1>2, <2>1, NewGroupType DEF FinishOpen, Unused, TypeOK
  <2>2. CASE g # None
    <3>1. g \in Groups /\ saw.ends \in Nat
      BY <2>2 DEF SubRow
    <3>2. /\ Redated(g, tx[s].old, saw.ends, tx[s].seats)
          /\ SeatsRedated(s, sub, g, saw.ends)
          /\ UNCHANGED <<now, due, raced, seat, joins>>
      BY <1>2, <2>2 DEF FinishOpen
    <3>3. sub' \in [Users -> SubRow] /\ extra' \in [Users -> Nat]
      BY <3>1, <3>2, SeatsRedatedType DEF TypeOK
    <3>4. grp' \in [Groups -> GrpRow]
      BY <3>1, <3>2, RedatedType
    <3> QED
      BY <3>2, <3>3, <3>4 DEF TypeOK
  <2> QED
    BY <2>1, <2>2
<1>3. CASE FinishJoin(s)
  <2> DEFINE want == [tier |-> "friends", ends |-> tx[s].old.ends, verified |-> TRUE, group |-> g]
  <2>1. g \in Groups
    BY <1>3 DEF FinishJoin
  <2>2. want \in SubRow
    BY <2>1 DEF SubRow, GrpRow, Tiers, Paid
  <2>3. PICK x \in {saw, sub[u]} :
          \/ UNCHANGED <<sub, extra>>
          \/ /\ sub' = [sub EXCEPT ![u] = Merged(x, want, sub[u])]
             /\ extra' = [extra EXCEPT ![u] = 0]
    BY <1>3 DEF FinishJoin
  <2> HIDE DEF want
  <2>4. Merged(x, want, sub[u]) \in SubRow
    BY <2>1, <2>2, MergedType
  <2>5. sub' \in [Users -> SubRow] /\ extra' \in [Users -> Nat]
    BY <2>3, <2>4 DEF TypeOK
  <2>6. seat' \in [Groups -> [Users -> Nat]]
    <3>1. [seat[g] EXCEPT ![u] = joins + 1] \in [Users -> Nat]
      BY <2>1 DEF TypeOK
    <3> QED
      BY <1>3, <2>1, <3>1 DEF FinishJoin, TypeOK
  <2>7. raced' \in [Groups -> Nat]
    BY <1>3, <2>1 DEF FinishJoin, TypeOK
  <2> QED
    BY <1>3, <2>5, <2>6, <2>7 DEF FinishJoin, TypeOK
<1>4. CASE FinishRemove(s)
  <2>1. g \in Groups
    BY <1>4 DEF FinishRemove
  <2>2. PICK x \in {saw, sub[u]} :
          sub' = IF x.group = g THEN [sub EXCEPT ![u] = Merged(x, Removed(x), @)] ELSE sub
    BY <1>4 DEF FinishRemove
  <2>3. Merged(x, Removed(x), sub[u]) \in SubRow
    <3>1. Removed(x) \in SubRow
      BY <2>1 DEF Removed, SubRow, Tiers, TypeOK
    <3> QED
      BY <2>1, <3>1, MergedType
  <2>4. sub' \in [Users -> SubRow]
    BY <2>1, <2>2, <2>3 DEF TypeOK
  <2>5. seat' \in [Groups -> [Users -> Nat]]
    <3>1. [seat[g] EXCEPT ![u] = 0] \in [Users -> Nat]
      BY <2>1 DEF TypeOK
    <3> QED
      BY <1>4, <2>1, <3>1 DEF FinishRemove, TypeOK
  <2> QED
    BY <1>4, <2>4, <2>5 DEF FinishRemove, TypeOK
<1>5. CASE FinishGrant(s)
  <2>1. PICK extend \in BOOLEAN :
          sub' = [sub EXCEPT ![u] = Merged(saw, Granted(saw, tx[s].tier, extend), @)]
    BY <1>5 DEF FinishGrant
  <2>2. Merged(saw, Granted(saw, tx[s].tier, extend), sub[u]) \in SubRow
    BY MergedType, RuleTypes DEF TypeOK
  <2>3. sub' \in [Users -> SubRow]
    BY <2>1, <2>2 DEF TypeOK
  <2>4. sub'[u].ends \in Nat
    BY <2>3 DEF SubRow
  <2>5. due' \in [Users -> Nat]
    BY <1>5, <2>4 DEF FinishGrant, TypeOK
  <2> QED
    BY <1>5, <2>3, <2>5 DEF FinishGrant, TypeOK
<1> QED
  BY <1>1, <1>2, <1>3, <1>4, <1>5, FinishPayType DEF Finish

\* Every variable keeps to its type, whatever the sessions do.
THEOREM TypeCorrect == Spec => []TypeOK
<1>1. Init => TypeOK
  BY EmptyType DEF Init, TypeOK
<1>2. TypeOK /\ [Next]_vars => TypeOK'
  <2> SUFFICES ASSUME TypeOK, [Next]_vars PROVE TypeOK'
    OBVIOUS
  <2>1. CASE Tick
    BY <2>1 DEF Tick, TypeOK, TxOK, TxType, SubRow, GrpRow
  <2>2. ASSUME NEW s \in Sessions, Arrive(s) \/ Activate(s) \/ Finish(s)
        PROVE  TypeOK'
    BY <2>2, ArriveType, ActivateType, FinishType
  <2>3. ASSUME NEW s \in Sessions, Abort(s)
        PROVE  TypeOK'
    BY <2>3, EndType DEF Abort, World, TypeOK
  <2>4. CASE UNCHANGED vars
    BY <2>4 DEF vars, TypeOK, TxOK, TxType, SubRow, GrpRow
  <2> QED
    BY <2>1, <2>2, <2>3, <2>4 DEF Next
<1> QED
  BY <1>1, <1>2, PTL DEF Spec
-----------------------------------------------------------------------------
(* Nobody keeps an entitlement without its seat.                           *)

LEMMA NoTxSees == RemovalsSee(NoTx)
  BY DEF RemovalsSee, NoTx

\* A step that gives nobody a group, and only ever adds seats under new keys,
\* keeps the invariant.
LEMMA KeepsSeats ==
  ASSUME TypeOK, GroupsInv,
         \A v \in Users : sub'[v].group \in {None, sub[v].group},
         joins' \in Nat, joins' >= joins,
         \A h \in Groups : \A v \in Users :
           seat'[h][v] = seat[h][v] \/ seat'[h][v] \in joins + 1 .. joins',
         \A x \in Sessions : tx'[x] = tx[x] \/ RemovalsSee(tx[x])'
  PROVE  GroupsInv'
<1>1. \A h \in Groups : h # None
  BY GroupsAssumption DEF GroupsAssumption
<1>2. \A h \in Groups : \A v \in Users : seat[h][v] \in Nat /\ seat[h][v] <= joins
  BY DEF TypeOK, GroupsInv
<1>3. joins \in Nat
  BY DEF TypeOK
<1>4. EntitledHaveSeats'
  BY <1>1, <1>2, <1>3 DEF GroupsInv, EntitledHaveSeats
<1>5. \A h \in Groups : \A v \in Users : seat'[h][v] <= joins'
  BY <1>2, <1>3
<1>6. ASSUME NEW x \in Sessions, tx'[x] = tx[x], tx[x].op = "remove"
      PROVE  RemovalsSee(tx[x])'
  <2>1. tx[x].who \in Users /\ tx[x].group \in Groups
    BY <1>6 DEF TypeOK, TxOK
  <2>2. tx[x].row \in 1 .. joins /\ RemovalsSee(tx[x])
    BY <1>6 DEF GroupsInv, RemovalsSee
  <2> QED
    BY <1>1, <1>2, <1>3, <1>6, <2>1, <2>2 DEF RemovalsSee
<1> QED
  BY <1>4, <1>5, <1>6 DEF GroupsInv, RemovalsSee

\* A renewal or a grant never puts a plan in a group.
LEMMA OwnPlanGroup ==
  ASSUME NEW saw, NEW t, NEW extend, NEW cur
  PROVE  /\ Merged(saw, Renewed(saw, t), cur).group \in {None, cur.group}
         /\ Merged(saw, Granted(saw, t, extend), cur).group \in {None, cur.group}
         /\ Merged(saw, Removed(saw), cur).group \in {None, cur.group}
  BY DEF Merged, Column, Renewed, RenewedFrom, Granted, Removed

\* Nor does a payment with its referral days.
LEMMA BoughtGroup ==
  ASSUME NEW saw \in SubRow, NEW want \in SubRow, NEW days, NEW cur \in SubRow, want.group = None
  PROVE  Bought(saw, want, days, cur).group \in {None, cur.group}
<1>1. Extended(want, days).group = want.group
  BY DEF Extended, SubRow
<1> QED
  BY <1>1 DEF Bought, Merged, Column

\* Neither does moving the seats of a group.
LEMMA WithSeatsGroup ==
  ASSUME NEW subs, NEW g, NEW ends, NEW v \in Users
  PROVE  WithSeats(subs, g, ends)[v].group = subs[v].group
  BY DEF WithSeats

\* Creating a group adds one seat.
LEMMA NewGroupSeats ==
  ASSUME TypeOK, NEW g \in Groups, NEW u \in Users, NewGroup(u, g)
  PROVE  /\ joins' \in Nat /\ joins' >= joins
         /\ \A h \in Groups : \A v \in Users :
              seat'[h][v] = seat[h][v] \/ seat'[h][v] \in joins + 1 .. joins'
<1>1. joins \in Nat /\ joins' = joins + 1
  BY DEF TypeOK, NewGroup
<1>2. \A h \in Groups : \A v \in Users :
        seat'[h][v] = IF h = g /\ v = u THEN joins + 1 ELSE seat[h][v]
  BY DEF NewGroup, TypeOK
<1> QED
  BY <1>1, <1>2

LEMMA ArriveSeats ==
  ASSUME TypeOK, GroupsInv, NEW s \in Sessions, Arrive(s)
  PROVE  GroupsInv'
<1> USE DEF TypeOK
<1>1. ASSUME NEW r, Begin(s, r), UNCHANGED World, RemovalsSee(r)'
      PROVE  GroupsInv'
  <2>1. \A x \in Sessions : tx'[x] = tx[x] \/ RemovalsSee(tx[x])'
    BY <1>1 DEF Begin
  <2> QED
    BY <1>1, <2>1, KeepsSeats DEF World
<1>2. ASSUME NEW r, Begin(s, r), UNCHANGED World, r.op # "remove"
      PROVE  GroupsInv'
  BY <1>1, <1>2 DEF RemovalsSee
<1>3. ASSUME NEW u \in Users, NEW t,
             BeginPay(s, u, t) \/ BeginGrant(s, u, t) \/ BeginReward(s, u)
      PROVE  GroupsInv'
  BY <1>2, <1>3 DEF BeginPay, BeginGrant, BeginReward, NoTx
<1>4. ASSUME NEW u \in Users, BeginOpen(s, u)
      PROVE  GroupsInv'
  <2>1. CASE Begin(s, [NoTx EXCEPT !.op = "open", !.who = u, !.saw = sub[u]])
    BY <1>2, <1>4, <2>1 DEF BeginOpen, NoTx
  <2>2. CASE \E g \in Groups :
               Begin(s, [NoTx EXCEPT !.op = "open", !.who = u, !.saw = sub[u], !.group = g,
                                     !.old = grp[g], !.seats = SeatsFor(g)])
    BY <1>2, <1>4, <2>2 DEF BeginOpen, NoTx
  <2> QED
    BY <1>4, <2>1, <2>2 DEF BeginOpen, OwnedBy
<1>5. ASSUME NEW u \in Users, NEW g \in Groups, BeginJoin(s, u, g)
      PROVE  GroupsInv'
  BY <1>2, <1>5 DEF BeginJoin, NoTx
<1>6. ASSUME NEW u \in Users, NEW g \in Groups, BeginRemove(s, g, u)
      PROVE  GroupsInv'
  <2>0. PICK r : r = [NoTx EXCEPT !.op = "remove", !.who = u, !.group = g, !.saw = sub[u],
                                  !.row = seat[g][u]]
    OBVIOUS
  <2>1. seat[g][u] \in Nat /\ seat[g][u] <= joins /\ seat[g][u] # 0 /\ joins \in Nat
    BY <1>6 DEF GroupsInv, BeginRemove
  <2>2. /\ r.op = "remove" /\ r.row = seat[g][u]
        /\ r.who = u /\ r.group = g /\ r.saw = sub[u]
    BY <2>0 DEF NoTx
  <2>3. Begin(s, r) /\ UNCHANGED World
    BY <1>6, <2>0 DEF BeginRemove
  <2>4. RemovalsSee(r)'
    BY <2>1, <2>2, <2>3 DEF RemovalsSee, World
  <2> QED
    BY <1>1, <2>3, <2>4
<1>7. ASSUME NEW u \in Users, Revoke(s, u)
      PROVE  GroupsInv'
  <2>1. \A v \in Users : sub'[v].group = sub[v].group
    BY <1>7 DEF Revoke, SubRow
  <2> QED
    BY <1>7, <2>1, KeepsSeats DEF Revoke
<1> QED
  BY <1>3, <1>4, <1>5, <1>6, <1>7 DEF Arrive, Tiers

LEMMA ActivateSeats ==
  ASSUME TypeOK, GroupsInv, NEW s \in Sessions, Activate(s)
  PROVE  GroupsInv'
<1>1. PICK g : Begin(s, [tx[s] EXCEPT !.op = "renew", !.want = Renewed(tx[s].saw, "friends"),
                                      !.group = g, !.old = grp[g], !.seats = SeatsFor(g)])
  BY DEF Activate
<1>2. PICK r : /\ r = [tx[s] EXCEPT !.op = "renew", !.want = Renewed(tx[s].saw, "friends"),
                                    !.group = g, !.old = grp[g], !.seats = SeatsFor(g)]
               /\ Begin(s, r)
  BY <1>1
<1>3. r.op = "renew"
  BY <1>2 DEF TypeOK, TxType
<1>4. \A x \in Sessions : tx'[x] = tx[x] \/ RemovalsSee(tx[x])'
  BY <1>2, <1>3 DEF Begin, RemovalsSee, TypeOK
<1>5. joins \in Nat
  BY DEF TypeOK
<1> QED
  BY <1>4, <1>5, KeepsSeats DEF Activate, World

LEMMA FinishSeats ==
  ASSUME TypeOK, GroupsInv, NEW s \in Sessions, Finish(s)
  PROVE  GroupsInv'
<1> DEFINE u == tx[s].who
           g == tx[s].group
           saw == tx[s].saw
<1>1. /\ u \in Users /\ End(s) /\ g \in Groups \cup {None}
      /\ tx[s].op \in {"join", "remove", "renew"} => g \in Groups
      /\ saw \in SubRow /\ tx[s].want \in SubRow /\ tx[s].want.group = None
      /\ \A v \in Users : sub[v] \in SubRow
  BY FinishKnows
<1>2. \A x \in Sessions : tx'[x] = tx[x] \/ RemovalsSee(tx[x])'
  BY <1>1, NoTxSees DEF End, TypeOK, RemovalsSee, NoTx
<1>3. joins \in Nat /\ \A h \in Groups : h # None
  BY GroupsAssumption DEF GroupsAssumption, TypeOK
<1>4. CASE FinishPay(s)
  <2> DEFINE want == Renewed(saw, tx[s].tier)
  <2>1. want \in SubRow /\ want.group = None
    <3>1. tx[s].tier \in Tiers
      BY FinishKnows
    <3>2. want \in SubRow
      BY <1>1, <3>1, RuleTypes DEF TypeOK
    <3>3. want.group = None
      BY DEF Renewed, RenewedFrom
    <3> QED
      BY <3>2, <3>3
  <2>2. PICK days : sub' = [sub EXCEPT ![u] = Bought(saw, want, days, sub[u])]
    BY <1>4 DEF FinishPay
  <2> HIDE DEF want
  <2>3. Bought(saw, want, days, sub[u]).group \in {None, sub[u].group}
    BY <1>1, <2>1, BoughtGroup
  <2>4. \A v \in Users : sub'[v].group \in {None, sub[v].group}
    BY <1>1, <2>2, <2>3 DEF TypeOK
  <2>5. CASE UNCHANGED <<grp, seat, joins>>
    BY <1>2, <1>3, <2>4, <2>5, KeepsSeats
  <2>6. CASE \E h \in Groups : NewGroup(u, h)
    BY <1>1, <1>2, <2>4, <2>6, NewGroupSeats, KeepsSeats
  <2> QED
    BY <1>4, <2>5, <2>6 DEF FinishPay, Unused
<1>5. CASE Renew(s)
  <2>1. PICK days : SeatsRedated(s, [sub EXCEPT ![u] = Bought(saw, tx[s].want, days, sub[u])],
                                 g, tx[s].want.ends)
    BY <1>5 DEF Renew
  <2> DEFINE mine == [sub EXCEPT ![u] = Bought(saw, tx[s].want, days, sub[u])]
  <2>2. \A v \in Users : mine[v].group \in {None, sub[v].group}
    BY <1>1, BoughtGroup DEF TypeOK
  <2> HIDE DEF mine
  <2>3. sub' = WithSeats(mine, g, tx[s].want.ends)
    BY <2>1 DEF SeatsRedated, mine
  <2>4. \A v \in Users : sub'[v].group \in {None, sub[v].group}
    BY <2>2, <2>3, WithSeatsGroup
  <2> QED
    BY <1>2, <1>3, <1>5, <2>4, KeepsSeats DEF Renew
<1>9. CASE FinishReward(s)
  <2>1. sub' = [sub EXCEPT ![u] = Merged(saw, Extended(saw, Bonus), sub[u])]
    BY <1>9 DEF FinishReward
  <2>2. Extended(saw, Bonus).group = saw.group
    BY <1>1 DEF Extended, SubRow
  <2>3. Merged(saw, Extended(saw, Bonus), sub[u]).group = sub[u].group
    BY <2>2 DEF Merged, Column
  <2>4. \A v \in Users : sub'[v].group \in {None, sub[v].group}
    BY <1>1, <2>1, <2>3 DEF TypeOK
  <2> QED
    BY <1>2, <1>3, <1>9, <2>4, KeepsSeats DEF FinishReward
<1>10. CASE FinishOpen(s)
  <2>1. CASE sub' = sub /\ \E h \in Unused : NewGroup(u, h)
    <3>1. PICK h \in Groups : NewGroup(u, h)
      BY <2>1 DEF Unused
    <3> QED
      BY <1>1, <1>2, <2>1, <3>1, NewGroupSeats, KeepsSeats
  <2>2. CASE g # None
    <3>1. SeatsRedated(s, sub, g, saw.ends) /\ UNCHANGED <<seat, joins>>
      BY <1>10, <2>2 DEF FinishOpen
    <3>2. \A v \in Users : sub'[v].group \in {None, sub[v].group}
      BY <3>1, WithSeatsGroup DEF SeatsRedated
    <3> QED
      BY <1>2, <1>3, <3>1, <3>2, KeepsSeats
  <2> QED
    BY <1>10, <2>1, <2>2 DEF FinishOpen
<1>6. CASE FinishJoin(s)
  \* The seat and the entitlement arrive together, under a key no removal in
  \* flight has loaded.
  <2>1. g \in Groups
    BY <1>1, <1>6 DEF FinishJoin
  <2>2. joins' = joins + 1
    BY <1>6 DEF FinishJoin
  <2>3. \A h \in Groups : \A v \in Users :
          seat'[h][v] = IF h = g /\ v = u THEN joins + 1 ELSE seat[h][v]
    BY <1>1, <1>6, <2>1 DEF FinishJoin, TypeOK
  <2>4. \A v \in Users : sub'[v].group = sub[v].group \/ (v = u /\ sub'[v].group = g)
    BY <1>1, <1>6 DEF FinishJoin, TypeOK, Merged, Column
  <2>5. EntitledHaveSeats'
    BY <1>3, <2>3, <2>4 DEF GroupsInv, EntitledHaveSeats
  <2>6. \A h \in Groups : \A v \in Users : seat'[h][v] <= joins'
    BY <1>3, <2>2, <2>3 DEF GroupsInv, TypeOK
  <2>7. ASSUME NEW x \in Sessions, tx'[x] = tx[x], tx[x].op = "remove"
        PROVE  RemovalsSee(tx[x])'
    <3>1. tx[x].who \in Users /\ tx[x].group \in Groups
      BY <2>7 DEF TypeOK, TxOK
    <3>2. tx[x].row \in 1 .. joins /\ RemovalsSee(tx[x])
      BY <2>7 DEF GroupsInv, RemovalsSee
    <3> QED
      BY <1>3, <2>2, <2>3, <2>4, <2>7, <3>1, <3>2 DEF RemovalsSee
  <2> QED
    BY <1>2, <2>5, <2>6, <2>7 DEF GroupsInv, RemovalsSee
<1>7. CASE FinishRemove(s)
  <2>1. g \in Groups
    BY <1>1, <1>7 DEF FinishRemove
  <2>2. joins' = joins
    BY <1>7 DEF FinishRemove
  <2>3. \A h \in Groups : \A v \in Users :
          seat'[h][v] = IF h = g /\ v = u /\ seat[g][u] = tx[s].row THEN 0 ELSE seat[h][v]
    BY <1>1, <1>7, <2>1 DEF FinishRemove, TypeOK
  <2>4. \A v \in Users : sub'[v].group \in {None, sub[v].group}
    <3>1. PICK x \in {saw, sub[u]} :
            sub' = IF x.group = g THEN [sub EXCEPT ![u] = Merged(x, Removed(x), @)] ELSE sub
      BY <1>7 DEF FinishRemove
    <3>2. Merged(x, Removed(x), sub[u]).group \in {None, sub[u].group}
      BY OwnPlanGroup
    <3> QED
      BY <1>1, <3>1, <3>2 DEF TypeOK
  \* If the seat goes, what was loaded of the entitlement still tells.
  <2>5. seat[g][u] = tx[s].row => sub'[u].group # g
    <3>1. PICK x \in {saw, sub[u]} :
            sub' = IF x.group = g THEN [sub EXCEPT ![u] = Merged(x, Removed(x), @)] ELSE sub
      BY <1>7 DEF FinishRemove
    <3>2. seat[g][u] = tx[s].row /\ sub[u].group = g => saw.group = g
      BY <1>7 DEF GroupsInv, RemovalsSee, FinishRemove
    <3>3. x.group = g => Merged(x, Removed(x), sub[u]).group = None
      BY <1>3, <2>1 DEF Merged, Column, Removed
    <3> QED
      BY <1>1, <1>3, <2>1, <3>1, <3>2, <3>3 DEF TypeOK
  <2>6. EntitledHaveSeats'
    BY <1>3, <2>3, <2>4, <2>5 DEF GroupsInv, EntitledHaveSeats
  <2>7. \A h \in Groups : \A v \in Users : seat'[h][v] <= joins'
    BY <1>3, <2>2, <2>3 DEF GroupsInv, TypeOK
  <2>8. ASSUME NEW x \in Sessions, tx'[x] = tx[x], tx[x].op = "remove"
        PROVE  RemovalsSee(tx[x])'
    <3>1. tx[x].who \in Users /\ tx[x].group \in Groups
      BY <2>8 DEF TypeOK, TxOK
    <3>2. tx[x].row \in 1 .. joins /\ RemovalsSee(tx[x])
      BY <2>8 DEF GroupsInv, RemovalsSee
    <3> QED
      BY <1>3, <2>2, <2>3, <2>4, <2>8, <3>1, <3>2 DEF RemovalsSee
  <2> QED
    BY <1>2, <2>6, <2>7, <2>8 DEF GroupsInv, RemovalsSee
<1>8. CASE FinishGrant(s)
  <2>1. \A v \in Users : sub'[v].group \in {None, sub[v].group}
    BY <1>1, <1>8, OwnPlanGroup DEF FinishGrant, TypeOK
  <2> QED
    BY <1>2, <1>3, <1>8, <2>1, KeepsSeats DEF FinishGrant
<1> QED
  BY <1>4, <1>5, <1>6, <1>7, <1>8, <1>9, <1>10 DEF Finish

\* Whoever has a group's entitlement has a seat in it, and a removal tells rightly
\* whether the entitlement it loaded came from the group, whatever overlaps.
THEOREM AlwaysSeated == Spec => []GroupsInv
<1>1. Init => GroupsInv
  BY NoTxSees, GroupsAssumption
     DEF Init, GroupsInv, EntitledHaveSeats, FreePlan, GroupsAssumption
<1>2. TypeOK /\ GroupsInv /\ [Next]_vars => GroupsInv'
  <2> SUFFICES ASSUME TypeOK, GroupsInv, [Next]_vars PROVE GroupsInv'
    OBVIOUS
  <2>1. CASE Tick
    BY <2>1, KeepsSeats DEF Tick, TypeOK
  <2>2. ASSUME NEW s \in Sessions, Arrive(s) \/ Activate(s) \/ Finish(s)
        PROVE  GroupsInv'
    BY <2>2, ArriveSeats, ActivateSeats, FinishSeats
  <2>3. ASSUME NEW s \in Sessions, Abort(s)
        PROVE  GroupsInv'
    <3>1. \A x \in Sessions : tx'[x] = tx[x] \/ RemovalsSee(tx[x])'
      BY <2>3 DEF Abort, End, TypeOK, RemovalsSee, NoTx
    <3> QED
      BY <2>3, <3>1, KeepsSeats DEF Abort, World, TypeOK
  <2>4. CASE UNCHANGED vars
    BY <2>4, KeepsSeats DEF vars, TypeOK
  <2> QED
    BY <2>1, <2>2, <2>3, <2>4 DEF Next
<1> QED
  BY <1>1, <1>2, TypeCorrect, PTL DEF Spec

\* Whoever lost the seat has lost what came with it, however requests overlap.
THEOREM NoSeatNoEntitlement == Spec => []EntitledHaveSeats
<1>1. GroupsInv => EntitledHaveSeats
  BY DEF GroupsInv
<1> QED
  BY <1>1, AlwaysSeated, PTL

-----------------------------------------------------------------------------
(* How far a group can be oversold.                                        *)

\* A session that ends is no longer joining, and none of the others changed.
LEMMA EndLeaves ==
  ASSUME TypeOK, NEW s \in Sessions, End(s), NEW g \in Groups
  PROVE  Joining(g)' = Joining(g) \ {s}
  BY DEF End, TypeOK, Joining, NoTx

\* What there is to count.
LEMMA RoomyTypes ==
  ASSUME TypeOK, NEW g \in Groups
  PROVE  /\ Seats \in Nat /\ Seats > 1 /\ raced[g] \in Nat /\ grp[g].seats \in Nat
         /\ Cardinality(Taken(g)) \in Nat
  BY TakenFinite, GroupsAssumption DEF GroupsAssumption, TypeOK, GrpRow

\* With nobody more in the group, no join more on its way and no number of seats
\* beyond the bound, the bound stands.
LEMMA StillRoomy ==
  ASSUME TypeOK, NEW g \in Groups, Roomy(g),
         Taken(g)' \subseteq Taken(g), Joining(g)' \subseteq Joining(g), raced'[g] = raced[g],
         grp'[g].owner = None => grp[g].owner = None,
         grp'[g].seats <= Seats + raced[g],
         \A x \in Sessions : tx'[x].group = g => tx'[x].seats <= Seats + raced[g]
  PROVE  Roomy(g)'
<1>1. /\ Cardinality(Taken(g)') \in Nat /\ Cardinality(Taken(g)) \in Nat
      /\ Cardinality(Taken(g)') <= Cardinality(Taken(g))
  BY TakenFinite, FS_Subset, FS_CardinalityType
<1>2. Cardinality(Taken(g)') <= Seats + raced[g]
  BY <1>1, RoomyTypes DEF Roomy
<1>3. Joining(g)' # {} => Cardinality(Taken(g)') < Seats + raced[g]
  BY <1>1, RoomyTypes DEF Roomy
<1>4. grp'[g].owner = None => Taken(g)' = {} /\ Joining(g)' = {}
  BY DEF Roomy
<1> QED
  BY <1>2, <1>3, <1>4 DEF Roomy

\* Whatever a session turns to, it has counted no more seats than the bound.
LEMMA StillCounted ==
  ASSUME TypeOK, NEW g \in Groups, Roomy(g), NEW s \in Sessions, NEW r,
         tx' = [tx EXCEPT ![s] = r], r.group = g => r.seats <= Seats + raced[g]
  PROVE  \A x \in Sessions : tx'[x].group = g => tx'[x].seats <= Seats + raced[g]
  BY DEF TypeOK, Roomy

\* A renewal counts no more than the bound, however oversold the group is.
LEMMA CountBounded ==
  ASSUME TypeOK, NEW g \in Groups, Roomy(g)
  PROVE  SeatsFor(g) <= Seats + raced[g]
  BY RoomyTypes DEF Roomy, SeatsFor

\* A session that ends, with the seats as they were or one less.
LEMMA EndRoomy ==
  ASSUME TypeOK, NEW s \in Sessions, End(s), NEW g \in Groups, Roomy(g),
         Taken(g)' \subseteq Taken(g), raced' = raced,
         grp'[g].owner = None => grp[g].owner = None,
         grp'[g].seats <= Seats + raced[g]
  PROVE  Roomy(g)'
<1>1. NoTx.group # g
  BY GroupsAssumption DEF GroupsAssumption, NoTx
<1>2. \A x \in Sessions : tx'[x].group = g => tx'[x].seats <= Seats + raced[g]
  BY <1>1, StillCounted DEF End
<1>3. Joining(g)' \subseteq Joining(g)
  BY EndLeaves
<1> QED
  BY <1>2, <1>3, StillRoomy

\* A new group has its owner in it, and seats for more.
LEMMA NewGroupRoomy ==
  ASSUME TypeOK, NEW s \in Sessions, End(s), NEW g \in Groups, Roomy(g),
         NEW h \in Unused, NEW u \in Users, NewGroup(u, h), raced' = raced
  PROVE  Roomy(g)'
<1>1. CASE h # g
  <2>1. grp'[g] = grp[g] /\ Taken(g)' = Taken(g)
    BY <1>1 DEF NewGroup, Taken, TypeOK
  <2> QED
    BY <2>1, EndRoomy DEF Roomy
<1>2. CASE h = g
  <2>1. Taken(g) = {} /\ Joining(g) = {}
    BY <1>2 DEF Roomy, Unused
  <2>2. Taken(g)' = {u}
    BY <1>2, <2>1 DEF NewGroup, Taken, TypeOK
  <2>3. Joining(g)' = {} /\ Cardinality(Taken(g)') = 1
    BY <2>1, <2>2, EndLeaves, FS_Singleton
  <2>4. grp'[g].seats = Seats /\ grp'[g].owner # None
    BY <1>2, GroupsAssumption DEF NewGroup, TypeOK, GroupsAssumption
  <2>5. NoTx.group # g
    BY GroupsAssumption DEF GroupsAssumption, NoTx
  <2>6. \A x \in Sessions : tx'[x].group = g => tx'[x].seats <= Seats + raced[g]
    BY <2>5, StillCounted DEF End
  <2> QED
    BY <2>3, <2>4, <2>6, RoomyTypes DEF Roomy
<1> QED
  BY <1>1, <1>2

\* A re-dated group gets the seats that were counted.
LEMMA RedatedRoomy ==
  ASSUME TypeOK, NEW s \in Sessions, End(s), NEW g \in Groups, Roomy(g),
         tx[s].group \in Groups, NEW old, NEW ends \in Nat,
         Redated(tx[s].group, old, ends, tx[s].seats), UNCHANGED <<seat, raced>>
  PROVE  Roomy(g)'
<1>1. Taken(g)' = Taken(g) /\ tx[s].seats \in Nat
  BY DEF Taken, TypeOK, TxType
<1>2. CASE tx[s].group = g
  <2>1. grp'[g].owner = grp[g].owner /\ grp'[g].seats \in {tx[s].seats, grp[g].seats}
    BY <1>1, <1>2, RedatedType
  <2>2. grp'[g].seats <= Seats + raced[g]
    BY <1>2, <2>1 DEF Roomy
  <2> QED
    BY <1>1, <2>1, <2>2, EndRoomy
<1>3. CASE tx[s].group # g
  <2>1. grp'[g] = grp[g]
    BY <1>1, <1>3, RedatedType
  <2> QED
    BY <1>1, <2>1, EndRoomy DEF Roomy
<1> QED
  BY <1>2, <1>3

\* A seat that is taken is one of those the bound leaves, or counts as raced.
LEMMA FinishJoinRoomy ==
  ASSUME TypeOK, NEW s \in Sessions, FinishJoin(s), NEW g \in Groups, Roomy(g)
  PROVE  Roomy(g)'
<1> DEFINE h == tx[s].group
<1>1. /\ h \in Groups /\ tx[s].who \in Users /\ s \in Joining(h) /\ End(s) /\ grp' = grp
      /\ raced' = [raced EXCEPT ![h] = IF Joining(h) = {s} THEN @ ELSE @ + 1]
  BY DEF FinishJoin, TypeOK, TxOK, Joining
<1>2. CASE g # h
  <2>1. Taken(g)' = Taken(g) /\ raced'[g] = raced[g]
    BY <1>1, <1>2 DEF FinishJoin, Taken, TypeOK
  <2>2. NoTx.group # g
    BY GroupsAssumption DEF GroupsAssumption, NoTx
  <2>3. \A x \in Sessions : tx'[x].group = g => tx'[x].seats <= Seats + raced[g]
    BY <1>1, <2>2, StillCounted DEF End
  <2>4. Joining(g)' \subseteq Joining(g)
    BY <1>1, EndLeaves
  <2> QED
    BY <1>1, <2>1, <2>3, <2>4, StillRoomy DEF Roomy
<1>3. CASE g = h
  <2>1. Taken(g)' = Taken(g) \cup {tx[s].who} /\ tx[s].who \notin Taken(g)
    BY <1>1, <1>3 DEF FinishJoin, Taken, TypeOK
  <2>2. Cardinality(Taken(g)') = Cardinality(Taken(g)) + 1
    BY <2>1, TakenFinite, FS_AddElement
  <2>3. Joining(g)' = Joining(g) \ {s}
    BY <1>1, EndLeaves
  <2>4. Cardinality(Taken(g)) < Seats + raced[g] /\ grp[g].owner # None
    BY <1>1, <1>3 DEF Roomy
  <2>5. raced'[g] = IF Joining(g) = {s} THEN raced[g] ELSE raced[g] + 1
    BY <1>1, <1>3 DEF TypeOK
  <2>6. raced'[g] \in Nat /\ raced'[g] >= raced[g]
    BY <2>5, RoomyTypes
  <2>7. Cardinality(Taken(g)') <= Seats + raced'[g]
    BY <2>2, <2>4, <2>6, RoomyTypes
  <2>8. Joining(g)' # {} => Cardinality(Taken(g)') < Seats + raced'[g]
    BY <2>2, <2>3, <2>4, <2>5, RoomyTypes
  <2>9. grp'[g].seats <= Seats + raced'[g]
    BY <1>1, <2>6, RoomyTypes DEF Roomy
  <2>10. \A x \in Sessions : tx'[x].group = g => tx'[x].seats <= Seats + raced'[g]
    <3>1. NoTx.group # g
      BY GroupsAssumption DEF GroupsAssumption, NoTx
    <3>2. \A x \in Sessions : tx'[x].group = g => tx'[x].seats <= Seats + raced[g]
      BY <1>1, <3>1, StillCounted DEF End
    <3>3. \A x \in Sessions : tx'[x].seats \in Nat
      BY <1>1, EndType DEF TxType
    <3> QED
      BY <2>6, <3>2, <3>3, RoomyTypes
  <2> QED
    BY <1>1, <2>4, <2>7, <2>8, <2>9, <2>10 DEF Roomy
<1> QED
  BY <1>2, <1>3

LEMMA FinishRoomy ==
  ASSUME TypeOK, NEW s \in Sessions, Finish(s), NEW g \in Groups, Roomy(g)
  PROVE  Roomy(g)'
<1>1. /\ End(s) /\ tx[s].who \in Users /\ tx[s].group \in Groups \cup {None}
      /\ tx[s].op \in {"join", "remove", "renew"} => tx[s].group \in Groups
      /\ tx[s].want.ends \in Nat /\ tx[s].saw.ends \in Nat
  BY FinishKnows DEF SubRow
<1>2. CASE UNCHANGED <<grp, seat, raced>>
  BY <1>1, <1>2, EndRoomy DEF Roomy, Taken
<1>3. CASE UNCHANGED raced /\ \E h \in Unused : NewGroup(tx[s].who, h)
  BY <1>1, <1>3, NewGroupRoomy
<1>4. CASE FinishPay(s)
  BY <1>2, <1>3, <1>4 DEF FinishPay
<1>5. CASE Renew(s)
  BY <1>1, <1>5, RedatedRoomy DEF Renew
<1>6. CASE FinishReward(s) \/ FinishGrant(s)
  BY <1>2, <1>6 DEF FinishReward, FinishGrant
<1>7. CASE FinishOpen(s)
  <2>1. CASE tx[s].group = None
    BY <1>3, <1>7, <2>1 DEF FinishOpen
  <2>2. CASE tx[s].group # None
    BY <1>1, <1>7, <2>2, RedatedRoomy DEF FinishOpen
  <2> QED
    BY <2>1, <2>2
<1>8. CASE FinishRemove(s)
  <2>1. Taken(g)' \subseteq Taken(g) /\ grp' = grp /\ raced' = raced
    BY <1>8 DEF FinishRemove, Taken, TypeOK
  <2> QED
    BY <1>1, <2>1, EndRoomy DEF Roomy
<1> QED
  BY <1>4, <1>5, <1>6, <1>7, <1>8, FinishJoinRoomy DEF Finish

LEMMA ArriveRoomy ==
  ASSUME TypeOK, NEW s \in Sessions, Arrive(s) \/ Activate(s), NEW g \in Groups, Roomy(g)
  PROVE  Roomy(g)'
<1>1. ASSUME NEW r, Begin(s, r), UNCHANGED World, r.op # "join",
             r.group = g => r.seats <= Seats + raced[g]
      PROVE  Roomy(g)'
  <2>1. Joining(g)' \subseteq Joining(g)
    BY <1>1 DEF Begin, Joining, TypeOK
  <2>2. \A x \in Sessions : tx'[x].group = g => tx'[x].seats <= Seats + raced[g]
    BY <1>1, StillCounted DEF Begin
  <2> QED
    BY <1>1, <2>1, <2>2, StillRoomy DEF World, Taken, Roomy
<1>2. ASSUME NEW r, Begin(s, r), UNCHANGED World, r.op # "join", r.seats = 0
      PROVE  Roomy(g)'
  BY <1>1, <1>2, RoomyTypes
<1>3. ASSUME NEW u \in Users, NEW t,
             BeginPay(s, u, t) \/ BeginGrant(s, u, t) \/ BeginReward(s, u)
      PROVE  Roomy(g)'
  BY <1>2, <1>3 DEF BeginPay, BeginGrant, BeginReward, NoTx
<1>4. ASSUME NEW u \in Users, BeginOpen(s, u)
      PROVE  Roomy(g)'
  <2>1. CASE Begin(s, [NoTx EXCEPT !.op = "open", !.who = u, !.saw = sub[u]])
    BY <1>2, <1>4, <2>1 DEF BeginOpen, NoTx
  <2>2. CASE \E h \in Groups :
               Begin(s, [NoTx EXCEPT !.op = "open", !.who = u, !.saw = sub[u], !.group = h,
                                     !.old = grp[h], !.seats = SeatsFor(h)])
    <3>0. PICK h \in Groups :
            Begin(s, [NoTx EXCEPT !.op = "open", !.who = u, !.saw = sub[u], !.group = h,
                                  !.old = grp[h], !.seats = SeatsFor(h)])
      BY <2>2
    <3>1. PICK r :
            /\ r = [NoTx EXCEPT !.op = "open", !.who = u, !.saw = sub[u], !.group = h,
                                !.old = grp[h], !.seats = SeatsFor(h)]
            /\ Begin(s, r)
      BY <3>0
    <3>2. r.op = "open" /\ r.group = h /\ r.seats = SeatsFor(h)
      BY <3>1 DEF NoTx
    <3> QED
      BY <1>1, <1>4, <3>1, <3>2, CountBounded DEF BeginOpen
  <2> QED
    BY <1>4, <2>1, <2>2 DEF BeginOpen, OwnedBy
<1>5. ASSUME NEW u \in Users, NEW h \in Groups, BeginRemove(s, h, u)
      PROVE  Roomy(g)'
  <2>0. PICK r : r = [NoTx EXCEPT !.op = "remove", !.who = u, !.group = h, !.saw = sub[u],
                                  !.row = seat[h][u]]
    OBVIOUS
  <2>1. r.op = "remove" /\ r.seats = 0
    BY <2>0 DEF NoTx
  <2> QED
    BY <1>2, <1>5, <2>0, <2>1 DEF BeginRemove
<1>6. ASSUME NEW u \in Users, Revoke(s, u)
      PROVE  Roomy(g)'
  BY <1>6, StillRoomy DEF Revoke, Taken, Joining, Roomy
<1>7. ASSUME NEW u \in Users, NEW h \in Groups, BeginJoin(s, u, h)
      PROVE  Roomy(g)'
  <2>0. PICK r : /\ r = [NoTx EXCEPT !.op = "join", !.who = u, !.group = h, !.saw = sub[u],
                                     !.old = grp[h]]
                 /\ Begin(s, r)
    BY <1>7 DEF BeginJoin
  <2>1. r.op = "join" /\ r.group = h /\ r.seats = 0 /\ UNCHANGED World
    BY <1>7, <2>0 DEF BeginJoin, NoTx
  <2>2. \A x \in Sessions : tx'[x].group = g => tx'[x].seats <= Seats + raced[g]
    <3>1. r.seats <= Seats + raced[g]
      BY <2>1, RoomyTypes
    <3> QED
      BY <2>0, <3>1, StillCounted DEF Begin
  <2>3. CASE h # g
    <3>1. Joining(g)' \subseteq Joining(g)
      BY <2>0, <2>1, <2>3 DEF Joining, Begin, TypeOK
    <3> QED
      BY <2>1, <2>2, <3>1, StillRoomy DEF World, Taken, Roomy
  <2>4. CASE h = g
    <3>1. Taken(g)' = Taken(g) /\ grp' = grp /\ raced' = raced
      BY <2>1 DEF World, Taken
    <3>2. Cardinality(Taken(g)) < grp[g].seats /\ grp[g].owner # None
      BY <1>7, <2>4 DEF BeginJoin, HasRoom
    <3>3. Cardinality(Taken(g)) < Seats + raced[g]
      BY <3>2, RoomyTypes DEF Roomy
    <3> QED
      BY <2>2, <3>1, <3>2, <3>3 DEF Roomy
  <2> QED
    BY <2>3, <2>4
<1>8. ASSUME Activate(s)
      PROVE  Roomy(g)'
  <2>0. PICK h \in OwnedBy(tx[s].who) :
          Begin(s, [tx[s] EXCEPT !.op = "renew", !.want = Renewed(tx[s].saw, "friends"),
                                 !.group = h, !.old = grp[h], !.seats = SeatsFor(h)])
    BY <1>8 DEF Activate
  <2>1. PICK r :
          /\ r = [tx[s] EXCEPT !.op = "renew", !.want = Renewed(tx[s].saw, "friends"),
                               !.group = h, !.old = grp[h], !.seats = SeatsFor(h)]
          /\ Begin(s, r)
    BY <2>0
  <2>2. r.op = "renew" /\ r.group = h /\ r.seats = SeatsFor(h)
    BY <2>1 DEF TypeOK, TxType
  <2> QED
    BY <1>1, <1>8, <2>1, <2>2, CountBounded DEF Activate, OwnedBy
<1>9. CASE Arrive(s)
  BY <1>3, <1>4, <1>5, <1>6, <1>7, <1>9 DEF Arrive
<1> QED
  BY <1>8, <1>9

\* Nothing counted, written or taken is beyond the plan's seats and the seats
\* that were raced for.
THEOREM AlwaysRoomy == Spec => [](\A g \in Groups : Roomy(g))
<1> DEFINE Inv == \A g \in Groups : Roomy(g)
<1>1. Init => Inv
  <2> SUFFICES ASSUME Init, NEW g \in Groups PROVE Roomy(g)
    OBVIOUS
  <2>1. Taken(g) = {} /\ Joining(g) = {} /\ grp[g].seats = 0 /\ raced[g] = 0
    BY DEF Init, Taken, Joining, NoTx, NoGroup
  <2>2. \A s \in Sessions : tx[s].seats = 0
    BY DEF Init, NoTx
  <2>3. Seats \in Nat
    BY GroupsAssumption DEF GroupsAssumption
  <2> QED
    BY <2>1, <2>2, <2>3, FS_EmptySet DEF Roomy
<1>2. TypeOK /\ Inv /\ [Next]_vars => Inv'
  <2> SUFFICES ASSUME TypeOK, Inv, [Next]_vars, NEW g \in Groups PROVE Roomy(g)'
    OBVIOUS
  <2>1. ASSUME NEW s \in Sessions, Arrive(s) \/ Activate(s) \/ Finish(s)
        PROVE  Roomy(g)'
    BY <2>1, ArriveRoomy, FinishRoomy
  <2>2. ASSUME NEW s \in Sessions, Abort(s)
        PROVE  Roomy(g)'
    BY <2>2, EndRoomy DEF Abort, World, Taken, Roomy
  <2>3. CASE Tick \/ UNCHANGED vars
    BY <2>3, StillRoomy DEF Tick, vars, Taken, Joining, Roomy
  <2> QED
    BY <2>1, <2>2, <2>3 DEF Next
<1> QED
  BY <1>1, <1>2, TypeCorrect, PTL DEF Spec

\* However requests overlap, renewals that count the seats and write them later
\* included, a group is oversold only by seats two joins raced for.
THEOREM OversellBound == Spec => []OversellIsBounded
<1>1. (\A g \in Groups : Roomy(g)) => OversellIsBounded
  BY DEF Roomy, OversellIsBounded
<1> QED
  BY <1>1, AlwaysRoomy, PTL

-----------------------------------------------------------------------------
(* One request at a time.                                                  *)

\* What the request in hand loaded is still so, and the plan it writes is one
\* that serves.
InHand(r) ==
  /\ r.op # "idle" => r.saw = sub[r.who]
  /\ r.op \in {"join", "renew"} => r.old = grp[r.group]
  /\ r.op = "open" /\ r.group # None => r.old = grp[r.group]
  /\ r.op = "renew" => r.want.tier # "free" /\ r.want.verified
  /\ r.op = "reward" => r.saw.tier # "free" /\ r.saw.verified

\* A plan of one's own that runs came from no group.
OwnPlans ==
  \A u \in Users :
    Live(due[u]) => Serves(sub[u]) /\ sub[u].ends >= due[u] /\ sub[u].group = None

SerialInv ==
  /\ \A s \in Sessions : InHand(tx[s])
  /\ SeatsFollowGroup
  /\ OwnPlans

LEMMA OneSession ==
  ASSUME Cardinality(Sessions) = 1
  PROVE  \A s, o \in Sessions : s = o
  BY FS_Singleton, GroupsAssumption

LEMMA NothingInHand == InHand(NoTx)
  BY DEF InHand, NoTx

\* A row that was loaded as it is becomes what it is wanted to be.
LEMMA MergedSame ==
  ASSUME NEW saw \in SubRow, NEW want \in SubRow
  PROVE  Merged(saw, want, saw) = want
<1>1. /\ Column(saw.tier, want.tier, saw.tier) = want.tier
      /\ Column(saw.ends, want.ends, saw.ends) = want.ends
      /\ Column(saw.verified, want.verified, saw.verified) = want.verified
      /\ Column(saw.group, want.group, saw.group) = want.group
  BY DEF Column
<1> QED
  BY <1>1 DEF Merged, SubRow

\* So a payment leaves the plan it wrote, and its referral days.
LEMMA BoughtSame ==
  ASSUME NEW saw \in SubRow, NEW want \in SubRow, NEW days \in Nat,
         want.tier # "free", want.verified, want.group = None
  PROVE  /\ Bought(saw, want, days, saw) = Extended(want, days)
         /\ Extended(want, days) \in SubRow /\ Extended(want, days).group = None
         /\ Live(Extended(want, days).ends) => Serves(Extended(want, days))
<1>1. Extended(want, days) \in SubRow
  BY BoughtType
<1>2. Bought(saw, want, days, saw) = Extended(want, days)
  BY <1>1, MergedSame DEF Bought
<1>3. /\ Extended(want, days).group = want.group /\ Extended(want, days).tier = want.tier
      /\ Extended(want, days).verified = want.verified
  BY DEF Extended, SubRow
<1> QED
  BY <1>1, <1>2, <1>3 DEF Serves, Effective

\* What the plans that are bought and granted are worth.
LEMMA OwnRows ==
  ASSUME TypeOK, NEW r \in SubRow, NEW t \in Tiers, NEW extend \in BOOLEAN
  PROVE  /\ Renewed(r, t).group = None /\ Granted(r, t, extend).group = None
         /\ Renewed(r, t).tier = t /\ Renewed(r, t).verified
         /\ Live(Granted(r, t, extend).ends) => Serves(Granted(r, t, extend))
<1>1. \A base : RenewedFrom(base, t).group = None /\ RenewedFrom(base, t).verified
                /\ RenewedFrom(base, t).tier = t
  BY DEF RenewedFrom
<1>2. Renewed(r, t).group = None /\ Renewed(r, t).tier = t /\ Renewed(r, t).verified
  BY <1>1 DEF Renewed
<1>3. Granted(r, t, extend).group = None
  BY <1>1 DEF Granted, Renewed
<1>4. CASE t = "free"
  BY <1>1, <1>2, <1>3, <1>4 DEF Granted, Live, TypeOK, Renewed
<1>5. CASE t # "free"
  BY <1>1, <1>2, <1>3, <1>5 DEF Granted, Renewed, Serves, Effective
<1> QED
  BY <1>2, <1>3, <1>4, <1>5

\* A step that begins a request, or moves nothing but the clock.
LEMMA SerialBegins ==
  ASSUME TypeOK, SerialInv, UNCHANGED <<sub, grp, due, extra>>, now' \in {now, now + 1},
         \A s \in Sessions : tx'[s] = tx[s] \/ InHand(tx'[s])
  PROVE  SerialInv'
<1>1. \A e \in Nat : e > now' => e > now
  BY DEF TypeOK
<1>2. \A u \in Users : sub[u].ends \in Nat /\ due[u] \in Nat
  BY DEF TypeOK, SubRow
<1>3. SeatsFollowGroup'
  BY <1>1, <1>2 DEF SerialInv, SeatsFollowGroup, Serves, Effective, Live
<1>4. OwnPlans'
  <2> SUFFICES ASSUME NEW u \in Users, due[u] > now'
               PROVE  Serves(sub[u])' /\ sub[u].ends >= due[u] /\ sub[u].group = None
    BY DEF OwnPlans, Live
  <2>1. Serves(sub[u]) /\ sub[u].ends >= due[u] /\ sub[u].group = None
    BY <1>1, <1>2 DEF SerialInv, OwnPlans, Live
  <2>2. sub[u].ends > now' /\ now' \in Nat
    BY <1>2, <2>1 DEF TypeOK
  <2> QED
    BY <2>1, <2>2 DEF Serves, Effective, Live
<1>5. \A s \in Sessions : InHand(tx[s])'
  BY DEF SerialInv, InHand
<1> QED
  BY <1>3, <1>4, <1>5 DEF SerialInv

LEMMA ArriveSerial ==
  ASSUME TypeOK, SerialInv, NEW s \in Sessions, \A o \in Sessions : o = s, Arrive(s)
  PROVE  SerialInv'
<1>1. ASSUME NEW r, Begin(s, r), UNCHANGED World, InHand(r)
      PROVE  SerialInv'
  <2>1. \A o \in Sessions : tx'[o] = tx[o] \/ InHand(tx'[o])
    BY <1>1 DEF Begin, TypeOK
  <2> QED
    BY <1>1, <2>1, SerialBegins DEF World
<1>2. ASSUME NEW u \in Users, NEW t, BeginPay(s, u, t) PROVE SerialInv'
  <2>1. InHand([NoTx EXCEPT !.op = "pay", !.who = u, !.tier = t, !.saw = sub[u]])
    BY DEF InHand, NoTx
  <2> QED
    BY <1>1, <1>2, <2>1 DEF BeginPay
<1>3. ASSUME NEW u \in Users, NEW t, BeginGrant(s, u, t) PROVE SerialInv'
  <2>1. InHand([NoTx EXCEPT !.op = "grant", !.who = u, !.tier = t, !.saw = sub[u]])
    BY DEF InHand, NoTx
  <2> QED
    BY <1>1, <1>3, <2>1 DEF BeginGrant
<1>4. ASSUME NEW u \in Users, BeginOpen(s, u) PROVE SerialInv'
  <2>1. CASE Begin(s, [NoTx EXCEPT !.op = "open", !.who = u, !.saw = sub[u]])
    <3>1. InHand([NoTx EXCEPT !.op = "open", !.who = u, !.saw = sub[u]])
      BY DEF InHand, NoTx
    <3> QED
      BY <1>1, <1>4, <2>1, <3>1 DEF BeginOpen
  <2>2. CASE \E g \in Groups :
               Begin(s, [NoTx EXCEPT !.op = "open", !.who = u, !.saw = sub[u], !.group = g,
                                     !.old = grp[g], !.seats = SeatsFor(g)])
    <3>1. PICK g \in Groups :
               Begin(s, [NoTx EXCEPT !.op = "open", !.who = u, !.saw = sub[u], !.group = g,
                                     !.old = grp[g], !.seats = SeatsFor(g)])
      BY <2>2
    <3>2. InHand([NoTx EXCEPT !.op = "open", !.who = u, !.saw = sub[u], !.group = g,
                              !.old = grp[g], !.seats = SeatsFor(g)])
      BY DEF InHand, NoTx
    <3> QED
      BY <1>1, <1>4, <3>1, <3>2 DEF BeginOpen
  <2> QED
    BY <1>4, <2>1, <2>2 DEF BeginOpen, OwnedBy
<1>5. ASSUME NEW u \in Users, NEW g \in Groups, BeginJoin(s, u, g) PROVE SerialInv'
  <2>1. InHand([NoTx EXCEPT !.op = "join", !.who = u, !.group = g, !.saw = sub[u],
                            !.old = grp[g]])
    BY DEF InHand, NoTx
  <2> QED
    BY <1>1, <1>5, <2>1 DEF BeginJoin
<1>6. ASSUME NEW u \in Users, NEW g \in Groups, BeginRemove(s, g, u) PROVE SerialInv'
  <2>1. InHand([NoTx EXCEPT !.op = "remove", !.who = u, !.group = g, !.saw = sub[u],
                            !.row = seat[g][u]])
    BY DEF InHand, NoTx
  <2> QED
    BY <1>1, <1>6, <2>1 DEF BeginRemove
<1>7. ASSUME NEW u \in Users, BeginReward(s, u) PROVE SerialInv'
  <2>1. sub[u].tier # "free" /\ sub[u].verified
    BY <1>7 DEF BeginReward, Serves, Effective
  <2>2. InHand([NoTx EXCEPT !.op = "reward", !.who = u, !.saw = sub[u]])
    BY <2>1 DEF InHand, NoTx
  <2> QED
    BY <1>1, <1>7, <2>2 DEF BeginReward
<1>8. ASSUME NEW u \in Users, Revoke(s, u) PROVE SerialInv'
  <2>1. /\ sub' = [sub EXCEPT ![u] = [sub[u] EXCEPT !.ends = now, !.verified = FALSE]]
        /\ due' = [due EXCEPT ![u] = now] /\ UNCHANGED <<now, grp, extra, tx>>
        /\ tx[s].op = "idle"
    BY <1>8 DEF Revoke, Idle
  <2>2. sub[u] \in SubRow /\ now \in Nat
    BY DEF TypeOK
  <2>3. ~Live(now) /\ ~Serves([sub[u] EXCEPT !.ends = now, !.verified = FALSE])
    BY <2>2 DEF Live, Serves, Effective, SubRow
  <2>4. SeatsFollowGroup'
    BY <2>1, <2>3 DEF SerialInv, SeatsFollowGroup, Serves, Effective, Live, TypeOK
  <2>5. OwnPlans'
    BY <2>1, <2>3 DEF SerialInv, OwnPlans, Serves, Effective, Live, TypeOK
  <2>6. \A o \in Sessions : InHand(tx[o])'
    BY <2>1 DEF InHand
  <2> QED
    BY <2>4, <2>5, <2>6 DEF SerialInv
<1> QED
  BY <1>2, <1>3, <1>4, <1>5, <1>6, <1>7, <1>8 DEF Arrive

\* A payment that turns to renewing a group has it as it is.
LEMMA ActivateSerial ==
  ASSUME TypeOK, SerialInv, NEW s \in Sessions, \A o \in Sessions : o = s, Activate(s)
  PROVE  SerialInv'
<1>1. PICK g \in OwnedBy(tx[s].who) :
        Begin(s, [tx[s] EXCEPT !.op = "renew", !.want = Renewed(tx[s].saw, "friends"),
                               !.group = g, !.old = grp[g], !.seats = SeatsFor(g)])
  BY DEF Activate
<1>2. PICK r : /\ r = [tx[s] EXCEPT !.op = "renew", !.want = Renewed(tx[s].saw, "friends"),
                                    !.group = g, !.old = grp[g], !.seats = SeatsFor(g)]
               /\ Begin(s, r)
  BY <1>1
<1>3. /\ r.op = "renew" /\ r.want = Renewed(tx[s].saw, "friends") /\ r.group = g
      /\ r.old = grp[g] /\ r.saw = tx[s].saw /\ r.who = tx[s].who
  BY <1>2 DEF TypeOK, TxType
<1>4. tx[s].saw = sub[tx[s].who] /\ tx[s].saw \in SubRow
  BY DEF SerialInv, InHand, Activate, TypeOK, TxType
<1>5. Renewed(tx[s].saw, "friends").tier # "free" /\ Renewed(tx[s].saw, "friends").verified
  BY DEF Renewed, RenewedFrom
<1>6. InHand(r)
  BY <1>3, <1>4, <1>5 DEF InHand
<1>7. \A o \in Sessions : tx'[o] = tx[o] \/ InHand(tx'[o])
  BY <1>2, <1>6 DEF Begin, TypeOK
<1> QED
  BY <1>7, SerialBegins DEF Activate, World

\* A session that ends has nothing in hand.
LEMMA EndInHand ==
  ASSUME TypeOK, SerialInv, NEW s \in Sessions, \A o \in Sessions : o = s, End(s)
  PROVE  \A o \in Sessions : InHand(tx[o])'
  BY DEF End, InHand, NoTx, TypeOK

\* One subscription changes to a row that came from no group, or that follows
\* its group; a plan that was not one's own was not due.
LEMMA OneRow ==
  ASSUME TypeOK, SerialInv, NEW s \in Sessions, \A o \in Sessions : o = s, End(s),
         NEW u \in Users, NEW row \in SubRow, sub' = [sub EXCEPT ![u] = row],
         UNCHANGED <<now, grp>>,
         \A v \in Users \ {u} : extra'[v] = extra[v],
         \A g \in Groups : row.group = g /\ Serves(row) => row.ends = grp[g].ends + extra'[u],
         due' \in [Users -> Nat], \A v \in Users \ {u} : due'[v] = due[v],
         Live(due'[u]) => Serves(row) /\ row.ends >= due'[u] /\ row.group = None
  PROVE  SerialInv'
<1>1. /\ sub'[u] = row /\ \A v \in Users \ {u} : sub'[v] = sub[v]
  BY DEF TypeOK
<1>2. SeatsFollowGroup'
  BY <1>1 DEF SerialInv, SeatsFollowGroup, Serves, Effective, Live
<1>3. OwnPlans'
  BY <1>1 DEF SerialInv, OwnPlans, Serves, Effective, Live
<1> QED
  BY <1>2, <1>3, EndInHand DEF SerialInv

\* Everyone on a group follows it to its new end.
LEMMA WholeGroup ==
  ASSUME TypeOK, SerialInv, NEW s \in Sessions, \A o \in Sessions : o = s, End(s),
         NEW u \in Users, NEW row \in SubRow, row.group # None => row = sub[u],
         NEW g \in Groups, NEW ends \in Nat, NEW n \in Nat,
         SeatsRedated(s, [sub EXCEPT ![u] = row], g, ends),
         Redated(g, grp[g], ends, n), now' = now,
         due' \in [Users -> Nat], \A v \in Users \ {u} : due'[v] = due[v],
         Live(due'[u]) => Serves(row) /\ row.ends >= due'[u] /\ row.group = None
  PROVE  SerialInv'
<1> DEFINE mine == [sub EXCEPT ![u] = row]
<1>1. mine \in [Users -> SubRow] /\ mine[u] = row /\ \A v \in Users \ {u} : mine[v] = sub[v]
  BY DEF TypeOK
<1>2. /\ sub' = WithSeats(mine, g, ends)
      /\ extra' = [v \in Users |-> IF mine[v].group = g THEN 0 ELSE extra[v]]
  BY DEF SeatsRedated
<1> HIDE DEF mine
<1>3. \A v \in Users : IF mine[v].group = g
                       THEN sub'[v].group = g /\ sub'[v].ends = ends /\ extra'[v] = 0
                       ELSE sub'[v] = mine[v] /\ extra'[v] = extra[v]
  BY <1>2 DEF WithSeats
<1>4. grp'[g].ends = ends /\ \A h \in Groups \ {g} : grp'[h] = grp[h]
  BY RedatedType
<1>5. g # None
  BY GroupsAssumption DEF GroupsAssumption
<1>6. SeatsFollowGroup'
  <2> SUFFICES ASSUME NEW v \in Users, NEW h \in Groups, sub'[v].group = h, Serves(sub[v])'
               PROVE  sub'[v].ends = grp'[h].ends + extra'[v]
    BY DEF SeatsFollowGroup
  <2>1. CASE mine[v].group = g
    BY <1>3, <1>4, <2>1
  <2>2. CASE mine[v].group # g
    <3>1. sub'[v] = mine[v] /\ h # g /\ h # None /\ extra'[v] = extra[v]
      BY <1>3, <2>2, GroupsAssumption DEF GroupsAssumption
    <3>2. sub'[v] = sub[v]
      BY <1>1, <3>1
    <3> QED
      BY <1>4, <3>1, <3>2 DEF SerialInv, SeatsFollowGroup, Serves, Effective, Live
  <2> QED
    BY <2>1, <2>2
<1>7. OwnPlans'
  <2> SUFFICES ASSUME NEW v \in Users, Live(due'[v])
               PROVE  Serves(sub[v])' /\ sub'[v].ends >= due'[v] /\ sub'[v].group = None
    BY DEF OwnPlans, Live
  <2>1. mine[v].group = None /\ Serves(mine[v]) /\ mine[v].ends >= due'[v]
    BY <1>1 DEF SerialInv, OwnPlans
  <2>2. sub'[v] = mine[v]
    BY <1>3, <1>5, <2>1
  <2> QED
    BY <2>1, <2>2 DEF Serves, Effective, Live
<1> QED
  BY <1>6, <1>7, EndInHand DEF SerialInv

\* A group nobody had yet begins with nobody's subscription following it.
LEMMA FreshGroup ==
  ASSUME TypeOK, GroupsInv, \A g \in Groups : Roomy(g), SerialInv,
         NEW s \in Sessions, \A o \in Sessions : o = s, End(s),
         NEW u \in Users, NEW row \in SubRow, row.group # None => row = sub[u],
         sub' = [sub EXCEPT ![u] = row], extra' = extra,
         NEW g \in Unused, NewGroup(u, g), now' = now,
         due' \in [Users -> Nat], \A v \in Users \ {u} : due'[v] = due[v],
         Live(due'[u]) => Serves(row) /\ row.ends >= due'[u] /\ row.group = None
  PROVE  SerialInv'
<1>1. /\ sub'[u] = row /\ \A v \in Users \ {u} : sub'[v] = sub[v]
  BY DEF TypeOK
<1>2. g \in Groups /\ \A v \in Users : sub[v].group # g
  BY DEF Unused, Roomy, Taken, GroupsInv, EntitledHaveSeats
<1>3. \A h \in Groups \ {g} : grp'[h] = grp[h]
  BY DEF NewGroup, TypeOK
<1>4. SeatsFollowGroup'
  <2> SUFFICES ASSUME NEW v \in Users, NEW h \in Groups, sub'[v].group = h, Serves(sub[v])'
               PROVE  sub'[v].ends = grp'[h].ends + extra'[v]
    BY DEF SeatsFollowGroup
  <2>1. h # None
    BY GroupsAssumption DEF GroupsAssumption
  <2>2. sub'[v] = sub[v]
    BY <1>1, <2>1
  <2> QED
    BY <1>2, <1>3, <2>2 DEF SerialInv, SeatsFollowGroup, Serves, Effective, Live
<1>5. OwnPlans'
  BY <1>1 DEF SerialInv, OwnPlans, Serves, Effective, Live
<1> QED
  BY <1>4, <1>5, EndInHand DEF SerialInv

\* What a request in hand, the only one, can rely on.
LEMMA SerialKnows ==
  ASSUME TypeOK, SerialInv, NEW s \in Sessions, Finish(s)
  PROVE  /\ tx[s].saw = sub[tx[s].who] /\ due \in [Users -> Nat]
         /\ Live(due[tx[s].who]) => /\ Serves(sub[tx[s].who]) /\ sub[tx[s].who].group = None
                                    /\ sub[tx[s].who].ends >= due[tx[s].who]
         /\ \A want \in SubRow : Merged(tx[s].saw, want, sub[tx[s].who]) = want
<1>1. tx[s].op # "idle" /\ tx[s].who \in Users /\ tx[s].saw \in SubRow
  BY FinishKnows
<1>2. tx[s].saw = sub[tx[s].who]
  BY <1>1 DEF SerialInv, InHand
<1>3. \A want \in SubRow : Merged(tx[s].saw, want, sub[tx[s].who]) = want
  BY <1>1, <1>2, MergedSame
<1> QED
  BY <1>1, <1>2, <1>3 DEF SerialInv, OwnPlans, TypeOK

\* A payment.
LEMMA PaySerial ==
  ASSUME TypeOK, GroupsInv, \A g \in Groups : Roomy(g), SerialInv,
         NEW s \in Sessions, \A o \in Sessions : o = s, FinishPay(s) \/ Renew(s)
  PROVE  SerialInv'
<1> DEFINE u == tx[s].who
           saw == tx[s].saw
<1>0. Finish(s)
  BY DEF Finish
<1>1. /\ End(s) /\ now' = now /\ u \in Users /\ saw \in SubRow /\ tx[s].tier \in Tiers
      /\ tx[s].want \in SubRow /\ tx[s].want.group = None /\ tx[s].seats \in Nat
      /\ {0, Bonus} \subseteq Nat
  BY <1>0, FinishKnows, GroupsAssumption DEF GroupsAssumption
<1>2. saw = sub[u] /\ due \in [Users -> Nat]
  BY <1>0, SerialKnows
<1>3. CASE FinishPay(s)
  <2> DEFINE want == Renewed(saw, tx[s].tier)
  <2>1. want \in SubRow
    BY <1>1, RuleTypes DEF TypeOK
  <2>2. want.tier # "free" /\ want.verified /\ want.group = None
    BY <1>1, <1>3, OwnRows DEF FinishPay
  <2>3. PICK days \in {0, Bonus} : sub' = [sub EXCEPT ![u] = Bought(saw, want, days, sub[u])]
    BY <1>3 DEF FinishPay
  <2> HIDE DEF want
  <2>4. PICK row : row = Extended(want, days)
    OBVIOUS
  <2>5. /\ Bought(saw, want, days, sub[u]) = row /\ row \in SubRow /\ row.group = None
        /\ Live(row.ends) => Serves(row)
    <3>1. days \in Nat
      BY <1>1
    <3> QED
      BY <1>1, <1>2, <2>1, <2>2, <2>4, <3>1, BoughtSame
  <2>6. sub' = [sub EXCEPT ![u] = row] /\ sub'[u] = row /\ row.ends \in Nat
    BY <1>1, <2>3, <2>5 DEF TypeOK, SubRow
  <2>7. /\ due' \in [Users -> Nat] /\ due'[u] = row.ends
        /\ \A v \in Users \ {u} : due'[v] = due[v]
    BY <1>1, <1>2, <1>3, <2>6 DEF FinishPay
  <2>8. Live(due'[u]) => Serves(row) /\ row.ends >= due'[u] /\ row.group = None
    BY <2>5, <2>6, <2>7
  <2>9. extra' = extra
    BY <1>3 DEF FinishPay
  <2>10. CASE UNCHANGED grp
    <3>1. \A g \in Groups : row.group # g
      BY <2>5, GroupsAssumption DEF GroupsAssumption
    <3> QED
      BY <1>1, <2>5, <2>6, <2>7, <2>8, <2>9, <2>10, <3>1, OneRow
  <2>11. CASE \E g \in Unused : NewGroup(u, g)
    BY <1>1, <2>5, <2>6, <2>7, <2>8, <2>9, <2>11, FreshGroup
  <2> QED
    BY <1>3, <2>10, <2>11 DEF FinishPay
<1>4. CASE Renew(s)
  <2> DEFINE want == tx[s].want
             g == tx[s].group
  <2>1. g \in Groups /\ tx[s].op = "renew"
    BY <1>4, FinishKnows, <1>0 DEF Renew
  <2>2. want.tier # "free" /\ want.verified /\ want.group = None /\ tx[s].old = grp[g]
    BY <1>1, <2>1 DEF SerialInv, InHand
  <2>3. PICK days \in {0, Bonus} :
          SeatsRedated(s, [sub EXCEPT ![u] = Bought(saw, want, days, sub[u])], g, want.ends)
    BY <1>4 DEF Renew
  <2>4. PICK row : row = Extended(want, days)
    OBVIOUS
  <2>5. /\ Bought(saw, want, days, sub[u]) = row /\ row \in SubRow /\ row.group = None
        /\ Live(row.ends) => Serves(row)
    <3>1. days \in Nat
      BY <1>1
    <3> QED
      BY <1>1, <1>2, <2>2, <2>4, <3>1, BoughtSame
  <2>6. SeatsRedated(s, [sub EXCEPT ![u] = row], g, want.ends) /\ row.ends \in Nat
    BY <2>3, <2>5 DEF SubRow
  <2>7. sub'[u] = row
    <3>1. sub' = WithSeats([sub EXCEPT ![u] = row], g, want.ends)
      BY <2>6 DEF SeatsRedated
    <3>2. row.group # g
      BY <2>1, <2>5, GroupsAssumption DEF GroupsAssumption
    <3> QED
      BY <1>1, <3>1, <3>2 DEF WithSeats, TypeOK
  <2>8. /\ due' \in [Users -> Nat] /\ due'[u] = row.ends
        /\ \A v \in Users \ {u} : due'[v] = due[v]
    BY <1>1, <1>2, <1>4, <2>6, <2>7 DEF Renew
  <2>9. Live(due'[u]) => Serves(row) /\ row.ends >= due'[u] /\ row.group = None
    BY <2>5, <2>6, <2>8
  <2>10. Redated(g, grp[g], want.ends, tx[s].seats) /\ want.ends \in Nat
    BY <1>1, <1>4, <2>2 DEF Renew, SubRow
  <2> QED
    BY <1>1, <2>1, <2>5, <2>6, <2>8, <2>9, <2>10, WholeGroup
<1> QED
  BY <1>3, <1>4

\* Reward days, on a plan of one's own or on a seat.
LEMMA RewardSerial ==
  ASSUME TypeOK, SerialInv, NEW s \in Sessions, \A o \in Sessions : o = s, FinishReward(s)
  PROVE  SerialInv'
<1> DEFINE u == tx[s].who
           saw == tx[s].saw
           more == Extended(saw, Bonus)
<1>0. Finish(s)
  BY DEF Finish
<1>1. /\ End(s) /\ now' = now /\ u \in Users /\ saw \in SubRow /\ Bonus \in Nat /\ now \in Nat
  BY <1>0, FinishKnows, GroupsAssumption DEF GroupsAssumption, TypeOK
<1>2. /\ saw = sub[u] /\ due \in [Users -> Nat] /\ extra \in [Users -> Nat]
      /\ Live(due[u]) => Serves(sub[u]) /\ sub[u].group = None
  BY <1>0, SerialKnows DEF TypeOK
<1>3. saw.tier # "free" /\ saw.verified
  BY DEF SerialInv, InHand, FinishReward
<1>4. /\ more \in SubRow /\ more.group = saw.group /\ more.tier = saw.tier
      /\ more.verified = saw.verified
      /\ more.ends = IF Live(saw.ends) THEN saw.ends + Bonus ELSE saw.ends
  <2>1. more \in SubRow
    BY <1>1, BoughtType
  <2> QED
    BY <1>1, <2>1 DEF Extended, SubRow
<1>5. Merged(saw, more, sub[u]) = more
  BY <1>0, <1>4, SerialKnows
<1> HIDE DEF more
<1>6. /\ sub' = [sub EXCEPT ![u] = more] /\ sub'[u] = more /\ grp' = grp
      /\ \/ saw.group = None /\ due' = [due EXCEPT ![u] = sub'[u].ends] /\ extra' = extra
         \/ /\ saw.group # None /\ due' = due
            /\ extra' = [extra EXCEPT ![u] = @ + (more.ends - saw.ends)]
  BY <1>1, <1>5 DEF FinishReward, more, TypeOK
<1>7. more.ends \in Nat /\ saw.ends \in Nat
  BY <1>1, <1>4 DEF SubRow
<1>8. Live(more.ends) => Serves(more) /\ Live(saw.ends)
  BY <1>3, <1>4, <1>7 DEF Serves, Effective, Live
<1>9. due' \in [Users -> Nat] /\ \A v \in Users \ {u} : due'[v] = due[v] /\ extra'[v] = extra[v]
  BY <1>1, <1>2, <1>6, <1>7
<1>10. Live(due'[u]) => Serves(more) /\ more.ends >= due'[u] /\ more.group = None
  BY <1>1, <1>2, <1>4, <1>6, <1>7, <1>8
<1>11. ASSUME NEW g \in Groups, more.group = g, Serves(more)
       PROVE  more.ends = grp[g].ends + extra'[u]
  <2>1. Live(saw.ends) /\ Serves(sub[u]) /\ sub[u].group = g /\ g # None
    BY <1>2, <1>3, <1>4, <1>8, <1>11, GroupsAssumption
       DEF GroupsAssumption, Serves, Effective
  <2>2. sub[u].ends = grp[g].ends + extra[u]
    BY <1>1, <2>1 DEF SerialInv, SeatsFollowGroup
  <2>3. extra'[u] = extra[u] + Bonus
    BY <1>1, <1>2, <1>4, <1>6, <1>7, <2>1
  <2>4. grp[g].ends \in Nat /\ extra[u] \in Nat
    BY <1>1, <1>2 DEF TypeOK, GrpRow
  <2> QED
    BY <1>1, <1>2, <1>4, <1>7, <2>1, <2>2, <2>3, <2>4
<1> QED
  BY <1>1, <1>4, <1>6, <1>9, <1>10, <1>11, OneRow

LEMMA FinishSerial ==
  ASSUME TypeOK, GroupsInv, \A g \in Groups : Roomy(g), SerialInv,
         NEW s \in Sessions, \A o \in Sessions : o = s, Finish(s)
  PROVE  SerialInv'
<1> DEFINE u == tx[s].who
           saw == tx[s].saw
<1>1. /\ End(s) /\ now' = now
      /\ tx[s].op # "idle" /\ u \in Users /\ saw = sub[u] /\ saw \in SubRow
      /\ tx[s].tier \in Tiers /\ tx[s].old.ends \in Nat /\ tx[s].group \in Groups \cup {None}
      /\ tx[s].seats \in Nat /\ due \in [Users -> Nat] /\ extra \in [Users -> Nat]
  BY FinishKnows, SerialKnows DEF GrpRow, TypeOK
<1>2. Live(due[u]) => Serves(sub[u]) /\ sub[u].ends >= due[u] /\ sub[u].group = None
  BY SerialKnows
<1>3. ASSUME UNCHANGED <<sub, grp, due, extra>> PROVE SerialInv'
  <2>1. \A o \in Sessions : tx'[o] = tx[o] \/ InHand(tx'[o])
    BY <1>1, NothingInHand DEF End, InHand, NoTx, TypeOK
  <2> QED
    BY <1>1, <1>3, <2>1, SerialBegins
<1>4. \A want \in SubRow : Merged(saw, want, sub[u]) = want
  BY SerialKnows
<1>5. now \in Nat
  BY DEF TypeOK
<1>6. \A g \in Groups : g # None
  BY GroupsAssumption DEF GroupsAssumption
<1>8. CASE FinishOpen(s)
  <2>1. sub = [sub EXCEPT ![u] = sub[u]] /\ due' = due /\ saw.ends \in Nat
    BY <1>1, <1>8 DEF FinishOpen, TypeOK, SubRow
  <2>2. CASE tx[s].group = None
    <3>1. sub' = sub /\ extra' = extra /\ \E g \in Unused : NewGroup(u, g)
      BY <1>6, <1>8, <2>2 DEF FinishOpen
    <3> QED
      BY <1>1, <1>2, <2>1, <3>1, FreshGroup
  <2>3. CASE tx[s].group # None
    <3> DEFINE g == tx[s].group
    <3>1. /\ g \in Groups /\ SeatsRedated(s, sub, g, saw.ends)
          /\ Redated(g, tx[s].old, saw.ends, tx[s].seats)
          /\ tx[s].op = "open"
      BY <1>1, <1>8, <2>3 DEF FinishOpen
    <3>2. tx[s].old = grp[g]
      BY <2>3, <3>1 DEF SerialInv, InHand
    <3>3. Redated(g, grp[g], saw.ends, tx[s].seats)
      BY <3>1, <3>2
    <3> QED
      BY <1>1, <1>2, <2>1, <3>1, <3>3, WholeGroup
  <2> QED
    BY <2>2, <2>3
<1>9. CASE FinishJoin(s)
  <2> DEFINE g == tx[s].group
             want == [tier |-> "friends", ends |-> tx[s].old.ends, verified |-> TRUE, group |-> g]
  <2>1. /\ tx[s].op = "join" /\ UNCHANGED <<grp, due>>
        /\ IF OwnPlanLive(saw)
           THEN UNCHANGED <<sub, extra>>
           ELSE /\ sub' = [sub EXCEPT ![u] = Merged(saw, want, sub[u])]
                /\ extra' = [extra EXCEPT ![u] = 0]
    BY <1>1, <1>9 DEF FinishJoin
  <2>2. g \in Groups /\ tx[s].old.ends = grp[g].ends /\ grp[g].ends \in Nat
    BY <2>1 DEF TypeOK, TxOK, SerialInv, InHand, GrpRow
  <2>3. want \in SubRow /\ want.group = g /\ want.ends = tx[s].old.ends
    BY <1>1, <2>2 DEF SubRow, Tiers, Paid
  <2>4. Merged(saw, want, sub[u]) = want
    BY <1>4, <2>3
  <2> HIDE DEF want
  <2>5. CASE OwnPlanLive(saw)
    BY <1>3, <2>1, <2>5
  <2>6. CASE ~OwnPlanLive(saw)
    <3>1. ~Live(due'[u])
      BY <1>1, <1>2, <1>9, <2>6 DEF OwnPlanLive, FinishJoin, Live
    <3>2. extra'[u] = 0 /\ \A v \in Users \ {u} : extra'[v] = extra[v]
      BY <1>1, <2>1, <2>6
    <3>3. sub' = [sub EXCEPT ![u] = want]
          /\ \A h \in Groups : want.group = h => want.ends = grp[h].ends + extra'[u]
      BY <2>1, <2>2, <2>3, <2>4, <2>6, <3>2
    <3>4. /\ due' \in [Users -> Nat] /\ (\A v \in Users \ {u} : due'[v] = due[v])
          /\ grp' = grp
          /\ Live(due'[u]) => Serves(want) /\ want.ends >= due'[u] /\ want.group = None
      BY <1>1, <2>1, <3>1
    <3> QED
      BY <1>1, <2>3, <3>2, <3>3, <3>4, OneRow
  <2> QED
    BY <2>5, <2>6
<1>10. CASE FinishRemove(s)
  <2> DEFINE g == tx[s].group
             less == Removed(saw)
  <2>1. /\ tx[s].op = "remove" /\ UNCHANGED <<grp, due, extra>>
        /\ sub' = IF saw.group = g THEN [sub EXCEPT ![u] = Merged(saw, less, sub[u])] ELSE sub
    BY <1>1, <1>10 DEF FinishRemove
  <2>2. g \in Groups
    BY <2>1 DEF TypeOK, TxOK
  <2>3. less \in SubRow /\ less.group = None
    <3>1. less \in SubRow
      BY <1>1, <1>5, RuleTypes
    <3>2. less.group = None
      BY DEF Removed
    <3> QED
      BY <3>1, <3>2
  <2>4. Merged(saw, less, sub[u]) = less
    BY <1>4, <2>3
  <2> HIDE DEF less
  <2>5. CASE saw.group = g
    <3>1. ~Live(due'[u])
      BY <1>1, <1>2, <1>6, <2>1, <2>2, <2>5 DEF Live
    <3>2. /\ sub' = [sub EXCEPT ![u] = less] /\ grp' = grp /\ ~Live(due'[u])
          /\ due' \in [Users -> Nat] /\ \A v \in Users \ {u} : due'[v] = due[v]
      BY <1>1, <2>1, <2>4, <2>5, <3>1
    <3>3. \A h \in Groups : less.group # h
      BY <1>6, <2>3
    <3>4. Live(due'[u]) => Serves(less) /\ less.ends >= due'[u] /\ less.group = None
      BY <3>2
    <3> QED
      BY <1>1, <2>1, <2>3, <3>2, <3>3, <3>4, OneRow
  <2>6. CASE saw.group # g
    BY <1>3, <2>1, <2>6
  <2> QED
    BY <2>5, <2>6
<1>11. CASE FinishGrant(s)
  <2>1. PICK extend \in BOOLEAN :
          sub' = [sub EXCEPT ![u] = Merged(saw, Granted(saw, tx[s].tier, extend), sub[u])]
    BY <1>11 DEF FinishGrant
  <2> DEFINE row == Granted(saw, tx[s].tier, extend)
  <2>2. row \in SubRow /\ row.group = None /\ (Live(row.ends) => Serves(row)) /\ row.ends \in Nat
    <3>1. row \in SubRow
      BY <1>1, <1>5, RuleTypes
    <3>2. row.group = None /\ (Live(row.ends) => Serves(row))
      BY <1>1, OwnRows
    <3> QED
      BY <3>1, <3>2 DEF SubRow
  <2>3. Merged(saw, row, sub[u]) = row
    BY <1>4, <2>2
  <2> HIDE DEF row
  <2>4. sub' = [sub EXCEPT ![u] = row] /\ sub'[u] = row
    BY <1>1, <2>1, <2>3 DEF row, TypeOK
  <2>5. due' = [due EXCEPT ![u] = row.ends] /\ grp' = grp /\ extra' = extra
    BY <1>11, <2>4 DEF FinishGrant
  <2>6. /\ due' \in [Users -> Nat] /\ due'[u] = row.ends
        /\ \A v \in Users \ {u} : due'[v] = due[v]
    BY <1>1, <2>2, <2>5
  <2>7. Live(due'[u]) => Serves(row) /\ row.ends >= due'[u] /\ row.group = None
    BY <2>2, <2>6
  <2>8. \A h \in Groups : row.group # h
    BY <1>6, <2>2
  <2>9. now' = now /\ grp' = grp /\ \A v \in Users \ {u} : extra'[v] = extra[v]
    BY <1>1, <2>5
  <2> QED
    BY <1>1, <2>2, <2>4, <2>6, <2>7, <2>8, <2>9, OneRow
<1> QED
  BY <1>8, <1>9, <1>10, <1>11, PaySerial, RewardSerial DEF Finish

\* With one request at a time a seat ends with its group but for its reward days,
\* a plan of one's own stays, and what a request has loaded is what it will
\* overwrite.
THEOREM AlwaysSerial ==
  ASSUME Cardinality(Sessions) = 1
  PROVE  Spec => []SerialInv
<1>1. Init => SerialInv
  BY GroupsAssumption
     DEF GroupsAssumption, Init, SerialInv, InHand, NoTx, SeatsFollowGroup, OwnPlans, FreePlan, Live
<1>2. TypeOK /\ GroupsInv /\ (\A g \in Groups : Roomy(g)) /\ SerialInv /\ [Next]_vars => SerialInv'
  <2> SUFFICES ASSUME TypeOK, GroupsInv, \A g \in Groups : Roomy(g), SerialInv, [Next]_vars
               PROVE  SerialInv'
    OBVIOUS
  <2>1. ASSUME NEW s \in Sessions, Arrive(s) \/ Activate(s) \/ Finish(s) PROVE SerialInv'
    BY <2>1, OneSession, ArriveSerial, ActivateSerial, FinishSerial
  <2>2. ASSUME NEW s \in Sessions, Abort(s) PROVE SerialInv'
    <3>1. \A o \in Sessions : tx'[o] = tx[o] \/ InHand(tx'[o])
      BY <2>2 DEF Abort, End, InHand, NoTx, TypeOK
    <3> QED
      BY <2>2, <3>1, SerialBegins DEF Abort, World
  <2>3. CASE Tick \/ UNCHANGED vars
    BY <2>3, SerialBegins DEF Tick, vars
  <2> QED
    BY <2>1, <2>2, <2>3 DEF Next
<1> QED
  BY <1>1, <1>2, TypeCorrect, AlwaysSeated, AlwaysRoomy, PTL DEF Spec

\* One request at a time, a seat that is worth anything ends with its group, or
\* later by just the reward days earned on it since the group was last dated.
THEOREM SerialSeatsFollow ==
  ASSUME Cardinality(Sessions) = 1
  PROVE  Spec => []SeatsFollowGroup
<1>1. SerialInv => SeatsFollowGroup
  BY DEF SerialInv
<1> QED
  BY <1>1, AlwaysSerial, PTL

\* One request at a time, a plan that was bought or granted is kept, with the
\* reward days earned on it.
THEOREM SerialPlansKept ==
  ASSUME Cardinality(Sessions) = 1
  PROVE  Spec => []OwnPlanKept
<1>1. SerialInv => OwnPlanKept
  BY DEF SerialInv, OwnPlans, OwnPlanKept
<1> QED
  BY <1>1, AlwaysSerial, PTL
=============================================================================
