------------------------------ MODULE Sync_proofs ------------------------------
(***************************************************************************)
(* What holds of Sync for any phones, clocks, rows, sessions, caps and     *)
(* page sizes: nothing that was said is lost, and a cursor stands for all  *)
(* that was in reach of it; with one push at a time the newest version     *)
(* wins and the cap holds.                                                 *)
(***************************************************************************)
EXTENDS Sync, FiniteSetTheorems, WellFoundedInduction, TLAPS

\* What a push under way carries: a row that has not changed on its phone since
\* has nothing new said in it that is not on the server.
Carries(p) ==
  /\ p.known \subseteq messages
  /\ \A d \in p.from : \A r \in Rows :
       /\ p.rows[r].at <= phone[d].rows[r].at
       /\ r \in p.sent /\ phone[d].rows[r] = p.rows[r] =>
            Of({r}, phone[d].messages) \subseteq p.messages \cup messages

AllCarry == \A s \in Sessions : Carries(req[s])

\* One push at a time, and what it was compared with.
OneSession == \A s, o \in Sessions : s = o

Current == \A s \in Sessions : req[s].from # {} => req[s].saw = server

-----------------------------------------------------------------------------
(* Types.                                                                  *)

\* The earliest of some times.
LEMMA Earliest ==
  ASSUME NEW T, T \subseteq Nat, T # {}
  PROVE  \E x \in T : \A y \in T : x <= y
<1> DEFINE R == OpToRel(<, Nat)
<1>1. IsWellFoundedOn(R, Nat)
  BY NatLessThanWellFounded
<1> HIDE DEF R
<1>2. PICK x \in T : \A y \in T : ~ (<<y, x>> \in R)
  BY <1>1, WFMin
<1>3. ASSUME NEW y \in T PROVE x <= y
  <2>1. y < x => <<y, x>> \in R
    BY DEF R, OpToRel
  <2>2. ~(y < x)
    BY <1>2, <2>1
  <2> QED
    BY <2>2
<1> QED
  BY <1>3

\* And the latest, of finitely many: the one with the fewest beyond it.
LEMMA Latest ==
  ASSUME NEW T, T \subseteq Nat, T # {}, IsFiniteSet(T)
  PROVE  \E x \in T : \A y \in T : y <= x
<1> DEFINE Beyond(x) == {y \in T : x < y}
           N == {Cardinality(Beyond(x)) : x \in T}
<1>1. \A x \in T : IsFiniteSet(Beyond(x)) /\ Cardinality(Beyond(x)) \in Nat
  BY FS_Subset, FS_CardinalityType
<1>2. N \subseteq Nat /\ N # {}
  BY <1>1
<1>3. PICK n \in N : \A k \in N : n <= k
  BY <1>2, Earliest
<1>4. PICK x \in T : n = Cardinality(Beyond(x))
  OBVIOUS
<1>5. ASSUME NEW y \in T, x < y PROVE FALSE
  <2>1. Beyond(y) \subseteq Beyond(x)
    <3> SUFFICES ASSUME NEW z \in T, y < z PROVE x < z
      OBVIOUS
    <3>1. x \in Nat /\ y \in Nat /\ z \in Nat
      OBVIOUS
    <3> QED
      BY <1>5, <3>1
  <2>2. y \in Beyond(x)
    BY <1>5
  <2>3. y \notin Beyond(y)
    <3>1. y \in Nat /\ ~(y < y)
      OBVIOUS
    <3> QED
      BY <3>1
  <2>4. Cardinality(Beyond(x)) <= Cardinality(Beyond(y))
    BY <1>3, <1>4
  <2> HIDE DEF Beyond
  <2>5. Cardinality(Beyond(y)) <= Cardinality(Beyond(x))
    BY <1>1, <2>1, FS_Subset
  <2>6. Beyond(y) = Beyond(x)
    BY <1>1, <2>1, <2>4, <2>5, FS_Subset
  <2> QED
    BY <2>2, <2>3, <2>6
<1>6. \A y \in T : y <= x
  <2>1. \A y \in T : y \in Nat /\ x \in Nat
    OBVIOUS
  <2> QED
    BY <1>5, <2>1
<1> QED
  BY <1>6

\* The cursor a pull hands out is a time that every page with something in it
\* has reached, if there is more to come.
LEMMA CursorType ==
  ASSUME TypeOK, NEW since, NEW units \in Pages(Units, since), NEW chats \in Pages(Chats, since)
  PROVE  /\ NextCursor({units, chats}) \in Nat
         /\ HasMore({units, chats}) =>
              \A page \in {units, chats} : page # {} =>
                \E t \in Stamps(page) : t >= NextCursor({units, chats})
<1> DEFINE All == UNION {Stamps(page) : page \in {units, chats}}
           Good(c) == /\ \A page \in {units, chats} : page # {} => \E t \in Stamps(page) : t >= c
                      /\ \E page \in {units, chats} : c \in Stamps(page) /\ \A t \in Stamps(page) : t <= c
<1>1. units \subseteq Rows /\ chats \subseteq Rows
  BY DEF Pages, Changed, Rows
<1>2. ASSUME NEW page \in SUBSET Rows, IsFiniteSet(page)
      PROVE  /\ Stamps(page) \subseteq Nat
             /\ page # {} => \E x \in Stamps(page) : \A y \in Stamps(page) : y <= x
  <2>1. \A r \in page : server[r].at \in Nat
    BY DEF TypeOK, Row
  <2>2. Stamps(page) \subseteq Nat /\ (page # {} => Stamps(page) # {})
    BY <2>1 DEF Stamps
  <2> DEFINE f == [r \in page |-> server[r].at]
  <2>3. f \in Surjection(page, Stamps(page))
    BY DEF Surjection, Stamps
  <2>4. IsFiniteSet(Stamps(page))
    BY <1>2, <2>3, FS_Surjection
  <2> QED
    BY <2>2, <2>4, Latest
<1>9. IsFiniteSet(units) /\ IsFiniteSet(chats)
  BY FS_Subset, SyncAssumption DEF Pages, Changed
<1>3. All \subseteq Nat
  BY <1>1, <1>2, <1>9
<1>4. CASE HasMore({units, chats})
  <2>1. units # {} \/ chats # {}
    BY <1>4, FS_EmptySet, SyncAssumption DEF HasMore
  <2>2. \E c \in All : Good(c)
    <3>1. CASE units # {} /\ chats = {}
      <4>1. PICK x \in Stamps(units) : \A y \in Stamps(units) : y <= x
        BY <1>1, <1>2, <1>9, <3>1
      <4>2. Good(x) /\ x \in All
        BY <1>1, <1>2, <1>9, <3>1, <4>1
      <4> QED
        BY <4>2
    <3>2. CASE units = {} /\ chats # {}
      <4>1. PICK x \in Stamps(chats) : \A y \in Stamps(chats) : y <= x
        BY <1>1, <1>2, <1>9, <3>2
      <4>2. Good(x) /\ x \in All
        BY <1>1, <1>2, <1>9, <3>2, <4>1
      <4> QED
        BY <4>2
    <3>3. CASE units # {} /\ chats # {}
      <4>1. PICK x \in Stamps(units) : \A y \in Stamps(units) : y <= x
        BY <1>1, <1>2, <1>9, <3>3
      <4>2. PICK z \in Stamps(chats) : \A y \in Stamps(chats) : y <= z
        BY <1>1, <1>2, <1>9, <3>3
      <4>3. x \in Nat /\ z \in Nat
        BY <1>1, <1>2, <1>9
      <4>4. CASE x <= z
        <5>1. Good(x) /\ x \in All
          BY <4>1, <4>2, <4>3, <4>4
        <5> QED
          BY <5>1
      <4>5. CASE z <= x
        <5>1. Good(z) /\ z \in All
          BY <4>1, <4>2, <4>3, <4>5
        <5> QED
          BY <5>1
      <4>6. x <= z \/ z <= x
        BY <4>3
      <4> HIDE DEF Good, All
      <4> QED
        BY <4>4, <4>5, <4>6
    <3> QED
      BY <2>1, <3>1, <3>2, <3>3
  <2> DEFINE first == CHOOSE c \in All : Good(c)
  <2>3. NextCursor({units, chats}) = first
    BY <1>4 DEF NextCursor
  <2> HIDE DEF All
  <2>4. first \in All /\ Good(first)
    BY <2>2
  <2> HIDE DEF first
  <2> QED
    BY <1>3, <2>3, <2>4
<1>5. CASE ~HasMore({units, chats})
  BY <1>5 DEF NextCursor, TypeOK
<1> QED
  BY <1>4, <1>5

\* What a phone is left with by an edit and by a pull.
LEMMA EditedPhone ==
  ASSUME TypeOK, NEW d \in Devices, NEW r \in Rows, NEW at \in Nat, NEW live \in BOOLEAN, NEW said \in BOOLEAN,
         Edit(d, r, at, live, said)
  PROVE  /\ phone'[d] \in PhoneType
         /\ phone' = [phone EXCEPT ![d] = phone'[d]]
         /\ phone'[d].rows = [phone[d].rows EXCEPT ![r] = [at |-> at, live |-> live]]
         /\ phone'[d].dirty = phone[d].dirty \cup {r} /\ phone'[d].cursor = phone[d].cursor
         /\ phone[d].messages \subseteq phone'[d].messages
         /\ \A m \in phone'[d].messages : m \in phone[d].messages \/ m[1] = r
         /\ phone[d].rows[r].at < at
         /\ UNCHANGED <<clock, server, messages, req, restored, missed>>
<1> DEFINE new == IF said THEN {<<r, d, at>>} ELSE {}
           now == [phone[d] EXCEPT !.rows[r] = [at |-> at, live |-> live],
                                   !.messages = phone[d].messages \cup new,
                                   !.dirty = phone[d].dirty \cup {r}]
<1>1. /\ phone[d].rows[r].at < at
      /\ said => r \in Chats
      /\ UNCHANGED <<clock, server, messages, req, restored, missed>>
      /\ phone' = [phone EXCEPT ![d] = now]
  BY DEF Edit
<1>2. phone[d] \in PhoneType
  BY DEF TypeOK
<1>3. new \subseteq Message
  BY <1>1 DEF Message
<1>4. [at |-> at, live |-> live] \in Row
  BY <1>1 DEF Row
<1>5. /\ now \in PhoneType
      /\ now.rows = [phone[d].rows EXCEPT ![r] = [at |-> at, live |-> live]]
      /\ now.dirty = phone[d].dirty \cup {r} /\ now.cursor = phone[d].cursor
      /\ now.messages = phone[d].messages \cup new
  BY <1>2, <1>3, <1>4 DEF PhoneType
<1>6. phone'[d] = now
  BY <1>1 DEF TypeOK
<1>7. \A m \in new : m[1] = r
  OBVIOUS
<1> HIDE DEF now, new
<1> QED
  BY <1>1, <1>5, <1>6, <1>7

\* What a pull does, and with which pages.
LEMMA PulledWith ==
  ASSUME TypeOK, NEW d \in Devices, Pull(d)
  PROVE  \E units \in Pages(Units, phone[d].cursor), chats \in Pages(Chats, phone[d].cursor) :
           LET old == phone[d]
               newer == {r \in units \cup chats : IsNewer(server[r], old.rows[r])}
               settled == {r \in newer : Of({r}, old.messages) \subseteq messages}
               cut == Cut(units, Units, old.cursor) \cup Cut(chats, Chats, old.cursor)
           IN
           /\ phone' = [phone EXCEPT ![d] =
                          [rows     |-> [r \in Rows |-> IF r \in newer THEN server[r] ELSE old.rows[r]],
                           messages |-> old.messages \cup Of(chats, messages),
                           dirty    |-> old.dirty \ settled,
                           cursor   |-> NextCursor({units, chats})]]
           /\ missed' = [missed EXCEPT ![d] =
                            Behind(missed[d] \cup cut, server, NextCursor({units, chats}))]
           /\ UNCHANGED <<clock, server, messages, req, restored>>
  BY DEF Pull

LEMMA PulledPhone ==
  ASSUME TypeOK, NEW d \in Devices, Pull(d)
  PROVE  /\ phone'[d] \in PhoneType
         /\ phone' = [phone EXCEPT ![d] = phone'[d]]
         /\ \A r \in Rows : \/ phone'[d].rows[r] = phone[d].rows[r]
                            \/ /\ phone'[d].rows[r] = server[r]
                               /\ server[r].at > phone[d].rows[r].at
         /\ phone'[d].dirty \subseteq phone[d].dirty
         /\ \A r \in phone[d].dirty \ phone'[d].dirty : Of({r}, phone[d].messages) \subseteq messages
         /\ phone[d].messages \subseteq phone'[d].messages
         /\ phone'[d].messages \subseteq phone[d].messages \cup messages
         /\ missed' \in [Devices -> SUBSET Rows]
         /\ UNCHANGED <<clock, server, messages, req, restored>>
<1>1. PICK units \in Pages(Units, phone[d].cursor), chats \in Pages(Chats, phone[d].cursor) :
           LET old == phone[d]
               newer == {r \in units \cup chats : IsNewer(server[r], old.rows[r])}
               settled == {r \in newer : Of({r}, old.messages) \subseteq messages}
               cut == Cut(units, Units, old.cursor) \cup Cut(chats, Chats, old.cursor)
           IN
           /\ phone' = [phone EXCEPT ![d] =
                          [rows     |-> [r \in Rows |-> IF r \in newer THEN server[r] ELSE old.rows[r]],
                           messages |-> old.messages \cup Of(chats, messages),
                           dirty    |-> old.dirty \ settled,
                           cursor   |-> NextCursor({units, chats})]]
           /\ missed' = [missed EXCEPT ![d] =
                            Behind(missed[d] \cup cut, server, NextCursor({units, chats}))]
  BY PulledWith
<1> DEFINE old == phone[d]
           newer == {r \in units \cup chats : IsNewer(server[r], old.rows[r])}
           settled == {r \in newer : Of({r}, old.messages) \subseteq messages}
           rows == [r \in Rows |-> IF r \in newer THEN server[r] ELSE old.rows[r]]
           heard == old.messages \cup Of(chats, messages)
           now == [rows |-> rows, messages |-> heard, dirty |-> old.dirty \ settled,
                   cursor |-> NextCursor({units, chats})]
<1>2. phone' = [phone EXCEPT ![d] = now]
  BY <1>1
<1>3. NextCursor({units, chats}) \in Nat
  BY CursorType
<1>4. old \in PhoneType /\ server \in [Rows -> Row] /\ messages \subseteq Message
  BY DEF TypeOK
<1>5. rows \in [Rows -> Row]
  BY <1>4 DEF PhoneType
<1>6. heard \subseteq Message /\ old.messages \subseteq heard /\ heard \subseteq old.messages \cup messages
  BY <1>4 DEF PhoneType, Of
<1>7. old.dirty \ settled \subseteq Rows
  BY <1>4 DEF PhoneType
<1>8. \A r \in Rows : rows[r] = old.rows[r] \/ (rows[r] = server[r] /\ server[r].at > old.rows[r].at)
  BY DEF IsNewer
<1>9. \A r \in old.dirty \ (old.dirty \ settled) : Of({r}, old.messages) \subseteq messages
  OBVIOUS
<1> HIDE DEF rows, heard, settled, newer
<1>10. now \in PhoneType
  BY <1>3, <1>5, <1>6, <1>7 DEF PhoneType
<1>11. phone'[d] = now
  BY <1>2 DEF TypeOK
<1>12. UNCHANGED <<clock, server, messages, req, restored>>
  BY DEF Pull
<1>13. now.rows = rows /\ now.messages = heard /\ now.dirty = old.dirty \ settled
  OBVIOUS
<1> HIDE DEF now
<1>14. phone' = [phone EXCEPT ![d] = phone'[d]]
  BY <1>2, <1>11
<1>15. phone'[d].dirty = old.dirty \ settled /\ phone'[d].rows = rows /\ phone'[d].messages = heard
  BY <1>11, <1>13
<1>16. /\ phone'[d].dirty \subseteq phone[d].dirty
       /\ \A r \in phone[d].dirty \ phone'[d].dirty : Of({r}, phone[d].messages) \subseteq messages
  BY <1>9, <1>15
<1>17. missed' \in [Devices -> SUBSET Rows]
  <2> DEFINE cut == Cut(units, Units, old.cursor) \cup Cut(chats, Chats, old.cursor)
  <2>1. cut \subseteq Rows
    BY DEF Cut, Changed, Rows
  <2>2. missed[d] \subseteq Rows
    BY DEF TypeOK
  <2> HIDE DEF cut
  <2>3. Behind(missed[d] \cup cut, server, NextCursor({units, chats})) \subseteq Rows
    BY <2>1, <2>2 DEF Behind
  <2>4. missed' = [missed EXCEPT ![d] = Behind(missed[d] \cup cut, server, NextCursor({units, chats}))]
    BY <1>1 DEF cut
  <2> QED
    BY <2>3, <2>4 DEF TypeOK
<1> QED
  BY <1>6, <1>8, <1>10, <1>11, <1>12, <1>14, <1>15, <1>16, <1>17

\* What a push that ends does.
LEMMA Finished ==
  ASSUME TypeOK, NEW s \in Sessions, FinishPush(s)
  PROVE  LET p == req[s] IN
         /\ p.from # {} /\ req' = [req EXCEPT ![s] = NoReq] /\ clock' = clock
         /\ messages' = messages \cup (p.messages \ p.known)
         /\ \E rows \in Applied(p) :
              /\ rows \subseteq p.sent
              /\ \A r \in rows : p.rows[r].at > p.saw[r].at
              /\ server' = [r \in Rows |-> IF r \in rows THEN p.rows[r] ELSE server[r]]
              /\ restored' = restored + Cardinality({u \in rows \cap Units :
                               ~server[u].live /\ Exists(server[u]) /\ p.rows[u].live})
              /\ missed' = [d \in Devices |->
                              Behind(missed[d] \cup rows \cup {m[1] : m \in p.messages \ p.known},
                                     server', phone[d].cursor)]
         /\ phone' \in [Devices -> PhoneType]
         /\ \A d \in Devices :
              \/ phone'[d] = phone[d]
              \/ /\ d \in p.from
                 /\ phone'[d].rows = phone[d].rows /\ phone'[d].messages = phone[d].messages
                 /\ phone'[d].cursor = phone[d].cursor
                 /\ phone'[d].dirty =
                      phone[d].dirty \ {r \in p.sent : phone[d].rows[r] = p.rows[r]}
<1> DEFINE p == req[s]
<1>1. /\ p.from # {} /\ req' = [req EXCEPT ![s] = NoReq] /\ clock' = clock
      /\ messages' = messages \cup (p.messages \ p.known)
  BY DEF FinishPush, Unknown
<1>2. PICK rows \in Applied(p) :
        /\ server' = [r \in Rows |-> IF r \in rows THEN p.rows[r] ELSE server[r]]
        /\ restored' = restored + Cardinality({u \in rows \cap Units :
                         ~server[u].live /\ Exists(server[u]) /\ p.rows[u].live})
        /\ missed' = [d \in Devices |->
                        Behind(missed[d] \cup rows \cup {m[1] : m \in p.messages \ p.known},
                               server', phone[d].cursor)]
  BY DEF FinishPush, Unknown
<1>3. rows \subseteq p.sent /\ \A r \in rows : p.rows[r].at > p.saw[r].at
  BY <1>2 DEF Applied, IsNewer
<1>4. /\ phone' \in [Devices -> PhoneType]
      /\ \A d \in Devices :
           \/ phone'[d] = phone[d]
           \/ /\ d \in p.from
              /\ phone'[d].rows = phone[d].rows /\ phone'[d].messages = phone[d].messages
              /\ phone'[d].cursor = phone[d].cursor
              /\ phone'[d].dirty =
                   phone[d].dirty \ {r \in p.sent : phone[d].rows[r] = p.rows[r]}
  <2>1. CASE UNCHANGED phone
    BY <2>1 DEF TypeOK
  <2>2. CASE phone' = [d \in Devices |->
                    IF d \in p.from
                    THEN [phone[d] EXCEPT !.dirty =
                            @ \ {r \in p.sent : phone[d].rows[r] = p.rows[r]}]
                    ELSE phone[d]]
    <3> SUFFICES ASSUME NEW d \in Devices
                 PROVE  /\ phone'[d] \in PhoneType
                        /\ \/ phone'[d] = phone[d]
                           \/ /\ d \in p.from
                              /\ phone'[d].rows = phone[d].rows
                              /\ phone'[d].messages = phone[d].messages
                              /\ phone'[d].cursor = phone[d].cursor
                              /\ phone'[d].dirty =
                                   phone[d].dirty \ {r \in p.sent : phone[d].rows[r] = p.rows[r]}
      BY <2>2
    <3>1. phone[d] \in PhoneType
      BY DEF TypeOK
    <3>2. CASE d \in p.from
      <4>1. phone'[d] = [phone[d] EXCEPT !.dirty =
                           phone[d].dirty \ {r \in p.sent : phone[d].rows[r] = p.rows[r]}]
        BY <2>2, <3>2
      <4> QED
        BY <3>1, <3>2, <4>1 DEF PhoneType
    <3>3. CASE d \notin p.from
      BY <2>2, <3>1, <3>3
    <3> QED
      BY <3>2, <3>3
  <2> QED
    BY <2>1, <2>2 DEF FinishPush
<1> QED
  BY <1>1, <1>2, <1>3, <1>4

\* What a push that begins sends.
LEMMA Begun ==
  ASSUME TypeOK, NEW s \in Sessions, NEW d \in Devices, BeginPush(s, d)
  PROVE  /\ req' = [req EXCEPT ![s] = req'[s]] /\ req'[s] \in ReqType
         /\ req'[s].from = {d} /\ req'[s].rows = phone[d].rows /\ req'[s].saw = server
         /\ req'[s].sent = phone[d].dirty
         /\ req'[s].messages = Of(phone[d].dirty, phone[d].messages) /\ req'[s].known = messages
         /\ UNCHANGED <<clock, server, messages, phone, restored, missed>>
<1>1. phone[d] \in PhoneType /\ server \in [Rows -> Row] /\ messages \subseteq Message
  BY DEF TypeOK
<1>2. Of(phone[d].dirty, phone[d].messages) \subseteq Message
  BY <1>1 DEF Of, PhoneType
<1> DEFINE q == [from |-> {d}, sent |-> phone[d].dirty, rows |-> phone[d].rows,
                 messages |-> Of(phone[d].dirty, phone[d].messages),
                 saw |-> server, known |-> messages]
<1>3. req' = [req EXCEPT ![s] = q] /\ UNCHANGED <<clock, server, messages, phone, restored, missed>>
  BY DEF BeginPush
<1>4. q \in ReqType
  BY <1>1, <1>2 DEF ReqType, PhoneType
<1>5. req'[s] = q
  BY <1>3 DEF TypeOK
<1>6. /\ q.from = {d} /\ q.rows = phone[d].rows /\ q.saw = server /\ q.sent = phone[d].dirty
      /\ q.messages = Of(phone[d].dirty, phone[d].messages) /\ q.known = messages
  OBVIOUS
<1> HIDE DEF q
<1> QED
  BY <1>3, <1>4, <1>5, <1>6

LEMMA Nothing == NoReq \in ReqType /\ NoReq.from = {} /\ \A r \in Rows : NoReq.rows[r].at = 0
  BY DEF NoReq, NoRow, ReqType, Row

LEMMA Steps ==
  ASSUME [Next]_vars
  PROVE  \/ ServerTick
         \/ \E d \in Devices :
              \/ \E r \in Rows, at \in Nat, live, said \in BOOLEAN : Edit(d, r, at, live, said)
              \/ Pull(d)
              \/ \E s \in Sessions : BeginPush(s, d)
         \/ \E s \in Sessions : FinishPush(s) \/ AbortPush(s)
         \/ UNCHANGED vars
<1>1. 1 .. MaxTime \subseteq Nat
  BY SyncAssumption
<1>2. ASSUME Changing
      PROVE  \E d \in Devices, r \in Rows, at \in Nat, live, said \in BOOLEAN : Edit(d, r, at, live, said)
  BY <1>1, <1>2 DEF Changing
<1> QED
  BY <1>2 DEF Next, Exchanging

\* Only a push that ends writes to the server, and only pushes are requests.
LEMMA Writers ==
  ASSUME [Next]_vars
  PROVE  /\ UNCHANGED <<server, restored>> \/ \E s \in Sessions : FinishPush(s)
         /\ \/ UNCHANGED <<server, req>>
            \/ \E d \in Devices, s \in Sessions : BeginPush(s, d)
            \/ \E s \in Sessions : FinishPush(s) \/ AbortPush(s)
<1>1. ASSUME NEW d \in Devices, NEW r \in Rows, NEW at \in Nat, NEW live \in BOOLEAN, NEW said \in BOOLEAN,
             Edit(d, r, at, live, said)
      PROVE  UNCHANGED <<server, restored, req>>
  BY <1>1 DEF Edit
<1>2. ASSUME NEW d \in Devices, Pull(d) PROVE UNCHANGED <<server, restored, req>>
  BY <1>2 DEF Pull
<1>3. ASSUME NEW s \in Sessions, NEW d \in Devices, BeginPush(s, d) PROVE UNCHANGED <<server, restored>>
  BY <1>3 DEF BeginPush
<1>4. ASSUME NEW s \in Sessions, AbortPush(s) PROVE UNCHANGED <<server, restored>>
  BY <1>4 DEF AbortPush
<1>5. ServerTick \/ UNCHANGED vars => UNCHANGED <<server, restored, req>>
  BY DEF ServerTick, vars
<1> QED
  BY <1>1, <1>2, <1>3, <1>4, <1>5, Steps

LEMMA TypeStep ==
  ASSUME TypeOK, [Next]_vars
  PROVE  TypeOK'
<1>1. ASSUME NEW d \in Devices, NEW r \in Rows, NEW at \in Nat, NEW live \in BOOLEAN, NEW said \in BOOLEAN,
             Edit(d, r, at, live, said)
      PROVE  TypeOK'
  <2>1. /\ phone'[d] \in PhoneType /\ phone' = [phone EXCEPT ![d] = phone'[d]]
        /\ phone'[d].rows = [phone[d].rows EXCEPT ![r] = [at |-> at, live |-> live]]
    BY <1>1, EditedPhone
  <2>2. UNCHANGED <<clock, server, messages, req, restored, missed>>
    BY <1>1 DEF Edit
  <2> QED
    BY <2>1, <2>2 DEF TypeOK
<1>2. ASSUME NEW d \in Devices, Pull(d) PROVE TypeOK'
  <2>1. /\ phone'[d] \in PhoneType
        /\ phone' = [phone EXCEPT ![d] = phone'[d]]
        /\ missed' \in [Devices -> SUBSET Rows]
        /\ UNCHANGED <<clock, server, messages, req, restored>>
    BY <1>2, PulledPhone
  <2> QED
    BY <2>1 DEF TypeOK
<1>3. ASSUME NEW s \in Sessions, NEW d \in Devices, BeginPush(s, d) PROVE TypeOK'
  <2>1. /\ req' = [req EXCEPT ![s] = req'[s]] /\ req'[s] \in ReqType
        /\ UNCHANGED <<clock, server, messages, phone, restored, missed>>
    BY <1>3, Begun
  <2> QED
    BY <2>1 DEF TypeOK
<1>4. ASSUME NEW s \in Sessions, FinishPush(s) PROVE TypeOK'
  <2> DEFINE p == req[s]
  <2>1. /\ req' = [req EXCEPT ![s] = NoReq] /\ clock' = clock
        /\ messages' = messages \cup (p.messages \ p.known)
        /\ phone' \in [Devices -> PhoneType]
    BY <1>4, Finished
  <2>2. PICK rows \in Applied(p) :
              /\ rows \subseteq p.sent
              /\ server' = [r \in Rows |-> IF r \in rows THEN p.rows[r] ELSE server[r]]
              /\ restored' = restored + Cardinality({u \in rows \cap Units :
                               ~server[u].live /\ Exists(server[u]) /\ p.rows[u].live})
              /\ missed' = [d \in Devices |->
                              Behind(missed[d] \cup rows \cup {m[1] : m \in p.messages \ p.known},
                                     server', phone[d].cursor)]
    BY <1>4, Finished
  <2>3. p \in ReqType
    BY DEF TypeOK
  <2>4. server' \in [Rows -> Row] /\ messages' \subseteq Message
    BY <2>1, <2>2, <2>3 DEF TypeOK, ReqType
  <2>5. restored' \in Nat
    <3> DEFINE back == {u \in rows \cap Units : ~server[u].live /\ Exists(server[u]) /\ p.rows[u].live}
    <3>1. back \subseteq Units
      OBVIOUS
    <3> HIDE DEF back
    <3>2. Cardinality(back) \in Nat
      BY <3>1, FS_Subset, FS_CardinalityType, SyncAssumption
    <3> QED
      BY <2>2, <3>2 DEF TypeOK, back
  <2>6. missed' \in [Devices -> SUBSET Rows]
    <3>1. \A d \in Devices : missed[d] \subseteq Rows
      BY DEF TypeOK
    <3>2. rows \subseteq Rows /\ {m[1] : m \in p.messages \ p.known} \subseteq Rows
      BY <2>2, <2>3 DEF ReqType, Message, Rows
    <3> QED
      BY <2>2, <3>1, <3>2 DEF Behind
  <2>7. req' \in [Sessions -> ReqType]
    BY <2>1, Nothing DEF TypeOK
  <2> QED
    BY <2>1, <2>4, <2>5, <2>6, <2>7 DEF TypeOK
<1>5. ASSUME NEW s \in Sessions, AbortPush(s) PROVE TypeOK'
  BY <1>5, Nothing DEF AbortPush, TypeOK
<1>6. ASSUME ServerTick PROVE TypeOK'
  BY <1>6 DEF ServerTick, TypeOK
<1>7. CASE UNCHANGED vars
  BY <1>7 DEF vars, TypeOK
<1> QED
  BY <1>1, <1>2, <1>3, <1>4, <1>5, <1>6, <1>7, Steps

\* Every variable keeps to its type.
THEOREM TypeCorrect == Spec => []TypeOK
<1>1. Init => TypeOK
  BY Nothing DEF Init, TypeOK, Row, PhoneType, NoRow
<1>2. TypeOK /\ [Next]_vars => TypeOK'
  BY TypeStep
<1> QED
  BY <1>1, <1>2, PTL DEF Spec

-----------------------------------------------------------------------------
(* What was said.                                                          *)

\* A step leaves every push carrying what was said before it began, and every
\* message with the server or with a phone that will send it.
LEMMA SaidStep ==
  ASSUME TypeOK, AllCarry, NothingSaidIsLost, [Next]_vars
  PROVE  AllCarry' /\ NothingSaidIsLost'
<1>0. \A d \in Devices : phone[d] \in PhoneType
  BY DEF TypeOK
<1>1. \A s \in Sessions : req[s] \in ReqType
  BY DEF TypeOK
<1>2. ASSUME NEW d \in Devices, NEW r \in Rows, NEW at \in Nat, NEW live \in BOOLEAN, NEW said \in BOOLEAN,
             Edit(d, r, at, live, said)
      PROVE  AllCarry' /\ NothingSaidIsLost'
  <2>1. /\ \A e \in Devices \ {d} : phone'[e] = phone[e]
        /\ phone'[d].rows[r].at = at /\ phone[d].rows[r].at < at
        /\ \A x \in Rows \ {r} : phone'[d].rows[x] = phone[d].rows[x]
        /\ phone'[d].dirty = phone[d].dirty \cup {r}
        /\ phone[d].messages \subseteq phone'[d].messages
        /\ \A m \in phone'[d].messages : m \in phone[d].messages \/ m[1] = r
        /\ UNCHANGED <<messages, req>>
    <3>1. /\ phone' = [phone EXCEPT ![d] = phone'[d]]
          /\ phone'[d].rows = [phone[d].rows EXCEPT ![r] = [at |-> at, live |-> live]]
          /\ phone[d].rows[r].at < at
          /\ phone'[d].dirty = phone[d].dirty \cup {r}
          /\ phone[d].messages \subseteq phone'[d].messages
          /\ \A m \in phone'[d].messages : m \in phone[d].messages \/ m[1] = r
          /\ UNCHANGED <<messages, req>>
      BY <1>2, EditedPhone
    <3>2. phone[d].rows \in [Rows -> Row]
      BY <1>0 DEF PhoneType
    <3>3. phone'[d].rows[r].at = at
          /\ \A x \in Rows \ {r} : phone'[d].rows[x] = phone[d].rows[x]
      BY <3>1, <3>2
    <3>4. \A e \in Devices \ {d} : phone'[e] = phone[e]
      BY <3>1 DEF TypeOK
    <3> QED
      BY <3>1, <3>3, <3>4
  <2>2. NothingSaidIsLost'
    <3> SUFFICES ASSUME NEW e \in Devices, NEW m \in phone'[e].messages
                 PROVE  m \in messages' \/ \E f \in Devices : m \in phone'[f].messages /\ m[1] \in phone'[f].dirty
      BY DEF NothingSaidIsLost
    <3>1. CASE m \in phone[e].messages
      <4>1. m \in messages \/ \E f \in Devices : m \in phone[f].messages /\ m[1] \in phone[f].dirty
        BY <3>1 DEF NothingSaidIsLost
      <4> QED
        BY <2>1, <4>1
    <3>2. CASE m \notin phone[e].messages
      BY <2>1, <3>2
    <3> QED
      BY <3>1, <3>2
  <2>3. ASSUME NEW s \in Sessions PROVE Carries(req[s])'
    <3> SUFFICES ASSUME NEW e \in req[s].from, NEW x \in Rows
                 PROVE  /\ req[s].rows[x].at <= phone'[e].rows[x].at
                        /\ x \in req[s].sent /\ phone'[e].rows[x] = req[s].rows[x] =>
                             Of({x}, phone'[e].messages) \subseteq req[s].messages \cup messages
      BY <2>1 DEF AllCarry, Carries
    <3>1. /\ req[s].rows[x].at <= phone[e].rows[x].at
          /\ x \in req[s].sent /\ phone[e].rows[x] = req[s].rows[x] =>
                             Of({x}, phone[e].messages) \subseteq req[s].messages \cup messages
      BY DEF AllCarry, Carries
    <3>2. e \in Devices
      BY <1>1 DEF ReqType
    <3>3. CASE e = d /\ x = r
      <4>1. req[s].rows[x].at \in Nat /\ phone[e].rows[x].at \in Nat
        BY <1>0, <1>1, <3>2 DEF ReqType, PhoneType, Row
      <4>2. phone'[e].rows[x].at = at /\ phone[e].rows[x].at < at
        BY <2>1, <3>3
      <4>3. req[s].rows[x].at < at
        BY <3>1, <4>1, <4>2
      <4>4. phone'[e].rows[x] # req[s].rows[x]
        BY <4>1, <4>2, <4>3
      <4> QED
        BY <4>1, <4>2, <4>3, <4>4
    <3>4. CASE e = d /\ x # r
      <4>1. Of({x}, phone'[e].messages) \subseteq Of({x}, phone[e].messages)
        BY <2>1, <3>4 DEF Of
      <4> QED
        BY <2>1, <3>1, <3>4, <4>1
    <3>5. CASE e # d
      BY <2>1, <3>1, <3>2, <3>5
    <3> QED
      BY <3>3, <3>4, <3>5
  <2> QED
    BY <2>2, <2>3 DEF AllCarry
<1>3. ASSUME NEW d \in Devices, Pull(d) PROVE AllCarry' /\ NothingSaidIsLost'
  <2>1. /\ \A r \in Rows : \/ phone'[d].rows[r] = phone[d].rows[r]
                           \/ /\ phone'[d].rows[r] = server[r]
                              /\ server[r].at > phone[d].rows[r].at
        /\ phone'[d].dirty \subseteq phone[d].dirty
        /\ \A r \in phone[d].dirty \ phone'[d].dirty : Of({r}, phone[d].messages) \subseteq messages
        /\ phone[d].messages \subseteq phone'[d].messages
        /\ phone'[d].messages \subseteq phone[d].messages \cup messages
        /\ UNCHANGED <<messages, req>>
    BY <1>3, PulledPhone
  <2>2. \A e \in Devices \ {d} : phone'[e] = phone[e]
    BY <1>3, PulledPhone DEF TypeOK
  <2>3. NothingSaidIsLost'
    <3> SUFFICES ASSUME NEW e \in Devices, NEW m \in phone'[e].messages, m \notin messages
                 PROVE  \E f \in Devices : m \in phone'[f].messages /\ m[1] \in phone'[f].dirty
      BY <2>1 DEF NothingSaidIsLost
    <3>1. m \in phone[e].messages
      BY <2>1, <2>2
    <3>2. PICK f \in Devices : m \in phone[f].messages /\ m[1] \in phone[f].dirty
      BY <3>1 DEF NothingSaidIsLost
    <3>3. CASE f = d
      <4>1. m \in Of({m[1]}, phone[d].messages)
        BY <3>2, <3>3 DEF Of
      <4>2. m[1] \in phone'[d].dirty
        BY <2>1, <3>2, <3>3, <4>1
      <4> QED
        BY <2>1, <3>2, <3>3, <4>2
    <3>4. CASE f # d
      BY <2>2, <3>2, <3>4
    <3> QED
      BY <3>3, <3>4
  <2>4. ASSUME NEW s \in Sessions PROVE Carries(req[s])'
    <3> SUFFICES ASSUME NEW e \in req[s].from, NEW x \in Rows
                 PROVE  /\ req[s].rows[x].at <= phone'[e].rows[x].at
                        /\ x \in req[s].sent /\ phone'[e].rows[x] = req[s].rows[x] =>
                             Of({x}, phone'[e].messages) \subseteq req[s].messages \cup messages
      BY <2>1 DEF AllCarry, Carries
    <3>1. /\ req[s].rows[x].at <= phone[e].rows[x].at
          /\ x \in req[s].sent /\ phone[e].rows[x] = req[s].rows[x] =>
                             Of({x}, phone[e].messages) \subseteq req[s].messages \cup messages
      BY DEF AllCarry, Carries
    <3>2. e \in Devices
      BY <1>1 DEF ReqType
    <3>3. /\ req[s].rows[x].at \in Nat /\ phone[e].rows[x].at \in Nat /\ server[x].at \in Nat
      BY <1>0, <1>1, <3>2 DEF ReqType, PhoneType, Row, TypeOK
    <3>4. Of({x}, phone'[e].messages) \subseteq Of({x}, phone[e].messages) \cup messages
      BY <2>1, <2>2, <3>2 DEF Of
    <3>5. CASE e # d \/ phone'[e].rows[x] = phone[e].rows[x]
      BY <2>2, <3>1, <3>2, <3>4, <3>5
    <3>6. CASE e = d /\ phone'[e].rows[x] = server[x] /\ server[x].at > phone[e].rows[x].at
      BY <3>1, <3>3, <3>6
    <3> QED
      BY <2>1, <3>5, <3>6
  <2> QED
    BY <2>3, <2>4 DEF AllCarry
<1>4. ASSUME NEW s \in Sessions, NEW d \in Devices, BeginPush(s, d)
      PROVE  AllCarry' /\ NothingSaidIsLost'
  <2>1. /\ req' = [req EXCEPT ![s] = req'[s]]
        /\ req'[s].from = {d} /\ req'[s].rows = phone[d].rows
        /\ req'[s].sent = phone[d].dirty
        /\ req'[s].messages = Of(phone[d].dirty, phone[d].messages) /\ req'[s].known = messages
        /\ UNCHANGED <<messages, phone>>
    BY <1>4, Begun
  <2>2. Carries(req[s])'
    <3>1. \A x \in Rows : phone[d].rows[x].at \in Nat
      BY <1>0 DEF PhoneType, Row
    <3>2. \A x \in phone[d].dirty :
            Of({x}, phone[d].messages) \subseteq Of(phone[d].dirty, phone[d].messages)
      BY DEF Of
    <3> QED
      BY <2>1, <3>1, <3>2 DEF Carries
  <2>3. ASSUME NEW o \in Sessions \ {s} PROVE Carries(req[o])'
    <3>1. req'[o] = req[o]
      BY <2>1 DEF TypeOK
    <3> QED
      BY <2>1, <3>1 DEF AllCarry, Carries
  <2>4. NothingSaidIsLost'
    BY <2>1 DEF NothingSaidIsLost
  <2> QED
    BY <2>2, <2>3, <2>4 DEF AllCarry
<1>5. ASSUME NEW s \in Sessions, FinishPush(s) PROVE AllCarry' /\ NothingSaidIsLost'
  <2> DEFINE p == req[s]
  <2>1. /\ req' = [req EXCEPT ![s] = NoReq]
        /\ messages' = messages \cup (p.messages \ p.known)
        /\ \A d \in Devices :
              \/ phone'[d] = phone[d]
              \/ /\ d \in p.from
                 /\ phone'[d].rows = phone[d].rows /\ phone'[d].messages = phone[d].messages
                 /\ phone'[d].dirty =
                      phone[d].dirty \ {r \in p.sent : phone[d].rows[r] = p.rows[r]}
    BY <1>5, Finished
  <2>2. Carries(p) /\ p \in ReqType
    BY <1>1 DEF AllCarry
  <2>3. p.messages \subseteq messages' /\ messages \subseteq messages'
    BY <2>1, <2>2 DEF Carries
  <2>4. \A d \in Devices : phone'[d].rows = phone[d].rows /\ phone'[d].messages = phone[d].messages
    BY <2>1
  <2>5. NothingSaidIsLost'
    <3> SUFFICES ASSUME NEW e \in Devices, NEW m \in phone'[e].messages, m \notin messages'
                 PROVE  \E f \in Devices : m \in phone'[f].messages /\ m[1] \in phone'[f].dirty
      BY DEF NothingSaidIsLost
    <3>1. m \in phone[e].messages /\ m \notin messages /\ m \notin p.messages
      BY <2>3, <2>4
    <3>2. PICK f \in Devices : m \in phone[f].messages /\ m[1] \in phone[f].dirty
      BY <3>1 DEF NothingSaidIsLost
    <3>3. ASSUME f \in p.from, m[1] \in p.sent PROVE phone[f].rows[m[1]] # p.rows[m[1]]
      <4>1. m \in Of({m[1]}, phone[f].messages) /\ m[1] \in Rows
        BY <2>2, <3>2, <3>3 DEF Of, ReqType
      <4> QED
        BY <2>2, <3>1, <3>3, <4>1 DEF Carries
    <3>4. m[1] \in phone'[f].dirty
      BY <2>1, <3>2, <3>3
    <3> QED
      BY <2>4, <3>2, <3>4
  <2>6. ASSUME NEW o \in Sessions PROVE Carries(req[o])'
    <3>1. req'[o] = IF o = s THEN NoReq ELSE req[o]
      BY <2>1 DEF TypeOK
    <3>2. CASE o = s
      <4>1. req'[o].from = {} /\ req'[o].known = {}
        BY <3>1, <3>2 DEF NoReq
      <4> QED
        BY <4>1 DEF Carries
    <3>3. CASE o # s
      <4>1. Carries(req[o]) /\ req'[o] = req[o] /\ req[o].from \subseteq Devices
        BY <1>1, <3>1, <3>3 DEF AllCarry, ReqType
      <4> QED
        BY <2>3, <2>4, <4>1 DEF Carries
    <3> QED
      BY <3>2, <3>3
  <2> QED
    BY <2>5, <2>6 DEF AllCarry
<1>6. ASSUME NEW s \in Sessions, AbortPush(s) PROVE AllCarry' /\ NothingSaidIsLost'
  <2>1. req' = [req EXCEPT ![s] = NoReq] /\ UNCHANGED <<messages, phone>>
    BY <1>6 DEF AbortPush
  <2>2. ASSUME NEW o \in Sessions PROVE Carries(req[o])'
    <3>1. req'[o] = IF o = s THEN NoReq ELSE req[o]
      BY <2>1 DEF TypeOK
    <3>2. CASE o = s
      <4>1. req'[o].from = {} /\ req'[o].known = {}
        BY <3>1, <3>2 DEF NoReq
      <4> QED
        BY <4>1 DEF Carries
    <3>3. CASE o # s
      BY <2>1, <3>1, <3>3 DEF AllCarry, Carries
    <3> QED
      BY <3>2, <3>3
  <2> QED
    BY <2>1, <2>2 DEF AllCarry, NothingSaidIsLost
<1>7. CASE UNCHANGED vars \/ ServerTick
  BY <1>7 DEF vars, ServerTick, AllCarry, Carries, NothingSaidIsLost
<1> QED
  BY <1>2, <1>3, <1>4, <1>5, <1>6, <1>7, Steps

\* Whatever is pushed, skipped, retried and pulled, a message that was said is
\* in the table or still to be sent by the phone it was said on.
THEOREM EverySayingKept == Spec => []NothingSaidIsLost
<1>1. ASSUME Init PROVE AllCarry /\ NothingSaidIsLost
  BY <1>1 DEF Init, AllCarry, Carries, NoReq, NothingSaidIsLost
<1>2. TypeOK /\ AllCarry /\ NothingSaidIsLost /\ [Next]_vars
        => AllCarry' /\ NothingSaidIsLost'
  BY SaidStep
<1> QED
  BY <1>1, <1>2, TypeCorrect, PTL DEF Spec

-----------------------------------------------------------------------------
(* One push at a time.                                                     *)

LEMMA CurrentStep ==
  ASSUME OneSession, TypeOK, Current, [Next]_vars
  PROVE  Current'
<1>1. ASSUME NEW d \in Devices, NEW s \in Sessions, BeginPush(s, d) PROVE Current'
  BY <1>1, Begun DEF Current, OneSession
<1>2. ASSUME NEW s \in Sessions, FinishPush(s) \/ AbortPush(s) PROVE Current'
  <2>1. req' = [req EXCEPT ![s] = NoReq]
    BY <1>2 DEF FinishPush, AbortPush
  <2>2. \A o \in Sessions : req'[o].from = {}
    BY <2>1 DEF OneSession, NoReq, TypeOK
  <2> QED
    BY <2>2 DEF Current
<1>3. CASE UNCHANGED <<server, req>>
  BY <1>3 DEF Current
<1> QED
  BY <1>1, <1>2, <1>3, Writers

\* With one push at a time, what it compares with is what it overwrites.
THEOREM ComparedWithTheLatest ==
  ASSUME OneSession
  PROVE  Spec => []Current
<1>1. Init => Current
  BY DEF Init, Current, NoReq
<1>2. TypeOK /\ Current /\ [Next]_vars => Current'
  BY CurrentStep
<1> QED
  BY <1>1, <1>2, TypeCorrect, PTL DEF Spec

\* With one push at a time no row goes back to an older version.
THEOREM NewestStays ==
  ASSUME OneSession
  PROVE  Spec => NewestWins
<1>1. TypeOK /\ Current /\ [Next]_vars => [\A r \in Rows : server'[r].at >= server[r].at]_vars
  <2> SUFFICES ASSUME TypeOK, Current, [Next]_vars, NEW r \in Rows
               PROVE  server'[r].at >= server[r].at
    OBVIOUS
  <2>1. server[r].at \in Nat
    BY DEF TypeOK, Row
  <2>2. CASE UNCHANGED server
    BY <2>1, <2>2
  <2>3. ASSUME NEW s \in Sessions, FinishPush(s) PROVE server'[r].at >= server[r].at
    <3> DEFINE p == req[s]
    <3>1. p.from # {}
      BY <2>3, Finished
    <3>2. PICK rows \in Applied(p) :
              /\ \A x \in rows : p.rows[x].at > p.saw[x].at
              /\ server' = [x \in Rows |-> IF x \in rows THEN p.rows[x] ELSE server[x]]
      BY <2>3, Finished
    <3>3. p.saw = server /\ p \in ReqType
      BY <3>1 DEF Current, TypeOK
    <3>4. p.rows[r].at \in Nat
      BY <3>3 DEF ReqType, Row
    <3> QED
      BY <2>1, <3>2, <3>3, <3>4
  <2> QED
    BY <2>2, <2>3, Writers
<1> QED
  BY <1>1, TypeCorrect, ComparedWithTheLatest, PTL DEF Spec, NewestWins

\* And the cap holds, whatever is sent and deleted together, but for deleted
\* units that are brought back.
LEMMA CapStep ==
  ASSUME TypeOK, Current, CapHolds, NEW s \in Sessions, FinishPush(s)
  PROVE  CapHolds'
<1> DEFINE p == req[s]
<1>1. p.from # {} /\ p.saw = server /\ p \in ReqType
  BY Finished DEF Current, TypeOK
<1>2. PICK rows \in Applied(p) :
        /\ rows \subseteq p.sent
        /\ server' = [r \in Rows |-> IF r \in rows THEN p.rows[r] ELSE server[r]]
        /\ restored' = restored + Cardinality({u \in rows \cap Units :
                         ~server[u].live /\ Exists(server[u]) /\ p.rows[u].live})
  BY Finished
<1> DEFINE room == Budget(p)
           newer == {r \in p.sent : IsNewer(p.rows[r], p.saw[r])}
<1>3. PICK refused \in SUBSET Capped(p) :
        /\ rows = newer \ refused
        /\ Cardinality(Capped(p) \ refused) =
             IF Cardinality(Capped(p)) < room THEN Cardinality(Capped(p)) ELSE room
  BY <1>2 DEF Applied
<1> DEFINE had == LiveUnits(server)
           has == LiveUnits(server')
           added == Capped(p) \ refused
           back == {u \in rows \cap Units : ~server[u].live /\ Exists(server[u]) /\ p.rows[u].live}
<1>4. has \subseteq had \cup added \cup back
  <2> SUFFICES ASSUME NEW u \in Units, server'[u].live, u \notin had, u \notin back PROVE u \in added
    BY DEF LiveUnits
  <2>1. u \in Rows
    BY DEF Rows
  <2>2. u \in rows /\ p.rows[u].live /\ ~server[u].live
    BY <1>2, <2>1 DEF LiveUnits
  <2>3. ~Exists(p.saw[u])
    BY <1>1, <2>2
  <2> QED
    BY <1>2, <1>3, <2>2, <2>3 DEF Capped
<1>5. has \subseteq Units /\ had \subseteq Units /\ added \subseteq Units /\ back \subseteq Units
      /\ Capped(p) \subseteq Units
  BY DEF LiveUnits, Capped
<1>6. IsFiniteSet(Units)
  BY SyncAssumption
<1>7. restored' = restored + Cardinality(back)
  BY <1>2
<1>8. room = IF Cardinality(had) < UnitCap THEN UnitCap - Cardinality(had) ELSE 0
  BY <1>1 DEF Budget
<1>9. Cardinality(added) = IF Cardinality(Capped(p)) < room THEN Cardinality(Capped(p)) ELSE room
  BY <1>3
<1>10. Cardinality(had) <= UnitCap + restored
  BY DEF CapHolds
<1> HIDE DEF had, has, added, back, room
<1>11. /\ Cardinality(has) \in Nat /\ Cardinality(had) \in Nat /\ Cardinality(added) \in Nat
       /\ Cardinality(back) \in Nat /\ Cardinality(Capped(p)) \in Nat
       /\ IsFiniteSet(had) /\ IsFiniteSet(added) /\ IsFiniteSet(back)
  BY <1>5, <1>6, FS_Subset, FS_CardinalityType
<1>12. Cardinality(has) <= Cardinality(had) + Cardinality(added) + Cardinality(back)
  <2>1. IsFiniteSet(had \cup added) /\ Cardinality(had \cup added)
          = Cardinality(had) + Cardinality(added) - Cardinality(had \cap added)
    BY <1>11, FS_Union
  <2>2. IsFiniteSet(had \cup added \cup back) /\ Cardinality(had \cup added \cup back)
          = Cardinality(had \cup added) + Cardinality(back) - Cardinality((had \cup added) \cap back)
    BY <1>11, <2>1, FS_Union
  <2>3. Cardinality(had \cap added) \in Nat /\ Cardinality((had \cup added) \cap back) \in Nat
        /\ Cardinality(had \cup added) \in Nat
    BY <1>11, <2>1, FS_Intersection, FS_CardinalityType
  <2>4. Cardinality(has) <= Cardinality(had \cup added \cup back)
    BY <1>4, <2>2, FS_Subset
  <2>5. Cardinality(had \cup added \cup back) \in Nat
    BY <2>2, FS_CardinalityType
  <2> QED
    BY <1>11, <2>1, <2>2, <2>3, <2>4, <2>5
<1>13. restored \in Nat /\ UnitCap \in Nat
  BY SyncAssumption DEF TypeOK
<1>14. Cardinality(has) <= UnitCap + restored'
  <2>1. CASE Cardinality(had) < UnitCap
    BY <1>7, <1>8, <1>9, <1>10, <1>11, <1>12, <1>13, <2>1
  <2>2. CASE ~(Cardinality(had) < UnitCap)
    BY <1>7, <1>8, <1>9, <1>10, <1>11, <1>12, <1>13, <2>2
  <2> QED
    BY <2>1, <2>2
<1> QED
  BY <1>14 DEF CapHolds, has

\* With one push at a time an account has no more live units than its cap and
\* those it brought back.
THEOREM CapIsHeld ==
  ASSUME OneSession
  PROVE  Spec => []CapHolds
<1>1. Init => CapHolds
  <2> SUFFICES ASSUME Init PROVE CapHolds
    OBVIOUS
  <2>1. LiveUnits(server) = {}
    BY DEF Init, LiveUnits, NoRow, Rows
  <2>2. restored = 0
    BY DEF Init
  <2> QED
    BY <2>1, <2>2, FS_EmptySet, SyncAssumption DEF CapHolds
<1>2. TypeOK /\ Current /\ CapHolds /\ [Next]_vars => CapHolds'
  <2> SUFFICES ASSUME TypeOK, Current, CapHolds, [Next]_vars PROVE CapHolds'
    OBVIOUS
  <2>1. CASE UNCHANGED <<server, restored>>
    BY <2>1 DEF CapHolds, LiveUnits
  <2>2. ASSUME NEW s \in Sessions, FinishPush(s) PROVE CapHolds'
    BY <2>2, CapStep
  <2> QED
    BY <2>1, <2>2, Writers
<1> QED
  BY <1>1, <1>2, TypeCorrect, ComparedWithTheLatest, PTL DEF Spec

-----------------------------------------------------------------------------
(* What a cursor covers.                                                   *)

\* A page lists a changed row if the page is not full, or if its last row is of
\* the row's time or later; or it cuts it off from others of the same time.
LEMMA Listed ==
  ASSUME TypeOK, NEW table \in Tables, NEW since \in Nat, NEW page \in Pages(table, since),
         NEW r \in table, server[r].at > since,
         Cardinality(page) < PageSize \/ \E t \in Stamps(page) : t >= server[r].at
  PROVE  r \in page \/ r \in Cut(page, table, since)
<1> DEFINE rows == Changed(table, since)
<1>1. /\ page \subseteq rows /\ r \in rows
      /\ Cardinality(page) = IF Cardinality(rows) < PageSize THEN Cardinality(rows) ELSE PageSize
      /\ \A q \in page : Before(q, rows) \subseteq page
  BY DEF Pages, Changed
<1>2. table \subseteq Rows /\ IsFiniteSet(table)
  BY SyncAssumption DEF Tables, Rows
<1>3. rows \subseteq table
  BY DEF Changed
<1>4. IsFiniteSet(rows) /\ Cardinality(rows) \in Nat /\ PageSize \in Nat
  BY <1>2, <1>3, FS_Subset, FS_CardinalityType, SyncAssumption
<1>5. \A q \in rows : server[q].at \in Nat
  BY <1>2, <1>3 DEF Changed, TypeOK, Row
<1>6. r \notin page /\ server[r].at \in Stamps(page) => r \in Cut(page, table, since)
  BY <1>1 DEF Cut
<1> HIDE DEF rows
<1>7. CASE Cardinality(page) < PageSize
  <2>1. Cardinality(page) = Cardinality(rows)
    BY <1>1, <1>4, <1>7
  <2>2. page = rows
    BY <1>1, <1>4, <2>1, FS_Subset
  <2> QED
    BY <1>1, <2>2
<1>8. CASE \E t \in Stamps(page) : t >= server[r].at
  <2>1. PICK q \in page : server[q].at >= server[r].at
    BY <1>8 DEF Stamps
  <2>2. CASE server[q].at = server[r].at
    BY <1>6, <2>2 DEF Stamps
  <2>3. CASE server[q].at # server[r].at
    <3>1. server[r].at < server[q].at
      BY <1>1, <1>5, <2>1, <2>3
    <3>2. r \in Before(q, rows)
      BY <1>1, <3>1 DEF Before
    <3> QED
      BY <1>1, <3>2
  <2> QED
    BY <2>2, <2>3
<1> QED
  BY <1>7, <1>8

\* What a pull lists, it leaves on the phone.
LEMMA PulledPages ==
  ASSUME TypeOK, NEW d \in Devices, Pull(d)
  PROVE  \E units \in Pages(Units, phone[d].cursor), chats \in Pages(Chats, phone[d].cursor) :
           /\ phone'[d].cursor = NextCursor({units, chats})
           /\ \A r \in units \cup chats : phone'[d].rows[r].at >= server[r].at
           /\ Of(chats, messages) \subseteq phone'[d].messages
           /\ missed' = [missed EXCEPT ![d] = missed'[d]]
           /\ missed'[d] = Behind(missed[d] \cup (Cut(units, Units, phone[d].cursor)
                                                    \cup Cut(chats, Chats, phone[d].cursor)),
                                  server, NextCursor({units, chats}))
<1>1. PICK units \in Pages(Units, phone[d].cursor), chats \in Pages(Chats, phone[d].cursor) :
           LET old == phone[d]
               newer == {r \in units \cup chats : IsNewer(server[r], old.rows[r])}
               settled == {r \in newer : Of({r}, old.messages) \subseteq messages}
               cut == Cut(units, Units, old.cursor) \cup Cut(chats, Chats, old.cursor)
           IN
           /\ phone' = [phone EXCEPT ![d] =
                          [rows     |-> [r \in Rows |-> IF r \in newer THEN server[r] ELSE old.rows[r]],
                           messages |-> old.messages \cup Of(chats, messages),
                           dirty    |-> old.dirty \ settled,
                           cursor   |-> NextCursor({units, chats})]]
           /\ missed' = [missed EXCEPT ![d] =
                            Behind(missed[d] \cup cut, server, NextCursor({units, chats}))]
  BY PulledWith
<1> DEFINE old == phone[d]
           newer == {r \in units \cup chats : IsNewer(server[r], old.rows[r])}
           settled == {r \in newer : Of({r}, old.messages) \subseteq messages}
           rows == [r \in Rows |-> IF r \in newer THEN server[r] ELSE old.rows[r]]
           heard == old.messages \cup Of(chats, messages)
           now == [rows |-> rows, messages |-> heard, dirty |-> old.dirty \ settled,
                   cursor |-> NextCursor({units, chats})]
           gone == Behind(missed[d] \cup (Cut(units, Units, phone[d].cursor)
                                            \cup Cut(chats, Chats, phone[d].cursor)),
                          server, NextCursor({units, chats}))
<1>2. phone' = [phone EXCEPT ![d] = now] /\ missed' = [missed EXCEPT ![d] = gone]
  BY <1>1
<1> HIDE DEF gone
<1>3. phone'[d] = now /\ missed'[d] = gone
  BY <1>2 DEF TypeOK
<1>4. units \cup chats \subseteq Rows
  BY DEF Pages, Changed, Rows
<1>5. \A r \in Rows : server[r].at \in Nat /\ old.rows[r].at \in Nat
  BY DEF TypeOK, PhoneType, Row
<1>6. \A r \in units \cup chats : rows[r].at >= server[r].at
  BY <1>4, <1>5 DEF IsNewer
<1>7. Of(chats, messages) \subseteq heard
  OBVIOUS
<1> HIDE DEF rows, heard, settled
<1>8. now.rows = rows /\ now.messages = heard /\ now.cursor = NextCursor({units, chats})
  OBVIOUS
<1> HIDE DEF now
<1>9. missed' = [missed EXCEPT ![d] = missed'[d]]
  BY <1>2, <1>3
<1> QED
  BY <1>3, <1>6, <1>7, <1>8, <1>9 DEF gone

\* A phone has, after a pull, all that is in reach of its new cursor.
LEMMA PullCovers ==
  ASSUME TypeOK, CursorCoversRows, NEW d \in Devices, Pull(d)
  PROVE  CursorCoversRows'
<1>1. /\ phone' = [phone EXCEPT ![d] = phone'[d]]
      /\ \A r \in Rows : \/ phone'[d].rows[r] = phone[d].rows[r]
                         \/ /\ phone'[d].rows[r] = server[r]
                            /\ server[r].at > phone[d].rows[r].at
      /\ phone[d].messages \subseteq phone'[d].messages
      /\ UNCHANGED <<server, messages>>
  BY PulledPhone
<1>2. PICK units \in Pages(Units, phone[d].cursor), chats \in Pages(Chats, phone[d].cursor) :
           /\ phone'[d].cursor = NextCursor({units, chats})
           /\ \A r \in units \cup chats : phone'[d].rows[r].at >= server[r].at
           /\ Of(chats, messages) \subseteq phone'[d].messages
           /\ missed' = [missed EXCEPT ![d] = missed'[d]]
           /\ missed'[d] = Behind(missed[d] \cup (Cut(units, Units, phone[d].cursor)
                                                    \cup Cut(chats, Chats, phone[d].cursor)),
                                  server, NextCursor({units, chats}))
  BY PulledPages
<1> DEFINE c == NextCursor({units, chats})
           since == phone[d].cursor
<1>3. /\ c \in Nat
      /\ HasMore({units, chats}) =>
           \A page \in {units, chats} : page # {} => \E t \in Stamps(page) : t >= c
  BY CursorType
<1>4. since \in Nat /\ PageSize \in Nat /\ PageSize > 0
  BY SyncAssumption DEF TypeOK, PhoneType
<1>5. ASSUME NEW table \in Tables, NEW page \in Pages(table, since), page \in {units, chats},
             NEW r \in table, server[r].at <= c, server[r].at > since
      PROVE  r \in page \/ r \in Cut(page, table, since)
  <2>0. table \subseteq Rows /\ IsFiniteSet(table)
    BY SyncAssumption DEF Tables, Rows
  <2>1. page \subseteq table
    BY DEF Pages, Changed
  <2>2. Cardinality(page) \in Nat /\ server[r].at \in Nat
    BY <2>0, <2>1, FS_Subset, FS_CardinalityType DEF TypeOK, Row
  <2>3. \A t \in Stamps(page) : t \in Nat
    BY <2>0, <2>1 DEF Stamps, TypeOK, Row
  <2> HIDE DEF c, since
  <2>4. CASE ~HasMore({units, chats})
    <3>1. Cardinality(page) < PageSize
      BY <1>4, <1>5, <2>2, <2>4 DEF HasMore
    <3> QED
      BY <1>4, <1>5, <3>1, Listed
  <2>5. CASE page = {}
    <3>1. Cardinality(page) < PageSize
      BY <1>4, <2>5, FS_EmptySet
    <3> QED
      BY <1>4, <1>5, <3>1, Listed
  <2>6. CASE HasMore({units, chats}) /\ page # {}
    <3>1. PICK t \in Stamps(page) : t >= c
      BY <1>3, <1>5, <2>6
    <3>2. t >= server[r].at
      BY <1>3, <1>5, <2>2, <2>3, <3>1
    <3> QED
      BY <1>4, <1>5, <3>2, Listed
  <2> QED
    BY <2>4, <2>5, <2>6
<1>6. ASSUME NEW e \in Devices, NEW r \in Rows, server[r].at <= phone'[e].cursor, r \notin missed'[e]
      PROVE  /\ phone'[e].rows[r].at >= server[r].at
             /\ Of({r}, messages) \subseteq phone'[e].messages
  <2>1. CASE e # d
    <3>1. phone'[e] = phone[e] /\ missed'[e] = missed[e]
      BY <1>1, <1>2, <2>1 DEF TypeOK
    <3> QED
      BY <1>6, <3>1 DEF CursorCoversRows
  <2>0. ASSUME e = d PROVE /\ server[r].at <= c /\ r \notin missed[d]
                           /\ r \notin Cut(units, Units, since) /\ r \notin Cut(chats, Chats, since)
    BY <1>2, <1>6, <2>0 DEF Behind
  <2>2. CASE e = d /\ server[r].at <= since
    <3>1. phone[d].rows[r].at >= server[r].at /\ Of({r}, messages) \subseteq phone[d].messages
      BY <2>0, <2>2 DEF CursorCoversRows
    <3>2. phone[d].rows[r].at \in Nat /\ server[r].at \in Nat
      BY DEF TypeOK, PhoneType, Row
    <3>3. phone'[d].rows[r] = phone[d].rows[r] \/ phone'[d].rows[r] = server[r]
      BY <1>1
    <3>4. phone'[d].rows[r].at >= server[r].at
      BY <3>1, <3>2, <3>3
    <3>5. Of({r}, messages) \subseteq phone'[d].messages
      BY <1>1, <3>1
    <3> QED
      BY <2>2, <3>4, <3>5
  <2>3. CASE e = d /\ r \in Units /\ server[r].at > since
    <3>1. Units \in Tables /\ units \in {units, chats}
      BY DEF Tables
    <3>2. r \in units
      BY <1>5, <2>0, <2>3, <3>1
    <3>3. Of({r}, messages) = {}
      BY <2>3, SyncAssumption DEF Of, TypeOK, Message
    <3> QED
      BY <1>2, <2>3, <3>2, <3>3
  <2>4. CASE e = d /\ r \in Chats /\ server[r].at > since
    <3>1. Chats \in Tables /\ chats \in {units, chats}
      BY DEF Tables
    <3>2. r \in chats
      BY <1>5, <2>0, <2>4, <3>1
    <3>3. Of({r}, messages) \subseteq Of(chats, messages)
      BY <3>2 DEF Of
    <3> QED
      BY <1>2, <2>4, <3>2, <3>3
  <2>5. server[r].at \in Nat
    BY DEF TypeOK, Row
  <2>6. r \in Units \/ r \in Chats
    BY DEF Rows
  <2> HIDE DEF since
  <2>7. server[r].at <= since \/ server[r].at > since
    BY <1>4, <2>5
  <2> QED
    BY <2>1, <2>2, <2>3, <2>4, <2>6, <2>7
<1> QED
  BY <1>1, <1>6 DEF CursorCoversRows

\* What a push writes is after a phone's cursor, or it is out of reach.
LEMMA PushCovers ==
  ASSUME TypeOK, CursorCoversRows, NEW s \in Sessions, FinishPush(s)
  PROVE  CursorCoversRows'
<1> DEFINE p == req[s]
           talked == {m[1] : m \in p.messages \ p.known}
<1>1. /\ messages' = messages \cup (p.messages \ p.known)
      /\ \A d \in Devices : /\ phone'[d].rows = phone[d].rows
                            /\ phone'[d].messages = phone[d].messages
                            /\ phone'[d].cursor = phone[d].cursor
  BY Finished
<1>2. PICK rows \in Applied(p) :
        /\ server' = [r \in Rows |-> IF r \in rows THEN p.rows[r] ELSE server[r]]
        /\ missed' = [d \in Devices |-> Behind(missed[d] \cup rows \cup talked, server', phone[d].cursor)]
  BY Finished
<1>3. ASSUME NEW d \in Devices, NEW r \in Rows, server'[r].at <= phone[d].cursor, r \notin missed'[d]
      PROVE  /\ phone[d].rows[r].at >= server'[r].at
             /\ Of({r}, messages') \subseteq phone[d].messages
  <2> HIDE DEF talked
  <2>1. r \notin missed[d] /\ r \notin rows /\ r \notin talked
    BY <1>2, <1>3 DEF Behind
  <2>2. server'[r] = server[r]
    BY <1>2, <2>1
  <2>3. Of({r}, messages') = Of({r}, messages)
    BY <1>1, <2>1 DEF Of, talked
  <2> QED
    BY <1>3, <2>1, <2>2, <2>3 DEF CursorCoversRows
<1> QED
  BY <1>1, <1>3 DEF CursorCoversRows

LEMMA CoverStep ==
  ASSUME TypeOK, CursorCoversRows, [Next]_vars
  PROVE  CursorCoversRows'
<1>1. ASSUME NEW d \in Devices, NEW r \in Rows, NEW at \in Nat, NEW live \in BOOLEAN, NEW said \in BOOLEAN,
             Edit(d, r, at, live, said)
      PROVE  CursorCoversRows'
  <2>1. /\ phone' = [phone EXCEPT ![d] = phone'[d]]
        /\ phone'[d].rows = [phone[d].rows EXCEPT ![r] = [at |-> at, live |-> live]]
        /\ phone'[d].cursor = phone[d].cursor
        /\ phone[d].messages \subseteq phone'[d].messages
        /\ phone[d].rows[r].at < at
        /\ UNCHANGED <<server, messages, missed>>
    BY <1>1, EditedPhone
  <2> SUFFICES ASSUME NEW e \in Devices, NEW x \in Rows, server[x].at <= phone'[e].cursor, x \notin missed[e]
               PROVE  /\ phone'[e].rows[x].at >= server[x].at
                      /\ Of({x}, messages) \subseteq phone'[e].messages
    BY <2>1 DEF CursorCoversRows
  <2>2. phone'[e] = phone[e] \/ e = d
    BY <2>1 DEF TypeOK
  <2>3. /\ phone[e].rows[x].at >= server[x].at
        /\ Of({x}, messages) \subseteq phone[e].messages
    BY <2>1, <2>2 DEF CursorCoversRows
  <2>4. CASE e = d /\ x = r
    <3>1. server[x].at \in Nat /\ phone[e].rows[x].at \in Nat
      BY DEF TypeOK, PhoneType, Row
    <3>2. phone'[d].rows[r] = [at |-> at, live |-> live]
      BY <2>1 DEF TypeOK, PhoneType
    <3>3. phone'[e].rows[x].at = at
      BY <2>4, <3>2
    <3>4. phone'[e].rows[x].at >= server[x].at
      BY <2>1, <2>3, <2>4, <3>1, <3>3
    <3>5. Of({x}, messages) \subseteq phone'[e].messages
      BY <2>1, <2>3, <2>4
    <3> QED
      BY <3>4, <3>5
  <2>5. CASE e = d /\ x # r
    <3>1. phone'[e].rows[x] = phone[e].rows[x]
      BY <2>1, <2>5 DEF TypeOK, PhoneType
    <3> QED
      BY <2>1, <2>3, <2>5, <3>1
  <2> QED
    BY <2>2, <2>3, <2>4, <2>5
<1>2. CASE UNCHANGED <<server, messages, phone, missed>>
  BY <1>2 DEF CursorCoversRows
<1> QED
  BY <1>1, <1>2, PullCovers, PushCovers, Steps DEF BeginPush, AbortPush, ServerTick, vars

\* However pushes and pulls overlap and whatever the phones' clocks say, the
\* cursor a phone keeps stands for all that was in its reach, whatever the page
\* size and however many pages there were.
THEOREM CursorsCover == Spec => []CursorCoversRows
<1>1. ASSUME Init PROVE CursorCoversRows
  <2>1. /\ messages = {}
        /\ \A r \in Rows : server[r].at = 0
        /\ \A d \in Devices : \A r \in Rows : phone[d].rows[r].at = 0
    BY <1>1 DEF Init, NoRow
  <2> QED
    BY <2>1 DEF CursorCoversRows, Of
<1>2. TypeOK /\ CursorCoversRows /\ [Next]_vars => CursorCoversRows'
  BY CoverStep
<1> QED
  BY <1>1, <1>2, TypeCorrect, PTL DEF Spec
================================================================================
