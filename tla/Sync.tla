-------------------------------- MODULE Sync --------------------------------
(***************************************************************************)
(* Two phones of one student and the copy of their rows on the server.     *)
(* A phone works offline, pushes the rows it changed, and pulls what       *)
(* changed since the cursor it was given.  Conflicts are settled row by    *)
(* row on updated_at, which is whatever the clock of the phone that wrote  *)
(* the row said: phones may be ahead of the server, or behind, and two     *)
(* rows may carry one stamp.                                               *)
(*                                                                         *)
(* A push is two steps: the rows it compares with are selected, and later  *)
(* its writes are committed.  What a phone does with an answer is not in   *)
(* this repository; it is taken to keep the newer of two rows, to send a   *)
(* row again until it is told what became of it, to store the cursor, and  *)
(* to stamp its changes of one row in order.                               *)
(*                                                                         *)
(* A version of a row is told by its stamp; of its content only deletion   *)
(* matters here.  A stamp of 0 stands for no row.  A message is told by    *)
(* its chat, its phone and the time it was said, and never changes.        *)
(***************************************************************************)
EXTENDS Naturals, FiniteSets

CONSTANTS
  Devices,
  Units,       \* rows of the units table, of which only so many may be live
  Chats,       \* rows of another table, which carry messages
  Sessions,
  UnitCap,
  PageSize,
  Restores,    \* whether a phone ever brings a deleted row back
  MaxTime      \* bound on every clock

Rows == Units \cup Chats
Tables == {Units, Chats}

ASSUME SyncAssumption ==
  /\ IsFiniteSet(Units) /\ IsFiniteSet(Chats) /\ Units \cap Chats = {}
  /\ {UnitCap, PageSize, MaxTime} \subseteq Nat /\ PageSize > 0
  /\ Restores \in BOOLEAN

VARIABLES
  clock,     \* the server's
  server,    \* the rows as committed
  messages,  \* the messages table
  phone,     \* each phone: its rows, its messages, the rows it has yet to send, its cursor
  req,       \* pushes under way: what was sent and the rows it was compared with
  restored,  \* history: deleted units that came back
  missed     \* history: rows a phone's cursor is beyond and no page will list again, as they
             \* were written too late or cut off a page among rows of one stamp

vars == <<clock, server, messages, phone, req, restored, missed>>

NoRow == [at |-> 0, live |-> FALSE]
NoReq == [from |-> {}, sent |-> {}, rows |-> [r \in Rows |-> NoRow], messages |-> {},
          saw |-> [r \in Rows |-> NoRow], known |-> {}]

Init ==
  /\ clock = 1
  /\ server = [r \in Rows |-> NoRow]
  /\ phone = [d \in Devices |-> [rows |-> [r \in Rows |-> NoRow], messages |-> {},
                             dirty |-> {}, cursor |-> 0]]
  /\ messages = {}
  /\ req = [s \in Sessions |-> NoReq]
  /\ restored = 0
  /\ missed = [d \in Devices |-> {}]

-----------------------------------------------------------------------------
Exists(row) == row.at > 0
Of(chats, ms) == {m \in ms : m[1] \in chats}
LiveUnits(rows) == {u \in Units : rows[u].live}

\* The rows of these that are not after a phone's cursor.
Behind(rows, version, cursor) == {r \in rows : version[r].at <= cursor}

ServerTick ==
  /\ clock < MaxTime
  /\ clock' = clock + 1
  /\ UNCHANGED <<server, messages, phone, req, restored, missed>>

\* The student adds, changes or deletes a row on a phone at what its clock says,
\* or says something in a chat.  A row is added under an id nobody has.
Edit(d, r, at, live, said) ==
  LET old == phone[d]
      row == old.rows[r]
  IN
  /\ row.at < at
  /\ Exists(row) \/ (live /\ \A e \in Devices : ~Exists(phone[e].rows[r]))
  /\ Exists(row) /\ ~row.live => Restores
  /\ said => r \in Chats /\ live
  /\ phone' = [phone EXCEPT ![d] =
                 [old EXCEPT !.rows[r] = [at |-> at, live |-> live],
                             !.messages = old.messages \cup IF said THEN {<<r, d, at>>} ELSE {},
                             !.dirty = old.dirty \cup {r}]]
  /\ UNCHANGED <<clock, server, messages, req, restored, missed>>

\* POST /sync.
BeginPush(s, d) ==
  /\ req[s].from = {}
  /\ phone[d].dirty # {}
  /\ req' = [req EXCEPT ![s] = [from |-> {d}, sent |-> phone[d].dirty,
                                rows |-> phone[d].rows,
                                messages |-> Of(phone[d].dirty, phone[d].messages),
                                saw |-> server, known |-> messages]]
  /\ UNCHANGED <<clock, server, messages, phone, restored, missed>>

\* Mutant of IsNewer: client always wins.
IsNewerAlways(incoming, existing) == incoming # existing

IsNewer(incoming, existing) == incoming.at > existing.at

\* Mutant of Budget: every new unit finds the room there was for the first.
BudgetOfEach(p) == IF Cardinality(LiveUnits(p.saw)) < UnitCap THEN Cardinality(Units) ELSE 0

\* Room left under the cap, counted before the push; what the push deletes
\* does not make room.
Budget(p) ==
  IF Cardinality(LiveUnits(p.saw)) < UnitCap THEN UnitCap - Cardinality(LiveUnits(p.saw)) ELSE 0

\* New units that are live are the ones the cap is held against.
Capped(p) == {r \in p.sent \cap Units : ~Exists(p.saw[r]) /\ p.rows[r].live}

\* Which rows of a push are written: all that are newer, but for new units
\* beyond the budget, which the guard turns away as it comes to them.
Applied(p) ==
  LET newer == {r \in p.sent : IsNewer(p.rows[r], p.saw[r])}
      room == Budget(p)
  IN
  {newer \ refused : refused \in {x \in SUBSET Capped(p) :
      Cardinality(Capped(p) \ x) =
        IF Cardinality(Capped(p)) < room THEN Cardinality(Capped(p)) ELSE room}}

\* Mutant of Unknown: messages go with their chat.
UnknownOfApplied(p, rows) == Of(rows, p.messages) \ p.known

\* The messages a push adds, those of a chat it skipped included.
Unknown(p, rows) == p.messages \ p.known

\* The writes of a push, over whatever is committed by then.  A row or a
\* message it took for new and that exists by now breaks the primary key, and
\* the request.
FinishPush(s) ==
  LET p == req[s]
  IN
  /\ p.from # {}
  /\ \E rows \in Applied(p) :
       /\ \A r \in rows : Exists(server[r]) => Exists(p.saw[r])
       /\ Unknown(p, rows) \cap messages = {}
       /\ messages' = messages \cup Unknown(p, rows)
       /\ server' = [r \in Rows |-> IF r \in rows THEN p.rows[r] ELSE server[r]]
       /\ restored' = restored + Cardinality({u \in rows \cap Units :
                                               ~server[u].live /\ Exists(server[u]) /\ p.rows[u].live})
       /\ missed' = [d \in Devices |->
                       Behind(missed[d] \cup rows \cup {m[1] : m \in Unknown(p, rows)},
                              server', phone[d].cursor)]
  /\ req' = [req EXCEPT ![s] = NoReq]
  \* The answer settles every row that was not changed since, or is lost.
  /\ \/ phone' = [d \in Devices |->
                    IF d \in p.from
                    THEN [phone[d] EXCEPT !.dirty =
                            @ \ {r \in p.sent : phone[d].rows[r] = p.rows[r]}]
                    ELSE phone[d]]
     \/ UNCHANGED phone
  /\ UNCHANGED clock

\* The request raises, or its process dies, before the commit.
AbortPush(s) ==
  /\ req[s].from # {}
  /\ req' = [req EXCEPT ![s] = NoReq]
  /\ UNCHANGED <<clock, server, messages, phone, restored, missed>>

(***************************************************************************)
(* GET /sync: per table, the oldest rows stamped after the cursor.         *)
(***************************************************************************)
Changed(table, since) == {r \in table : server[r].at > since}

Before(r, rows) == {q \in rows : server[q].at < server[r].at}

\* The first page, where rows of one stamp come in any order.
Pages(table, since) ==
  LET rows == Changed(table, since)
  IN
  {page \in SUBSET rows :
     /\ Cardinality(page) = IF Cardinality(rows) < PageSize THEN Cardinality(rows) ELSE PageSize
     /\ \A r \in page : Before(r, rows) \subseteq page}

HasMore(pages) == \E page \in pages : Cardinality(page) >= PageSize

Stamps(page) == {server[r].at : r \in page}

\* Mutant of NextCursor: the cursor follows the page that got furthest.
NextCursorFurthest(pages) ==
  IF HasMore(pages)
  THEN CHOOSE c \in UNION {Stamps(page) : page \in pages} :
         \A page \in pages : \A t \in Stamps(page) : t <= c
  ELSE clock

\* The last row of a page is its newest; with more to come the cursor is the
\* oldest of those, and otherwise the time of the pull.
NextCursor(pages) ==
  IF HasMore(pages)
  THEN CHOOSE c \in UNION {Stamps(page) : page \in pages} :
         /\ \A page \in pages : page # {} => \E t \in Stamps(page) : t >= c
         /\ \E page \in pages : c \in Stamps(page) /\ \A t \in Stamps(page) : t <= c
  ELSE clock

\* What ties with a row of a full page and is not on it.
Cut(page, table, since) ==
  {r \in Changed(table, since) \ page : server[r].at \in Stamps(page)}

Pull(d) ==
  /\ \E units \in Pages(Units, phone[d].cursor), chats \in Pages(Chats, phone[d].cursor) :
       LET old == phone[d]
           newer == {r \in units \cup chats : IsNewer(server[r], old.rows[r])}
           settled == {r \in newer : Of({r}, old.messages) \subseteq messages}
           cut == Cut(units, Units, old.cursor) \cup Cut(chats, Chats, old.cursor)
       IN
       /\ phone' = [phone EXCEPT ![d] =
                      [rows     |-> [r \in Rows |-> IF r \in newer THEN server[r] ELSE old.rows[r]],
                       messages |-> old.messages \cup Of(chats, messages),
                       dirty    |-> old.dirty \ settled,
                       cursor   |-> NextCursor({units, chats})]]
       /\ missed' = [missed EXCEPT ![d] =
                        Behind(missed[d] \cup cut, server, NextCursor({units, chats}))]
  /\ UNCHANGED <<clock, server, messages, req, restored>>

-----------------------------------------------------------------------------
Changing ==
  \E d \in Devices, r \in Rows, at \in 1..MaxTime, live, said \in BOOLEAN : Edit(d, r, at, live, said)

Exchanging ==
  \/ ServerTick
  \/ \E d \in Devices : Pull(d) \/ \E s \in Sessions : BeginPush(s, d)
  \/ \E s \in Sessions : FinishPush(s) \/ AbortPush(s)

Next == Changing \/ Exchanging

Spec == Init /\ [][Next]_vars

-----------------------------------------------------------------------------
Row == [at : Nat, live : BOOLEAN]
Message == Chats \X Devices \X Nat

PhoneType ==
  [rows : [Rows -> Row], messages : SUBSET Message, dirty : SUBSET Rows, cursor : Nat]
ReqType ==
  [from : SUBSET Devices, sent : SUBSET Rows, rows : [Rows -> Row], messages : SUBSET Message,
   saw : [Rows -> Row], known : SUBSET Message]

\* Every variable keeps to its type.
TypeOK ==
  /\ clock \in Nat
  /\ server \in [Rows -> Row]
  /\ messages \subseteq Message
  /\ phone \in [Devices -> PhoneType]
  /\ req \in [Sessions -> ReqType]
  /\ restored \in Nat
  /\ missed \in [Devices -> SUBSET Rows]

\* "Do not advance past what was actually sent": a phone has every row the
\* server has up to the phone's cursor, or a newer version, and all that was
\* said in it, whatever the pages of the tables were.  Two kinds of row are
\* beyond the cursor's reach: one written after the cursor had passed its stamp,
\* and one that a full page left out while it listed another of the same stamp.
CursorCoversRows ==
  \A d \in Devices : \A r \in Rows :
    server[r].at <= phone[d].cursor /\ r \notin missed[d] =>
      /\ phone[d].rows[r].at >= server[r].at
      /\ Of({r}, messages) \subseteq phone[d].messages

\* A message that was said is in the table, or still to be sent by the phone
\* it was said on: a chat that loses to a newer one does not take it along.
NothingSaidIsLost ==
  \A d \in Devices : \A m \in phone[d].messages :
    m \in messages \/ \E e \in Devices : m \in phone[e].messages /\ m[1] \in phone[e].dirty

\* "Last write wins": with one push at a time, no row goes back to an older
\* version.
NewestWins == [][\A r \in Rows : server'[r].at >= server[r].at]_vars

\* The cap holds for whatever is sent and deleted together; only bringing
\* deleted units back goes beyond it.
CapHolds == Cardinality(LiveUnits(server)) <= UnitCap + restored
=============================================================================
