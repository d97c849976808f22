------------------------------- MODULE MCSync -------------------------------
(* What reaches a phone, on small instances: the rows it pulls (Sync) and  *)
(* the reminders it is sent (Notify).  The two share no state; `focus`     *)
(* says which of them a behaviour is about, and the other one rests.       *)
EXTENDS Sync, Notify, TLC

CONSTANTS
  p1, p2, u1, u2, n1, n2, x1, s1, s2, e1, c1,
  MaxEdits     \* bound on the changes made on phones

VARIABLES focus, edits

\* Sweeps are told apart by nothing.
Alike == Permutations({s1, s2})

\* A night that leaves one hour of four, and a window within the day.
Kinds == {"deadline", "class"}
QuietWindows == {[from |-> 3, to |-> 2], [from |-> 1, to |-> 3]}

KindsWanted == {Kinds, {}}

PhoneInit ==
  /\ focus \in {"rows", "reminders"}
  /\ edits = 0
  /\ Init
  /\ NotifyInit
  /\ pref.wants = Kinds
  \* The window within the day is tried with a class today, and one of the
  \* resting reminders is enough.
  /\ pref.quiet.from = 1 \/ focus = "rows" => \A c \in Slots : slot[c].weekday = 0
  /\ focus = "rows" => pref.quiet.from = 3
  \* Classes begin in the first hour, until they are moved.
  /\ \A c \in Slots : slot[c].starts = 0

\* The first of the units and of the chats is taken first.
InTurn(r) ==
  /\ r = u2 => \E e \in Devices : Exists(phone[e].rows[u1])
  /\ r = n2 => \E e \in Devices : Exists(phone[e].rows[n1])

\* Units change on one phone, whose clock is true to the order of the changes.
\* Chats change on both, when something is said in them, and may share stamps.
RowsNext ==
  \/ /\ \/ \E r \in Units, live \in BOOLEAN : InTurn(r) /\ Edit(p1, r, edits + 1, live, FALSE)
        \/ \E d \in Devices, r \in Chats, at \in 1 .. MaxTime :
             InTurn(r) /\ Edit(d, r, at, TRUE, TRUE)
     /\ edits < MaxEdits /\ edits' = edits + 1
  \/ Exchanging /\ UNCHANGED edits

PhoneNext ==
  \/ focus = "rows" /\ RowsNext /\ UNCHANGED <<notifyVars, focus>>
  \/ focus = "reminders" /\ NotifyNext /\ UNCHANGED <<vars, focus, edits>>

PhoneSpec == PhoneInit /\ [][PhoneNext]_<<vars, notifyVars, focus, edits>>
=============================================================================
