------------------------------- MODULE Notify -------------------------------
(***************************************************************************)
(* The reminder sweep: deadlines and classes entering their lead window,   *)
(* and documents that have just been read, told to one student at most     *)
(* once and never in quiet hours.                                          *)
(*                                                                         *)
(* A sweep reads everything first, then claims each reminder by inserting  *)
(* its key into the notification log, stamps the documents it speaks for,  *)
(* and only then pushes.  Each of the four ends in a commit, and another   *)
(* sweep, the student or a crash can come in between.                      *)
(*                                                                         *)
(* Time is counted in hours of a short day, the zone is an offset, and all *)
(* documents are filed under one unit.  Documents are numbered as their    *)
(* random ids sort.                                                        *)
(***************************************************************************)
EXTENDS Integers, FiniteSets

CONSTANTS
  Sweepers,    \* worker processes; two overlap during a deploy
  Materials,   \* a set of numbers
  Events, Slots,
  Day, Week,   \* hours in a day, days in a week
  Starts,      \* local hours at which classes begin
  Quiets,      \* quiet windows a student may choose, [from, to] in local hours
  Leads, Offsets,
  Wants,       \* which reminders a student may want, sets of kinds
  MaxHours, MaxChanges, MaxFailures

ASSUME NotifyAssumption ==
  /\ IsFiniteSet(Sweepers)
  \* Of any documents, one has the largest id.
  /\ Materials \subseteq Nat
  /\ \A some \in (SUBSET Materials) \ {{}} : \E m \in some : \A n \in some : n <= m
  /\ Day \in Nat \ {0} /\ Week \in Nat \ {0}
  \* A lead is a day at most (reminder_lead_minutes).
  /\ Leads \subseteq 0 .. Day
  /\ Starts \subseteq 0 .. Day - 1 /\ Offsets \subseteq Int
  /\ MaxHours \in Nat /\ MaxChanges \in Nat /\ MaxFailures \in Nat

Preferences == [quiet : Quiets, lead : Leads, zone : Offsets, wants : Wants]

VARIABLES
  now,
  material,   \* what the extraction worker says of each, and whether the student was told
  event,      \* deadlines: when due (0 for not at all), and done or deleted
  slot,       \* the timetable: weekday and hour, or dropped
  pref,       \* quiet hours, lead, zone and kinds
  token,      \* whether a device can be pushed to
  log,        \* the keys in notification_log, by their outcome
  sweep,      \* the sweeps under way; fresh: began alone, and nothing read has changed
  changes, failures,
  \* history
  pushed,     \* keys handed to Expo
  repeated,   \* those handed over again
  announced,  \* how often each document was
  heard,      \* occurrences claimed
  swept,      \* a sweep has run and nothing has changed since
  alone,      \* no two sweeps at once so far
  calm        \* no crash, no unreachable device and no change of preferences so far

tables == <<material, event, slot, pref, token, log>>
told == <<pushed, repeated, announced, heard>>
notifyVars == <<now, material, event, slot, pref, token, log, sweep, changes, failures,
          pushed, repeated, announced, heard, swept, calm, alone>>

Idle == [step |-> "idle", due |-> {}, fresh |-> FALSE]

NotifyInit ==
  /\ now = 1
  /\ material = [m \in Materials |-> [status |-> "reading", at |-> 0, notified |-> FALSE,
                                      deleted |-> FALSE]]
  /\ event = [e \in Events |-> [due |-> 0, closed |-> FALSE]]
  /\ slot \in [Slots -> [weekday : 0 .. Week - 1, starts : Starts, deleted : {FALSE}]]
  /\ pref \in Preferences
  /\ token = TRUE
  /\ log = [sent |-> {}, failed |-> {}]
  /\ sweep = [s \in Sweepers |-> Idle]
  /\ changes = 0 /\ failures = 0
  /\ pushed = {} /\ repeated = {} /\ announced = [m \in Materials |-> 0] /\ heard = {}
  /\ swept = FALSE /\ calm = TRUE /\ alone = TRUE

-----------------------------------------------------------------------------
LocalHour(t) == (t + pref.zone) % Day
LocalDate(t) == (t + pref.zone) \div Day

AllIdle == \A s \in Sweepers : sweep[s].step = "idle"

\* The local hour h of local day d, as an instant.
Instant(d, h) == d * Day + h - pref.zone

\* _in_quiet_hours: equal bounds are no window, and most windows cross
\* midnight.
InQuietHours ==
  LET h == LocalHour(now)
      from == pref.quiet.from
      to == pref.quiet.to
  IN
  \/ from < to /\ from <= h /\ h < to
  \/ from > to /\ (h >= from \/ h < to)

\* A reminder: the key that must be new, the occurrence it is about, and the
\* documents it speaks for.
Reminder(key, about, mats) == [key |-> key, about |-> about, mats |-> mats]

DeadlineKey(e) == <<"event", e, event[e].due>>

Ahead(t) == now < t /\ t - now <= pref.lead

DueDeadlines ==
  {Reminder(DeadlineKey(e), <<e, event[e].due>>, {}) :
     e \in {e \in Events : /\ "deadline" \in pref.wants
                           /\ ~event[e].closed /\ Ahead(event[e].due)}}

\* Mutant of DaysAsked: only the local day is looked at.
DaysAskedToday == {LocalDate(now)}

DaysAsked == {LocalDate(now), LocalDate(now) + 1}

DueClasses ==
  {Reminder(<<"class", c[1], c[2]>>, <<c[1], Instant(c[2], slot[c[1]].starts)>>, {}) :
     c \in {c \in Slots \X DaysAsked :
              /\ "class" \in pref.wants
              /\ ~slot[c[1]].deleted
              /\ c[2] % Week = slot[c[1]].weekday
              /\ Ahead(Instant(c[2], slot[c[1]].starts))}}

\* Mutant of FinishedWindow: the first guess, shorter than a night.
FinishedWindowOfHours == Day \div 4

FinishedWindow == Day

\* Mutant of Untold: documents are told apart by the log alone.
UntoldInLog(m) == ~material[m].deleted

Untold(m) == ~material[m].notified /\ ~material[m].deleted

Finished ==
  {m \in Materials : /\ material[m].status = "finished"
                     /\ Untold(m)
                     /\ material[m].at >= now - FinishedWindow}

\* One for the unit, keyed by the largest id it speaks for.
FinishedMaterials ==
  {Reminder(<<"material", "unit", m>>, <<"unit", m>>, Finished) :
     m \in {m \in Finished : \A n \in Finished : n <= m}}

Due == DueDeadlines \cup DueClasses \cup FinishedMaterials

-----------------------------------------------------------------------------
Become(s, step, due) ==
  sweep' = [sweep EXCEPT ![s] = [step |-> step, due |-> due, fresh |-> @.fresh]]

\* A sweep is over, and nothing is left to say if it read what is there now.
Over(s) ==
  /\ sweep' = [sweep EXCEPT ![s] = Idle]
  /\ swept' = (swept \/ sweep[s].fresh)

\* What is due and audible, read before anything is claimed.  A reminder
\* silenced now stays eligible.
Collect(s) ==
  /\ sweep[s].step = "idle"
  /\ ~swept
  /\ LET audible == IF token /\ ~InQuietHours THEN Due ELSE {}
     IN  IF audible = {}
         THEN swept' = TRUE /\ UNCHANGED <<sweep, alone>>
         ELSE /\ sweep' = [sweep EXCEPT ![s] = [step |-> "collected", due |-> audible,
                                                fresh |-> AllIdle]]
              /\ alone' = (alone /\ AllIdle)
              /\ UNCHANGED swept
  /\ UNCHANGED <<now, tables, changes, failures, told, calm>>

\* Mutant of Free: whatever was due when the sweep looked is sent.
FreeUnchecked(r) == TRUE

\* The unique constraint on (user, key) decides.
Free(r) == r.key \notin log.sent \cup log.failed

Reserve(s) ==
  LET claimed == {r \in sweep[s].due : Free(r)}
  IN
  /\ sweep[s].step = "collected"
  /\ log' = [log EXCEPT !.sent = @ \cup {r.key : r \in claimed}]
  /\ heard' = heard \cup {r.about : r \in claimed}
  /\ IF claimed = {} THEN Over(s) ELSE Become(s, "reserved", claimed) /\ UNCHANGED swept
  /\ UNCHANGED <<now, material, event, slot, pref, token, changes, failures, pushed, repeated,
                 announced, calm, alone>>

Notified(m) == [m EXCEPT !.notified = TRUE]

SpokenFor(s) == UNION {r.mats : r \in sweep[s].due}

MarkNotified(s) ==
  /\ sweep[s].step = "reserved"
  /\ material' = [m \in Materials |-> IF m \in SpokenFor(s) THEN Notified(material[m])
                                                            ELSE material[m]]
  /\ Become(s, "marked", sweep[s].due)
  /\ UNCHANGED <<now, event, slot, pref, token, log, changes, failures, told, swept, calm, alone>>

\* What becomes of a message: Expo cannot be reached or fails, or its ticket
\* says that it was taken, that it was not, or that the token is dead.
Unsent == {[ok |-> FALSE, dead |-> FALSE]}
Tickets == {[ok |-> TRUE, dead |-> FALSE], [ok |-> FALSE, dead |-> FALSE],
            [ok |-> FALSE, dead |-> TRUE]}

\* _clear_dead_tokens.
Cleared(t, ticket) == t /\ ~ticket.dead

\* A reminder that was not taken is marked failed and not tried again.
Deliver(s) ==
  LET keys == {r.key : r \in sweep[s].due}
  IN
  /\ sweep[s].step = "marked"
  /\ \E ticket \in Unsent \cup Tickets :
       /\ token' = Cleared(token, ticket)
       /\ IF ticket.ok
          THEN /\ pushed' = pushed \cup keys
               /\ repeated' = repeated \cup (pushed \cap keys)
               /\ announced' = [m \in Materials |->
                                  announced[m] + IF m \in SpokenFor(s) THEN 1 ELSE 0]
               /\ UNCHANGED <<log, failures, calm>>
          ELSE /\ failures < MaxFailures /\ failures' = failures + 1
               /\ log' = [sent |-> log.sent \ keys, failed |-> log.failed \cup keys]
               /\ calm' = FALSE
               /\ UNCHANGED <<pushed, repeated, announced>>
  /\ Over(s)
  /\ UNCHANGED <<now, material, event, slot, pref, changes, heard, alone>>

\* POST /me/push/test, which quiet hours do not hold back and the log does not
\* know; it matters when the token turns out to be dead.
TestPush ==
  /\ token
  /\ \E ticket \in Unsent \cup Tickets : token' = Cleared(token, ticket)
  /\ ~token'
  /\ failures < MaxFailures /\ failures' = failures + 1
  /\ calm' = FALSE
  /\ UNCHANGED <<now, material, event, slot, pref, log, sweep, changes, told, swept, alone>>

\* The process dies, or the sweep raises and is rolled back.
Crash(s) ==
  /\ sweep[s].step # "idle"
  /\ failures < MaxFailures /\ failures' = failures + 1
  /\ sweep' = [sweep EXCEPT ![s] = Idle]
  /\ calm' = FALSE
  /\ UNCHANGED <<now, tables, changes, told, swept, alone>>

(***************************************************************************)
(* Everybody else.                                                         *)
(***************************************************************************)
Change(others) ==
  /\ changes < MaxChanges /\ changes' = changes + 1
  /\ swept' = FALSE
  /\ sweep' = [s \in Sweepers |-> [sweep[s] EXCEPT !.fresh = FALSE]]
  /\ UNCHANGED <<now, log, failures, told, alone>>
  /\ UNCHANGED others

\* The extraction worker ends with a document, done or not.
FinishReading(m) ==
  /\ material[m].status = "reading"
  /\ material' = [material EXCEPT ![m].status = "finished", ![m].at = now]
  /\ Change(<<event, slot, pref, token, calm>>)

\* It is uploaded again, and queued.
ReadAgain(m) ==
  /\ material[m].status = "finished"
  /\ material' = [material EXCEPT ![m].status = "reading"]
  /\ Change(<<event, slot, pref, token, calm>>)

DeleteMaterial(m) ==
  /\ material' = [material EXCEPT ![m].deleted = TRUE]
  /\ Change(<<event, slot, pref, token, calm>>)

\* Deadlines are set, moved and closed through the planner.
SetDeadline(e, due) ==
  /\ due > now
  /\ event' = [event EXCEPT ![e] = [due |-> due, closed |-> FALSE]]
  /\ Change(<<material, slot, pref, token, calm>>)

CloseEvent(e) ==
  /\ event' = [event EXCEPT ![e].closed = TRUE]
  /\ Change(<<material, slot, pref, token, calm>>)

\* Classes are moved, dropped and put back by a push of the timetable.
MoveClass(c, weekday, starts) ==
  /\ slot' = [slot EXCEPT ![c] = [weekday |-> weekday, starts |-> starts, deleted |-> FALSE]]
  /\ Change(<<material, event, pref, token, calm>>)

DropClass(c) ==
  /\ slot' = [slot EXCEPT ![c].deleted = TRUE]
  /\ Change(<<material, event, pref, token, calm>>)

\* PATCH /me/settings.
UpdateSettings(p) ==
  /\ p # pref
  /\ pref' = p
  /\ calm' = FALSE
  /\ Change(<<material, event, slot, token>>)

\* PUT /me/devices with a push token.
RegisterDevice ==
  /\ ~token
  /\ token' = TRUE
  /\ Change(<<material, event, slot, pref, calm>>)

\* DELETE /me/devices/{id}.
ForgetDevice ==
  /\ token
  /\ token' = FALSE
  /\ calm' = FALSE
  /\ Change(<<material, event, slot, pref>>)

\* An hour passes once it has been swept: the worker sweeps every minute.
Tick ==
  /\ now < MaxHours
  /\ swept \/ ~calm
  /\ AllIdle \/ ~calm
  /\ now' = now + 1
  /\ swept' = FALSE
  /\ UNCHANGED <<tables, sweep, changes, failures, told, calm, alone>>

-----------------------------------------------------------------------------
Student ==
  \/ \E m \in Materials : FinishReading(m) \/ ReadAgain(m) \/ DeleteMaterial(m)
  \/ \E e \in Events : CloseEvent(e) \/ \E due \in 2 .. MaxHours : SetDeadline(e, due)
  \/ \E c \in Slots : DropClass(c) \/ \E w \in 0 .. Week - 1, h \in Starts : MoveClass(c, w, h)
  \/ \E p \in Preferences : UpdateSettings(p)
  \/ RegisterDevice \/ ForgetDevice \/ TestPush

Sweep(s) == Collect(s) \/ Reserve(s) \/ MarkNotified(s) \/ Deliver(s)

NotifyNext ==
  \/ Student
  \/ Tick
  \/ \E s \in Sweepers : Sweep(s) \/ Crash(s)

NotifySpec == NotifyInit /\ [][NotifyNext]_notifyVars

-----------------------------------------------------------------------------
MaterialType ==
  [status : {"reading", "finished"}, at : Nat, notified : BOOLEAN, deleted : BOOLEAN]
EventType == [due : Nat, closed : BOOLEAN]
SlotType == [weekday : Nat, starts : Starts, deleted : BOOLEAN]
Key == ({"event"} \X Events \X Nat) \cup ({"class"} \X Slots \X Int)
         \cup ({"material"} \X {"unit"} \X Materials)
Occurrence == (Events \X Nat) \cup (Slots \X Int) \cup ({"unit"} \X Materials)
ReminderType == [key : Key, about : Occurrence, mats : SUBSET Materials]
LogType == [sent : SUBSET Key, failed : SUBSET Key]
SweepType == [step : {"idle", "collected", "reserved", "marked"}, due : SUBSET ReminderType,
              fresh : BOOLEAN]

\* Every variable keeps to its type.
NotifyTypeOK ==
  /\ now \in Nat
  /\ material \in [Materials -> MaterialType]
  /\ event \in [Events -> EventType]
  /\ slot \in [Slots -> SlotType]
  /\ pref \in Preferences
  /\ token \in BOOLEAN
  /\ log \in LogType
  /\ sweep \in [Sweepers -> SweepType]
  /\ changes \in Nat /\ failures \in Nat
  /\ pushed \subseteq Key /\ repeated \subseteq Key /\ heard \subseteq Occurrence
  /\ announced \in [Materials -> Nat]
  /\ swept \in BOOLEAN /\ alone \in BOOLEAN /\ calm \in BOOLEAN

\* Nobody is pushed the same occurrence twice, whichever sweeps overlap.
PushedOnce == repeated = {}

\* A document is announced at most once, although the key of the notification
\* is not the document's; by overlapping sweeps, once by each.
AnnouncedOnce ==
  \A m \in Materials : announced[m] <= IF alone THEN 1 ELSE Cardinality(Sweepers)

\* What an hour that was swept and is not quiet leaves behind, as long as no
\* sweep failed and the student could be reached.
Audible == swept /\ AllIdle /\ calm /\ ~InQuietHours

\* "Quiet hours are meant to delay a notification, not cancel it": by the end
\* of the first audible sweep every document that was read is told, however
\* long the night before.
NothingLapses ==
  Audible => \A m \in Materials :
               material[m].status = "finished" /\ ~material[m].deleted => material[m].notified

\* An hour of this class on that local day was claimed.
HeardOn(c, day) == \E o \in heard : o[1] = c /\ LocalDate(o[2]) = day

\* What has come into its lead window and may be heard has been claimed by
\* the end of the sweep: a deadline that was moved once more, a class early
\* tomorrow asked about today.  A class is heard of once a day: moved to a
\* later hour after that, it is not heard of again.
DueIsHeard ==
  Audible =>
    /\ \A e \in Events :
         /\ "deadline" \in pref.wants
         /\ ~event[e].closed /\ Ahead(event[e].due)
         => <<e, event[e].due>> \in heard
    /\ \A c \in Slots : \A t \in now + 1 .. now + pref.lead :
         /\ "class" \in pref.wants
         /\ ~slot[c].deleted
         /\ LocalHour(t) = slot[c].starts
         /\ LocalDate(t) % Week = slot[c].weekday
         => HeardOn(c, LocalDate(t))
=============================================================================
