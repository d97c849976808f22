--------------------------- MODULE Notify_proofs ---------------------------
(* Proofs about the reminder sweep, for any number of workers sweeping at  *)
(* once: what it holds is well typed, a key is pushed once, a document is  *)
(* announced once by each of them at most, and, as long as nothing fails,  *)
(* what is due is claimed and what was read is told.                       *)
EXTENDS Notify, FiniteSetTheorems, TLAPS

-----------------------------------------------------------------------------
(* Types.                                                                  *)

\* What a sweep finds due is made of what there is.
LEMMA DueType ==
  ASSUME NotifyTypeOK
  PROVE  Due \subseteq ReminderType
<1>1. now \in Nat /\ pref.zone \in Int
  BY NotifyAssumption DEF NotifyTypeOK, Preferences
<1>2. DueDeadlines \subseteq ReminderType
  <2> SUFFICES ASSUME NEW e \in Events
               PROVE  Reminder(DeadlineKey(e), <<e, event[e].due>>, {}) \in ReminderType
    BY DEF DueDeadlines
  <2>1. event[e].due \in Nat
    BY DEF NotifyTypeOK, EventType
  <2> QED
    BY <2>1 DEF Reminder, DeadlineKey, ReminderType, Key, Occurrence
<1>3. DaysAsked \subseteq Int
  BY <1>1, NotifyAssumption DEF DaysAsked, LocalDate
<1>4. DueClasses \subseteq ReminderType
  <2> SUFFICES ASSUME NEW c \in Slots, NEW day \in DaysAsked
               PROVE  Reminder(<<"class", c, day>>, <<c, Instant(day, slot[c].starts)>>, {})
                        \in ReminderType
    BY DEF DueClasses
  <2>0. slot[c].starts \in Starts
    BY DEF NotifyTypeOK, SlotType
  <2>a. slot[c].starts \in 0 .. Day - 1 /\ Day \in Nat
    BY <2>0, NotifyAssumption
  <2>b. day \in Int
    BY <1>3
  <2>1. slot[c].starts \in Int /\ day \in Int
    BY <2>a, <2>b
  <2>2. Instant(day, slot[c].starts) \in Int
    BY <1>1, <2>1, NotifyAssumption DEF Instant
  <2> QED
    BY <2>1, <2>2 DEF Reminder, ReminderType, Key, Occurrence
<1>5. FinishedMaterials \subseteq ReminderType
  <2> SUFFICES ASSUME NEW m \in Finished
               PROVE  Reminder(<<"material", "unit", m>>, <<"unit", m>>, Finished) \in ReminderType
    BY DEF FinishedMaterials
  <2>1. Finished \subseteq Materials
    BY DEF Finished
  <2> QED
    BY <2>1 DEF Reminder, ReminderType, Key, Occurrence
<1> QED
  BY <1>2, <1>4, <1>5 DEF Due

\* A reminder speaks for documents of this student only.
LEMMA SpokenForType ==
  ASSUME NotifyTypeOK, NEW s \in Sweepers
  PROVE  SpokenFor(s) \subseteq Materials
  BY DEF SpokenFor, NotifyTypeOK, SweepType, ReminderType

LEMMA SweepStepType ==
  ASSUME NotifyTypeOK, NEW s \in Sweepers, Sweep(s) \/ Crash(s)
  PROVE  NotifyTypeOK'
<1>0. Idle \in SweepType
  BY DEF Idle, SweepType
<1>1. ASSUME Over(s) PROVE sweep' \in [Sweepers -> SweepType] /\ swept' \in BOOLEAN
  BY <1>0, <1>1 DEF Over, NotifyTypeOK, SweepType
<1>2. ASSUME NEW due, due \subseteq ReminderType,
             NEW step \in {"collected", "reserved", "marked"}, Become(s, step, due)
      PROVE  sweep' \in [Sweepers -> SweepType]
  BY <1>2 DEF Become, NotifyTypeOK, SweepType
<1>3. \A r \in sweep[s].due : r.key \in Key /\ r.about \in Occurrence
  BY DEF NotifyTypeOK, SweepType, ReminderType
<1>4. CASE Collect(s)
  <2> DEFINE audible == IF token /\ ~InQuietHours THEN Due ELSE {}
  <2>1. audible \subseteq ReminderType
    BY DueType
  <2>2. AllIdle \in BOOLEAN
    BY DEF AllIdle
  <2> HIDE DEF audible
  <2>3. \/ swept' = TRUE /\ UNCHANGED <<sweep, alone>>
        \/ /\ sweep' = [sweep EXCEPT ![s] = [step |-> "collected", due |-> audible,
                                             fresh |-> AllIdle]]
           /\ alone' = (alone /\ AllIdle)
           /\ UNCHANGED swept
    BY <1>4 DEF Collect, audible
  <2>4. [step |-> "collected", due |-> audible, fresh |-> AllIdle] \in SweepType
    BY <2>1, <2>2 DEF SweepType
  <2> HIDE DEF AllIdle
  <2>5. sweep' \in [Sweepers -> SweepType] /\ alone' \in BOOLEAN /\ swept' \in BOOLEAN
    BY <2>3, <2>4 DEF NotifyTypeOK
  <2> QED
    BY <1>4, <2>5 DEF Collect, NotifyTypeOK, tables, told
<1>5. CASE Reserve(s)
  <2> DEFINE claimed == {r \in sweep[s].due : Free(r)}
  <2>1. claimed \subseteq ReminderType
    BY DEF NotifyTypeOK, SweepType
  <2>2. {r.key : r \in claimed} \subseteq Key /\ {r.about : r \in claimed} \subseteq Occurrence
    BY <1>3
  <2>3. /\ log' = [log EXCEPT !.sent = @ \cup {r.key : r \in claimed}]
        /\ heard' = heard \cup {r.about : r \in claimed}
        /\ Over(s) \/ (Become(s, "reserved", claimed) /\ UNCHANGED swept)
    BY <1>5 DEF Reserve
  <2> HIDE DEF claimed
  <2>4. sweep' \in [Sweepers -> SweepType] /\ swept' \in BOOLEAN
    BY <1>1, <1>2, <2>1, <2>3 DEF NotifyTypeOK
  <2>5. log' \in LogType /\ heard' \subseteq Occurrence
    BY <2>2, <2>3 DEF NotifyTypeOK, LogType
  <2> QED
    BY <1>5, <2>4, <2>5 DEF Reserve, NotifyTypeOK
<1>6. CASE MarkNotified(s)
  <2>1. material' \in [Materials -> MaterialType]
    BY <1>6 DEF MarkNotified, Notified, NotifyTypeOK, MaterialType
  <2>2. sweep' \in [Sweepers -> SweepType]
    BY <1>2, <1>6 DEF MarkNotified, NotifyTypeOK, SweepType
  <2> QED
    BY <1>6, <2>1, <2>2 DEF MarkNotified, NotifyTypeOK, told
<1>7. CASE Deliver(s)
  <2> DEFINE keys == {r.key : r \in sweep[s].due}
  <2>1. keys \subseteq Key
    BY <1>3
  <2>2. PICK ticket \in Unsent \cup Tickets :
          /\ token' = Cleared(token, ticket)
          /\ \/ /\ pushed' = pushed \cup keys
                /\ repeated' = repeated \cup (pushed \cap keys)
                /\ announced' = [m \in Materials |->
                                   announced[m] + IF m \in SpokenFor(s) THEN 1 ELSE 0]
                /\ UNCHANGED <<log, failures, calm>>
             \/ /\ failures' = failures + 1
                /\ log' = [sent |-> log.sent \ keys, failed |-> log.failed \cup keys]
                /\ calm' = FALSE
                /\ UNCHANGED <<pushed, repeated, announced>>
    BY <1>7 DEF Deliver
  <2> HIDE DEF keys
  <2>3. token' \in BOOLEAN
    BY <2>2 DEF Cleared
  <2>a. pushed' \subseteq Key /\ repeated' \subseteq Key
    BY <2>1, <2>2 DEF NotifyTypeOK
  <2>b. log' \in LogType
    BY <2>1, <2>2 DEF NotifyTypeOK, LogType
  <2>c. failures' \in Nat
    BY <2>2 DEF NotifyTypeOK
  <2>d. calm' \in BOOLEAN
    BY <2>2 DEF NotifyTypeOK
  <2>4. failures' \in Nat /\ calm' \in BOOLEAN
    BY <2>c, <2>d
  <2>5. announced' \in [Materials -> Nat]
    BY <2>2 DEF NotifyTypeOK
  <2>6. sweep' \in [Sweepers -> SweepType] /\ swept' \in BOOLEAN
    BY <1>1, <1>7 DEF Deliver
  <2> QED
    BY <1>7, <2>3, <2>a, <2>b, <2>4, <2>5, <2>6 DEF Deliver, NotifyTypeOK
<1>8. CASE Crash(s)
  <2>1. sweep' \in [Sweepers -> SweepType]
    BY <1>0, <1>8 DEF Crash, NotifyTypeOK
  <2>2. swept' \in BOOLEAN /\ alone' \in BOOLEAN /\ calm' \in BOOLEAN
    BY <1>8 DEF Crash, NotifyTypeOK
  <2>3. failures' \in Nat
    BY <1>8 DEF Crash, NotifyTypeOK
  <2>4. UNCHANGED <<now, material, event, slot, pref, token, log, changes, pushed, repeated,
                    announced, heard>>
    BY <1>8 DEF Crash, tables, told
  <2> QED
    BY <2>1, <2>2, <2>3, <2>4 DEF NotifyTypeOK
<1> QED
  BY <1>4, <1>5, <1>6, <1>7, <1>8 DEF Sweep

\* A change by somebody else: what it does beside the change itself.
Changed ==
  /\ changes' = changes + 1
  /\ swept' = FALSE
  /\ sweep' = [s \in Sweepers |-> [sweep[s] EXCEPT !.fresh = FALSE]]
  /\ UNCHANGED <<now, log, failures, pushed, repeated, announced, heard, alone>>

LEMMA ChangedType ==
  ASSUME NotifyTypeOK, Changed
  PROVE  /\ sweep' \in [Sweepers -> SweepType]
         /\ changes' \in Nat /\ swept' \in BOOLEAN
         /\ now' \in Nat /\ failures' \in Nat /\ alone' \in BOOLEAN
         /\ log' \in LogType
         /\ pushed' \subseteq Key /\ repeated' \subseteq Key /\ heard' \subseteq Occurrence
         /\ announced' \in [Materials -> Nat]
<1>1. ASSUME NEW s \in Sweepers PROVE [sweep[s] EXCEPT !.fresh = FALSE] \in SweepType
  BY DEF NotifyTypeOK, SweepType
<1>2. sweep' \in [Sweepers -> SweepType]
  BY <1>1 DEF Changed
<1>3. swept' \in BOOLEAN /\ alone' \in BOOLEAN
  BY DEF Changed, NotifyTypeOK
<1>4. changes' \in Nat /\ announced' \in [Materials -> Nat]
  BY DEF Changed, NotifyTypeOK
<1>5. pushed' \subseteq Key /\ repeated' \subseteq Key /\ heard' \subseteq Occurrence
  BY DEF Changed, NotifyTypeOK
<1>6. now' \in Nat /\ failures' \in Nat /\ log' \in LogType
  BY DEF Changed, NotifyTypeOK
<1> QED
  BY <1>2, <1>3, <1>4, <1>5, <1>6

LEMMA StudentStepType ==
  ASSUME NotifyTypeOK, Student
  PROVE  NotifyTypeOK'
<1>2. ASSUME NEW m \in Materials, FinishReading(m) \/ ReadAgain(m) \/ DeleteMaterial(m)
      PROVE  NotifyTypeOK'
  <2>0. material[m] \in MaterialType /\ now \in Nat
    BY DEF NotifyTypeOK
  <2>1. ASSUME FinishReading(m) PROVE material' \in [Materials -> MaterialType]
    <3>1. material' = [material EXCEPT ![m] = [@ EXCEPT !.status = "finished", !.at = now]]
      BY <2>1 DEF FinishReading, NotifyTypeOK, MaterialType
    <3>2. [material[m] EXCEPT !.status = "finished", !.at = now] \in MaterialType
      BY <2>0 DEF MaterialType
    <3> QED
      BY <3>1, <3>2 DEF NotifyTypeOK
  <2>3. ASSUME ReadAgain(m) PROVE material' \in [Materials -> MaterialType]
    BY <2>3 DEF ReadAgain, NotifyTypeOK, MaterialType
  <2>4. ASSUME DeleteMaterial(m) PROVE material' \in [Materials -> MaterialType]
    BY <2>4 DEF DeleteMaterial, NotifyTypeOK, MaterialType
  <2>9. material' \in [Materials -> MaterialType]
    BY <2>1, <2>3, <2>4, <1>2
  <2>2. Changed /\ UNCHANGED <<event, slot, pref, token, calm>>
    BY <1>2 DEF FinishReading, ReadAgain, DeleteMaterial, Change, Changed, told
  <2> QED
    BY ChangedType, <2>9, <2>2 DEF NotifyTypeOK
<1>3. ASSUME NEW e \in Events, CloseEvent(e) \/ \E due \in 2 .. MaxHours : SetDeadline(e, due)
      PROVE  NotifyTypeOK'
  <2>3. ASSUME CloseEvent(e) PROVE event' \in [Events -> EventType]
    BY <2>3 DEF CloseEvent, NotifyTypeOK, EventType
  <2>4. ASSUME NEW due \in 2 .. MaxHours, SetDeadline(e, due)
        PROVE  event' \in [Events -> EventType]
    <3>1. due \in Nat
      BY NotifyAssumption
    <3>2. [due |-> due, closed |-> FALSE] \in EventType
      BY <3>1 DEF EventType
    <3> QED
      BY <2>4, <3>2 DEF SetDeadline, NotifyTypeOK
  <2>1. event' \in [Events -> EventType]
    BY <2>3, <2>4, <1>3
  <2>2. Changed /\ UNCHANGED <<material, slot, pref, token, calm>>
    BY <1>3 DEF CloseEvent, SetDeadline, Change, Changed, told
  <2> QED
    BY ChangedType, <2>1, <2>2 DEF NotifyTypeOK
<1>4. ASSUME NEW c \in Slots, DropClass(c) PROVE NotifyTypeOK'
  <2>1. slot' \in [Slots -> SlotType]
    BY <1>4 DEF DropClass, NotifyTypeOK, SlotType
  <2>2. Changed /\ UNCHANGED <<material, event, pref, token, calm>>
    BY <1>4 DEF DropClass, Change, Changed, told
  <2> QED
    BY ChangedType, <2>1, <2>2 DEF NotifyTypeOK
<1>8. ASSUME NEW c \in Slots, NEW w \in 0 .. Week - 1, NEW h \in Starts, MoveClass(c, w, h)
      PROVE  NotifyTypeOK'
  <2>1. w \in Nat
    BY NotifyAssumption
  <2>2. [weekday |-> w, starts |-> h, deleted |-> FALSE] \in SlotType
    BY <2>1 DEF SlotType
  <2>3. slot' \in [Slots -> SlotType]
    BY <1>8, <2>2 DEF MoveClass, NotifyTypeOK
  <2>4. Changed /\ UNCHANGED <<material, event, pref, token, calm>>
    BY <1>8 DEF MoveClass, Change, Changed, told
  <2> QED
    BY ChangedType, <2>3, <2>4 DEF NotifyTypeOK
<1>5. ASSUME NEW p \in Preferences, UpdateSettings(p) PROVE NotifyTypeOK'
  <2>1. Changed /\ UNCHANGED <<material, event, slot, token>>
    BY <1>5 DEF UpdateSettings, Change, Changed, told
  <2>2. pref' = p /\ calm' = FALSE
    BY <1>5 DEF UpdateSettings
  <2> QED
    BY ChangedType, <2>1, <2>2 DEF NotifyTypeOK
<1>6. CASE RegisterDevice \/ ForgetDevice
  <2>1. /\ Changed /\ UNCHANGED <<material, event, slot, pref>>
        /\ token' \in BOOLEAN /\ (calm' = calm \/ calm' = FALSE)
    BY <1>6 DEF RegisterDevice, ForgetDevice, Change, Changed, told
  <2> QED
    BY ChangedType, <2>1 DEF NotifyTypeOK
<1>7. CASE TestPush
  <2>1. token' \in BOOLEAN /\ failures' \in Nat /\ calm' = FALSE
    BY <1>7 DEF TestPush, Cleared, NotifyTypeOK
  <2>2. UNCHANGED <<now, material, event, slot, pref, log, sweep, changes, pushed, repeated,
                    announced, heard, swept, alone>>
    BY <1>7 DEF TestPush, told
  <2> QED
    BY <2>1, <2>2 DEF NotifyTypeOK
<1> QED
  BY <1>2, <1>3, <1>4, <1>5, <1>6, <1>7, <1>8 DEF Student

\* Every variable keeps to its type, for any workers, documents and hours.
THEOREM TypeCorrect == NotifySpec => []NotifyTypeOK
<1>1. NotifyInit => NotifyTypeOK
  <2> SUFFICES ASSUME NotifyInit PROVE NotifyTypeOK
    OBVIOUS
  <2>0. \A w \in 0 .. Week - 1 : w \in Nat
    BY NotifyAssumption
  <2>1. slot \in [Slots -> SlotType]
    BY <2>0 DEF NotifyInit, SlotType
  <2>2. /\ material \in [Materials -> MaterialType] /\ event \in [Events -> EventType]
        /\ sweep \in [Sweepers -> SweepType] /\ log \in LogType
    BY DEF NotifyInit, MaterialType, EventType, SweepType, Idle, LogType
  <2> QED
    BY <2>1, <2>2 DEF NotifyInit, NotifyTypeOK
<1>2. NotifyTypeOK /\ [NotifyNext]_notifyVars => NotifyTypeOK'
  <2> SUFFICES ASSUME NotifyTypeOK, [NotifyNext]_notifyVars PROVE NotifyTypeOK'
    OBVIOUS
  <2>1. CASE Tick
    <3>1. swept' \in BOOLEAN /\ alone' \in BOOLEAN /\ calm' \in BOOLEAN
      BY <2>1 DEF Tick, NotifyTypeOK
    <3>2. now' \in Nat
      BY <2>1 DEF Tick, NotifyTypeOK
    <3>3. UNCHANGED <<material, event, slot, pref, token, log, sweep, changes, failures, pushed,
                      repeated, announced, heard>>
      BY <2>1 DEF Tick, tables, told
    <3> QED
      BY <3>1, <3>2, <3>3 DEF NotifyTypeOK
  <2>2. CASE UNCHANGED notifyVars
    BY <2>2 DEF notifyVars, NotifyTypeOK
  <2> QED
    BY <2>1, <2>2, SweepStepType, StudentStepType DEF NotifyNext
<1> QED
  BY <1>1, <1>2, PTL DEF NotifySpec

-----------------------------------------------------------------------------
(* A key is claimed before it is pushed, and by one sweep only.            *)

Logged == log.sent \cup log.failed

Keys(s) == {r.key : r \in sweep[s].due}

Claimed(s) == sweep[s].step \in {"reserved", "marked"}

ClaimsInv ==
  /\ repeated = {}
  /\ pushed \subseteq Logged
  /\ \A s \in Sweepers :
       Claimed(s) => Keys(s) \subseteq Logged /\ Keys(s) \cap pushed = {}
  /\ \A s, t \in Sweepers :
       s # t /\ Claimed(s) /\ Claimed(t) => Keys(s) \cap Keys(t) = {}

\* Nobody claims anything anew, and what was pushed and logged stands.
Unclaiming ==
  /\ UNCHANGED <<pushed, repeated>>
  /\ Logged' = Logged
  /\ \A s \in Sweepers : Claimed(s)' => Claimed(s) /\ Keys(s)' = Keys(s)

LEMMA UnclaimingKeeps ==
  ASSUME ClaimsInv, Unclaiming
  PROVE  ClaimsInv'
  BY DEF ClaimsInv, Unclaiming

\* What the change of one sweep leaves of the others.
LEMMA OneSweep ==
  ASSUME NotifyTypeOK, NEW s \in Sweepers, NEW w, sweep' = [sweep EXCEPT ![s] = w]
  PROVE  /\ sweep'[s] = w
         /\ \A t \in Sweepers : t # s => sweep'[t] = sweep[t]
  BY DEF NotifyTypeOK

\* The steps of the others leave every sweep its step and what it carries.
LEMMA OthersKeepSweeps ==
  ASSUME NotifyTypeOK, Student \/ Tick
  PROVE  /\ UNCHANGED <<log, pushed, repeated, announced, alone>>
         /\ \A s \in Sweepers : sweep'[s].step = sweep[s].step /\ sweep'[s].due = sweep[s].due
<1>1. ASSUME Changed
      PROVE  \A s \in Sweepers : sweep'[s].step = sweep[s].step /\ sweep'[s].due = sweep[s].due
  BY <1>1 DEF Changed, NotifyTypeOK, SweepType
<1>2. ASSUME NEW m \in Materials, FinishReading(m) \/ ReadAgain(m) \/ DeleteMaterial(m)
      PROVE  Changed
  BY <1>2 DEF FinishReading, ReadAgain, DeleteMaterial, Change, Changed, told
<1>3. ASSUME NEW e \in Events, CloseEvent(e) \/ \E due \in 2 .. MaxHours : SetDeadline(e, due)
      PROVE  Changed
  BY <1>3 DEF CloseEvent, SetDeadline, Change, Changed, told
<1>4. ASSUME NEW c \in Slots,
             DropClass(c) \/ \E w \in 0 .. Week - 1, h \in Starts : MoveClass(c, w, h)
      PROVE  Changed
  BY <1>4 DEF DropClass, MoveClass, Change, Changed, told
<1>5. ASSUME NEW p \in Preferences, UpdateSettings(p) PROVE Changed
  BY <1>5 DEF UpdateSettings, Change, Changed, told
<1>6. ASSUME RegisterDevice \/ ForgetDevice PROVE Changed
  BY <1>6 DEF RegisterDevice, ForgetDevice, Change, Changed, told
<1>7. ASSUME TestPush \/ Tick
      PROVE  UNCHANGED <<log, pushed, repeated, announced, alone, sweep>>
  BY <1>7 DEF TestPush, Tick, tables, told
<1>8. Changed \/ UNCHANGED <<log, pushed, repeated, announced, alone, sweep>>
  BY <1>2, <1>3, <1>4, <1>5, <1>6, <1>7 DEF Student
<1> QED
  BY <1>1, <1>8 DEF Changed

LEMMA ClaimsStep ==
  ASSUME NotifyTypeOK, ClaimsInv, NEW s \in Sweepers, Sweep(s) \/ Crash(s)
  PROVE  ClaimsInv'
<1>0. Idle.step = "idle"
  BY DEF Idle
<1>1. ASSUME NEW w, sweep' = [sweep EXCEPT ![s] = w], w.step \notin {"reserved", "marked"},
             Logged' = Logged, UNCHANGED <<pushed, repeated>>
      PROVE  ClaimsInv'
  <2>1. Unclaiming
    BY <1>1, OneSweep DEF Unclaiming, Claimed, Keys
  <2> QED
    BY <2>1, UnclaimingKeeps
<1>2. CASE Collect(s)
  <2>1. UNCHANGED <<log, pushed, repeated>>
    BY <1>2 DEF Collect, tables, told
  <2>2. CASE UNCHANGED sweep
    BY <2>1, <2>2, UnclaimingKeeps DEF Unclaiming, Claimed, Keys, Logged
  <2>3. CASE \E due, fresh :
               sweep' = [sweep EXCEPT ![s] = [step |-> "collected", due |-> due, fresh |-> fresh]]
    BY <1>1, <2>1, <2>3 DEF Logged
  <2> QED
    BY <1>2, <2>2, <2>3 DEF Collect
<1>3. CASE Reserve(s)
  <2> DEFINE claimed == {r \in sweep[s].due : Free(r)}
             new == {r.key : r \in claimed}
  <2>1. /\ log' = [log EXCEPT !.sent = @ \cup new]
        /\ UNCHANGED <<pushed, repeated>>
        /\ \/ claimed = {} /\ sweep' = [sweep EXCEPT ![s] = Idle]
           \/ Become(s, "reserved", claimed)
    BY <1>3 DEF Reserve, Over
  <2>2. new \cap Logged = {}
    BY DEF Free, Logged
  <2> HIDE DEF claimed
  <2>3. claimed = {} => new = {}
    OBVIOUS
  <2>4. ASSUME Become(s, "reserved", claimed)
        PROVE  Keys(s)' = new /\ \A t \in Sweepers : t # s => sweep'[t] = sweep[t]
    <3>1. sweep'[s].due = claimed /\ \A t \in Sweepers : t # s => sweep'[t] = sweep[t]
      BY <2>4 DEF Become, NotifyTypeOK
    <3> QED
      BY <3>1 DEF Keys
  <2> HIDE DEF new
  <2>5. Logged' = Logged \cup new
    BY <2>1 DEF Logged, NotifyTypeOK, LogType
  <2>6. CASE claimed = {} /\ sweep' = [sweep EXCEPT ![s] = Idle]
    BY <1>0, <1>1, <2>1, <2>3, <2>5, <2>6
  <2>7. CASE Become(s, "reserved", claimed)
    <3>1. \A t \in Sweepers : t # s => /\ Keys(t)' = Keys(t)
                                       /\ Claimed(t)' = Claimed(t)
      BY <2>4, <2>7 DEF Keys, Claimed
    <3>2. \A t \in Sweepers :
            Claimed(t)' => Keys(t)' \subseteq Logged' /\ Keys(t)' \cap pushed' = {}
      BY <2>1, <2>2, <2>4, <2>5, <2>7, <3>1 DEF ClaimsInv
    <3>3. \A t, u \in Sweepers :
            t # u /\ Claimed(t)' /\ Claimed(u)' => Keys(t)' \cap Keys(u)' = {}
      BY <2>2, <2>4, <2>7, <3>1 DEF ClaimsInv
    <3>4. pushed' \subseteq Logged' /\ repeated' = {}
      BY <2>1, <2>5 DEF ClaimsInv
    <3> QED
      BY <3>2, <3>3, <3>4 DEF ClaimsInv
  <2> QED
    BY <2>1, <2>6, <2>7
<1>4. CASE MarkNotified(s)
  <2>1. /\ UNCHANGED <<log, pushed, repeated>> /\ Claimed(s)
        /\ \A t \in Sweepers : sweep'[t].due = sweep[t].due
                               /\ (t # s => sweep'[t].step = sweep[t].step)
    BY <1>4 DEF MarkNotified, Become, NotifyTypeOK, SweepType, told, Claimed
  <2> QED
    BY <2>1, UnclaimingKeeps DEF Unclaiming, Claimed, Keys, Logged
<1>5. CASE Deliver(s)
  <2>1. /\ sweep' = [sweep EXCEPT ![s] = Idle]
        /\ Claimed(s)
        /\ \/ /\ pushed' = pushed \cup Keys(s)
              /\ repeated' = repeated \cup (pushed \cap Keys(s))
              /\ UNCHANGED log
           \/ /\ log' = [sent |-> log.sent \ Keys(s), failed |-> log.failed \cup Keys(s)]
              /\ UNCHANGED <<pushed, repeated>>
    BY <1>5 DEF Deliver, Over, Keys, Claimed
  <2>2. Keys(s) \subseteq Logged /\ Keys(s) \cap pushed = {}
    BY <2>1 DEF ClaimsInv
  <2>3. CASE /\ pushed' = pushed \cup Keys(s)
             /\ repeated' = repeated \cup (pushed \cap Keys(s))
             /\ UNCHANGED log
    <3>1. Logged' = Logged
      BY <2>3 DEF Logged
    <3>2. ~Claimed(s)'
      BY <1>0, <2>1, OneSweep DEF Claimed
    <3>3. \A t \in Sweepers : t # s => Keys(t)' = Keys(t) /\ Claimed(t)' = Claimed(t)
      BY <2>1, OneSweep DEF Keys, Claimed
    <3> QED
      BY <2>1, <2>2, <2>3, <3>1, <3>2, <3>3 DEF ClaimsInv
  <2>4. CASE /\ log' = [sent |-> log.sent \ Keys(s), failed |-> log.failed \cup Keys(s)]
             /\ UNCHANGED <<pushed, repeated>>
    <3>1. Logged' = Logged
      BY <2>2, <2>4 DEF Logged
    <3> QED
      BY <1>0, <1>1, <2>1, <2>4, <3>1
  <2> QED
    BY <2>1, <2>3, <2>4
<1>6. CASE Crash(s)
  BY <1>0, <1>1, <1>6 DEF Crash, tables, told, Logged
<1> QED
  BY <1>2, <1>3, <1>4, <1>5, <1>6 DEF Sweep

LEMMA ClaimsAlways ==
  ASSUME NotifyTypeOK, ClaimsInv, [NotifyNext]_notifyVars
  PROVE  ClaimsInv'
<1>1. CASE Student \/ Tick
  <2>1. Unclaiming
    BY <1>1, OthersKeepSweeps DEF Unclaiming, Claimed, Keys, Logged
  <2> QED
    BY <2>1, UnclaimingKeeps
<1>2. CASE UNCHANGED notifyVars
  <2>1. Unclaiming
    BY <1>2 DEF notifyVars, Unclaiming, Claimed, Keys, Logged
  <2> QED
    BY <2>1, UnclaimingKeeps
<1> QED
  BY <1>1, <1>2, ClaimsStep DEF NotifyNext

\* Nobody is pushed the same occurrence twice, for any number of sweeps that
\* overlap and any crashes: the unique key is claimed and committed first.
THEOREM NeverPushedTwice == NotifySpec => []PushedOnce
<1>1. NotifyInit => ClaimsInv
  BY DEF NotifyInit, ClaimsInv, Claimed, Idle
<1>2. NotifyTypeOK /\ ClaimsInv /\ [NotifyNext]_notifyVars => ClaimsInv'
  BY ClaimsAlways
<1>3. ClaimsInv => PushedOnce
  BY DEF ClaimsInv, PushedOnce
<1> QED
  BY <1>1, <1>2, <1>3, TypeCorrect, PTL DEF NotifySpec

-----------------------------------------------------------------------------
(* The key of a document's notification is the largest id it speaks for,   *)
(* so that two keys can speak for one document: here the stamp decides.    *)

\* The sweeps under way that will speak for m.
Carriers(m) == {s \in Sweepers : m \in SpokenFor(s)}

Bound == IF alone THEN 1 ELSE Cardinality(Sweepers)

\* Once announced, or about to be, it is stamped; and those who will still
\* announce it count as if they had.
AnnounceInv ==
  /\ \A s \in Sweepers : sweep[s].step = "idle" => sweep[s].due = {}
  /\ \A s \in Sweepers : \A m \in SpokenFor(s) :
       sweep[s].step = "marked" => material[m].notified
  /\ \A m \in Materials : ~material[m].notified => announced[m] = 0
  /\ \A m \in Materials : announced[m] + Cardinality(Carriers(m)) <= Bound
  /\ \A s, t \in Sweepers :
       alone /\ s # t => sweep[s].step = "idle" \/ sweep[t].step = "idle"

LEMMA CarriersFinite ==
  ASSUME NEW m
  PROVE  /\ IsFiniteSet(Sweepers) /\ Cardinality(Sweepers) \in Nat
         /\ IsFiniteSet(Carriers(m)) /\ Cardinality(Carriers(m)) \in Nat
         /\ Cardinality(Carriers(m)) <= Cardinality(Sweepers)
<1>1. IsFiniteSet(Sweepers) /\ Carriers(m) \subseteq Sweepers
  BY NotifyAssumption DEF Carriers
<1> QED
  BY <1>1, FS_Subset, FS_CardinalityType

\* Fewer carriers, the same announcements: the count still holds.
LEMMA FewerCarriers ==
  ASSUME NotifyTypeOK, AnnounceInv, UNCHANGED <<announced, alone>>,
         \A s \in Sweepers : SpokenFor(s)' \subseteq SpokenFor(s)
  PROVE  \A m \in Materials : announced'[m] + Cardinality(Carriers(m)') <= Bound'
<1> SUFFICES ASSUME NEW m \in Materials
             PROVE  announced'[m] + Cardinality(Carriers(m)') <= Bound'
  OBVIOUS
<1>1. Carriers(m)' \subseteq Carriers(m)
  BY DEF Carriers
<1>2. Cardinality(Carriers(m)') <= Cardinality(Carriers(m))
  BY <1>1, CarriersFinite, FS_Subset
<1>3. Cardinality(Carriers(m)') \in Nat
  BY <1>1, CarriersFinite, FS_Subset, FS_CardinalityType
<1>4. announced'[m] = announced[m] /\ announced[m] \in Nat
  BY DEF NotifyTypeOK
<1>5. announced[m] + Cardinality(Carriers(m)) <= Bound
  BY DEF AnnounceInv
<1>6. Bound' = Bound
  BY DEF Bound
<1>7. Bound \in Nat
  BY CarriersFinite DEF Bound
<1> QED
  BY <1>2, <1>3, <1>4, <1>5, <1>6, <1>7, CarriersFinite

\* A step that hands nothing over: stamps stay, each sweep speaks for no more
\* than it did and claims the stamp only if it has it.
Silent ==
  /\ UNCHANGED <<announced, alone>>
  /\ \A m \in Materials : material[m].notified => material'[m].notified
  /\ \A s \in Sweepers :
       /\ sweep'[s].due \subseteq sweep[s].due
       /\ sweep[s].step = "idle" => sweep'[s].step = "idle"
       /\ sweep'[s].step = "idle" => sweep'[s].due = {}
       /\ sweep'[s].step = "marked" =>
            \/ sweep[s].step = "marked"
            \/ \A m \in SpokenFor(s) : material'[m].notified

LEMMA SilentKeeps ==
  ASSUME NotifyTypeOK, AnnounceInv, Silent
  PROVE  AnnounceInv'
<1>1. \A s \in Sweepers : SpokenFor(s)' \subseteq SpokenFor(s)
  BY DEF Silent, SpokenFor
<1>2. \A m \in Materials : announced'[m] + Cardinality(Carriers(m)') <= Bound'
  BY <1>1, FewerCarriers DEF Silent
<1>3. \A s \in Sweepers : \A m \in SpokenFor(s)' :
        sweep'[s].step = "marked" => material'[m].notified
  <2> SUFFICES ASSUME NEW s \in Sweepers, NEW m \in SpokenFor(s)', sweep'[s].step = "marked"
               PROVE  material'[m].notified
    OBVIOUS
  <2>1. m \in SpokenFor(s) /\ m \in Materials
    BY <1>1, SpokenForType
  <2> QED
    BY <2>1 DEF Silent, AnnounceInv
<1>4. \A m \in Materials : ~material'[m].notified => announced'[m] = 0
  BY DEF Silent, AnnounceInv
<1>5. \A s, t \in Sweepers :
        alone' /\ s # t => sweep'[s].step = "idle" \/ sweep'[t].step = "idle"
  BY DEF Silent, AnnounceInv
<1>6. \A s \in Sweepers : sweep'[s].step = "idle" => sweep'[s].due = {}
  BY DEF Silent
<1> QED
  BY <1>2, <1>3, <1>4, <1>5, <1>6 DEF AnnounceInv

\* What is due speaks for documents not told yet.
LEMMA DueUntold ==
  ASSUME NotifyTypeOK, NEW r \in Due, NEW m \in r.mats
  PROVE  ~material[m].notified
<1>1. r.mats = {} \/ r.mats = Finished
  BY DEF Due, DueDeadlines, DueClasses, FinishedMaterials, Reminder
<1> QED
  BY <1>1 DEF Finished, Untold

\* A sweep that has found something due: alone, or not.
LEMMA CollectedAnnounces ==
  ASSUME NotifyTypeOK, AnnounceInv, NEW s \in Sweepers, NEW due, NEW fresh,
         sweep[s].step = "idle", UNCHANGED <<material, announced>>,
         sweep' = [sweep EXCEPT ![s] = [step |-> "collected", due |-> due, fresh |-> fresh]],
         alone' = (alone /\ AllIdle),
         \A r \in due : \A m \in r.mats : ~material[m].notified
  PROVE  AnnounceInv'
<1>1. /\ sweep'[s].step = "collected" /\ sweep'[s].due = due
      /\ \A t \in Sweepers : t # s => sweep'[t] = sweep[t]
  <2> DEFINE w == [step |-> "collected", due |-> due, fresh |-> fresh]
  <2>1. w.step = "collected" /\ w.due = due
    OBVIOUS
  <2>2. sweep' = [sweep EXCEPT ![s] = w]
    OBVIOUS
  <2> HIDE DEF w
  <2>3. sweep'[s] = w /\ \A t \in Sweepers : t # s => sweep'[t] = sweep[t]
    BY <2>2, OneSweep
  <2> QED
    BY <2>1, <2>3
<1>2. \A t \in Sweepers : t # s => SpokenFor(t)' = SpokenFor(t)
  BY <1>1 DEF SpokenFor
<1>3. \A m \in SpokenFor(s)' : ~material[m].notified
  BY <1>1 DEF SpokenFor
<1>4. \A t \in Sweepers : sweep'[t].step = "idle" => sweep'[t].due = {}
  BY <1>1 DEF AnnounceInv
<1>5. \A t \in Sweepers : \A m \in SpokenFor(t)' :
        sweep'[t].step = "marked" => material'[m].notified
  BY <1>1, <1>2 DEF AnnounceInv
<1>6. \A m \in Materials : ~material'[m].notified => announced'[m] = 0
  BY DEF AnnounceInv
<1>7. \A t, u \in Sweepers :
        alone' /\ t # u => sweep'[t].step = "idle" \/ sweep'[u].step = "idle"
  BY <1>1 DEF AllIdle
<1>8. ASSUME NEW m \in Materials
      PROVE  announced'[m] + Cardinality(Carriers(m)') <= Bound'
  <2>0. announced'[m] = announced[m] /\ announced[m] \in Nat
    BY DEF NotifyTypeOK
  <2>1. 1 <= Cardinality(Sweepers) /\ Cardinality(Sweepers) \in Nat
    <3>1. Cardinality({s}) = 1 /\ {s} \subseteq Sweepers
      BY FS_Singleton
    <3> QED
      BY <3>1, CarriersFinite, FS_Subset
  <2>2. Carriers(m)' \subseteq Sweepers
    BY DEF Carriers
  <2>3. /\ Cardinality(Carriers(m)') \in Nat
        /\ Cardinality(Carriers(m)') <= Cardinality(Sweepers)
    BY <2>2, CarriersFinite, FS_Subset, FS_CardinalityType
  <2>4. CASE material[m].notified
    <3>1. Carriers(m)' \subseteq Carriers(m)
      BY <1>2, <1>3, <2>4 DEF Carriers
    <3>2. Cardinality(Carriers(m)') <= Cardinality(Carriers(m))
      BY <3>1, CarriersFinite, FS_Subset
    <3>3. announced[m] + Cardinality(Carriers(m)) <= Bound
      BY DEF AnnounceInv
    <3>4. Bound <= Bound' /\ Bound \in Nat /\ Bound' \in Nat
      <4>0. alone' => alone
        OBVIOUS
      <4>1. CASE alone'
        <5>1. Bound = 1 /\ Bound' = 1
          BY <4>0, <4>1 DEF Bound
        <5> QED
          BY <5>1
      <4>2. CASE ~alone'
        <5>1. Bound' = Cardinality(Sweepers) /\ (Bound = 1 \/ Bound = Cardinality(Sweepers))
          BY <4>2 DEF Bound
        <5> QED
          BY <2>1, <5>1
      <4> QED
        BY <4>1, <4>2
    <3> QED
      BY <2>0, <2>3, <3>2, <3>3, <3>4, CarriersFinite
  <2>5. CASE ~material[m].notified
    <3>0. announced[m] = 0
      BY <2>5 DEF AnnounceInv
    <3>1. CASE alone'
      <4>1. \A t \in Sweepers : t # s => SpokenFor(t)' = {}
        BY <1>2, <3>1 DEF AllIdle, AnnounceInv, SpokenFor
      <4>2. Carriers(m)' \subseteq {s}
        BY <4>1 DEF Carriers
      <4>3. Cardinality(Carriers(m)') <= 1
        <5>1. IsFiniteSet({s}) /\ Cardinality({s}) = 1
          BY FS_Singleton
        <5> QED
          BY <4>2, <5>1, FS_Subset
      <4> QED
        BY <2>0, <2>3, <3>0, <3>1, <4>3 DEF Bound
    <3>2. CASE ~alone'
      BY <2>0, <2>3, <3>0, <3>2 DEF Bound
    <3> QED
      BY <3>1, <3>2
  <2> QED
    BY <2>4, <2>5
<1> QED
  BY <1>4, <1>5, <1>6, <1>7, <1>8 DEF AnnounceInv

\* A push that was taken: the document is announced, and carried no more.
LEMMA PushedAnnounces ==
  ASSUME NotifyTypeOK, AnnounceInv, NEW s \in Sweepers, sweep[s].step = "marked",
         sweep' = [sweep EXCEPT ![s] = Idle], UNCHANGED <<material, alone>>,
         announced' = [m \in Materials |-> announced[m] + IF m \in SpokenFor(s) THEN 1 ELSE 0]
  PROVE  AnnounceInv'
<1>0. Idle.step = "idle" /\ Idle.due = {}
  BY DEF Idle
<1>1. /\ sweep'[s] = Idle
      /\ \A t \in Sweepers : t # s => sweep'[t] = sweep[t]
  BY OneSweep
<1>2. SpokenFor(s)' = {} /\ \A t \in Sweepers : t # s => SpokenFor(t)' = SpokenFor(t)
  BY <1>0, <1>1 DEF SpokenFor
<1>4. \A t \in Sweepers : sweep'[t].step = "idle" => sweep'[t].due = {}
  BY <1>0, <1>1 DEF AnnounceInv
<1>5. \A t \in Sweepers : \A m \in SpokenFor(t)' :
        sweep'[t].step = "marked" => material'[m].notified
  BY <1>1, <1>2 DEF AnnounceInv
<1>6. \A m \in Materials : ~material'[m].notified => announced'[m] = 0
  <2> SUFFICES ASSUME NEW m \in Materials, ~material'[m].notified PROVE announced'[m] = 0
    OBVIOUS
  <2>1. m \notin SpokenFor(s) /\ announced[m] = 0
    BY DEF AnnounceInv
  <2> QED
    BY <2>1
<1>7. \A t, u \in Sweepers :
        alone' /\ t # u => sweep'[t].step = "idle" \/ sweep'[u].step = "idle"
  BY <1>0, <1>1 DEF AnnounceInv
<1>8. ASSUME NEW m \in Materials
      PROVE  announced'[m] + Cardinality(Carriers(m)') <= Bound'
  <2>0. announced[m] \in Nat /\ announced[m] + Cardinality(Carriers(m)) <= Bound
    BY DEF NotifyTypeOK, AnnounceInv
  <2>1. Bound' = Bound /\ Bound \in Nat
    BY CarriersFinite DEF Bound
  <2>2. Carriers(m)' = Carriers(m) \ {s}
    BY <1>2 DEF Carriers
  <2>3. CASE m \in SpokenFor(s)
    <3>1. s \in Carriers(m)
      BY <2>3 DEF Carriers
    <3>2. Cardinality(Carriers(m)') = Cardinality(Carriers(m)) - 1
      BY <2>2, <3>1, CarriersFinite, FS_RemoveElement
    <3>3. announced'[m] = announced[m] + 1
      BY <2>3
    <3> QED
      BY <2>0, <2>1, <3>2, <3>3, CarriersFinite
  <2>4. CASE m \notin SpokenFor(s)
    <3>1. Carriers(m)' = Carriers(m)
      BY <2>2, <2>4 DEF Carriers
    <3>2. announced'[m] = announced[m]
      BY <2>0, <2>4
    <3> QED
      BY <2>0, <2>1, <3>1, <3>2
  <2> QED
    BY <2>3, <2>4
<1> QED
  BY <1>4, <1>5, <1>6, <1>7, <1>8 DEF AnnounceInv

LEMMA AnnounceStep ==
  ASSUME NotifyTypeOK, AnnounceInv, NEW s \in Sweepers, Sweep(s) \/ Crash(s)
  PROVE  AnnounceInv'
<1>0. Idle.step = "idle" /\ Idle.due = {}
  BY DEF Idle
<1>1. ASSUME sweep' = [sweep EXCEPT ![s] = Idle], UNCHANGED <<material, announced, alone>>
      PROVE  AnnounceInv'
  <2>1. /\ sweep'[s] = Idle
        /\ \A t \in Sweepers : t # s => sweep'[t] = sweep[t]
    BY <1>1, OneSweep
  <2>2. Silent
    BY <1>0, <1>1, <2>1 DEF Silent, AnnounceInv
  <2> QED
    BY <2>2, SilentKeeps
<1>2. CASE Collect(s)
  <2> DEFINE audible == IF token /\ ~InQuietHours THEN Due ELSE {}
  <2>1. \A r \in audible : \A m \in r.mats : ~material[m].notified
    BY DueUntold
  <2> HIDE DEF audible
  <2>2. /\ sweep[s].step = "idle" /\ UNCHANGED <<material, announced>>
        /\ \/ UNCHANGED <<sweep, alone>>
           \/ /\ sweep' = [sweep EXCEPT ![s] = [step |-> "collected", due |-> audible,
                                                fresh |-> AllIdle]]
              /\ alone' = (alone /\ AllIdle)
    BY <1>2 DEF Collect, audible, tables, told
  <2>3. CASE UNCHANGED <<sweep, alone>>
    <3>1. Silent
      BY <2>2, <2>3 DEF Silent, AnnounceInv
    <3> QED
      BY <3>1, SilentKeeps
  <2>4. CASE /\ sweep' = [sweep EXCEPT ![s] = [step |-> "collected", due |-> audible,
                                               fresh |-> AllIdle]]
             /\ alone' = (alone /\ AllIdle)
    BY <2>1, <2>2, <2>4, CollectedAnnounces
  <2> QED
    BY <2>2, <2>3, <2>4
<1>3. CASE Reserve(s)
  <2> DEFINE claimed == {r \in sweep[s].due : Free(r)}
  <2>1. /\ UNCHANGED <<material, announced, alone>> /\ sweep[s].step = "collected"
        /\ \/ sweep' = [sweep EXCEPT ![s] = Idle]
           \/ Become(s, "reserved", claimed)
    BY <1>3 DEF Reserve, Over
  <2>2. claimed \subseteq sweep[s].due
    OBVIOUS
  <2> HIDE DEF claimed
  <2>3. CASE Become(s, "reserved", claimed)
    <3>1. /\ sweep'[s].step = "reserved" /\ sweep'[s].due = claimed
          /\ \A t \in Sweepers : t # s => sweep'[t] = sweep[t]
      BY <2>3 DEF Become, NotifyTypeOK
    <3>2. Silent
      BY <2>1, <2>2, <3>1 DEF Silent, AnnounceInv
    <3> QED
      BY <3>2, SilentKeeps
  <2> QED
    BY <1>1, <2>1, <2>3
<1>4. CASE MarkNotified(s)
  <2>1. /\ UNCHANGED <<announced, alone>> /\ sweep[s].step = "reserved"
        /\ \A m \in Materials :
             material'[m] = IF m \in SpokenFor(s) THEN Notified(material[m]) ELSE material[m]
    BY <1>4 DEF MarkNotified, told
  <2>2. /\ sweep'[s].step = "marked" /\ sweep'[s].due = sweep[s].due
        /\ \A t \in Sweepers : t # s => sweep'[t] = sweep[t]
    BY <1>4 DEF MarkNotified, Become, NotifyTypeOK
  <2>3. \A m \in SpokenFor(s) : material'[m].notified
    BY <2>1, SpokenForType DEF Notified, NotifyTypeOK, MaterialType
  <2>4. \A m \in Materials : material[m].notified => material'[m].notified
    BY <2>1, <2>3
  <2>5. Silent
    BY <2>1, <2>2, <2>3, <2>4 DEF Silent, AnnounceInv
  <2> QED
    BY <2>5, SilentKeeps
<1>5. CASE Deliver(s)
  <2>1. /\ sweep[s].step = "marked" /\ UNCHANGED <<material, alone>>
        /\ sweep' = [sweep EXCEPT ![s] = Idle]
        /\ \/ announced' = [m \in Materials |->
                              announced[m] + IF m \in SpokenFor(s) THEN 1 ELSE 0]
           \/ UNCHANGED announced
    BY <1>5 DEF Deliver, Over
  <2>2. CASE UNCHANGED announced
    BY <1>1, <2>1, <2>2
  <2>3. CASE announced' = [m \in Materials |->
                             announced[m] + IF m \in SpokenFor(s) THEN 1 ELSE 0]
    BY <2>1, <2>3, PushedAnnounces
  <2> QED
    BY <2>1, <2>2, <2>3
<1>6. CASE Crash(s)
  BY <1>1, <1>6 DEF Crash, tables, told
<1> QED
  BY <1>2, <1>3, <1>4, <1>5, <1>6 DEF Sweep

\* The others never take the stamp back: a document read again stays told.
LEMMA StampStays ==
  ASSUME NotifyTypeOK, Student \/ Tick
  PROVE  \A m \in Materials : material[m].notified => material'[m].notified
<1>1. CASE Tick
  BY <1>1 DEF Tick, tables
<1>2. CASE Student
  <2>1. ASSUME NEW m \in Materials, ReadAgain(m) \/ DeleteMaterial(m)
        PROVE  \A n \in Materials : material[n].notified => material'[n].notified
    BY <2>1 DEF ReadAgain, DeleteMaterial, NotifyTypeOK, MaterialType
  <2>2. ASSUME NEW m \in Materials, FinishReading(m)
        PROVE  \A n \in Materials : material[n].notified => material'[n].notified
    BY <2>2 DEF FinishReading, NotifyTypeOK, MaterialType
  <2>3. ASSUME \/ \E e \in Events : CloseEvent(e) \/ \E due \in 2 .. MaxHours : SetDeadline(e, due)
               \/ \E c \in Slots : \/ DropClass(c)
                                    \/ \E w \in 0 .. Week - 1, h \in Starts : MoveClass(c, w, h)
               \/ \E p \in Preferences : UpdateSettings(p)
               \/ RegisterDevice \/ ForgetDevice \/ TestPush
        PROVE  UNCHANGED material
    BY <2>3 DEF CloseEvent, SetDeadline, DropClass, MoveClass, UpdateSettings, RegisterDevice, ForgetDevice,
                TestPush, Change
  <2> QED
    BY <1>2, <2>1, <2>2, <2>3 DEF Student
<1> QED
  BY <1>1, <1>2

\* A document is announced once, or once by each of the sweeps that overlap:
\* a sweep stamps what it speaks for before it pushes.
THEOREM AnnouncedOncePerSweep == NotifySpec => []AnnouncedOnce
<1>1. NotifyInit => AnnounceInv
  <2> SUFFICES ASSUME NotifyInit PROVE AnnounceInv
    OBVIOUS
  <2>1. \A s \in Sweepers : sweep[s] = Idle /\ Idle.step = "idle" /\ Idle.due = {}
    BY DEF NotifyInit, Idle
  <2>2. \A m \in Materials : Carriers(m) = {} /\ announced[m] = 0
    BY <2>1 DEF NotifyInit, Carriers, SpokenFor
  <2>3. \A m \in Materials : announced[m] + Cardinality(Carriers(m)) <= Bound
    <3>1. Bound = 1
      BY DEF NotifyInit, Bound
    <3>2. Cardinality({}) = 0
      BY FS_EmptySet
    <3>3. ASSUME NEW m \in Materials PROVE announced[m] + Cardinality(Carriers(m)) <= Bound
      <4>1. announced[m] = 0 /\ Cardinality(Carriers(m)) = 0
        BY <2>2, <3>2
      <4> QED
        BY <3>1, <4>1
    <3> QED
      BY <3>3
  <2> QED
    BY <2>1, <2>2, <2>3 DEF AnnounceInv
<1>2. NotifyTypeOK /\ AnnounceInv /\ [NotifyNext]_notifyVars => AnnounceInv'
  <2> SUFFICES ASSUME NotifyTypeOK, AnnounceInv, [NotifyNext]_notifyVars PROVE AnnounceInv'
    OBVIOUS
  <2>1. CASE Student \/ Tick
    <3>1. Silent
      BY <2>1, OthersKeepSweeps, StampStays DEF Silent, AnnounceInv
    <3> QED
      BY <3>1, SilentKeeps
  <2>2. CASE UNCHANGED notifyVars
    <3>1. Silent
      BY <2>2 DEF notifyVars, Silent, AnnounceInv
    <3> QED
      BY <3>1, SilentKeeps
  <2> QED
    BY <2>1, <2>2, AnnounceStep DEF NotifyNext
<1>3. NotifyTypeOK /\ AnnounceInv => AnnouncedOnce
  <2> SUFFICES ASSUME NotifyTypeOK, AnnounceInv, NEW m \in Materials PROVE announced[m] <= Bound
    BY DEF AnnouncedOnce, Bound
  <2>1. announced[m] \in Nat /\ Cardinality(Carriers(m)) \in Nat /\ Bound \in Nat
    BY CarriersFinite DEF NotifyTypeOK, Bound
  <2>2. announced[m] + Cardinality(Carriers(m)) <= Bound
    BY DEF AnnounceInv
  <2> QED
    BY <2>1, <2>2
<1> QED
  BY <1>1, <1>2, <1>3, TypeCorrect, PTL DEF NotifySpec

-----------------------------------------------------------------------------
(* What has come into its lead window, and what has been read, is told.    *)

\* Deadlines and classes that are due: the sweeps do not change what they are.
Timely == DueDeadlines \cup DueClasses

MaterialKey(m) == <<"material", "unit", m>>

\* InQuietHours, at any time.
QuietAt(t) ==
  LET h == LocalHour(t)
      from == pref.quiet.from
      to == pref.quiet.to
  IN
  \/ from < to /\ from <= h /\ h < to
  \/ from > to /\ (h >= from \/ h < to)

\* An hour of class c on that local day.
OnDay(o, c, day) == \E u \in Int : o = <<c, u>> /\ LocalDate(u) = day

\* The key of a reminder tells what it is about; a class's, only the day.
About(r) ==
  /\ \A e \in Events, due \in Nat : r.key = <<"event", e, due>> => r.about = <<e, due>>
  /\ \A c \in Slots, day \in Int :
       r.key = <<"class", c, day>> => OnDay(r.about, c, day)
  /\ \A m \in Materials : r.key = MaterialKey(m) => m \in r.mats
  /\ r.mats # {} => \E m \in Materials : r.key = MaterialKey(m)

\* A sweep that has claimed m's key and not stamped what it speaks for.
Holds(s, m) ==
  sweep[s].step = "reserved" /\ \E r \in sweep[s].due : r.key = MaterialKey(m)

\* What is claimed was heard; a document's key, as soon as its sweep stamps it.
LogRight ==
  /\ \A e \in Events, due \in Nat : <<"event", e, due>> \in Logged => <<e, due>> \in heard
  /\ \A c \in Slots, day \in Int :
       <<"class", c, day>> \in Logged => \E o \in heard : OnDay(o, c, day)
  /\ \A m \in Materials :
       MaterialKey(m) \in Logged => material[m].notified \/ \E s \in Sweepers : Holds(s, m)

\* All that is finished will be told by a sweep that has claimed its key.
Covered ==
  Finished = {} \/ \E s \in Sweepers : sweep[s].step = "reserved" /\ Finished \subseteq SpokenFor(s)

\* Nothing is left for another sweep to say.
Said == (\A r \in Timely : r.key \in Logged) /\ Covered

\* A reminder for documents still speaks for all there are to tell, and for
\* none if the one it is named by was told.
Still(r) ==
  r.mats # {} =>
    /\ Finished \subseteq r.mats
    /\ \A m \in Materials : r.key = MaterialKey(m) /\ material[m].notified => Finished = {}

\* A fresh sweep carries all that is due, until it has claimed it; and all that
\* are under way began after it and have read the same.
FreshRight(s) ==
  sweep[s].fresh =>
    /\ sweep[s].step # "idle"
    /\ sweep[s].step = "collected" =>
         /\ Timely \subseteq sweep[s].due
         /\ Finished = {} \/ \E r \in sweep[s].due : r.mats # {}
    /\ sweep[s].step # "collected" => Said
    /\ \A o \in Sweepers : \A r \in sweep[o].due : Still(r)

\* What was read and not told has had nothing but quiet hours since.
Waited ==
  \A m \in Materials :
    material[m].status = "finished" /\ Untold(m) =>
      \A t \in material[m].at .. now - 1 : QuietAt(t)

Carried ==
  \A s \in Sweepers : /\ sweep[s].step = "idle" => sweep[s].due = {}
                      /\ \A r \in sweep[s].due : About(r)

CalmInv ==
  calm => /\ token
          /\ Carried
          /\ LogRight
          /\ \A s \in Sweepers : FreshRight(s)
          /\ swept /\ ~InQuietHours => Said
          /\ Waited

\* An hour of the day comes again after a day.
LEMMA DayAgo ==
  ASSUME NEW a \in Int, NEW d \in Nat \ {0}
  PROVE  (a - d) % d = a % d
<1> DEFINE q == a \div d
           r == a % d
           p == (a - d) \div d
           s == (a - d) % d
<1>1. q \in Int /\ r \in 0 .. d - 1 /\ a = d * q + r
  OBVIOUS
<1>2. p \in Int /\ s \in 0 .. d - 1 /\ a - d = d * p + s
  OBVIOUS
<1> HIDE DEF q, r, p, s
<1>3. d * (q - p - 1) = s - r
  BY <1>1, <1>2
<1> DEFINE k == q - p - 1
<1>4. k \in Int /\ d * k = s - r
  BY <1>1, <1>2, <1>3
<1> HIDE DEF k
<1>5. k >= 1 => d * k >= d
  BY <1>4
<1>6. k <= -1 => d * k <= -d
  BY <1>4
<1>7. k = 0
  BY <1>1, <1>2, <1>4, <1>5, <1>6
<1>8. s = r
  BY <1>1, <1>2, <1>4, <1>7
<1> QED
  BY <1>8 DEF s, r

\* A day ahead is today or tomorrow.
LEMMA DayAhead ==
  ASSUME NEW a \in Int, NEW b \in Int, NEW d \in Nat \ {0}, a <= b, b - a <= d
  PROVE  b \div d \in {a \div d, a \div d + 1}
<1> DEFINE q == a \div d
           r == a % d
           p == b \div d
           s == b % d
<1>1. q \in Int /\ r \in 0 .. d - 1 /\ a = d * q + r
  OBVIOUS
<1>2. p \in Int /\ s \in 0 .. d - 1 /\ b = d * p + s
  OBVIOUS
<1> HIDE DEF q, r, p, s
<1>3. d * (p - q) = (b - a) + r - s
  BY <1>1, <1>2
<1> DEFINE k == p - q
<1>4. k \in Int /\ d * k = (b - a) + r - s
  BY <1>1, <1>2, <1>3
<1> HIDE DEF k
<1>5. k >= 2 => d * k >= 2 * d
  BY <1>4
<1>6. k <= -1 => d * k <= -d
  BY <1>4
<1>7. k \in {0, 1}
  BY <1>1, <1>2, <1>4, <1>5, <1>6
<1>8. p \in {q, q + 1}
  BY <1>1, <1>2, <1>7 DEF k
<1> QED
  BY <1>8 DEF p, q

LEMMA InstantOf ==
  ASSUME NotifyTypeOK, NEW t \in Int
  PROVE  Instant(LocalDate(t), LocalHour(t)) = t
<1>1. pref.zone \in Int /\ Day \in Nat \ {0}
  BY NotifyAssumption DEF NotifyTypeOK, Preferences
<1> DEFINE a == t + pref.zone
<1>2. a \in Int /\ t = a - pref.zone
  BY <1>1
<1>3. LocalDate(t) = a \div Day /\ LocalHour(t) = a % Day
  BY DEF LocalDate, LocalHour
<1> HIDE DEF a
<1>4. a = Day * (a \div Day) + (a % Day) /\ a \div Day \in Int /\ a % Day \in Int
  BY <1>1, <1>2
<1>5. (a \div Day) * Day = Day * (a \div Day)
  BY <1>1, <1>4
<1> QED
  BY <1>1, <1>2, <1>3, <1>4, <1>5 DEF Instant

\* A wall-clock hour of a day falls on that day.
LEMMA DateOf ==
  ASSUME NotifyTypeOK, NEW day \in Int, NEW h \in Starts
  PROVE  Instant(day, h) \in Int /\ LocalDate(Instant(day, h)) = day
<1>1. pref.zone \in Int /\ Day \in Nat \ {0} /\ h \in 0 .. Day - 1
  BY NotifyAssumption DEF NotifyTypeOK, Preferences
<1> DEFINE a == day * Day + h
<1>2. a \in Int /\ a = Day * day + h
  BY <1>1
<1>3. Instant(day, h) = a - pref.zone
  BY <1>1, SMT DEF Instant
<1> HIDE DEF a
<1>4. Instant(day, h) \in Int /\ Instant(day, h) + pref.zone = a
  BY <1>1, <1>2, <1>3
<1> DEFINE q == a \div Day
           r == a % Day
<1>5. q \in Int /\ r \in 0 .. Day - 1 /\ a = Day * q + r
  BY <1>1, <1>2
<1> HIDE DEF q, r
<1> DEFINE k == q - day
<1>6. k \in Int /\ Day * k = Day * q - Day * day
  BY <1>1, <1>5
<1> HIDE DEF k
<1>7. Day * k = h - r
  <2>1. Day * q \in Int /\ Day * day \in Int
    BY <1>1, <1>5
  <2> QED
    BY <1>1, <1>2, <1>5, <1>6, <2>1
<1>8. (k >= 1 => Day * k >= Day) /\ (k <= -1 => Day * k <= -Day)
  BY <1>1, <1>6
<1>9. k = 0
  BY <1>1, <1>5, <1>6, <1>7, <1>8
<1>10. q = day
  BY <1>5, <1>9 DEF k
<1> QED
  BY <1>4, <1>10 DEF LocalDate, q

LEMMA QuietNow == InQuietHours <=> QuietAt(now)
  BY DEF InQuietHours, QuietAt

\* As long as the clock, the planner and the settings rest.
Resting == UNCHANGED <<now, event, slot, pref>>

LEMMA RestingKeeps ==
  ASSUME Resting
  PROVE  /\ Timely' = Timely
         /\ InQuietHours' <=> InQuietHours
         /\ \A r : About(r)' <=> About(r)
         /\ \A t : QuietAt(t)' <=> QuietAt(t)
         /\ \A o, c, day : OnDay(o, c, day)' <=> OnDay(o, c, day)
<1>1. Timely' = Timely
  BY DEF Resting, Timely, DueDeadlines, DueClasses, DeadlineKey, Ahead, DaysAsked, LocalDate,
         Instant, Reminder
<1>2. InQuietHours' <=> InQuietHours
  BY DEF Resting, InQuietHours, LocalHour
<1>3. \A o, c, day : OnDay(o, c, day)' <=> OnDay(o, c, day)
  BY DEF Resting, OnDay, LocalDate
<1>4. \A t : QuietAt(t)' <=> QuietAt(t)
  BY DEF Resting, QuietAt, LocalHour
<1>5. \A r : About(r)' <=> About(r)
  BY <1>3 DEF About
<1> QED
  BY <1>1, <1>2, <1>3, <1>4, <1>5

\* What a sweep finds due.
LEMMA DueRight ==
  ASSUME NotifyTypeOK
  PROVE  /\ Timely \subseteq Due
         /\ \A r \in Due : About(r) /\ Still(r)
         /\ Finished = {} \/ \E r \in Due : r.mats # {}
<1>1. ASSUME NEW e \in Events
      PROVE  About(Reminder(DeadlineKey(e), <<e, event[e].due>>, {}))
  BY DEF About, Reminder, DeadlineKey, MaterialKey
<1>2. ASSUME NEW c \in Slots, NEW day \in DaysAsked
      PROVE  About(Reminder(<<"class", c, day>>, <<c, Instant(day, slot[c].starts)>>, {}))
  <2>1. day \in Int /\ slot[c].starts \in Starts
    BY NotifyAssumption DEF NotifyTypeOK, SlotType, DaysAsked, LocalDate, Preferences
  <2>2. OnDay(<<c, Instant(day, slot[c].starts)>>, c, day)
    BY <2>1, DateOf DEF OnDay
  <2> DEFINE r == Reminder(<<"class", c, day>>, <<c, Instant(day, slot[c].starts)>>, {})
  <2>3. r.key = <<"class", c, day>> /\ r.mats = {} /\ OnDay(r.about, c, day)
    BY <2>2 DEF Reminder
  <2> HIDE DEF r
  <2>4. About(r)
    BY <2>3 DEF About, MaterialKey
  <2> QED
    BY <2>4 DEF r
<1>3. ASSUME NEW m \in Finished
      PROVE  LET r == Reminder(MaterialKey(m), <<"unit", m>>, Finished) IN
             About(r) /\ Still(r) /\ r.mats # {}
  <2>1. m \in Materials /\ ~material[m].notified
    BY DEF Finished, Untold
  <2> DEFINE r == Reminder(MaterialKey(m), <<"unit", m>>, Finished)
  <2>2. r.key = MaterialKey(m) /\ r.mats = Finished
    BY DEF Reminder
  <2> HIDE DEF r
  <2>3. \A n \in Materials : r.key = MaterialKey(n) => n = m
    BY <2>2 DEF MaterialKey
  <2>4. /\ \A e \in Events, due \in Nat : r.key # <<"event", e, due>>
        /\ \A c \in Slots, day \in Int : r.key # <<"class", c, day>>
    BY <2>2 DEF MaterialKey
  <2>5. About(r)
    BY <2>1, <2>2, <2>3, <2>4 DEF About
  <2>6. Still(r)
    BY <2>1, <2>2, <2>3 DEF Still
  <2> QED
    BY <2>2, <2>5, <2>6 DEF r
<1>4. ASSUME NEW r \in Due PROVE About(r) /\ Still(r)
  <2>1. CASE r \in DueDeadlines
    <3>1. PICK e \in Events : r = Reminder(DeadlineKey(e), <<e, event[e].due>>, {})
      BY <2>1 DEF DueDeadlines
    <3>2. r.mats = {}
      BY <3>1 DEF Reminder
    <3> QED
      BY <1>1, <3>1, <3>2 DEF Still
  <2>2. CASE r \in DueClasses
    <3>1. PICK c \in Slots, day \in DaysAsked :
            r = Reminder(<<"class", c, day>>, <<c, Instant(day, slot[c].starts)>>, {})
      BY <2>2 DEF DueClasses
    <3>2. r.mats = {}
      BY <3>1 DEF Reminder
    <3> QED
      BY <1>2, <3>1, <3>2 DEF Still
  <2>3. CASE r \in FinishedMaterials
    <3>1. PICK m \in Finished : r = Reminder(MaterialKey(m), <<"unit", m>>, Finished)
      BY <2>3 DEF FinishedMaterials, MaterialKey
    <3> QED
      BY <1>3, <3>1
  <2> QED
    BY <2>1, <2>2, <2>3 DEF Due
<1>5. ASSUME Finished # {} PROVE \E r \in Due : r.mats # {}
  <2>1. Finished \in (SUBSET Materials) \ {{}}
    BY <1>5 DEF Finished
  <2>2. PICK m \in Finished : \A n \in Finished : n <= m
    BY <2>1, NotifyAssumption
  <2>3. Reminder(MaterialKey(m), <<"unit", m>>, Finished) \in FinishedMaterials
    BY <2>2 DEF FinishedMaterials, MaterialKey
  <2> QED
    BY <1>3, <2>3 DEF Due
<1> QED
  BY <1>4, <1>5 DEF Timely, Due

\* Somebody else changes what there is to tell: nothing is swept any more, and
\* no sweep is fresh.
LEMMA ChangedKeeps ==
  ASSUME NotifyTypeOK, CalmInv, Changed,
         calm' => /\ calm /\ token' /\ pref' = pref
                  /\ \A m \in Materials :
                       /\ material[m].notified => material'[m].notified
                       /\ material'[m].status = "finished" /\ Untold(m)' =>
                            \/ /\ material[m].status = "finished" /\ Untold(m)
                               /\ material'[m].at = material[m].at
                            \/ material'[m].at = now
  PROVE  CalmInv'
<1> SUFFICES ASSUME calm' PROVE CalmInv'
  BY DEF CalmInv
<1>1. /\ calm /\ token' /\ pref' = pref /\ now' = now /\ ~swept'
      /\ log' = log /\ heard' = heard
      /\ token /\ Carried /\ LogRight /\ Waited
  BY DEF Changed, CalmInv
<1>2. \A s \in Sweepers : /\ sweep'[s].step = sweep[s].step /\ sweep'[s].due = sweep[s].due
                          /\ sweep'[s].fresh = FALSE
  BY DEF Changed, NotifyTypeOK, SweepType
<1>3. \A o, c, day : OnDay(o, c, day)' <=> OnDay(o, c, day)
  BY <1>1 DEF OnDay, LocalDate
<1>4. Carried'
  <2>1. \A r : About(r) => About(r)'
    BY <1>3 DEF About
  <2> QED
    BY <1>1, <1>2, <2>1 DEF Carried
<1>5. LogRight'
  <2>1. Logged' = Logged
    BY <1>1 DEF Logged
  <2>2. \A s \in Sweepers, m \in Materials : Holds(s, m) => Holds(s, m)'
    BY <1>2 DEF Holds
  <2>3. \A m \in Materials : material[m].notified => material'[m].notified
    OBVIOUS
  <2> QED
    BY <1>1, <1>3, <2>1, <2>2, <2>3 DEF LogRight
<1>6. \A s \in Sweepers : FreshRight(s)'
  BY <1>2 DEF FreshRight
<1>7. Waited'
  <2> SUFFICES ASSUME NEW m \in Materials, material'[m].status = "finished", Untold(m)',
                      NEW t \in material'[m].at .. now - 1
               PROVE  QuietAt(t)'
    BY <1>1 DEF Waited
  <2>1. now \in Nat /\ (material'[m].at = now => FALSE)
    BY DEF NotifyTypeOK
  <2>2. /\ material[m].status = "finished" /\ Untold(m)
        /\ material'[m].at = material[m].at
    BY <2>1
  <2>3. QuietAt(t)
    BY <1>1, <2>2 DEF Waited
  <2> QED
    BY <1>1, <2>3 DEF QuietAt, LocalHour
<1> QED
  BY <1>1, <1>4, <1>5, <1>6, <1>7 DEF CalmInv

LEMMA StudentKeeps ==
  ASSUME NotifyTypeOK, CalmInv, Student
  PROVE  CalmInv'
<1>0. \A m \in Materials : material[m] \in MaterialType
  BY DEF NotifyTypeOK
<1>1. ASSUME NEW m \in Materials, FinishReading(m) PROVE CalmInv'
  <2>1. Changed /\ UNCHANGED <<event, slot, pref, token, calm>>
    BY <1>1 DEF FinishReading, Change, Changed, told
  <2>2. /\ material' = [material EXCEPT ![m].status = "finished", ![m].at = now]
        /\ material[m].status = "reading"
    BY <1>1 DEF FinishReading
  <2>3. /\ material'[m].notified = material[m].notified /\ material'[m].at = now
        /\ \A n \in Materials : n # m => material'[n] = material[n]
    <3>1. material' = [material EXCEPT ![m] = [@ EXCEPT !.status = "finished", !.at = now]]
      BY <1>0, <2>2 DEF NotifyTypeOK, MaterialType
    <3> QED
      BY <1>0, <3>1 DEF NotifyTypeOK, MaterialType
  <2>4. \A n \in Materials :
          /\ material[n].notified => material'[n].notified
          /\ material'[n].status = "finished" /\ Untold(n)' =>
               \/ /\ material[n].status = "finished" /\ Untold(n)
                  /\ material'[n].at = material[n].at
               \/ material'[n].at = now
    BY <2>3 DEF Untold
  <2> QED
    BY <2>1, <2>4, ChangedKeeps DEF CalmInv
<1>2. ASSUME NEW m \in Materials, ReadAgain(m) \/ DeleteMaterial(m) PROVE CalmInv'
  <2>1. Changed /\ UNCHANGED <<event, slot, pref, token, calm>>
    BY <1>2 DEF ReadAgain, DeleteMaterial, Change, Changed, told
  <2>2. /\ material'[m].notified = material[m].notified
        /\ material'[m].status # "finished" \/ material'[m].deleted
        /\ \A n \in Materials : n # m => material'[n] = material[n]
    <3>1. CASE ReadAgain(m)
      BY <1>0, <3>1 DEF ReadAgain, NotifyTypeOK, MaterialType
    <3>2. CASE DeleteMaterial(m)
      BY <1>0, <3>2 DEF DeleteMaterial, NotifyTypeOK, MaterialType
    <3> QED
      BY <1>2, <3>1, <3>2
  <2>3. \A n \in Materials :
          /\ material[n].notified => material'[n].notified
          /\ material'[n].status = "finished" /\ Untold(n)' =>
               /\ material[n].status = "finished" /\ Untold(n)
               /\ material'[n].at = material[n].at
    BY <2>2 DEF Untold
  <2> QED
    BY <2>1, <2>3, ChangedKeeps DEF CalmInv
<1>3. ASSUME Changed, UNCHANGED <<material, pref>>,
             calm' => calm /\ token'
      PROVE  CalmInv'
  <2>1. \A m \in Materials : Untold(m)' <=> Untold(m)
    BY <1>3 DEF Untold
  <2> QED
    BY <1>3, <2>1, ChangedKeeps
<1>4. ASSUME NEW e \in Events, CloseEvent(e) \/ \E due \in 2 .. MaxHours : SetDeadline(e, due)
      PROVE  CalmInv'
  <2>1. Changed /\ UNCHANGED <<material, slot, pref, token, calm>>
    BY <1>4 DEF CloseEvent, SetDeadline, Change, Changed, told
  <2> QED
    BY <1>3, <2>1 DEF CalmInv
<1>5. ASSUME NEW c \in Slots,
             DropClass(c) \/ \E w \in 0 .. Week - 1, h \in Starts : MoveClass(c, w, h)
      PROVE  CalmInv'
  <2>1. Changed /\ UNCHANGED <<material, event, pref, token, calm>>
    BY <1>5 DEF DropClass, MoveClass, Change, Changed, told
  <2> QED
    BY <1>3, <2>1 DEF CalmInv
<1>6. CASE RegisterDevice
  <2>1. Changed /\ UNCHANGED <<material, event, slot, pref, calm>> /\ token'
    BY <1>6 DEF RegisterDevice, Change, Changed, told
  <2> QED
    BY <1>3, <2>1
<1>7. ASSUME ~calm' PROVE CalmInv'
  BY <1>7 DEF CalmInv
<1>8. CASE ForgetDevice \/ TestPush \/ \E p \in Preferences : UpdateSettings(p)
  <2>1. ~calm'
    BY <1>8 DEF ForgetDevice, TestPush, UpdateSettings
  <2> QED
    BY <1>7, <2>1
<1> QED
  BY <1>1, <1>2, <1>4, <1>5, <1>6, <1>8 DEF Student

\* What a sweep's step leaves of a calm state's parts, whatever it is: the log
\* only grows, the others carry what they did.
SweepMoves(s) ==
  /\ Resting
  /\ Logged \subseteq Logged' /\ heard \subseteq heard'
  /\ \A o \in Sweepers : o # s => sweep'[o] = sweep[o]

LEMMA SweepMovesOnly ==
  ASSUME NotifyTypeOK, ClaimsInv, NEW s \in Sweepers, Sweep(s)
  PROVE  SweepMoves(s)
<1>1. CASE Collect(s)
  <2>1. Resting /\ log' = log /\ heard' = heard
    BY <1>1 DEF Collect, Resting, tables, told
  <2>2. \A o \in Sweepers : o # s => sweep'[o] = sweep[o]
    BY <1>1 DEF Collect, NotifyTypeOK
  <2> QED
    BY <2>1, <2>2 DEF SweepMoves, Logged
<1>2. CASE Reserve(s)
  <2> DEFINE claimed == {r \in sweep[s].due : Free(r)}
             new == {r.key : r \in claimed}
             about == {r.about : r \in claimed}
  <2>1. /\ Resting /\ log' = [log EXCEPT !.sent = @ \cup new] /\ heard' = heard \cup about
        /\ Over(s) \/ Become(s, "reserved", claimed)
    BY <1>2 DEF Reserve, Resting
  <2> HIDE DEF claimed, new, about
  <2>2. \A o \in Sweepers : o # s => sweep'[o] = sweep[o]
    BY <2>1 DEF Over, Become, NotifyTypeOK
  <2>3. Logged \subseteq Logged'
    BY <2>1 DEF Logged, NotifyTypeOK, LogType
  <2> QED
    BY <2>1, <2>2, <2>3 DEF SweepMoves
<1>3. CASE MarkNotified(s)
  <2>1. Resting /\ log' = log /\ heard' = heard
    BY <1>3 DEF MarkNotified, Resting, told
  <2>2. \A o \in Sweepers : o # s => sweep'[o] = sweep[o]
    BY <1>3 DEF MarkNotified, Become, NotifyTypeOK
  <2> QED
    BY <2>1, <2>2 DEF SweepMoves, Logged
<1>4. CASE Deliver(s)
  <2>1. Resting /\ heard' = heard
    BY <1>4 DEF Deliver, Resting
  <2>2. \A o \in Sweepers : o # s => sweep'[o] = sweep[o]
    BY <1>4 DEF Deliver, Over, NotifyTypeOK
  <2>3. log' = log \/ log' = [sent |-> log.sent \ Keys(s), failed |-> log.failed \cup Keys(s)]
    BY <1>4 DEF Deliver, Keys
  <2>4. Logged \subseteq Logged'
    BY <2>3 DEF Logged
  <2> QED
    BY <2>1, <2>2, <2>4 DEF SweepMoves
<1> QED
  BY <1>1, <1>2, <1>3, <1>4 DEF Sweep

\* A step that stamps nothing: the documents are as they were, and a sweep that
\* had not claimed anything does not uncover what others speak for.
LEMMA CoverStays ==
  ASSUME NotifyTypeOK, NEW s \in Sweepers, SweepMoves(s), UNCHANGED material
  PROVE  /\ Finished' = Finished
         /\ \A r : Still(r)' <=> Still(r)
         /\ sweep[s].step # "reserved" /\ Covered => Covered'
         /\ sweep[s].step # "reserved" /\ Said => Said'
         /\ Waited => Waited'
<1>1. Finished' = Finished
  BY DEF SweepMoves, Resting, Finished, Untold
<1>2. \A r : Still(r)' <=> Still(r)
  BY <1>1 DEF Still
<1>3. ASSUME sweep[s].step # "reserved", Covered PROVE Covered'
  <2>1. \A o \in Sweepers : o # s => sweep'[o] = sweep[o] /\ SpokenFor(o)' = SpokenFor(o)
    BY DEF SweepMoves, SpokenFor
  <2> QED
    BY <1>1, <1>3, <2>1 DEF Covered
<1>4. ASSUME sweep[s].step # "reserved", Said PROVE Said'
  <2>1. Timely' = Timely /\ Logged \subseteq Logged'
    BY RestingKeeps DEF SweepMoves
  <2> QED
    BY <1>3, <1>4, <2>1 DEF Said
<1>5. ASSUME Waited PROVE Waited'
  <2>1. /\ now' = now /\ \A t : QuietAt(t)' <=> QuietAt(t)
        /\ \A m : Untold(m)' <=> Untold(m)
    BY RestingKeeps DEF SweepMoves, Resting, Untold
  <2> QED
    BY <1>5, <2>1 DEF Waited
<1> QED
  BY <1>1, <1>2, <1>3, <1>4, <1>5

LEMMA CarriedStays ==
  ASSUME Carried, NEW s \in Sweepers, SweepMoves(s),
         sweep'[s].step = "idle" => sweep'[s].due = {},
         \A r \in sweep'[s].due : About(r)
  PROVE  Carried'
<1>1. \A r : About(r)' <=> About(r)
  BY RestingKeeps DEF SweepMoves
<1> QED
  BY <1>1 DEF Carried, SweepMoves

\* The log of a step that claims nothing.
LEMMA LogStays ==
  ASSUME NotifyTypeOK, LogRight, NEW s \in Sweepers, SweepMoves(s), Logged' = Logged,
         \A m \in Materials : Holds(s, m) => material'[m].notified,
         \A m \in Materials : material[m].notified => material'[m].notified
  PROVE  LogRight'
<1>1. \A o \in Sweepers, m \in Materials : o # s /\ Holds(o, m) => Holds(o, m)'
  BY DEF SweepMoves, Holds
<1>2. \A o, c, day : OnDay(o, c, day)' <=> OnDay(o, c, day)
  BY RestingKeeps DEF SweepMoves
<1>3. heard \subseteq heard'
  BY DEF SweepMoves
<1> QED
  BY <1>1, <1>2, <1>3 DEF LogRight

LEMMA CollectKeeps ==
  ASSUME NotifyTypeOK, ClaimsInv, CalmInv, NEW s \in Sweepers, Collect(s), calm
  PROVE  CalmInv'
<1>1. /\ token /\ Carried /\ LogRight /\ Waited /\ \A o \in Sweepers : FreshRight(o)
      /\ sweep[s].step = "idle" /\ ~swept
  BY DEF CalmInv, Collect
<1>2. /\ UNCHANGED <<material, token, calm>> /\ Logged' = Logged
  BY DEF Collect, tables, Logged
<1>3. SweepMoves(s)
  BY SweepMovesOnly DEF Sweep
<1>4. /\ Finished' = Finished /\ Waited'
      /\ \A r : Still(r)' <=> Still(r)
      /\ Said => Said'
  BY <1>1, <1>2, <1>3, CoverStays
<1>5. LogRight'
  BY <1>1, <1>2, <1>3, LogStays DEF Holds
<1>6. /\ Timely' = Timely /\ (InQuietHours' <=> InQuietHours)
      /\ \A r : About(r)' <=> About(r)
  BY <1>3, RestingKeeps DEF SweepMoves
<1>7. CASE swept' = TRUE /\ UNCHANGED <<sweep, alone>> /\ (InQuietHours \/ Due = {})
  <2>1. Carried'
    BY <1>1, <1>6, <1>7 DEF Carried
  <2>2. \A o \in Sweepers : FreshRight(o)'
    <3> SUFFICES ASSUME NEW o \in Sweepers PROVE FreshRight(o)'
      OBVIOUS
    <3>1. FreshRight(o)
      BY <1>1
    <3> QED
      BY <1>4, <1>6, <1>7, <3>1 DEF FreshRight
  <2>3. ASSUME ~InQuietHours' PROVE Said'
    <3>1. Timely = {} /\ Finished = {}
      BY <1>6, <1>7, <2>3, DueRight
    <3> QED
      BY <1>4, <3>1 DEF Said, Covered
  <2> QED
    BY <1>1, <1>2, <1>4, <1>5, <2>1, <2>2, <2>3 DEF CalmInv
<1>8. CASE sweep' = [sweep EXCEPT ![s] = [step |-> "collected", due |-> Due, fresh |-> AllIdle]]
           /\ UNCHANGED swept
  <2>1. /\ sweep'[s].step = "collected" /\ sweep'[s].due = Due /\ sweep'[s].fresh = AllIdle
        /\ \A o \in Sweepers : o # s => sweep'[o] = sweep[o]
    BY <1>8 DEF NotifyTypeOK
  <2>2. \A r \in Due : About(r) /\ Still(r)
    BY DueRight
  <2>3. Carried'
    BY <1>1, <1>3, <2>1, <2>2, CarriedStays
  <2>4. FreshRight(s)'
    <3> SUFFICES ASSUME AllIdle PROVE FreshRight(s)'
      BY <2>1 DEF FreshRight
    <3>1. \A o \in Sweepers : o # s => sweep'[o].due = {}
      BY <1>1, <2>1 DEF AllIdle, Carried
    <3>2. \A o \in Sweepers : \A r \in sweep'[o].due : Still(r)'
      BY <1>4, <2>1, <2>2, <3>1
    <3>3. Timely' \subseteq sweep'[s].due
      BY <1>6, <2>1, DueRight
    <3>4. Finished' = {} \/ \E r \in sweep'[s].due : r.mats # {}
      BY <1>4, <2>1, DueRight
    <3> QED
      BY <2>1, <3>2, <3>3, <3>4 DEF FreshRight
  <2>5. ASSUME NEW o \in Sweepers, o # s PROVE FreshRight(o)'
    <3> SUFFICES ASSUME sweep[o].fresh PROVE FreshRight(o)'
      BY <2>1, <2>5 DEF FreshRight
    <3>1. /\ sweep[o].step # "idle"
          /\ sweep[o].step = "collected" =>
               /\ Timely \subseteq sweep[o].due
               /\ Finished = {} \/ \E r \in sweep[o].due : r.mats # {}
          /\ sweep[o].step # "collected" => Said
          /\ \A x \in Sweepers : \A r \in sweep[x].due : Still(r)
      BY <1>1 DEF FreshRight
    <3>2. \A x \in Sweepers : \A r \in sweep'[x].due : Still(r)'
      BY <1>4, <2>1, <2>2, <3>1
    <3> QED
      BY <1>4, <1>6, <2>1, <2>5, <3>1, <3>2 DEF FreshRight
  <2> QED
    BY <1>1, <1>2, <1>4, <1>5, <1>8, <2>3, <2>4, <2>5 DEF CalmInv
<1>9. \/ swept' = TRUE /\ UNCHANGED <<sweep, alone>> /\ (InQuietHours \/ Due = {})
      \/ sweep' = [sweep EXCEPT ![s] = [step |-> "collected", due |-> Due, fresh |-> AllIdle]]
         /\ UNCHANGED swept
  <2> DEFINE audible == IF token /\ ~InQuietHours THEN Due ELSE {}
  <2>1. IF audible = {}
        THEN swept' = TRUE /\ UNCHANGED <<sweep, alone>>
        ELSE /\ sweep' = [sweep EXCEPT ![s] = [step |-> "collected", due |-> audible,
                                               fresh |-> AllIdle]]
             /\ UNCHANGED swept
    BY DEF Collect
  <2>2. audible = {} => InQuietHours \/ Due = {}
    BY <1>1
  <2>3. audible # {} => audible = Due
    OBVIOUS
  <2> HIDE DEF audible
  <2> QED
    BY <2>1, <2>2, <2>3
<1> QED
  BY <1>7, <1>8, <1>9

\* A fresh sweep that claims what is free leaves nothing unsaid: what it cannot
\* claim was claimed by another one, which then speaks for it.
LEMMA ReserveSays ==
  ASSUME NotifyTypeOK, ClaimsInv, CalmInv, NEW s \in Sweepers, Reserve(s), calm, sweep[s].fresh
  PROVE  Said'
<1> DEFINE claimed == {r \in sweep[s].due : Free(r)}
           new == {r.key : r \in claimed}
<1>1. /\ Carried /\ LogRight /\ FreshRight(s) /\ sweep[s].step = "collected"
  BY DEF CalmInv, Reserve
<1>2. /\ Timely \subseteq sweep[s].due
      /\ Finished = {} \/ \E r \in sweep[s].due : r.mats # {}
      /\ \A o \in Sweepers : \A r \in sweep[o].due : Still(r)
  BY <1>1 DEF FreshRight
<1>3. SweepMoves(s) /\ material' = material
  BY SweepMovesOnly DEF Sweep, Reserve
<1>4. Finished' = Finished /\ Timely' = Timely
  BY <1>3, CoverStays, RestingKeeps DEF SweepMoves
<1>5. /\ log' = [log EXCEPT !.sent = @ \cup new]
      /\ claimed # {} => Become(s, "reserved", claimed)
  BY DEF Reserve
<1>6. \A r \in sweep[s].due : r \in claimed \/ r.key \in Logged
  BY DEF Free, Logged
<1>7. \A r \in claimed : r.key \in new
  OBVIOUS
<1>8. claimed \subseteq sweep[s].due
  OBVIOUS
<1> HIDE DEF claimed, new
<1>9. Logged' = Logged \cup new
  BY <1>5 DEF Logged, NotifyTypeOK, LogType
<1>10. \A r \in Timely' : r.key \in Logged'
  BY <1>2, <1>4, <1>6, <1>7, <1>9
<1>11. ASSUME Finished # {} PROVE Covered'
  <2>1. PICK r \in sweep[s].due : r.mats # {}
    BY <1>2, <1>11
  <2>2. About(r) /\ Still(r)
    BY <1>1, <1>2, <2>1 DEF Carried
  <2>3. CASE r \in claimed
    <3>1. sweep'[s].step = "reserved" /\ sweep'[s].due = claimed
      BY <1>5, <2>3 DEF Become, NotifyTypeOK
    <3>2. r.mats \subseteq SpokenFor(s)'
      BY <2>3, <3>1 DEF SpokenFor
    <3>3. Finished \subseteq r.mats
      BY <2>1, <2>2 DEF Still
    <3> QED
      BY <1>4, <3>1, <3>2, <3>3 DEF Covered
  <2>4. CASE r.key \in Logged
    <3>1. PICK m \in Materials : r.key = MaterialKey(m)
      BY <2>1, <2>2 DEF About
    <3>2. ~material[m].notified
      BY <1>11, <2>1, <2>2, <3>1 DEF Still
    <3>3. PICK o \in Sweepers : Holds(o, m)
      BY <1>1, <2>4, <3>1, <3>2 DEF LogRight
    <3>4. PICK x \in sweep[o].due : x.key = MaterialKey(m)
      BY <3>3 DEF Holds
    <3>5. sweep[o].step = "reserved" /\ o # s
      BY <1>1, <3>3 DEF Holds
    <3>6. About(x) /\ Still(x)
      BY <1>1, <1>2, <3>4 DEF Carried
    <3>7. Finished \subseteq x.mats
      BY <3>4, <3>6 DEF About, Still
    <3>8. sweep'[o] = sweep[o] /\ x \in sweep'[o].due
      BY <1>3, <3>4, <3>5 DEF SweepMoves
    <3>9. x.mats \subseteq SpokenFor(o)'
      BY <3>8 DEF SpokenFor
    <3> QED
      BY <1>4, <3>5, <3>7, <3>8, <3>9 DEF Covered
  <2> QED
    BY <1>6, <2>3, <2>4
<1>12. Finished = {} => Covered'
  BY <1>4 DEF Covered
<1> QED
  BY <1>10, <1>11, <1>12 DEF Said

LEMMA ReserveKeeps ==
  ASSUME NotifyTypeOK, ClaimsInv, CalmInv, NEW s \in Sweepers, Reserve(s), calm
  PROVE  CalmInv'
<1> DEFINE claimed == {r \in sweep[s].due : Free(r)}
           new == {r.key : r \in claimed}
           about == {r.about : r \in claimed}
<1>1. /\ token /\ Carried /\ LogRight /\ Waited /\ \A o \in Sweepers : FreshRight(o)
      /\ sweep[s].step = "collected"
  BY DEF CalmInv, Reserve
<1>2. UNCHANGED <<material, token, calm>>
  BY DEF Reserve
<1>3. SweepMoves(s)
  BY SweepMovesOnly DEF Sweep
<1>4. /\ Finished' = Finished /\ Waited'
      /\ \A r : Still(r)' <=> Still(r)
      /\ Said => Said'
  BY <1>1, <1>2, <1>3, CoverStays
<1>5. /\ Timely' = Timely /\ (InQuietHours' <=> InQuietHours)
      /\ \A r : About(r)' <=> About(r)
      /\ \A o, c, day : OnDay(o, c, day)' <=> OnDay(o, c, day)
  BY <1>3, RestingKeeps DEF SweepMoves
<1>6. sweep[s].fresh => Said'
  BY ReserveSays
<1>7. /\ log' = [log EXCEPT !.sent = @ \cup new] /\ heard' = heard \cup about
      /\ IF claimed = {} THEN Over(s) ELSE Become(s, "reserved", claimed) /\ UNCHANGED swept
  BY DEF Reserve
<1>8. claimed \subseteq sweep[s].due
  OBVIOUS
<1>9. /\ \A key \in new : \E r \in claimed : r.key = key
      /\ \A r \in claimed : r.about \in about
  OBVIOUS
<1> HIDE DEF claimed, new, about
<1>10. Logged' = Logged \cup new
  BY <1>7 DEF Logged, NotifyTypeOK, LogType
<1>11. \/ /\ claimed # {} /\ sweep'[s].step = "reserved" /\ sweep'[s].due = claimed
          /\ sweep'[s].fresh = sweep[s].fresh /\ swept' = swept
       \/ /\ claimed = {} /\ sweep'[s].step = "idle" /\ sweep'[s].due = {} /\ sweep'[s].fresh = FALSE
          /\ swept' = (swept \/ sweep[s].fresh)
  <2>1. CASE claimed # {}
    BY <1>7, <2>1 DEF Become, NotifyTypeOK, SweepType
  <2>2. CASE claimed = {}
    BY <1>7, <2>2 DEF Over, NotifyTypeOK, Idle
  <2> QED
    BY <2>1, <2>2
<1>12. sweep'[s].due = claimed
  BY <1>11
<1>13. \A r \in claimed : About(r)
  BY <1>1, <1>8 DEF Carried
<1>14. Carried'
  BY <1>1, <1>3, <1>11, <1>12, <1>13, CarriedStays
<1>15. LogRight'
  <2>1. ASSUME NEW e \in Events, NEW due \in Nat, <<"event", e, due>> \in Logged'
        PROVE  <<e, due>> \in heard'
    <3>1. CASE <<"event", e, due>> \in Logged
      BY <1>1, <1>7, <3>1 DEF LogRight
    <3>2. CASE <<"event", e, due>> \in new
      <4>1. PICK r \in claimed : r.key = <<"event", e, due>>
        BY <1>9, <3>2
      <4>2. r.about = <<e, due>>
        BY <1>13, <4>1 DEF About
      <4> QED
        BY <1>7, <1>9, <4>2
    <3> QED
      BY <1>10, <2>1, <3>1, <3>2
  <2>2. ASSUME NEW c \in Slots, NEW day \in Int, <<"class", c, day>> \in Logged'
        PROVE  \E o \in heard' : OnDay(o, c, day)
    <3>1. CASE <<"class", c, day>> \in Logged
      BY <1>1, <1>7, <3>1 DEF LogRight
    <3>2. CASE <<"class", c, day>> \in new
      <4>1. PICK r \in claimed : r.key = <<"class", c, day>>
        BY <1>9, <3>2
      <4>2. OnDay(r.about, c, day)
        BY <1>13, <4>1 DEF About
      <4> QED
        BY <1>7, <1>9, <4>2
    <3> QED
      BY <1>10, <2>2, <3>1, <3>2
  <2>3. ASSUME NEW m \in Materials, MaterialKey(m) \in Logged'
        PROVE  material'[m].notified \/ \E o \in Sweepers : Holds(o, m)'
    <3>1. CASE MaterialKey(m) \in Logged
      <4>1. \A o \in Sweepers : Holds(o, m) => Holds(o, m)'
        BY <1>1, <1>3 DEF SweepMoves, Holds
      <4> QED
        BY <1>1, <1>2, <3>1, <4>1 DEF LogRight
    <3>2. CASE MaterialKey(m) \in new
      <4>1. PICK r \in claimed : r.key = MaterialKey(m)
        BY <1>9, <3>2
      <4>2. sweep'[s].step = "reserved" /\ sweep'[s].due = claimed
        BY <1>11, <4>1
      <4>3. Holds(s, m)'
        BY <4>1, <4>2 DEF Holds, MaterialKey
      <4> QED
        BY <4>3
    <3> QED
      BY <1>10, <2>3, <3>1, <3>2
  <2> QED
    BY <1>5, <2>1, <2>2, <2>3 DEF LogRight
<1>16. ASSUME NEW o \in Sweepers PROVE FreshRight(o)'
  <2> SUFFICES ASSUME sweep'[o].fresh PROVE FreshRight(o)'
    BY DEF FreshRight
  <2>1. sweep[o].fresh /\ FreshRight(o)
    BY <1>1, <1>3, <1>11 DEF SweepMoves
  <2>2. /\ sweep[o].step # "idle"
        /\ sweep[o].step = "collected" =>
             /\ Timely \subseteq sweep[o].due
             /\ Finished = {} \/ \E r \in sweep[o].due : r.mats # {}
        /\ sweep[o].step # "collected" => Said
        /\ \A x \in Sweepers : \A r \in sweep[x].due : Still(r)
    BY <2>1 DEF FreshRight
  <2>3. \A x \in Sweepers : sweep'[x].due \subseteq sweep[x].due
    BY <1>3, <1>8, <1>12 DEF SweepMoves
  <2>4. \A x \in Sweepers : \A r \in sweep'[x].due : Still(r)'
    BY <1>4, <2>2, <2>3
  <2>5. CASE o = s
    <3>1. sweep'[o].step = "reserved" /\ Said'
      BY <1>6, <1>11, <2>1, <2>5
    <3> QED
      BY <2>4, <3>1 DEF FreshRight
  <2>6. CASE o # s
    <3>1. sweep'[o] = sweep[o]
      BY <1>3, <2>6 DEF SweepMoves
    <3> QED
      BY <1>4, <1>5, <2>2, <2>4, <3>1 DEF FreshRight
  <2> QED
    BY <2>5, <2>6
<1>17. swept' /\ ~InQuietHours' => Said'
  <2>1. swept /\ ~InQuietHours => Said
    BY DEF CalmInv
  <2> QED
    BY <1>4, <1>5, <1>6, <1>11, <2>1
<1> QED
  BY <1>1, <1>2, <1>4, <1>14, <1>15, <1>16, <1>17 DEF CalmInv

\* Stamping takes what the sweep speaks for out of what there is to tell.
LEMMA MarkKeeps ==
  ASSUME NotifyTypeOK, ClaimsInv, CalmInv, NEW s \in Sweepers, MarkNotified(s), calm
  PROVE  CalmInv'
<1>1. /\ token /\ Carried /\ LogRight /\ Waited /\ \A o \in Sweepers : FreshRight(o)
      /\ sweep[s].step = "reserved"
  BY DEF CalmInv, MarkNotified
<1>2. UNCHANGED <<token, calm, swept, log>>
  BY DEF MarkNotified
<1>3. SweepMoves(s)
  BY SweepMovesOnly DEF Sweep
<1>4. /\ sweep'[s].step = "marked" /\ sweep'[s].due = sweep[s].due
      /\ sweep'[s].fresh = sweep[s].fresh
      /\ \A o \in Sweepers : sweep'[o].due = sweep[o].due
  <2>1. /\ sweep'[s].step = "marked" /\ sweep'[s].due = sweep[s].due
        /\ sweep'[s].fresh = sweep[s].fresh
    BY DEF MarkNotified, Become, NotifyTypeOK, SweepType
  <2> QED
    BY <1>3, <2>1 DEF SweepMoves
<1>5. /\ \A m \in Materials : /\ material'[m].status = material[m].status
                              /\ material'[m].at = material[m].at
                              /\ material'[m].deleted = material[m].deleted
                              /\ material'[m].notified <=> material[m].notified \/ m \in SpokenFor(s)
  <2>1. \A m \in Materials : material'[m] = IF m \in SpokenFor(s) THEN Notified(material[m]) ELSE material[m]
    BY DEF MarkNotified
  <2>2. \A m \in Materials : material[m] \in MaterialType
    BY DEF NotifyTypeOK
  <2> SUFFICES ASSUME NEW m \in Materials
               PROVE  /\ material'[m].status = material[m].status
                      /\ material'[m].at = material[m].at
                      /\ material'[m].deleted = material[m].deleted
                      /\ material'[m].notified <=> material[m].notified \/ m \in SpokenFor(s)
    OBVIOUS
  <2>3. CASE m \in SpokenFor(s)
    BY <2>1, <2>2, <2>3 DEF Notified, MaterialType
  <2>4. CASE m \notin SpokenFor(s)
    BY <2>1, <2>4
  <2> QED
    BY <2>3, <2>4
<1>6. Finished' = Finished \ SpokenFor(s)
  BY <1>3, <1>5 DEF SweepMoves, Resting, Finished, Untold
<1>7. /\ Timely' = Timely /\ (InQuietHours' <=> InQuietHours)
      /\ \A r : About(r)' <=> About(r)
      /\ \A t : QuietAt(t)' <=> QuietAt(t)
  BY <1>3, RestingKeeps DEF SweepMoves
<1>8. Carried'
  BY <1>1, <1>3, <1>4, CarriedStays DEF Carried
<1>9. LogRight'
  <2>1. \A m \in Materials : Holds(s, m) => material'[m].notified
    <3> SUFFICES ASSUME NEW m \in Materials, Holds(s, m) PROVE m \in SpokenFor(s)
      BY <1>5
    <3>1. PICK r \in sweep[s].due : r.key = MaterialKey(m)
      BY DEF Holds
    <3>2. m \in r.mats
      BY <1>1, <3>1 DEF Carried, About
    <3> QED
      BY <3>1, <3>2 DEF SpokenFor
  <2>2. Logged' = Logged
    BY <1>2 DEF Logged
  <2> QED
    BY <1>1, <1>3, <1>5, <2>1, <2>2, LogStays
<1>10. Covered => Covered'
  <2> SUFFICES ASSUME Finished # {}, NEW o \in Sweepers, sweep[o].step = "reserved",
                      Finished \subseteq SpokenFor(o)
               PROVE  Covered'
    BY <1>6 DEF Covered
  <2>1. CASE o = s
    BY <1>6, <2>1 DEF Covered
  <2>2. CASE o # s
    <3>1. sweep'[o] = sweep[o] /\ SpokenFor(o)' = SpokenFor(o)
      BY <1>3, <2>2 DEF SweepMoves, SpokenFor
    <3> QED
      BY <1>6, <3>1 DEF Covered
  <2> QED
    BY <2>1, <2>2
<1>11. Said => Said'
  BY <1>3, <1>7, <1>10 DEF Said, SweepMoves
<1>12. ASSUME NEW o \in Sweepers PROVE FreshRight(o)'
  <2> SUFFICES ASSUME sweep'[o].fresh PROVE FreshRight(o)'
    BY DEF FreshRight
  <2>1. sweep[o].fresh /\ FreshRight(o)
    BY <1>1, <1>3, <1>4 DEF SweepMoves
  <2>2. /\ sweep[o].step # "idle"
        /\ sweep[o].step = "collected" =>
             /\ Timely \subseteq sweep[o].due
             /\ Finished = {} \/ \E r \in sweep[o].due : r.mats # {}
        /\ sweep[o].step # "collected" => Said
        /\ \A x \in Sweepers : \A r \in sweep[x].due : Still(r)
    BY <2>1 DEF FreshRight
  <2>3. ASSUME NEW x \in Sweepers, NEW r \in sweep'[x].due PROVE Still(r)'
    <3>1. Still(r)
      BY <1>4, <2>2, <2>3
    <3>2. ASSUME NEW m \in Materials, r.mats # {}, r.key = MaterialKey(m), m \in SpokenFor(s)
          PROVE  Finished' = {}
      <4>1. PICK y \in sweep[s].due : m \in y.mats
        BY <3>2 DEF SpokenFor
      <4>2. Finished \subseteq y.mats
        BY <2>2, <4>1 DEF Still
      <4>3. y.mats \subseteq SpokenFor(s)
        BY <4>1 DEF SpokenFor
      <4> QED
        BY <1>6, <4>2, <4>3
    <3> QED
      BY <1>5, <1>6, <3>1, <3>2 DEF Still, MaterialKey
  <2>4. CASE o = s
    BY <1>1, <1>4, <1>11, <2>2, <2>3, <2>4 DEF FreshRight
  <2>5. CASE o # s
    <3>1. sweep'[o] = sweep[o]
      BY <1>3, <2>5 DEF SweepMoves
    <3>2. Finished = {} => Finished' = {}
      BY <1>6
    <3> QED
      BY <1>7, <1>11, <2>2, <2>3, <3>1, <3>2 DEF FreshRight
  <2> QED
    BY <2>4, <2>5
<1>13. Waited'
  <2>1. now' = now /\ \A m \in Materials : Untold(m)' => Untold(m)
    BY <1>3, <1>5 DEF SweepMoves, Resting, Untold
  <2> QED
    BY <1>1, <1>5, <1>7, <2>1 DEF Waited
<1>14. swept' /\ ~InQuietHours' => Said'
  BY <1>2, <1>7, <1>11 DEF CalmInv
<1> QED
  BY <1>1, <1>2, <1>8, <1>9, <1>12, <1>13, <1>14 DEF CalmInv

\* A sweep that is over; one that failed, or found the device gone, is no
\* longer calm.
LEMMA DeliverKeeps ==
  ASSUME NotifyTypeOK, ClaimsInv, CalmInv, NEW s \in Sweepers, Deliver(s), calm, calm'
  PROVE  CalmInv'
<1>1. /\ token /\ Carried /\ LogRight /\ Waited /\ \A o \in Sweepers : FreshRight(o)
      /\ sweep[s].step = "marked"
  BY DEF CalmInv, Deliver
<1>2. PICK ticket \in Unsent \cup Tickets :
        /\ token' = Cleared(token, ticket)
        /\ ticket.ok \/ calm' = FALSE
        /\ ticket.ok => UNCHANGED <<log, calm>>
  BY DEF Deliver
<1>3. token' /\ UNCHANGED <<log, material>>
  <2>1. ticket.ok /\ material' = material
    BY <1>2 DEF Deliver
  <2>2. ~ticket.dead
    BY <2>1 DEF Unsent, Tickets
  <2> QED
    BY <1>1, <1>2, <2>1, <2>2 DEF Cleared
<1>4. SweepMoves(s)
  BY SweepMovesOnly DEF Sweep
<1>5. /\ Finished' = Finished /\ Waited'
      /\ \A r : Still(r)' <=> Still(r)
      /\ Said => Said'
  BY <1>1, <1>3, <1>4, CoverStays
<1>6. /\ Timely' = Timely /\ (InQuietHours' <=> InQuietHours)
  BY <1>4, RestingKeeps DEF SweepMoves
<1>7. /\ sweep'[s].step = "idle" /\ sweep'[s].due = {} /\ sweep'[s].fresh = FALSE
      /\ swept' = (swept \/ sweep[s].fresh)
  BY DEF Deliver, Over, NotifyTypeOK, Idle
<1>8. Carried'
  BY <1>1, <1>4, <1>7, CarriedStays
<1>9. LogRight'
  BY <1>1, <1>3, <1>4, LogStays DEF Logged, Holds
<1>10. ASSUME NEW o \in Sweepers PROVE FreshRight(o)'
  <2> SUFFICES ASSUME sweep'[o].fresh PROVE FreshRight(o)'
    BY DEF FreshRight
  <2>1. o # s /\ sweep'[o] = sweep[o] /\ FreshRight(o)
    BY <1>1, <1>4, <1>7 DEF SweepMoves
  <2>2. /\ sweep[o].step # "idle"
        /\ sweep[o].step = "collected" =>
             /\ Timely \subseteq sweep[o].due
             /\ Finished = {} \/ \E r \in sweep[o].due : r.mats # {}
        /\ sweep[o].step # "collected" => Said
        /\ \A x \in Sweepers : \A r \in sweep[x].due : Still(r)
    BY <2>1 DEF FreshRight
  <2>3. \A x \in Sweepers : sweep'[x].due \subseteq sweep[x].due
    BY <1>4, <1>7 DEF SweepMoves
  <2>4. \A x \in Sweepers : \A r \in sweep'[x].due : Still(r)'
    BY <1>5, <2>2, <2>3
  <2> QED
    BY <1>5, <1>6, <2>1, <2>2, <2>4 DEF FreshRight
<1>11. swept' /\ ~InQuietHours' => Said'
  <2>1. swept /\ ~InQuietHours => Said
    BY DEF CalmInv
  <2>2. sweep[s].fresh => Said
    BY <1>1 DEF FreshRight
  <2> QED
    BY <1>5, <1>6, <1>7, <2>1, <2>2
<1> QED
  BY <1>3, <1>5, <1>8, <1>9, <1>10, <1>11 DEF CalmInv

\* With all sweeps at rest nothing is left that was finished within the window;
\* and nothing was finished before, for the same hour of yesterday was audible.
LEMMA NothingWaits ==
  ASSUME NotifyTypeOK, Waited, Covered, AllIdle, ~InQuietHours, NEW m \in Materials,
         material[m].status = "finished", Untold(m)
  PROVE  FALSE
<1>1. Finished = {}
  BY DEF Covered, AllIdle
<1>2. now \in Nat /\ material[m].at \in Nat /\ Day \in Nat \ {0} /\ pref.zone \in Int
  BY NotifyAssumption DEF NotifyTypeOK, MaterialType, Preferences
<1>3. material[m].at < now - Day
  BY <1>1, <1>2 DEF Finished, FinishedWindow
<1>4. now - Day \in material[m].at .. now - 1
  BY <1>2, <1>3
<1>5. QuietAt(now - Day)
  BY <1>4 DEF Waited
<1>6. LocalHour(now - Day) = LocalHour(now)
  <2>1. now - Day + pref.zone = (now + pref.zone) - Day /\ now + pref.zone \in Int
    BY <1>2
  <2> QED
    BY <1>2, <2>1, DayAgo DEF LocalHour
<1>7. QuietAt(now)
  BY <1>5, <1>6 DEF QuietAt
<1> QED
  BY <1>7, QuietNow

LEMMA TickKeeps ==
  ASSUME NotifyTypeOK, CalmInv, Tick, calm
  PROVE  CalmInv'
<1>1. /\ token /\ Carried /\ LogRight /\ Waited /\ AllIdle /\ swept
      /\ UNCHANGED <<material, event, slot, pref, token, log, sweep, heard, calm>>
      /\ now' = now + 1 /\ ~swept'
      /\ ~InQuietHours => Said
      /\ \A s \in Sweepers : FreshRight(s)
  BY DEF CalmInv, Tick, tables, told
<1>2. Carried'
  BY <1>1 DEF Carried, About, OnDay, LocalDate, MaterialKey
<1>3. LogRight'
  BY <1>1 DEF LogRight, Logged, Holds, OnDay, LocalDate, MaterialKey
<1>4. \A s \in Sweepers : FreshRight(s)'
  BY <1>1 DEF FreshRight, AllIdle
<1>5. Waited'
  <2> SUFFICES ASSUME NEW m \in Materials, material[m].status = "finished", Untold(m),
                      NEW t \in material[m].at .. now
               PROVE  QuietAt(t)
    <3>1. \A t : QuietAt(t)' <=> QuietAt(t)
      BY <1>1 DEF QuietAt, LocalHour
    <3>2. now \in Nat /\ now' - 1 = now
      BY <1>1 DEF NotifyTypeOK
    <3>3. \A m \in Materials : Untold(m)' <=> Untold(m)
      BY <1>1 DEF Untold
    <3> QED
      BY <1>1, <3>1, <3>2, <3>3 DEF Waited
  <2>1. InQuietHours
    BY <1>1, NothingWaits DEF Said
  <2>2. now \in Nat /\ material[m].at \in Nat
    BY DEF NotifyTypeOK, MaterialType
  <2>3. CASE t = now
    BY <2>1, <2>3, QuietNow
  <2>4. CASE t # now
    <3>1. t \in material[m].at .. now - 1
      BY <2>2, <2>4
    <3> QED
      BY <1>1, <3>1 DEF Waited
  <2> QED
    BY <2>3, <2>4
<1> QED
  BY <1>1, <1>2, <1>3, <1>4, <1>5 DEF CalmInv

LEMMA CalmStep ==
  ASSUME NotifyTypeOK, ClaimsInv, CalmInv, [NotifyNext]_notifyVars
  PROVE  CalmInv'
<1>1. ASSUME ~calm' PROVE CalmInv'
  BY <1>1 DEF CalmInv
<1>2. CASE Student
  BY <1>2, StudentKeeps
<1>3. ASSUME NEW s \in Sweepers, Crash(s) PROVE CalmInv'
  <2>1. ~calm'
    BY <1>3 DEF Crash
  <2> QED
    BY <1>1, <2>1
<1>4. CASE Tick
  <2>1. calm' = calm
    BY <1>4 DEF Tick
  <2> QED
    BY <1>1, <1>4, <2>1, TickKeeps
<1>5. ASSUME NEW s \in Sweepers, Collect(s) \/ Reserve(s) \/ MarkNotified(s) PROVE CalmInv'
  <2>1. calm' = calm
    BY <1>5 DEF Collect, Reserve, MarkNotified
  <2> QED
    BY <1>1, <1>5, <2>1, CollectKeeps, ReserveKeeps, MarkKeeps
<1>6. ASSUME NEW s \in Sweepers, Deliver(s) PROVE CalmInv'
  <2>1. calm' = calm \/ calm' = FALSE
    BY <1>6 DEF Deliver
  <2> QED
    BY <1>1, <1>6, <2>1, DeliverKeeps
<1>7. CASE UNCHANGED notifyVars
  <2>1. Resting /\ UNCHANGED <<material, token, log, sweep, heard, swept, calm>>
    BY <1>7 DEF notifyVars, Resting
  <2>2. /\ Timely' = Timely /\ (InQuietHours' <=> InQuietHours)
        /\ \A r : About(r)' <=> About(r)
        /\ \A t : QuietAt(t)' <=> QuietAt(t)
        /\ \A o, c, day : OnDay(o, c, day)' <=> OnDay(o, c, day)
    BY <2>1, RestingKeeps
  <2>3. Finished' = Finished /\ Logged' = Logged /\ \A m : Untold(m)' <=> Untold(m)
    BY <2>1 DEF Resting, Finished, Untold, Logged
  <2>4. (Carried => Carried') /\ (LogRight => LogRight')
    BY <2>1, <2>2, <2>3 DEF Carried, LogRight, Holds
  <2>5. Said' <=> Said
    BY <2>1, <2>2, <2>3 DEF Said, Covered, SpokenFor
  <2>6. \A s \in Sweepers : FreshRight(s) => FreshRight(s)'
    BY <2>1, <2>2, <2>3, <2>5 DEF FreshRight, Still
  <2>7. Waited => Waited'
    BY <2>1, <2>2, <2>3 DEF Waited, Resting
  <2> QED
    BY <2>1, <2>2, <2>4, <2>5, <2>6, <2>7 DEF CalmInv
<1> QED
  BY <1>2, <1>3, <1>4, <1>5, <1>6, <1>7 DEF NotifyNext, Sweep

LEMMA CalmAlways == NotifySpec => [](NotifyTypeOK /\ CalmInv)
<1>1. NotifyInit => CalmInv /\ ClaimsInv
  <2> SUFFICES ASSUME NotifyInit PROVE CalmInv /\ ClaimsInv
    OBVIOUS
  <2>1. \A s \in Sweepers : sweep[s].step = "idle" /\ sweep[s].due = {} /\ sweep[s].fresh = FALSE
    BY DEF NotifyInit, Idle
  <2>2. Logged = {} /\ token /\ ~swept /\ \A m \in Materials : material[m].status = "reading"
    BY DEF NotifyInit, Logged
  <2>3. ClaimsInv
    BY DEF NotifyInit, ClaimsInv, Claimed, Idle
  <2> QED
    BY <2>1, <2>2, <2>3 DEF CalmInv, Carried, LogRight, FreshRight, Waited
<1>2. NotifyTypeOK /\ ClaimsInv /\ CalmInv /\ [NotifyNext]_notifyVars => CalmInv' /\ ClaimsInv'
  BY CalmStep, ClaimsAlways
<1> QED
  BY <1>1, <1>2, TypeCorrect, PTL DEF NotifySpec

\* "Quiet hours are meant to delay a notification, not cancel it": by the end
\* of the first sweep that may be heard, every document that was read is told,
\* however long the night before.
THEOREM NothingEverLapses == NotifySpec => []NothingLapses
<1>1. NotifyTypeOK /\ CalmInv => NothingLapses
  <2> SUFFICES ASSUME NotifyTypeOK, CalmInv, Audible, NEW m \in Materials,
                      material[m].status = "finished", ~material[m].deleted,
                      ~material[m].notified
               PROVE  FALSE
    BY DEF NothingLapses
  <2>1. Waited /\ Covered /\ AllIdle /\ ~InQuietHours
    BY DEF Audible, CalmInv, Said
  <2> QED
    BY <2>1, NothingWaits DEF Untold
<1> QED
  BY <1>1, CalmAlways, PTL

\* What has come into its lead window and may be heard has been claimed by the
\* end of the sweep: every deadline as it stands, and a class, one of tomorrow
\* included, at one of the hours it has had on that day.
THEOREM DueIsAlwaysHeard == NotifySpec => []DueIsHeard
<1>1. ASSUME NotifyTypeOK, CalmInv, Audible PROVE
        /\ \A e \in Events :
             /\ "deadline" \in pref.wants
             /\ ~event[e].closed /\ Ahead(event[e].due)
             => <<e, event[e].due>> \in heard
        /\ \A c \in Slots : \A t \in now + 1 .. now + pref.lead :
             /\ "class" \in pref.wants
             /\ ~slot[c].deleted
             /\ LocalHour(t) = slot[c].starts
             /\ LocalDate(t) % Week = slot[c].weekday
             => HeardOn(c, LocalDate(t))
  <2>1. LogRight /\ \A r \in Timely : r.key \in Logged
    BY <1>1 DEF Audible, CalmInv, Said
  <2>2. ASSUME NEW e \in Events, "deadline" \in pref.wants, ~event[e].closed,
               Ahead(event[e].due)
        PROVE  <<e, event[e].due>> \in heard
    <3>1. Reminder(DeadlineKey(e), <<e, event[e].due>>, {}) \in Timely
      BY <2>2 DEF Timely, DueDeadlines
    <3>2. DeadlineKey(e) \in Logged
      BY <2>1, <3>1 DEF Reminder
    <3>3. event[e].due \in Nat
      BY <1>1 DEF NotifyTypeOK, EventType
    <3> QED
      BY <2>1, <3>2, <3>3 DEF LogRight, DeadlineKey
  <2>3. ASSUME NEW c \in Slots, NEW t \in now + 1 .. now + pref.lead,
               "class" \in pref.wants, ~slot[c].deleted,
               LocalHour(t) = slot[c].starts, LocalDate(t) % Week = slot[c].weekday
        PROVE  HeardOn(c, LocalDate(t))
    <3> DEFINE day == LocalDate(t)
    <3>1. /\ now \in Nat /\ pref.zone \in Int /\ pref.lead \in 0 .. Day /\ Day \in Nat \ {0}
      BY <1>1, NotifyAssumption DEF NotifyTypeOK, Preferences
    <3>2. t \in Int /\ now < t /\ t - now <= pref.lead /\ t - now <= Day
      BY <3>1
    <3>3. day \in Int
      BY <3>1, <3>2 DEF LocalDate
    <3>4. day \in DaysAsked
      <4>1. /\ now + pref.zone \in Int /\ t + pref.zone \in Int
            /\ now + pref.zone <= t + pref.zone
            /\ (t + pref.zone) - (now + pref.zone) <= Day
        BY <3>1, <3>2
      <4> QED
        BY <3>1, <4>1, DayAhead DEF DaysAsked, LocalDate
    <3>5. Instant(day, slot[c].starts) = t
      BY <1>1, <2>3, <3>2, InstantOf
    <3>6. Ahead(Instant(day, slot[c].starts))
      BY <3>2, <3>5 DEF Ahead
    <3>7. day % Week = slot[c].weekday
      BY <2>3
    <3> HIDE DEF day
    <3>8. Reminder(<<"class", c, day>>, <<c, Instant(day, slot[c].starts)>>, {}) \in Timely
      <4> DEFINE p == <<c, day>>
      <4>1. p \in Slots \X DaysAsked /\ p[1] = c /\ p[2] = day
        BY <3>4
      <4> HIDE DEF p
      <4>2. p \in {x \in Slots \X DaysAsked :
                    /\ "class" \in pref.wants
                    /\ ~slot[x[1]].deleted
                    /\ x[2] % Week = slot[x[1]].weekday
                    /\ Ahead(Instant(x[2], slot[x[1]].starts))}
        BY <2>3, <3>6, <3>7, <4>1
      <4>3. Reminder(<<"class", p[1], p[2]>>, <<p[1], Instant(p[2], slot[p[1]].starts)>>, {})
              \in DueClasses
        BY <4>2 DEF DueClasses
      <4> QED
        BY <4>1, <4>3 DEF Timely
    <3>9. <<"class", c, day>> \in Logged
      BY <2>1, <3>8 DEF Reminder
    <3>10. PICK o \in heard : OnDay(o, c, day)
      BY <2>1, <3>3, <3>9 DEF LogRight
    <3>11. HeardOn(c, day)
      BY <3>10 DEF OnDay, HeardOn
    <3> QED
      BY <3>11 DEF day
  <2> QED
    BY <2>2, <2>3
<1>2. NotifyTypeOK /\ CalmInv => DueIsHeard
  BY <1>1 DEF DueIsHeard
<1> QED
  BY <1>2, CalmAlways, PTL
=============================================================================
