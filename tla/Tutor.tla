------------------------------- MODULE Tutor -------------------------------
(***************************************************************************)
(* Asking the tutor and building a quiz, and the usage counters both are   *)
(* metered on, for one student.                                            *)
(*                                                                         *)
(* A request reads the plan and the counters first and writes them only    *)
(* after a model has been asked, seconds later; other requests of the      *)
(* student, the calendar, a payment and the console come in between.  It   *)
(* is cut at the statements others can see: the insert of the chat, the    *)
(* read and the write of each counter, the commit.  What it has written    *)
(* is locked and unseen until it commits.                                  *)
(*                                                                         *)
(* Time is kept in half months, so that a zone ahead of UTC is in the next *)
(* month for a while.  What is asked and answered is left out: a turn is   *)
(* the pair of ids the device minted, the chat is one the device names.    *)
(***************************************************************************)
EXTENDS Naturals, Sequences, FiniteSets, Functions

CONSTANTS
  Requests,
  Turns,          \* pairs of message ids
  FreeMonthly, FreeLifetime, FreeQuizzes,   \* what Free includes
  PaidMonthly, PaidQuizzes,                 \* what a paid plan includes
  MaxTime,        \* bound on the calendar
  MaxActs,        \* bound on payments, lapses, resets and moves
  MaxBegun        \* bound on requests

ASSUME TutorAssumption ==
  /\ IsFiniteSet(Requests)
  /\ {FreeMonthly, FreeLifetime, FreeQuizzes, PaidMonthly, PaidQuizzes, MaxTime, MaxActs,
      MaxBegun} \subseteq Nat

VARIABLES
  now,       \* half months since the start, in UTC
  zone,      \* half months the student's clock is ahead, 0 or 1
  tier,      \* the plan in force
  meter,     \* the usage_counters rows, by metric and period
  chat,      \* the conversation is in the chats table
  messages,  \* the turns whose question is in the messages table
  req,
  acts, begun,
  \* history
  served,    \* answers begun and quizzes given since the console's last reset, by plan and key
  overlaps,  \* requests that began while one was under way, and moves to another zone
  straddled  \* a request was under way when the student's month turned

vars == <<now, zone, tier, meter, chat, messages, req, acts, begun, served, overlaps, straddled>>

Tiers == {"free", "paid"}
Monthly == {"ai_queries", "quizzes_monthly"}
Metrics == Monthly \cup {"ai_queries_lifetime", "quizzes_lifetime"}

\* A month is numbered from 1; 0 is the period that never ends.
Lifetime == 0
Months == 1..(MaxTime + 1) \div 2 + 1
Keys == (Monthly \X Months) \cup ((Metrics \ Monthly) \X {Lifetime})

\* Mutant of MonthKey: the month turns in UTC.
MonthKeyInUTC == 1 + now \div 2

MonthKey == 1 + (now + zone) \div 2

PeriodOf(metric) ==
  IF metric \in Monthly THEN MonthKey ELSE Lifetime

KeyOf(metric) == <<metric, PeriodOf(metric)>>

CurrentUsage(metric) ==
  IF KeyOf(metric) \in DOMAIN meter THEN meter[KeyOf(metric)].count ELSE 0

QuizMetric(t) == IF t = "paid" THEN "quizzes_monthly" ELSE "quizzes_lifetime"

\* The ceilings a request is checked against.
Ceilings(kind, t) ==
  CASE kind = "quiz" -> {<<QuizMetric(t), IF t = "paid" THEN PaidQuizzes ELSE FreeQuizzes>>}
    [] kind = "ask" /\ t = "free" -> {<<"ai_queries_lifetime", FreeLifetime>>,
                                      <<"ai_queries", FreeMonthly>>}
    [] kind = "ask" /\ t = "paid" -> {<<"ai_queries", PaidMonthly>>}

\* Mutant of Allowed: off by one.
AllowedOneMore(kind, t) == \A c \in Ceilings(kind, t) : CurrentUsage(c[1]) <= c[2]

Allowed(kind, t) == \A c \in Ceilings(kind, t) : CurrentUsage(c[1]) < c[2]

\* Mutant of Spends: the counters in the other order.
SpendsLifetimeFirst(kind, t) ==
  IF kind = "ask" THEN <<"ai_queries_lifetime", "ai_queries">> ELSE <<QuizMetric(t)>>

\* The counters it is spent on, in the order they are written.
Spends(kind, t) ==
  IF kind = "ask" THEN <<"ai_queries", "ai_queries_lifetime">> ELSE <<QuizMetric(t)>>

NoRow == [count |-> 0, born |-> MaxActs + 1]
Idle == [step |-> "idle", kind |-> "ask", turn |-> {}, tier |-> "free", sawChat |-> FALSE,
         left |-> <<>>, key |-> <<"ai_queries", 1>>, seen |-> NoRow, wrote |-> <<>>]

Init ==
  /\ now = 0 /\ zone \in {0, 1}
  /\ tier = "free"
  /\ meter = <<>>
  /\ chat = FALSE /\ messages = {}
  /\ req = [r \in Requests |-> Idle]
  /\ acts = 0 /\ begun = 0
  /\ served = [t \in Tiers |-> [k \in Keys |-> 0]]
  /\ overlaps = 0 /\ straddled = FALSE

-----------------------------------------------------------------------------
\* A request that may still charge, one that holds the chat's row, one that
\* holds the question's row, one that holds a counter's row.
UnderWay(r) == req[r].step \in {"checked", "planning", "count", "counted"}
HoldsChat(r) == UnderWay(r) /\ req[r].kind = "ask" /\ ~req[r].sawChat /\ req[r].step # "checked"
HoldsTurn(r, t) == req[r].step \in {"count", "counted"} /\ t \in req[r].turn \ messages
HoldsKey(r, k) == k \in DOMAIN req[r].wrote

To(r, changes) == req' = [req EXCEPT ![r] = changes]
Quiet == UNCHANGED <<now, zone, tier, acts>>
Stored == <<meter, chat, messages>>
Past == <<served, overlaps, straddled>>
SomeUnderWay == \E r \in Requests : UnderWay(r)

\* get_entitlement, then check_ai_query or check_quiz, then the chat's SELECT.
Begin(r) ==
  /\ req[r].step \in {"idle", "refused"} /\ begun < MaxBegun
  /\ \E kind \in {"ask", "quiz"}, t \in Turns :
       To(r, [Idle EXCEPT !.step = IF Allowed(kind, tier) THEN "checked" ELSE "refused",
                          !.kind = kind, !.turn = IF kind = "ask" THEN {t} ELSE {},
                          !.tier = tier, !.sawChat = chat,
                          !.left = Spends(kind, tier)])
  /\ begun' = begun + 1
  /\ overlaps' = IF SomeUnderWay THEN overlaps + 1 ELSE overlaps
  /\ Quiet /\ UNCHANGED <<Stored, served, straddled>>

\* The transaction is rolled back and the request answered with an error.
Abort(r) == To(r, Idle) /\ UNCHANGED <<Stored, begun, Past>>

\* _ensure_chat: the insert waits for one that is not committed yet and fails
\* when the chat has come to exist since it was looked for.
EnsureChat(r) ==
  /\ req[r].step = "checked" /\ req[r].kind = "ask"
  /\ IF req[r].sawChat
       THEN To(r, [req[r] EXCEPT !.step = "planning"]) /\ UNCHANGED <<Stored, begun, Past>>
       ELSE /\ \A s \in Requests \ {r} : ~HoldsChat(s)
            /\ IF chat THEN Abort(r)
               ELSE To(r, [req[r] EXCEPT !.step = "planning"]) /\ UNCHANGED <<Stored, begun, Past>>
  /\ Quiet

\* pipeline.plan came back and the question is written under its id, at most
\* once: the insert waits for another of the same id.
Planned(r) ==
  /\ req[r].step = "planning"
  /\ \A s \in Requests \ {r}, t \in req[r].turn : ~HoldsTurn(s, t)
  /\ To(r, [req[r] EXCEPT !.step = "count"])
  /\ Quiet /\ UNCHANGED <<Stored, begun, Past>>

\* The provider wrote a quiz with a valid question in it.
Built(r) ==
  /\ req[r].step = "checked" /\ req[r].kind = "quiz"
  /\ To(r, [req[r] EXCEPT !.step = "count"])
  /\ Quiet /\ UNCHANGED <<Stored, begun, Past>>

\* No model is available, the provider failed on a quiz, none of its questions
\* is valid, the database failed (a failed search is swallowed, but not what
\* it does to the transaction), or the process stopped.
Failed(r) ==
  /\ UnderWay(r)
  /\ Abort(r) /\ Quiet

\* record_usage reads the counter's row.
Count(r) ==
  /\ req[r].step = "count" /\ req[r].left # <<>>
  /\ LET k == KeyOf(Head(req[r].left)) IN
       To(r, [req[r] EXCEPT !.step = "counted", !.key = k,
                            !.seen = IF k \in DOMAIN meter THEN meter[k] ELSE NoRow])
  /\ Quiet /\ UNCHANGED <<Stored, begun, Past>>

\* Rows that hide those of the same key.
Overlay(new, old) ==
  [k \in DOMAIN new \cup DOMAIN old |-> IF k \in DOMAIN new THEN new[k] ELSE old[k]]

Wrote(r, row) ==
  [req[r] EXCEPT !.step = "count", !.left = Tail(@), !.key = Idle.key, !.seen = NoRow,
                 !.wrote = Overlay([k \in {req[r].key} |-> row], @)]

\* What a row that was not there when it was read is written as: a new one, or
\* the one another request has created since, read back.
Inserted(k) == IF k \in DOMAIN meter THEN meter[k] ELSE NoRow

\* record_usage writes it, once nobody else holds it.  An update of a row the
\* console has deleted matches nothing and fails the request.
Write(r) ==
  /\ req[r].step = "counted"
  /\ \A s \in Requests \ {r} : ~HoldsKey(s, req[r].key)
  /\ LET k == req[r].key IN
       IF req[r].seen = NoRow
       THEN IF Inserted(k) = NoRow
            THEN To(r, Wrote(r, [count |-> 1, born |-> acts])) /\ UNCHANGED <<Stored, begun, Past>>
            ELSE To(r, [req[r] EXCEPT !.seen = Inserted(k)]) /\ UNCHANGED <<Stored, begun, Past>>
       ELSE IF k \in DOMAIN meter /\ meter[k].born = req[r].seen.born
            THEN /\ To(r, Wrote(r, [req[r].seen EXCEPT !.count = @ + 1]))
                 /\ UNCHANGED <<Stored, begun, Past>>
            ELSE Abort(r)
  /\ Quiet

\* The counters are committed, and with them what is given.
Charge(r) ==
  /\ req[r].step = "count" /\ req[r].left = <<>>
  /\ meter' = Overlay(req[r].wrote, meter)
  /\ served' = [served EXCEPT ![req[r].tier] =
                  [k \in Keys |-> IF HoldsKey(r, k) THEN @[k] + 1 ELSE @[k]]]
  /\ Quiet /\ UNCHANGED <<begun, overlaps, straddled>>

\* A question is charged before the first token of its answer.
Ask(r) ==
  /\ req[r].kind = "ask" /\ Charge(r)
  /\ chat' = TRUE /\ messages' = messages \cup req[r].turn
  /\ To(r, [Idle EXCEPT !.step = "stream", !.turn = req[r].turn])

\* A quiz is charged when it is built, and returned.
BuildQuiz(r) ==
  /\ req[r].kind = "quiz" /\ Charge(r)
  /\ To(r, Idle) /\ UNCHANGED <<chat, messages>>

\* The answer ends, and is saved in a transaction of its own whose failure
\* changes nothing here; or the stream breaks off.
Streamed(r) ==
  /\ req[r].step = "stream"
  /\ To(r, Idle)
  /\ Quiet /\ UNCHANGED <<Stored, begun, Past>>

-----------------------------------------------------------------------------
\* The device pushes the question through /sync while it is being answered.
Pushed(t) ==
  /\ t \notin messages
  /\ \A s \in Requests : ~HoldsChat(s) /\ ~HoldsTurn(s, t)
  /\ chat' = TRUE /\ messages' = messages \cup {t}
  /\ Quiet /\ UNCHANGED <<meter, req, begun, Past>>

Straddles == straddled' = (straddled \/ (MonthKey' # MonthKey /\ SomeUnderWay))

Tick ==
  /\ now < MaxTime /\ now' = now + 1
  /\ UNCHANGED <<zone, tier, Stored, req, acts, begun, served, overlaps>>
  /\ Straddles

\* The student changes the zone in the settings.
Move ==
  /\ acts < MaxActs /\ acts' = acts + 1
  /\ zone' = 1 - zone /\ overlaps' = overlaps + 1
  /\ UNCHANGED <<now, tier, Stored, req, begun, served>>
  /\ Straddles

\* A plan is paid for or lapses.
Change ==
  /\ acts < MaxActs /\ acts' = acts + 1
  /\ tier' \in Tiers \ {tier}
  /\ UNCHANGED <<now, zone, Stored, req, begun, Past>>

\* The console deletes the rows of one metric, or of all, once nobody holds one.
ResetUsage(metrics) ==
  /\ acts < MaxActs /\ acts' = acts + 1
  /\ \A r \in Requests, k \in DOMAIN meter : k[1] \in metrics => ~HoldsKey(r, k)
  /\ meter' = Restrict(meter, {k \in DOMAIN meter : k[1] \notin metrics})
  /\ served' = [t \in Tiers |-> [k \in Keys |->
                  IF k[1] \in metrics THEN 0 ELSE served[t][k]]]
  /\ UNCHANGED <<now, zone, tier, chat, messages, req, begun, overlaps, straddled>>

Next ==
  \/ \E r \in Requests :
       \/ Begin(r) \/ EnsureChat(r) \/ Planned(r) \/ Built(r) \/ Failed(r)
       \/ Count(r) \/ Write(r) \/ Ask(r) \/ BuildQuiz(r) \/ Streamed(r)
  \/ \E t \in Turns : Pushed(t)
  \/ Tick \/ Move \/ Change
  \/ ResetUsage(Metrics) \/ \E m \in Metrics : ResetUsage({m})

Spec == Init /\ [][Next]_vars

-----------------------------------------------------------------------------
Kinds == {"ask", "quiz"}
Steps == {"idle", "refused", "checked", "planning", "count", "counted", "stream"}
MeterRow == [count : Nat, born : 0 .. MaxActs + 1]
Counters == UNION {[keys -> MeterRow] : keys \in SUBSET Keys}
Request ==
  [step : Steps, kind : Kinds, turn : SUBSET Turns, tier : Tiers, sawChat : BOOLEAN,
   left : Seq(Metrics), key : Keys, seen : MeterRow, wrote : Counters]

\* Every variable keeps to its type.
TypeOK ==
  /\ now \in 0 .. MaxTime /\ zone \in {0, 1} /\ tier \in Tiers
  /\ meter \in Counters /\ chat \in BOOLEAN /\ messages \subseteq Turns
  /\ req \in [Requests -> Request]
  /\ acts \in 0 .. MaxActs /\ begun \in 0 .. MaxBegun
  /\ served \in [Tiers -> [Keys -> Nat]] /\ overlaps \in Nat /\ straddled \in BOOLEAN

Served(k) == served["free"][k] + served["paid"][k]

\* A student is given no more than the plan includes, in a month and ever, save
\* for one answer or quiz more for each request that began while another was
\* under way, and for each move to a zone where the month ends again:
\* check_ai_query and check_quiz read what record_usage writes later, and an
\* overlapping write loses a count.
AllowanceHolds ==
  \A kind \in {"ask", "quiz"}, t \in Tiers : \A c \in Ceilings(kind, t), k \in Keys :
    k[1] = c[1] => served[t][k] <= c[2] + overlaps

\* record_ai_query keeps the lifetime counter exact even for overlapping
\* requests: whoever holds the month's row writes the lifetime row before
\* anyone else reads it.  Only requests on both sides of the student's month,
\* which hold different rows, can lose a count of it.
LifetimeExact ==
  ~straddled => LET k == <<"ai_queries_lifetime", Lifetime>> IN
                  Served(k) = IF k \in DOMAIN meter THEN meter[k].count ELSE 0

\* Nobody is turned away before the allowance is really spent: on the first of
\* the month on the student's own clock, and after the console gave it back,
\* what was given before no longer counts.
OwnMonth == (now + zone) \div 2 + 1
TurnedAwayWhenSpent ==
  [][\A r \in Requests : req[r] # req'[r] /\ req'[r].step = "refused" =>
       \E c \in Ceilings(req'[r].kind, tier), k \in Keys :
         k[1] = c[1] /\ k[2] \in {OwnMonth, Lifetime} /\ Served(k) >= c[2]]_vars
=============================================================================
