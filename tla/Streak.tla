------------------------------- MODULE Streak -------------------------------
(***************************************************************************)
(* The study streak: the days a student studied are rows, and the run is   *)
(* computed from them at each read.  Days are numbered on the student's    *)
(* own calendar; a read may be dated in UTC, which is the day before for a *)
(* student east of UTC until the offset has passed.                        *)
(***************************************************************************)
EXTENDS Integers

CONSTANTS
  Lookback,   \* days a read goes back
  LastDay     \* bound on the calendar

ASSUME StreakAssumption == {Lookback, LastDay} \subseteq Nat /\ Lookback > 1

VARIABLES days, local   \* the study_days rows; the student's own date
streakVars == <<days, local>>

StreakInit == days = {} /\ local = 0

\* record_day: a day is a row once.  A phone that was offline records it later.
RecordDay(d) == d \in 0..local /\ days' = days \cup {d} /\ UNCHANGED local
NextDay == local < LastDay /\ local' = local + 1 /\ UNCHANGED days

StreakNext == NextDay \/ \E d \in 0..LastDay : RecordDay(d)
StreakSpec == StreakInit /\ [][StreakNext]_streakVars

-----------------------------------------------------------------------------
Greatest(S) == CHOOSE n \in S : \A m \in S : m <= n
Least(S) == CHOOSE n \in S : \A m \in S : n <= m

\* compute, for the day a read is dated: the rows it reads.
Rows(today) == {d \in days : d > today - Lookback}

\* Mutant of Alive: the run must end exactly today or yesterday.
AliveAtAnchor(newest, today) == newest \in {today, today - 1}

Alive(newest, today) == newest >= today - 1

\* The loop over the rows, newest first, that counts the run back, as a
\* function of how many days it has come back.
CountBack(acc, d) ==
  IF acc.going /\ d = acc.expected
  THEN [acc EXCEPT !.n = @ + 1, !.expected = @ - 1]
  ELSE [acc EXCEPT !.going = FALSE]

Counted(rows, newest, span) ==
  LET found[i \in 0..span] ==
        IF i = 0 THEN [n |-> 0, expected |-> newest, going |-> TRUE]
        ELSE IF newest - i + 1 \in rows THEN CountBack(found[i - 1], newest - i + 1)
        ELSE found[i - 1]
  IN found[span].n

Current(today) ==
  LET rows == Rows(today)
      newest == Greatest(rows)
  IN IF rows # {} /\ Alive(newest, today)
     THEN Counted(rows, newest, newest - (today - Lookback)) ELSE 0

\* The loop over consecutive rows, oldest first, for the longest run.
Extend(acc, d) ==
  LET run == IF d - acc.previous = 1 THEN acc.run + 1 ELSE 1
  IN [previous |-> d, run |-> run, longest |-> IF run > acc.longest THEN run ELSE acc.longest]

LongestOf(rows, oldest, span) ==
  LET found[i \in 0..span] ==
        IF i = 0 THEN [previous |-> oldest, run |-> 1, longest |-> 1]
        ELSE IF oldest + i \in rows THEN Extend(found[i - 1], oldest + i)
        ELSE found[i - 1]
  IN found[span].longest

Longest(today) ==
  LET rows == Rows(today)
      longest == LongestOf(rows, Least(rows), Greatest(rows) - Least(rows))
  IN IF rows = {} THEN 0 ELSE Greatest({longest, Current(today)})

\* The days a read may be dated: the student's own, or UTC's when none is sent.
ReadDates == {local, local - 1}

-----------------------------------------------------------------------------
\* How long the runs in some days are that end on one of them.
Runs(some, last) == {n \in 0..Lookback : (last - n + 1)..last \subseteq some}

\* What a student is shown is the run that ends today or yesterday, however
\* the days came to be recorded: exactly when the read is dated on their own
\* calendar, and no less of it while UTC is still a day behind.  The longest
\* run is the longest in the days looked at.
StreakShown ==
  LET run == Greatest(Runs(days, IF local \in days THEN local ELSE local - 1))
      Seen(n) == IF n < Lookback - 1 THEN n ELSE Lookback - 1
      looked == {0} \cup UNION {Runs(Rows(local), last) : last \in days}
  IN /\ Seen(Current(local)) = Seen(run)
     /\ \A today \in ReadDates : Seen(run) <= Current(today)
     /\ Longest(local) = Greatest(looked)
=============================================================================
