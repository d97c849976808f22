------------------------------- MODULE MCApp -------------------------------
(***************************************************************************)
(* What the app asks for besides its data: the tutor (Tutor), the study    *)
(* streak (Streak), whether it is out of date (Releases) and a payment to  *)
(* be started (Checkout).  They share no state; a behaviour is about one   *)
(* of them, so that TLC adds their states up and does not multiply them.   *)
(***************************************************************************)
EXTENDS Tutor, Checkout, Releases, Streak, TLC

CONSTANTS r1, r2, t1, t2

\* 1.10 is newer than 1.9 and older than 1.10.1.
SomeVersions == {<<>>, <<1, 9>>, <<1, 10>>, <<1, 10, 1>>}

VARIABLE part

AppInit ==
  /\ Init /\ CheckoutInit /\ StreakInit /\ ReleasesInit
  /\ part \in {"tutor", "checkout", "streak", "releases"}

AppNext ==
  /\ \/ part = "tutor" /\ Next /\ UNCHANGED <<checkoutVars, streakVars, releases>>
     \/ part = "checkout" /\ CheckoutNext /\ UNCHANGED <<vars, streakVars, releases>>
     \/ part = "streak" /\ StreakNext /\ UNCHANGED <<vars, checkoutVars, releases>>
     \/ part = "releases" /\ ReleasesNext /\ UNCHANGED <<vars, checkoutVars, streakVars>>
  /\ UNCHANGED part

AppSpec == AppInit /\ [][AppNext]_<<vars, checkoutVars, streakVars, releases, part>>

\* Requests are alike, and so are turns.
Alike == Permutations(Requests) \cup Permutations(Turns)
=============================================================================
