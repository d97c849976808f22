----------------------------- MODULE MCAccounts -----------------------------
(***************************************************************************)
(* The accounts of both sides: a student's (SignIn) and the console's      *)
(* (Console).  They share no state but the student's row, whose deletion   *)
(* and restoring by the console SignIn has; a behaviour is about one of    *)
(* them, so that TLC adds their states up and does not multiply them.      *)
(***************************************************************************)
EXTENDS SignIn, Console, TLC

CONSTANTS p1, p2, r1, r2, a1, a2

VARIABLE side

AccountsInit == Init /\ ConsoleInit /\ side \in {"student", "staff"}

AccountsNext ==
  \/ side = "student" /\ Next /\ UNCHANGED <<consoleVars, side>>
  \/ side = "staff" /\ ConsoleNext /\ UNCHANGED <<vars, side>>

AccountsSpec == AccountsInit /\ [][AccountsNext]_<<vars, consoleVars, side>>

\* The phones are alike, and so are the requests.
Alike == Permutations(Devices) \cup Permutations(Requests)
=============================================================================
