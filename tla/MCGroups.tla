------------------------------ MODULE MCGroups ------------------------------
(* Small instances of Groups.                                              *)
EXTENDS Groups, TLC

CONSTANTS g1, g2, u1, u2, u3, u4, s1, s2, s3

\* Without the console's actions on a plan.
AllButConsole == AllOperations \ {"grant", "revoke"}

\* What moves the seats of a group that exists.
SeatOperations == {"pay", "join", "remove"}

\* Students are interchangeable, and so are the identities of groups and the
\* sessions.
Alike ==
  Permutations({u1, u2, u3, u4}) \cup Permutations({g1, g2}) \cup Permutations({s1, s2, s3})
=============================================================================
