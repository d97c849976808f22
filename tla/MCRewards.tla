----------------------------- MODULE MCRewards -----------------------------
(* Small instances of Rewards.                                             *)
EXTENDS Rewards

CONSTANTS ann, bob, cat

\* Ann brought both of the others in.
AnnBroughtAll == [u \in Users |-> IF u = ann THEN None ELSE ann]

MonthOrSeason == [t \in Tiers |-> IF t = "focus" THEN 1 ELSE 2]
EarnsTwoOrThree == [t \in Tiers |-> IF t = "focus" THEN 2 ELSE 3]
=============================================================================
