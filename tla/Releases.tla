------------------------------ MODULE Releases ------------------------------
(***************************************************************************)
(* Releases of the app for one platform: the console records, publishes    *)
(* and changes them, and an app asks on launch whether it may carry on.    *)
(* A version is the sequence of its numbers, as parse reads it; <<>> is a  *)
(* build that does not say, or no minimum at all.                          *)
(***************************************************************************)
EXTENDS Naturals, Sequences, FiniteSets

CONSTANTS Versions   \* a set of sequences of numbers

ASSUME ReleasesAssumption == Versions \subseteq Seq(Nat)

VARIABLE releases   \* the app_releases rows, by version

ReleasesInit == releases = <<>>

\* parse(a) < parse(b) on tuples of numbers: a prefix is the older one.
Older(a, b) ==
  \/ Len(a) < Len(b) /\ a = SubSeq(b, 1, Len(a))
  \/ \E i \in 1..Len(a) :
       /\ i <= Len(b) /\ SubSeq(a, 1, i - 1) = SubSeq(b, 1, i - 1)
       /\ a[i] < b[i]

\* is_older, false for a blank.
IsOlder(version, than) == than # <<>> /\ Older(version, than)

\* Mutant of FloorFits: a floor above the release itself.
FloorFitsAny(version, minimum) == TRUE

FloorFits(version, minimum) == ~IsOlder(version, minimum)

CreateRelease(v, minimum, published) ==
  /\ v \notin DOMAIN releases
  /\ FloorFits(v, minimum)
  /\ releases' = [w \in DOMAIN releases \cup {v} |->
                    IF w = v THEN [minimum |-> minimum, published |-> published]
                    ELSE releases[w]]

\* The floor, the publication or both are changed.
UpdateRelease(v, minimum, published) ==
  /\ v \in DOMAIN releases
  /\ \/ FloorFits(v, minimum)
     \/ minimum = releases[v].minimum
  /\ releases' = [releases EXCEPT ![v] = [minimum |-> minimum, published |-> published]]

ReleasesNext ==
  \E v \in Versions \ {<<>>}, minimum \in Versions, published \in BOOLEAN :
    CreateRelease(v, minimum, published) \/ UpdateRelease(v, minimum, published)

ReleasesSpec == ReleasesInit /\ [][ReleasesNext]_releases

-----------------------------------------------------------------------------
Published == {v \in DOMAIN releases : releases[v].published}
Latest == CHOOSE v \in Published : \A w \in Published : ~Older(v, w)

\* check, for an app of version v.
Check(v) ==
  IF Published = {} THEN [latest |-> <<>>, available |-> FALSE, required |-> FALSE, minimum |-> <<>>]
  ELSE LET behind == IsOlder(v, Latest)
           minimum == releases[Latest].minimum
       IN [latest |-> Latest, available |-> behind,
           required |-> behind /\ IsOlder(v, minimum), minimum |-> minimum]

-----------------------------------------------------------------------------
\* An app that is told it must not carry on can: the build it is offered is
\* newer than its own, may run, and is itself told nothing.  An app at or above
\* the floor is never stopped, and the one behind is always offered the newest.
ForcedHaveAWayOut ==
  \A v \in Versions :
    LET told == Check(v) IN
    /\ told.required => /\ told.available /\ Older(v, told.latest)
                        /\ ~IsOlder(told.latest, told.minimum)
                        /\ ~Check(told.latest).available
    /\ ~IsOlder(v, told.minimum) => ~told.required
    /\ (\E w \in Published : Older(v, w)) => told.available /\ ~Older(told.latest, v)
=============================================================================
