-------------------------------- MODULE Console --------------------------------
(***************************************************************************)
(* The accounts of the console: who is an owner, and the sessions each     *)
(* admin holds.                                                            *)
(*                                                                         *)
(* A request is cut where another one can come in between: it reads the    *)
(* rows it decides by, revoke_all reads the sessions it will end, and      *)
(* everything is written and committed at the end, of a row only what      *)
(* changed.  Whoever is an active owner may act: the access token is good  *)
(* for an hour, and the row is read on every request.                      *)
(*                                                                         *)
(* Support and admin may do the same here, so they are one role.  Sessions *)
(* are numbered as they are opened.                                        *)
(***************************************************************************)
EXTENDS Naturals, Sequences, FiniteSets

CONSTANTS
  Admins,
  First,       \* the owner scripts/create_admin.py makes
  Windows,     \* requests that can be under way at once
  MaxSessions,
  MaxBeside    \* requests that begin beside another one

ASSUME ConsoleAssumption ==
  /\ First \in Admins /\ IsFiniteSet(Admins) /\ IsFiniteSet(Windows)
  /\ {MaxSessions, MaxBeside} \subseteq Nat

VARIABLES
  admins,    \* admin_users
  sessions,  \* admin_refresh_tokens
  work,      \* the requests under way
  \* history
  ended,     \* sessions there were when an admin's were last ended
  beside     \* requests that began beside another one

consoleVars == <<admins, sessions, work, ended, beside>>

Roles == {"support", "owner"}
Keep == "keep"  \* a field the body leaves out
NoRow == [exists |-> FALSE, role |-> "support", active |-> FALSE]
NoWork == [step |-> "none", kind |-> "update", target |-> First, saw |-> NoRow,
          role |-> Keep, active |-> Keep, ends |-> FALSE, used |-> 0, cut |-> {}]

ConsoleInit ==
  /\ admins = [[a \in Admins |-> NoRow] EXCEPT
                 ![First] = [exists |-> TRUE, role |-> "owner", active |-> TRUE]]
  /\ sessions = <<>>
  /\ work = [w \in Windows |-> NoWork]
  /\ ended = [a \in Admins |-> 0]
  /\ beside = 0

-----------------------------------------------------------------------------
ActiveOwner(a) == admins[a].active /\ admins[a].role = "owner"

LiveOf(a) == {s \in DOMAIN sessions : sessions[s].live /\ sessions[s].admin = a}

\* A request that has read what it decides by.
BeginWork(w, target, request) ==
  /\ work[w].step = "none"
  /\ work' = [work EXCEPT ![w] = [request EXCEPT !.step = "read", !.target = target]]
  /\ IF \A o \in Windows : work[o].step = "none" THEN UNCHANGED beside
     ELSE beside < MaxBeside /\ beside' = beside + 1
  /\ UNCHANGED <<admins, sessions, ended>>

\* POST /admin/admins.
BeginCreate(w, owner, target, role) ==
  /\ ActiveOwner(owner)
  /\ ~admins[target].exists
  /\ BeginWork(w, target, [NoWork EXCEPT !.kind = "create", !.role = role])

\* Mutant of Remaining: somebody who was deactivated still counts.
RemainingOfAll(target) == {a \in Admins \ {target} : admins[a].role = "owner"}

\* The other active owners.
Remaining(target) == {a \in Admins \ {target} : ActiveOwner(a)}

\* PATCH /admin/admins/{id}: role, active flag or password of anyone, oneself
\* included.  A field that repeats the row is left out, but for a flag that is
\* switched off again: it ends the sessions again.
BeginUpdate(w, owner, target, role, active, password) ==
  LET losingOwner == admins[target].role = "owner" /\ (role = "support" \/ active = "off")
  IN
  /\ ActiveOwner(owner)
  /\ admins[target].exists
  /\ password \/ role # Keep \/ active # Keep
  /\ role # admins[target].role /\ ~(active = "on" /\ admins[target].active)
  /\ losingOwner => Remaining(target) # {}
  /\ BeginWork(w, target, [NoWork EXCEPT !.saw = admins[target], !.role = role, !.active = active,
                                    !.ends = password \/ active = "off"])

\* DELETE /admin/admins/{id}: of somebody else, and never of the last owner.
BeginRemove(w, owner, target) ==
  /\ ActiveOwner(owner)
  /\ admins[target].exists /\ target # owner
  /\ admins[target].role = "owner" => Remaining(target) # {}
  /\ BeginWork(w, target, [NoWork EXCEPT !.saw = admins[target], !.active = "off", !.ends = TRUE])

\* POST /admin/auth/login, with the right password.
BeginLogin(w, a) ==
  /\ admins[a].active
  /\ BeginWork(w, a, [NoWork EXCEPT !.kind = "login"])

\* POST /admin/auth/refresh, with any token that is live.
BeginRotate(w, s) ==
  /\ sessions[s].live
  /\ admins[sessions[s].admin].active
  /\ BeginWork(w, sessions[s].admin, [NoWork EXCEPT !.kind = "refresh", !.used = s])

\* Mutant of Swept: the sessions of whoever is removed go on.
SweptNever(a) == {}

\* revoke_all: the sessions of an admin that are not revoked.
Swept(a) == LiveOf(a)

Sweep(w) ==
  /\ work[w].step = "read" /\ work[w].ends
  /\ work' = [work EXCEPT ![w] = [@ EXCEPT !.step = "swept", !.cut = Swept(work[w].target)]]
  /\ UNCHANGED <<admins, sessions, ended, beside>>

Without(gone) ==
  [s \in DOMAIN sessions |-> IF s \in gone THEN [sessions[s] EXCEPT !.live = FALSE] ELSE sessions[s]]

EndWork(w) == work' = [work EXCEPT ![w] = NoWork]

\* create_admin: the address is unique.
FinishCreate(w) ==
  LET q == work[w]
  IN
  /\ q.step = "read" /\ q.kind = "create"
  /\ ~admins[q.target].exists
  /\ admins' = [admins EXCEPT ![q.target] = [exists |-> TRUE, role |-> q.role, active |-> TRUE]]
  /\ EndWork(w)
  /\ UNCHANGED <<sessions, ended, beside>>

\* The row of the target once what the request changes of it is written.
Changed(q) ==
  LET role   == IF q.role = Keep THEN q.saw.role ELSE q.role
      active == IF q.active = Keep THEN q.saw.active ELSE q.active = "on"
  IN  [exists |-> TRUE,
       role   |-> IF role # q.saw.role THEN role ELSE admins[q.target].role,
       active |-> IF active # q.saw.active THEN active ELSE admins[q.target].active]

FinishUpdate(w) ==
  LET q == work[w]
  IN
  /\ q.kind = "update"
  /\ q.step = IF q.ends THEN "swept" ELSE "read"
  /\ admins' = [admins EXCEPT ![q.target] = Changed(q)]
  /\ sessions' = Without(q.cut)
  /\ ended' = IF q.ends THEN [ended EXCEPT ![q.target] = Len(sessions)] ELSE ended
  /\ EndWork(w)
  /\ UNCHANGED beside

\* issue_session, and for a refresh the end of the one that was exchanged.
Open(w) ==
  LET q == work[w]
  IN
  /\ q.step = "read" /\ q.kind \in {"login", "refresh"}
  /\ Len(sessions) < MaxSessions
  /\ sessions' = Append(Without({q.used}), [admin |-> q.target, live |-> TRUE])
  /\ EndWork(w)
  /\ UNCHANGED <<admins, ended, beside>>

\* POST /admin/auth/logout, of one session, by whoever has its token.
RevokeSession(s) ==
  /\ sessions[s].live
  /\ sessions' = Without({s})
  /\ UNCHANGED <<admins, work, ended, beside>>

\* The request raises or its process dies: nothing is kept.
AbortWork(w) ==
  /\ work[w].step # "none"
  /\ EndWork(w)
  /\ UNCHANGED <<admins, sessions, ended, beside>>

-----------------------------------------------------------------------------
ConsoleNext ==
  \/ \E w \in Windows :
       \/ Sweep(w) \/ FinishCreate(w) \/ FinishUpdate(w) \/ Open(w) \/ AbortWork(w)
       \/ \E a \in Admins : BeginLogin(w, a)
       \/ \E s \in DOMAIN sessions : BeginRotate(w, s)
       \/ \E owner, target \in Admins :
            \/ BeginRemove(w, owner, target)
            \/ \E role \in Roles : BeginCreate(w, owner, target, role)
            \/ \E role \in Roles \cup {Keep}, active \in {"on", "off", Keep}, password \in BOOLEAN :
                 BeginUpdate(w, owner, target, role, active, password)
  \/ \E s \in DOMAIN sessions : RevokeSession(s)

ConsoleSpec == ConsoleInit /\ [][ConsoleNext]_consoleVars

-----------------------------------------------------------------------------
AdminRow == [exists : BOOLEAN, role : Roles, active : BOOLEAN]
SessionType == [admin : Admins, live : BOOLEAN]
WorkType == [step : {"none", "read", "swept"}, kind : {"create", "update", "login", "refresh"},
            target : Admins, saw : AdminRow, role : Roles \cup {Keep}, active : {"on", "off", Keep},
            ends : BOOLEAN, used : Nat, cut : SUBSET Nat]

\* Every variable keeps to its type.
ConsoleTypeOK ==
  /\ admins \in [Admins -> AdminRow]
  /\ sessions \in Seq(SessionType)
  /\ work \in [Windows -> WorkType]
  /\ ended \in [Admins -> Nat] /\ beside \in Nat

\* "That is the last active owner": however roles are changed and accounts
\* deactivated, removed and brought back, somebody can still add people, as long
\* as no request began beside another one.
SomeOwner == beside = 0 => \E a \in Admins : ActiveOwner(a)

\* The sessions that are live beyond what should have ended them.
Outlived == {s \in DOMAIN sessions : /\ sessions[s].live
                                     /\ \/ ~admins[sessions[s].admin].active
                                        \/ s <= ended[sessions[s].admin]}

\* "Ends every session an admin has": no session outlives the deactivation, the
\* removal or the password change that came after it, except one for each
\* request that began beside another one; rotating a session, or bringing the
\* account back, does not open another one of before.
SessionsEnd == Cardinality(Outlived) <= beside
=============================================================================
