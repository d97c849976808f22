-------------------------------- MODULE SignIn --------------------------------
(***************************************************************************)
(* One-time codes, refresh tokens and the rule of one phone per account,   *)
(* for one student with a number and a Google address.                     *)
(*                                                                         *)
(* A request is cut where another one can come in between: it reads the    *)
(* code or token and the account, a takeover then revokes the tokens it    *)
(* can see, and everything is committed at the end.  A request that is     *)
(* refused rolls back: a wrong code therefore leaves no trace, its count   *)
(* of attempts included, and is no action here.                            *)
(*                                                                         *)
(* Codes and tokens are numbered as they are written.  The 60 days of a    *)
(* refresh token and the minutes of an access token are longer than any    *)
(* behaviour here.                                                         *)
(***************************************************************************)
EXTENDS Naturals, Sequences, FiniteSets

CONSTANTS
  Devices, Requests,
  MaxSends,    \* codes an hour
  CodeLife, Hour,
  MaxCodes, MaxTokens, MaxTime,
  MaxOverlaps, \* requests that begin beside another one
  MaxActs      \* logouts, deletions and resets

None == "none"

ASSUME SignInAssumption ==
  /\ IsFiniteSet(Devices) /\ IsFiniteSet(Requests) /\ Requests # {} /\ None \notin Devices
  /\ {MaxSends, CodeLife, Hour, MaxCodes, MaxTokens, MaxTime, MaxOverlaps, MaxActs} \subseteq Nat

VARIABLES
  now,
  codes,    \* otp_codes of the number
  user,     \* the row, and the device whose session it is
  tokens,   \* refresh_tokens of the account
  req,      \* the requests under way
  \* history
  signed,     \* times each code signed somebody in
  exchanged,  \* times each token was exchanged
  overlaps,   \* requests that began beside another one
  acts        \* logouts, deletions and resets

tables == <<codes, user, tokens>>
history == <<signed, exchanged>>
vars == <<now, codes, user, tokens, req, signed, exchanged, overlaps, acts>>

Nobody == [exists |-> FALSE, deleted |-> FALSE, active |-> None]
NoReq == [step |-> "none", kind |-> "send", device |-> None, used |-> 0, saw |-> Nobody,
          at |-> 0, cut |-> {}]

Init ==
  /\ now = 1
  /\ codes = <<>>
  /\ user = Nobody
  /\ tokens = <<>>
  /\ req = [r \in Requests |-> NoReq]
  /\ signed = [c \in 1 .. MaxCodes |-> 0]
  /\ exchanged = [t \in 1 .. MaxTokens |-> 0]
  /\ overlaps = 0
  /\ acts = 0

-----------------------------------------------------------------------------
AllIdle == \A r \in Requests : req[r].step = "none"

LiveTokens == {t \in DOMAIN tokens : tokens[t].live}

Live(c) == ~codes[c].used /\ now < codes[c].at + CodeLife

\* The newest code that was not consumed, by when its request began.
NewestCode(c) ==
  ~codes[c].used /\ \A e \in DOMAIN codes : codes[e].used \/ codes[e].at <= codes[c].at

Begin(r, request) ==
  /\ req[r].step = "none"
  /\ req' = [req EXCEPT ![r] = request]
  /\ IF AllIdle THEN UNCHANGED overlaps
     ELSE overlaps < MaxOverlaps /\ overlaps' = overlaps + 1
  /\ UNCHANGED <<now, tables, history, acts>>

\* A request that signs d in, from the account as it is read.
SignInOf(kind, d, used) ==
  [NoReq EXCEPT !.step = "read", !.kind = kind, !.device = d, !.used = used, !.saw = user]

End(r) == req' = [req EXCEPT ![r] = NoReq]

(***************************************************************************)
(* Codes.                                                                  *)
(***************************************************************************)

\* Mutant of Throttled: the last send of the hour does not count.
ThrottledOneLate == Cardinality({c \in DOMAIN codes : now - codes[c].at < Hour}) > MaxSends

\* As many codes within the hour as may be sent.
Throttled == Cardinality({c \in DOMAIN codes : now - codes[c].at < Hour}) >= MaxSends

\* POST /auth/otp.
BeginSend(r) ==
  /\ ~Throttled
  /\ Begin(r, [NoReq EXCEPT !.step = "read", !.at = now])

Outstanding == {c \in DOMAIN codes : ~codes[c].used}

\* The codes a request has consumed, whose rows are locked until its commit.
\* The one that was used is written before the tokens are revoked.
CodesHeld(r) ==
  {c \in Outstanding : \/ req[r].step = "minted" /\ c \in req[r].cut
                       \/ req[r].step = "revoked" /\ req[r].kind = "verify" /\ c = req[r].used}

Locked(r, which) == \E o \in Requests \ {r} : which \cap CodesHeld(o) # {}

\* What is outstanding stops working: the update of what the statement sees
\* waits for whoever has written one of those rows.  The new code is then texted.
Mint(r) ==
  /\ req[r].kind = "send"
  /\ \/ /\ req[r].step = "read"
        /\ req' = [req EXCEPT ![r] = [@ EXCEPT !.step = IF Locked(r, Outstanding) THEN "waiting"
                                                          ELSE "minted",
                                               !.cut = Outstanding]]
     \/ /\ req[r].step = "waiting" /\ ~Locked(r, req[r].cut)
        /\ req' = [req EXCEPT ![r] = [@ EXCEPT !.step = "minted"]]
  /\ UNCHANGED <<now, tables, history, overlaps, acts>>

\* And committed.
FinishSend(r) ==
  /\ req[r].step = "minted"
  /\ Len(codes) < MaxCodes
  /\ codes' = Append([c \in DOMAIN codes |->
                        IF c \in req[r].cut THEN [codes[c] EXCEPT !.used = TRUE] ELSE codes[c]],
                     [at |-> req[r].at, used |-> FALSE])
  /\ End(r)
  /\ UNCHANGED <<now, user, tokens, history, overlaps, acts>>

\* POST /auth/otp/verify, with the code that was texted last.
BeginVerify(r, d, c) ==
  /\ NewestCode(c)
  /\ Live(c)
  /\ Begin(r, SignInOf("verify", d, c))

(***************************************************************************)
(* Sessions.                                                               *)
(***************************************************************************)

\* POST /auth/google, by an account that has the address.
BeginGoogle(r, d) ==
  /\ user.exists
  /\ Begin(r, SignInOf("google", d, 0))

\* POST /auth/refresh, with a token that is live, by an account that is there.
BeginRefresh(r, t) ==
  /\ tokens[t].live
  /\ user.exists /\ ~user.deleted
  /\ Begin(r, SignInOf("refresh", tokens[t].device, t))

\* Mutant of TakesOver: a phone that signed in before is let in beside the other.
TakesOverNever(q) == FALSE

TakesOver(q) == q.saw.active # q.device

\* The code is consumed once nobody else is consuming it.
CodeLocked(r) == req[r].kind = "verify" /\ Locked(r, {req[r].used})

\* revoke_device_tokens, for all devices: those the statement sees.
Revoke(r) ==
  /\ req[r].step = "read" /\ req[r].kind # "send"
  /\ TakesOver(req[r])
  /\ ~CodeLocked(r)
  /\ req' = [req EXCEPT ![r] = [@ EXCEPT !.step = "revoked", !.cut = LiveTokens]]
  /\ UNCHANGED <<now, tables, history, overlaps, acts>>

\* What is left of a request is issue_tokens' insert and the commit.
LastStep(r) ==
  IF TakesOver(req[r]) THEN req[r].step = "revoked"
  ELSE req[r].step = "read" /\ req[r].kind # "send" /\ ~CodeLocked(r)

\* create_user or _reactivate, and the takeover; of the row only what changed
\* is written.
Returned(q) ==
  [exists  |-> TRUE,
   deleted |-> IF q.saw.deleted THEN FALSE ELSE user.deleted,
   active  |-> IF TakesOver(q) THEN q.device ELSE user.active]

\* Mutant of Ended: a token that was exchanged still works.
EndedNever(q) == q.cut

\* Tokens a request leaves revoked.
Ended(q) == q.cut \cup IF q.kind = "refresh" THEN {q.used} ELSE {}

\* issue_tokens and the commit.  An account somebody else created meanwhile
\* breaks the unique number, and the request.
Issue(r) ==
  LET q == req[r]
  IN
  /\ LastStep(r)
  /\ ~q.saw.exists => ~user.exists
  /\ Len(tokens) < MaxTokens
  /\ user' = Returned(q)
  /\ tokens' = Append([t \in DOMAIN tokens |->
                         IF t \in Ended(q) THEN [tokens[t] EXCEPT !.live = FALSE] ELSE tokens[t]],
                      [device |-> q.device, live |-> TRUE])
  /\ codes' = IF q.kind = "verify" THEN [codes EXCEPT ![q.used].used = TRUE] ELSE codes
  /\ signed' = IF q.kind = "verify" THEN [signed EXCEPT ![q.used] = @ + 1] ELSE signed
  /\ exchanged' = IF q.kind = "refresh" THEN [exchanged EXCEPT ![q.used] = @ + 1] ELSE exchanged
  /\ End(r)
  /\ UNCHANGED <<now, overlaps, acts>>

\* The request raises or its process dies: nothing is kept.
Abort(r) ==
  /\ req[r].step # "none"
  /\ End(r)
  /\ UNCHANGED <<now, tables, history, overlaps, acts>>

\* get_current_user: the device was given an access token, which a logout does
\* not end, the account is there, and the session is this device's or nobody's.
Authenticated(d) ==
  /\ \E t \in DOMAIN tokens : tokens[t].device = d
  /\ user.exists /\ ~user.deleted
  /\ user.active \in {None, d}

Revoked(which) ==
  [t \in DOMAIN tokens |->
     IF tokens[t].device \in which THEN [tokens[t] EXCEPT !.live = FALSE] ELSE tokens[t]]

Act == acts < MaxActs /\ acts' = acts + 1

\* POST /auth/logout, of one device or of all.
Logout(d, which) ==
  /\ Authenticated(d)
  /\ Act
  /\ tokens' = Revoked(which)
  /\ UNCHANGED <<now, codes, user, req, history, overlaps>>

\* DELETE /me.
DeleteMe(d) ==
  /\ Authenticated(d)
  /\ Act
  /\ user' = [user EXCEPT !.deleted = TRUE]
  /\ tokens' = Revoked(Devices)
  /\ UNCHANGED <<now, codes, req, history, overlaps>>

(***************************************************************************)
(* The console.                                                            *)
(***************************************************************************)

Rewrite(row) ==
  /\ user' = row
  /\ UNCHANGED <<now, codes, tokens, req, history, overlaps>>

\* POST /admin/users/{id}/device-reset: the phone's tokens go on working.
ResetDevice == Act /\ user.active # None /\ Rewrite([user EXCEPT !.active = None])

\* DELETE /admin/users/{id}: as the student's own, without its tokens.
DeleteUser ==
  /\ Act
  /\ user.exists /\ ~user.deleted
  /\ Rewrite([user EXCEPT !.deleted = TRUE, !.active = None])

\* POST /admin/users/{id}/restore.
RestoreUser == user.deleted /\ Rewrite([user EXCEPT !.deleted = FALSE]) /\ UNCHANGED acts

Tick ==
  /\ now < MaxTime
  /\ now' = now + 1
  /\ UNCHANGED <<tables, req, history, overlaps, acts>>

-----------------------------------------------------------------------------
Next ==
  \/ Tick
  \/ ResetDevice \/ DeleteUser \/ RestoreUser
  \/ \E r \in Requests :
       \/ BeginSend(r) \/ Mint(r) \/ FinishSend(r) \/ Revoke(r) \/ Issue(r) \/ Abort(r)
       \/ \E d \in Devices : BeginGoogle(r, d) \/ \E c \in DOMAIN codes : BeginVerify(r, d, c)
       \/ \E t \in DOMAIN tokens : BeginRefresh(r, t)
  \/ \E d \in Devices :
       DeleteMe(d) \/ \E which \in {{d}, Devices} : Logout(d, which)

Spec == Init /\ [][Next]_vars

-----------------------------------------------------------------------------
Device == Devices \cup {None}
Row == [exists : BOOLEAN, deleted : BOOLEAN, active : Device]
CodeType == [at : Nat, used : BOOLEAN]
TokenType == [device : Devices, live : BOOLEAN]
ReqType == [step : {"none", "read", "waiting", "minted", "revoked"}, kind : {"send", "verify", "google", "refresh"},
            device : Device, used : Nat, saw : Row, at : Nat, cut : SUBSET Nat]

\* Every variable keeps to its type.
TypeOK ==
  /\ now \in Nat
  /\ codes \in Seq(CodeType)
  /\ user \in Row
  /\ tokens \in Seq(TokenType)
  /\ req \in [Requests -> ReqType]
  /\ signed \in [1 .. MaxCodes -> Nat] /\ exchanged \in [1 .. MaxTokens -> Nat]
  /\ overlaps \in Nat /\ acts \in Nat

\* "One account, one phone": whatever signs in, refreshes, retries, leaves and
\* comes back, and whatever the console does beside it, the tokens that still
\* work belong to one phone, the one whose session it is if it is anyone's; as
\* long as no request began beside another one.
OnePhone ==
  overlaps = 0 =>
    \A t, o \in LiveTokens : /\ tokens[t].device = tokens[o].device
                             /\ user.active \in {None, tokens[t].device}

\* A code signs in once and a refresh token is exchanged once; requests that
\* overlap can each do so, and no more than those.
Uses == 1 + overlaps

UsedOnce ==
  /\ \A c \in DOMAIN signed : signed[c] <= Uses
  /\ \A t \in DOMAIN exchanged : exchanged[t] <= Uses

\* No hour has more codes in it than may be sent, and two are never live at
\* once; requests that overlap can add one each: of two sends, neither consumes
\* the code the other has not committed.
CodesPerHour ==
  /\ \A h \in 1 .. MaxTime :
       Cardinality({c \in DOMAIN codes : h <= codes[c].at /\ codes[c].at < h + Hour})
         < MaxSends + Uses
  /\ Cardinality({c \in DOMAIN codes : Live(c)}) <= Uses

\* "So two codes are never live at once" (request_otp), whatever overlaps.
OneLiveCode == Cardinality({c \in DOMAIN codes : Live(c)}) <= 1
=============================================================================
