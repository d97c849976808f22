---------------------------- MODULE Accounts_proofs ----------------------------
(***************************************************************************)
(* What holds of SignIn for any devices, requests and limits: how often a  *)
(* code or a token can be used, how many codes an hour has and how many    *)
(* are live, and that without overlaps one phone holds the account.  And   *)
(* of Console for any admins, windows and bounds: without beside, somebody *)
(* stays an active owner, and the sessions that outlive their end are no   *)
(* more than beside.                                                       *)
(***************************************************************************)
EXTENDS SignIn, Console, FiniteSetTheorems, SequenceTheorems, TLAPS

-----------------------------------------------------------------------------
(* SignIn.                                                                 *)

\* The requests that hold a code, or a token, of this number.
Holding(kind, n) ==
  {r \in Requests : req[r].step # "none" /\ req[r].kind = kind /\ req[r].used = n}

\* What was used is used up; what has been used and may yet be by a request
\* that holds it is no more than one for each overlap, and one.
CodesCounted ==
  \A c \in 1 .. MaxCodes :
    /\ signed[c] > 0 => c \in DOMAIN codes /\ codes[c].used
    /\ signed[c] + Cardinality(Holding("verify", c)) <= Uses

TokensCounted ==
  \A t \in 1 .. MaxTokens :
    /\ exchanged[t] > 0 => t \in DOMAIN tokens /\ ~tokens[t].live
    /\ exchanged[t] + Cardinality(Holding("refresh", t)) <= Uses

\* What a request holds is there, and its device is a real one.
Held ==
  /\ Len(codes) <= MaxCodes /\ Len(tokens) <= MaxTokens
  /\ \A r \in Requests :
       req[r].step # "none" =>
         /\ req[r].step = "revoked" => req[r].kind # "send"
         /\ req[r].step \in {"waiting", "minted"} => req[r].kind = "send"
         /\ req[r].kind # "send" => req[r].device \in Devices
         /\ req[r].kind = "verify" => req[r].used \in DOMAIN codes
         /\ req[r].kind = "refresh" => req[r].used \in DOMAIN tokens

\* One request at a time.
Alone == \A r, o \in Requests : req[r].step # "none" /\ req[o].step # "none" => r = o

\* What the request under way does to the tokens that are live.
WillHold(q) ==
  /\ q.step = "revoked" => LiveTokens \subseteq q.cut
  /\ q.step # "none" /\ q.kind # "send" /\ ~TakesOver(q) =>
       /\ user.active \in {None, q.device}
       /\ \A t \in LiveTokens : tokens[t].device = q.device

OneAtATime == overlaps = 0 => Alone /\ OnePhone /\ \A r \in Requests : WillHold(req[r])

-----------------------------------------------------------------------------
(* Types.                                                                  *)

\* A sequence rewritten element by element.
LEMMA Rewritten ==
  ASSUME NEW S, NEW s \in Seq(S), NEW f, f = [i \in DOMAIN s |-> f[i]],
         \A i \in DOMAIN s : f[i] \in S
  PROVE  f \in Seq(S) /\ Len(f) = Len(s) /\ DOMAIN f = DOMAIN s
<1>1. Len(s) \in Nat /\ DOMAIN s = 1 .. Len(s)
  BY LenProperties
<1>2. f \in [1 .. Len(s) -> S]
  BY <1>1
<1>3. f \in Seq(S)
  BY <1>1, <1>2, SeqDef
<1> QED
  BY <1>1, <1>2, <1>3, LenProperties

\* And one that got another element.
LEMMA Appended ==
  ASSUME NEW S, NEW s \in Seq(S), NEW e \in S
  PROVE  /\ Append(s, e) \in Seq(S) /\ Len(Append(s, e)) = Len(s) + 1
         /\ DOMAIN s = 1 .. Len(s) /\ DOMAIN Append(s, e) = 1 .. Len(s) + 1
         /\ \A i \in DOMAIN s : Append(s, e)[i] = s[i]
         /\ Append(s, e)[Len(s) + 1] = e
<1>1. Len(s) \in Nat /\ DOMAIN s = 1 .. Len(s)
  BY LenProperties
<1>2. Append(s, e) \in Seq(S) /\ Len(Append(s, e)) = Len(s) + 1
  OBVIOUS
<1>3. DOMAIN Append(s, e) = 1 .. Len(s) + 1
  BY <1>2, LenProperties
<1> QED
  BY <1>1, <1>2, <1>3

\* What the tables do in a step: they only grow, a code that was used stays
\* used, and a token that was ended stays ended and with its device.
CodesGrow ==
  /\ codes' \in Seq(CodeType) /\ Len(codes') >= Len(codes)
  /\ \A c \in DOMAIN codes : c \in DOMAIN codes' /\ (codes[c].used => codes'[c].used)

TokensGrow ==
  /\ tokens' \in Seq(TokenType) /\ Len(tokens') >= Len(tokens)
  /\ \A t \in DOMAIN tokens : /\ t \in DOMAIN tokens'
                              /\ tokens'[t].device = tokens[t].device
                              /\ ~tokens[t].live => ~tokens'[t].live

LEMMA Unchanged ==
  ASSUME TypeOK
  PROVE  /\ codes' = codes => CodesGrow
         /\ tokens' = tokens => TokensGrow
         /\ DOMAIN codes = 1 .. Len(codes) /\ Len(codes) \in Nat
         /\ DOMAIN tokens = 1 .. Len(tokens) /\ Len(tokens) \in Nat
  BY LenProperties DEF TypeOK, CodesGrow, TokensGrow

\* Ending some of the tokens.
LEMMA TokensEnded ==
  ASSUME TypeOK, NEW gone, NEW f,
         f = [t \in DOMAIN tokens |->
                IF t \in gone THEN [tokens[t] EXCEPT !.live = FALSE] ELSE tokens[t]]
  PROVE  /\ f \in Seq(TokenType) /\ Len(f) = Len(tokens) /\ DOMAIN f = DOMAIN tokens
         /\ \A t \in DOMAIN tokens : /\ f[t].device = tokens[t].device
                                     /\ f[t].live => tokens[t].live /\ t \notin gone
<1>1. \A t \in DOMAIN tokens : tokens[t] \in TokenType
  BY ElementOfSeq, LenProperties DEF TypeOK
<1>2. \A t \in DOMAIN tokens : /\ f[t] \in TokenType
                               /\ f[t].device = tokens[t].device
                               /\ f[t].live => tokens[t].live /\ t \notin gone
  <2> SUFFICES ASSUME NEW t \in DOMAIN tokens
               PROVE  /\ f[t] \in TokenType
                      /\ f[t].device = tokens[t].device
                      /\ f[t].live => tokens[t].live /\ t \notin gone
    OBVIOUS
  <2>1. CASE t \in gone
    BY <1>1, <2>1 DEF TokenType
  <2>2. CASE t \notin gone
    BY <1>1, <2>2 DEF TokenType
  <2> QED
    BY <2>1, <2>2
<1>3. f = [t \in DOMAIN tokens |-> f[t]] /\ tokens \in Seq(TokenType)
  BY DEF TypeOK
<1> QED
  BY <1>2, <1>3, Rewritten

\* The code a request texts.
LEMMA SentCode ==
  ASSUME TypeOK, NEW r \in Requests, FinishSend(r)
  PROVE  CodesGrow /\ Len(codes') = Len(codes) + 1
<1> DEFINE f == [c \in DOMAIN codes |->
                   IF c \in req[r].cut THEN [codes[c] EXCEPT !.used = TRUE] ELSE codes[c]]
           e == [at |-> req[r].at, used |-> FALSE]
<1>1. \A c \in DOMAIN codes : codes[c] \in CodeType
  BY ElementOfSeq, LenProperties DEF TypeOK
<1>2. \A c \in DOMAIN codes : f[c] \in CodeType /\ (codes[c].used => f[c].used)
  BY <1>1 DEF CodeType
<1>3. codes \in Seq(CodeType) /\ e \in CodeType
  BY DEF TypeOK, ReqType, CodeType
<1>4. codes' = Append(f, e)
  BY DEF FinishSend
<1>5. f = [c \in DOMAIN codes |-> f[c]]
  OBVIOUS
<1> HIDE DEF f, e
<1>6. f \in Seq(CodeType) /\ Len(f) = Len(codes) /\ DOMAIN f = DOMAIN codes
  BY <1>2, <1>3, <1>5, Rewritten
<1>7. /\ Append(f, e) \in Seq(CodeType) /\ Len(Append(f, e)) = Len(f) + 1
      /\ DOMAIN f = 1 .. Len(f) /\ DOMAIN Append(f, e) = 1 .. Len(f) + 1
      /\ \A i \in DOMAIN f : Append(f, e)[i] = f[i]
  BY <1>3, <1>6, Appended
<1>8. Len(codes) \in Nat
  BY <1>3, LenProperties
<1> QED
  BY <1>2, <1>4, <1>6, <1>7, <1>8 DEF CodesGrow

\* Who is given a token.
LEMMA IssuesFor ==
  ASSUME TypeOK, Held, NEW r \in Requests, LastStep(r)
  PROVE  /\ req[r] \in ReqType /\ req[r].step # "none" /\ req[r].kind # "send"
         /\ req[r].device \in Devices
         /\ TakesOver(req[r]) => req[r].step = "revoked"
  BY DEF LastStep, Held, TypeOK

\* What issue_tokens and its commit write.
LEMMA IssuedToken ==
  ASSUME TypeOK, Held, NEW r \in Requests, LastStep(r), Issue(r)
  PROVE  /\ TokensGrow /\ Len(tokens') = Len(tokens) + 1
         /\ DOMAIN tokens' = DOMAIN tokens \cup {Len(tokens) + 1}
         /\ \A t \in DOMAIN tokens : tokens'[t].live => tokens[t].live /\ t \notin Ended(req[r])
         /\ tokens'[Len(tokens) + 1].device = req[r].device
<1> DEFINE f == [t \in DOMAIN tokens |->
                   IF t \in Ended(req[r]) THEN [tokens[t] EXCEPT !.live = FALSE] ELSE tokens[t]]
           e == [device |-> req[r].device, live |-> TRUE]
<1>1. /\ f \in Seq(TokenType) /\ Len(f) = Len(tokens) /\ DOMAIN f = DOMAIN tokens
      /\ \A t \in DOMAIN tokens : /\ f[t].device = tokens[t].device
                                  /\ f[t].live => tokens[t].live /\ t \notin Ended(req[r])
  BY TokensEnded
<1>2. e \in TokenType /\ e.device = req[r].device
  BY IssuesFor DEF TokenType
<1>3. tokens' = Append(f, e)
  BY DEF Issue
<1> HIDE DEF f, e
<1>4. /\ Append(f, e) \in Seq(TokenType) /\ Len(Append(f, e)) = Len(f) + 1
      /\ DOMAIN f = 1 .. Len(f) /\ DOMAIN Append(f, e) = 1 .. Len(f) + 1
      /\ \A i \in DOMAIN f : Append(f, e)[i] = f[i]
      /\ Append(f, e)[Len(f) + 1] = e
  BY <1>1, <1>2, Appended
<1>5. Len(tokens) \in Nat /\ DOMAIN tokens = 1 .. Len(tokens)
  BY Unchanged
<1>6. DOMAIN tokens' = DOMAIN tokens \cup {Len(tokens) + 1}
  BY <1>1, <1>3, <1>4, <1>5
<1>7. tokens' \in Seq(TokenType) /\ Len(tokens') = Len(tokens) + 1
      /\ tokens'[Len(tokens) + 1].device = req[r].device
  BY <1>1, <1>2, <1>3, <1>4
<1>8. \A t \in DOMAIN tokens : tokens'[t] = f[t]
  BY <1>1, <1>3, <1>4
<1>9. TokensGrow
  BY <1>1, <1>5, <1>6, <1>7, <1>8 DEF TokensGrow
<1>10. ASSUME NEW t \in DOMAIN tokens, tokens'[t].live
       PROVE  tokens[t].live /\ t \notin Ended(req[r])
  <2>1. tokens'[t] = f[t] /\ (f[t].live => tokens[t].live /\ t \notin Ended(req[r]))
    BY <1>1, <1>8
  <2> QED
    BY <1>10, <2>1
<1> QED
  BY <1>6, <1>7, <1>9, <1>10

\* And of the codes.
LEMMA IssuedCode ==
  ASSUME TypeOK, Held, NEW r \in Requests, LastStep(r), Issue(r)
  PROVE  /\ CodesGrow /\ Len(codes') = Len(codes)
         /\ req[r].kind = "verify" => codes'[req[r].used].used
<1>1. CASE req[r].kind # "verify"
  BY <1>1, Unchanged DEF Issue
<1>2. CASE req[r].kind = "verify"
  <2> DEFINE u == req[r].used
             e == [codes[u] EXCEPT !.used = TRUE]
  <2>1. u \in 1 .. Len(codes) /\ codes \in Seq(CodeType) /\ Len(codes) \in Nat
        /\ DOMAIN codes = 1 .. Len(codes)
    BY <1>2, IssuesFor, Unchanged DEF Held, TypeOK
  <2>2. codes[u] \in CodeType
    BY <2>1, ElementOfSeq
  <2>3. e \in CodeType /\ e.used
    BY <2>2 DEF CodeType
  <2>4. codes' = [codes EXCEPT ![u] = e]
    BY <1>2 DEF Issue
  <2> HIDE DEF u, e
  <2>5. /\ codes' \in Seq(CodeType) /\ Len(codes') = Len(codes)
        /\ \A j \in 1 .. Len(codes) : codes'[j] = IF j = u THEN e ELSE codes[j]
    BY <2>1, <2>3, <2>4, ExceptSeq
  <2>6. DOMAIN codes' = 1 .. Len(codes)
    BY <2>5, LenProperties
  <2>7. codes'[u].used
    BY <2>1, <2>3, <2>5
  <2> QED
    BY <2>1, <2>3, <2>5, <2>6, <2>7 DEF CodesGrow, u
<1> QED
  BY <1>1, <1>2

\* Every step of a request that signs in keeps its hold on code and token.
LEMMA Begun ==
  ASSUME TypeOK, NEW r \in Requests, NEW q \in ReqType, Begin(r, q)
  PROVE  /\ req[r].step = "none"
         /\ req' \in [Requests -> ReqType] /\ req'[r] = q
         /\ \A o \in Requests \ {r} : req'[o] = req[o]
         /\ UNCHANGED <<now, codes, user, tokens, signed, exchanged, acts>>
         /\ \/ AllIdle /\ overlaps' = overlaps
            \/ overlaps' = overlaps + 1
  BY DEF Begin, TypeOK, tables, history

\* The requests that begin.
LEMMA Beginnings ==
  ASSUME TypeOK, Held, NEW r \in Requests,
         \/ BeginSend(r)
         \/ \E d \in Devices : BeginGoogle(r, d) \/ \E c \in DOMAIN codes : BeginVerify(r, d, c)
         \/ \E t \in DOMAIN tokens : BeginRefresh(r, t)
  PROVE  \E q \in ReqType :
           /\ Begin(r, q) /\ q.step = "read" /\ q.saw \in {user, Nobody}
           /\ q.kind # "send" => q.device \in Devices /\ q.saw = user
           /\ q.kind = "verify" => q.used \in DOMAIN codes /\ ~codes[q.used].used
           /\ q.kind = "refresh" => q.used \in DOMAIN tokens /\ tokens[q.used].live
<1>1. CASE BeginSend(r)
  <2> DEFINE q == [NoReq EXCEPT !.step = "read", !.at = now]
  <2>1. q \in ReqType /\ q.kind = "send" /\ q.step = "read" /\ q.saw = Nobody
    BY DEF NoReq, Nobody, ReqType, Row, Device, TypeOK
  <2>2. Begin(r, q)
    BY <1>1 DEF BeginSend
  <2> HIDE DEF q
  <2> QED
    BY <2>1, <2>2
<1>2. ASSUME NEW d \in Devices, NEW kind \in {"verify", "google", "refresh"}, NEW used \in Nat
      PROVE  LET q == SignInOf(kind, d, used) IN
             /\ q \in ReqType /\ q.kind = kind /\ q.step = "read" /\ q.saw = user
             /\ q.used = used /\ q.device = d
  BY <1>2 DEF SignInOf, NoReq, Nobody, ReqType, Row, Device, TypeOK
<1>3. ASSUME NEW d \in Devices, BeginGoogle(r, d)
      PROVE  Begin(r, SignInOf("google", d, 0))
  BY <1>3 DEF BeginGoogle
<1>4. ASSUME NEW d \in Devices, NEW c \in DOMAIN codes, BeginVerify(r, d, c)
      PROVE  Begin(r, SignInOf("verify", d, c)) /\ ~codes[c].used
  BY <1>4 DEF BeginVerify, NewestCode
<1>5. ASSUME NEW t \in DOMAIN tokens, BeginRefresh(r, t)
      PROVE  Begin(r, SignInOf("refresh", tokens[t].device, t)) /\ tokens[t].live
  BY <1>5 DEF BeginRefresh
<1>6. /\ \A t \in DOMAIN tokens : t \in Nat /\ tokens[t].device \in Devices
      /\ \A c \in DOMAIN codes : c \in Nat
  <2>1. \A t \in DOMAIN tokens : tokens[t] \in TokenType
    BY ElementOfSeq, Unchanged DEF TypeOK
  <2> QED
    BY <2>1, Unchanged DEF TokenType
<1>7. ASSUME NEW d \in Devices, BeginGoogle(r, d) PROVE
      \E q \in ReqType :
           /\ Begin(r, q) /\ q.step = "read" /\ q.saw = user
           /\ q.kind = "google" /\ q.device \in Devices
  BY <1>2, <1>3, <1>7
<1>8. ASSUME NEW d \in Devices, NEW c \in DOMAIN codes, BeginVerify(r, d, c) PROVE
      \E q \in ReqType :
           /\ Begin(r, q) /\ q.step = "read" /\ q.saw = user
           /\ q.kind = "verify" /\ q.device \in Devices /\ q.used = c /\ ~codes[c].used
  BY <1>2, <1>4, <1>6, <1>8
<1>9. ASSUME NEW t \in DOMAIN tokens, BeginRefresh(r, t) PROVE
      \E q \in ReqType :
           /\ Begin(r, q) /\ q.step = "read" /\ q.saw = user
           /\ q.kind = "refresh" /\ q.device \in Devices /\ q.used = t /\ tokens[t].live
  BY <1>2, <1>5, <1>6, <1>9
<1> QED
  BY <1>1, <1>7, <1>8, <1>9

\* The clock, the console, a logout and a deletion: no request moves, tokens
\* can only end, and the session stays whose it is or becomes nobody's.
Aside ==
  \/ Tick \/ ResetDevice \/ DeleteUser \/ RestoreUser
  \/ \E d \in Devices : DeleteMe(d) \/ \E which \in {{d}, Devices} : Logout(d, which)

LEMMA AsideStep ==
  ASSUME TypeOK, Aside
  PROVE  /\ UNCHANGED <<codes, req, signed, exchanged, overlaps>>
         /\ TokensGrow /\ Len(tokens') = Len(tokens) /\ DOMAIN tokens' = DOMAIN tokens
         /\ \A t \in DOMAIN tokens : tokens'[t].live => tokens[t].live
         /\ user' \in Row /\ user'.active \in {None, user.active}
         /\ now' \in Nat /\ acts' \in Nat
<1>1. CASE Tick
  BY <1>1, Unchanged DEF Tick, tables, history, TypeOK, Row
<1>2. CASE ResetDevice \/ DeleteUser \/ RestoreUser
  <2>1. user' \in Row /\ user'.active \in {None, user.active}
    <3>1. CASE ResetDevice
      BY <3>1 DEF ResetDevice, Rewrite, TypeOK, Row, Device
    <3>2. CASE DeleteUser
      BY <3>2 DEF DeleteUser, Rewrite, TypeOK, Row, Device
    <3>3. CASE RestoreUser
      BY <3>3 DEF RestoreUser, Rewrite, TypeOK, Row, Device
    <3> QED
      BY <1>2, <3>1, <3>2, <3>3
  <2>2. acts' \in Nat
    BY <1>2 DEF ResetDevice, DeleteUser, RestoreUser, Act, TypeOK
  <2>3. UNCHANGED <<now, codes, tokens, req, signed, exchanged, overlaps>>
    BY <1>2 DEF ResetDevice, DeleteUser, RestoreUser, Rewrite, history
  <2> QED
    BY <2>1, <2>2, <2>3, Unchanged DEF TypeOK
<1>3. ASSUME NEW which, NEW d \in Devices, Logout(d, which)
      PROVE  /\ UNCHANGED <<codes, req, signed, exchanged, overlaps, now, user>>
             /\ tokens' = Revoked(which) /\ acts' \in Nat
  BY <1>3 DEF Logout, Act, TypeOK, history
<1>5. ASSUME NEW d \in Devices, DeleteMe(d)
      PROVE  /\ UNCHANGED <<codes, req, signed, exchanged, overlaps, now>>
             /\ tokens' = Revoked(Devices) /\ acts' \in Nat
             /\ user' \in Row /\ user'.active = user.active
  <2>1. /\ UNCHANGED <<codes, req, signed, exchanged, overlaps, now>>
        /\ tokens' = Revoked(Devices) /\ acts' \in Nat
    BY <1>5 DEF DeleteMe, Act, TypeOK, history
  <2>2. user' = [user EXCEPT !.deleted = TRUE]
    BY <1>5 DEF DeleteMe
  <2>3. user' \in Row /\ user'.active = user.active
    BY <2>2 DEF TypeOK, Row
  <2> QED
    BY <2>1, <2>3
<1>4. ASSUME NEW which, tokens' = Revoked(which)
      PROVE  /\ TokensGrow /\ Len(tokens') = Len(tokens) /\ DOMAIN tokens' = DOMAIN tokens
             /\ \A t \in DOMAIN tokens : tokens'[t].live => tokens[t].live
  <2> DEFINE gone == {t \in DOMAIN tokens : tokens[t].device \in which}
  <2>1. tokens' = [t \in DOMAIN tokens |->
                     IF t \in gone THEN [tokens[t] EXCEPT !.live = FALSE] ELSE tokens[t]]
    BY <1>4 DEF Revoked
  <2> HIDE DEF gone
  <2>2. /\ tokens' \in Seq(TokenType) /\ Len(tokens') = Len(tokens)
        /\ DOMAIN tokens' = DOMAIN tokens
        /\ \A t \in DOMAIN tokens : /\ tokens'[t].device = tokens[t].device
                                    /\ tokens'[t].live => tokens[t].live /\ t \notin gone
    BY <2>1, TokensEnded
  <2>3. Len(tokens) \in Nat /\ DOMAIN tokens = 1 .. Len(tokens)
    BY Unchanged
  <2>4. TokensGrow
    BY <2>2, <2>3 DEF TokensGrow
  <2>5. ASSUME NEW t \in DOMAIN tokens, tokens'[t].live PROVE tokens[t].live
    BY <2>2, <2>5
  <2> QED
    BY <2>2, <2>4, <2>5
<1> QED
  BY <1>1, <1>2, <1>3, <1>4, <1>5 DEF Aside, TypeOK

\* A code that was sent, and a request that is given up.
LEMMA ClosedStep ==
  ASSUME TypeOK, Held, NEW r \in Requests, FinishSend(r) \/ Abort(r)
  PROVE  /\ req' = [req EXCEPT ![r] = NoReq]
         /\ CodesGrow /\ Len(codes') <= MaxCodes
         /\ UNCHANGED <<now, user, tokens, signed, exchanged, overlaps, acts>>
<1>1. CASE FinishSend(r)
  <2>1. Len(codes) < MaxCodes /\ Len(codes) \in Nat
    BY <1>1, Unchanged DEF FinishSend
  <2>2. CodesGrow /\ Len(codes') = Len(codes) + 1
    BY <1>1, SentCode
  <2>3. MaxCodes \in Nat
    BY SignInAssumption
  <2>4. req' = [req EXCEPT ![r] = NoReq]
        /\ UNCHANGED <<now, user, tokens, signed, exchanged, overlaps, acts>>
    BY <1>1 DEF FinishSend, End, history
  <2> QED
    BY <2>1, <2>2, <2>3, <2>4
<1>2. CASE Abort(r)
  BY <1>2, Unchanged DEF Abort, End, tables, history, Held
<1> QED
  BY <1>1, <1>2

\* A takeover, half done.
LEMMA RevokedStep ==
  ASSUME TypeOK, NEW r \in Requests, Revoke(r)
  PROVE  /\ UNCHANGED <<now, codes, user, tokens, signed, exchanged, overlaps, acts>>
         /\ req[r].step = "read" /\ req[r].kind # "send"
         /\ req'[r] \in ReqType /\ req'[r].step = "revoked" /\ req'[r].cut = LiveTokens
         /\ req'[r].kind = req[r].kind /\ req'[r].used = req[r].used
         /\ req'[r].device = req[r].device /\ req'[r].saw = req[r].saw
         /\ \A o \in Requests \ {r} : req'[o] = req[o]
         /\ req' \in [Requests -> ReqType]
         /\ TakesOver(req[r])
<1>1. LiveTokens \subseteq Nat
  BY Unchanged DEF LiveTokens
<1>2. req' = [req EXCEPT ![r] = [@ EXCEPT !.step = "revoked", !.cut = LiveTokens]]
  BY DEF Revoke
<1>3. req[r] \in ReqType
  BY DEF TypeOK
<1>4. req'[r] = [req[r] EXCEPT !.step = "revoked", !.cut = LiveTokens]
      /\ \A o \in Requests \ {r} : req'[o] = req[o]
  BY <1>2 DEF TypeOK
<1>5. req'[r] \in ReqType
  BY <1>1, <1>3, <1>4 DEF ReqType
<1>6. req' \in [Requests -> ReqType]
  BY <1>2, <1>4, <1>5 DEF TypeOK
<1>7. /\ req'[r].step = "revoked" /\ req'[r].cut = LiveTokens
      /\ req'[r].kind = req[r].kind /\ req'[r].used = req[r].used
      /\ req'[r].device = req[r].device /\ req'[r].saw = req[r].saw
  BY <1>3, <1>4 DEF ReqType
<1>8. /\ UNCHANGED <<now, codes, user, tokens, signed, exchanged, overlaps, acts>>
      /\ req[r].step = "read" /\ req[r].kind # "send" /\ TakesOver(req[r])
  BY DEF Revoke, tables, history
<1> QED
  BY <1>4, <1>5, <1>6, <1>7, <1>8

\* A code that is being sent: the rest of the tables is left alone.
LEMMA MintStep ==
  ASSUME TypeOK, NEW r \in Requests, Mint(r)
  PROVE  /\ UNCHANGED <<now, codes, user, tokens, signed, exchanged, overlaps, acts>>
         /\ req[r].step \in {"read", "waiting"} /\ req[r].kind = "send"
         /\ req'[r] \in ReqType /\ req'[r].step \in {"waiting", "minted"}
         /\ req'[r].cut = IF req[r].step = "read" THEN Outstanding ELSE req[r].cut
         /\ req'[r].kind = req[r].kind /\ req'[r].used = req[r].used
         /\ req'[r].at = req[r].at
         /\ \A o \in Requests \ {r} : req'[o] = req[o]
         /\ req' \in [Requests -> ReqType]
<1>1. Outstanding \subseteq Nat
  BY Unchanged DEF Outstanding
<1>2. req[r] \in ReqType
  BY DEF TypeOK
<1> DEFINE first == [req[r] EXCEPT !.step = IF Locked(r, Outstanding) THEN "waiting" ELSE "minted",
                                   !.cut = Outstanding]
           then == [req[r] EXCEPT !.step = "minted"]
<1>3. /\ first \in ReqType /\ first.step \in {"waiting", "minted"} /\ first.cut = Outstanding
      /\ first.kind = req[r].kind /\ first.used = req[r].used /\ first.at = req[r].at
  BY <1>1, <1>2 DEF ReqType
<1>4. /\ then \in ReqType /\ then.step = "minted" /\ then.cut = req[r].cut
      /\ then.kind = req[r].kind /\ then.used = req[r].used /\ then.at = req[r].at
  BY <1>2 DEF ReqType
<1>5. \/ req[r].step = "read" /\ req' = [req EXCEPT ![r] = first]
      \/ req[r].step = "waiting" /\ req' = [req EXCEPT ![r] = then]
  BY DEF Mint
<1>6. UNCHANGED <<now, codes, user, tokens, signed, exchanged, overlaps, acts>>
      /\ req[r].kind = "send"
  BY DEF Mint, tables, history
<1> HIDE DEF first, then
<1> QED
  BY <1>3, <1>4, <1>5, <1>6 DEF TypeOK

\* The commit of a request that signs in.
LEMMA IssueStep ==
  ASSUME TypeOK, Held, NEW r \in Requests, Issue(r)
  PROVE  /\ LastStep(r) /\ Len(tokens) < MaxTokens
         /\ req' = [req EXCEPT ![r] = NoReq]
         /\ user' = Returned(req[r]) /\ user' \in Row
         /\ signed' = IF req[r].kind = "verify" THEN [signed EXCEPT ![req[r].used] = @ + 1] ELSE signed
         /\ exchanged' = IF req[r].kind = "refresh" THEN [exchanged EXCEPT ![req[r].used] = @ + 1] ELSE exchanged
         /\ UNCHANGED <<now, overlaps, acts>>
<1>1. LastStep(r)
  BY DEF Issue
<1>2. user' = Returned(req[r])
  BY DEF Issue
<1>3. req[r] \in ReqType /\ req[r].device \in Devices
  BY <1>1, IssuesFor
<1>4. Returned(req[r]) \in Row
  BY <1>3 DEF Returned, Row, Device, TypeOK, ReqType
<1>5. Len(tokens) < MaxTokens /\ UNCHANGED <<now, overlaps, acts>>
  BY DEF Issue
<1>6. req' = [req EXCEPT ![r] = NoReq]
  BY DEF Issue, End
<1>7. signed' = IF req[r].kind = "verify" THEN [signed EXCEPT ![req[r].used] = @ + 1] ELSE signed
  BY DEF Issue
<1>8. exchanged' = IF req[r].kind = "refresh" THEN [exchanged EXCEPT ![req[r].used] = @ + 1] ELSE exchanged
  BY DEF Issue
<1> QED
  BY <1>1, <1>2, <1>4, <1>5, <1>6, <1>7, <1>8

\* The steps there are.
Begins(r) ==
  \/ BeginSend(r)
  \/ \E d \in Devices : BeginGoogle(r, d) \/ \E c \in DOMAIN codes : BeginVerify(r, d, c)
  \/ \E t \in DOMAIN tokens : BeginRefresh(r, t)

LEMMA Steps ==
  ASSUME [Next]_vars
  PROVE  \/ Aside
         \/ \E r \in Requests :
              Begins(r) \/ Mint(r) \/ FinishSend(r) \/ Abort(r) \/ Revoke(r) \/ Issue(r)
         \/ UNCHANGED vars
  BY DEF Next, Aside, Begins

\* What a request that is over leaves.
LEMMA NothingHeld == NoReq \in ReqType /\ NoReq.step = "none"
  BY DEF NoReq, Nobody, ReqType, Row, Device

LEMMA HeldStep ==
  ASSUME TypeOK, Held, [Next]_vars
  PROVE  TypeOK' /\ Held'
<1>1. CASE Aside
  <2>1. TypeOK'
    BY <1>1, AsideStep DEF TypeOK, TokensGrow
  <2>2. Held'
    BY <1>1, AsideStep DEF Held
  <2> QED
    BY <2>1, <2>2
<1>2. ASSUME NEW r \in Requests, Begins(r) PROVE TypeOK' /\ Held'
  <2>1. PICK q \in ReqType :
           /\ Begin(r, q) /\ q.step = "read"
           /\ q.kind # "send" => q.device \in Devices
           /\ q.kind = "verify" => q.used \in DOMAIN codes
           /\ q.kind = "refresh" => q.used \in DOMAIN tokens
    BY <1>2, Beginnings DEF Begins
  <2>2. /\ req' \in [Requests -> ReqType] /\ req'[r] = q
        /\ \A o \in Requests \ {r} : req'[o] = req[o]
        /\ UNCHANGED <<now, codes, user, tokens, signed, exchanged, acts>>
        /\ overlaps' = overlaps \/ overlaps' = overlaps + 1
    BY <2>1, Begun
  <2>3. TypeOK'
    BY <2>2 DEF TypeOK
  <2>4. Held'
    BY <2>1, <2>2 DEF Held
  <2> QED
    BY <2>3, <2>4
<1>3. ASSUME NEW r \in Requests, FinishSend(r) \/ Abort(r) PROVE TypeOK' /\ Held'
  <2>1. TypeOK'
    BY <1>3, ClosedStep, NothingHeld DEF TypeOK, CodesGrow
  <2>2. \A o \in Requests : req'[o] = req[o] \/ req'[o].step = "none"
    BY <1>3, ClosedStep, NothingHeld DEF TypeOK
  <2>3. Held'
    BY <1>3, <2>2, ClosedStep DEF Held, CodesGrow
  <2> QED
    BY <2>1, <2>3
<1>4. ASSUME NEW r \in Requests, Revoke(r) PROVE TypeOK' /\ Held'
  <2>1. TypeOK'
    BY <1>4, RevokedStep DEF TypeOK
  <2>2. Held'
    BY <1>4, RevokedStep DEF Held
  <2> QED
    BY <2>1, <2>2
<1>7. ASSUME NEW r \in Requests, Mint(r) PROVE TypeOK' /\ Held'
  <2>1. TypeOK'
    BY <1>7, MintStep DEF TypeOK
  <2>2. Held'
    BY <1>7, MintStep DEF Held
  <2> QED
    BY <2>1, <2>2
<1>5. ASSUME NEW r \in Requests, Issue(r) PROVE TypeOK' /\ Held'
  <2>1. LastStep(r) /\ req[r].step # "none"
    BY <1>5, IssueStep, IssuesFor
  <2>2. /\ CodesGrow /\ Len(codes') = Len(codes)
        /\ TokensGrow /\ Len(tokens') = Len(tokens) + 1 /\ Len(tokens) < MaxTokens
    BY <1>5, <2>1, IssuedCode, IssuedToken, IssueStep
  <2>3. Len(tokens) \in Nat
    BY Unchanged
  <2>4. req' \in [Requests -> ReqType]
        /\ \A o \in Requests : req'[o] = req[o] \/ req'[o].step = "none"
    BY <1>5, IssueStep, NothingHeld DEF TypeOK
  <2>5. signed' \in [1 .. MaxCodes -> Nat]
    BY <1>5, IssueStep DEF TypeOK
  <2>6. exchanged' \in [1 .. MaxTokens -> Nat]
    BY <1>5, IssueStep DEF TypeOK
  <2>7. TypeOK'
    BY <1>5, <2>2, <2>4, <2>5, <2>6, IssueStep DEF TypeOK, CodesGrow, TokensGrow
  <2>8. Len(codes') <= MaxCodes /\ Len(tokens') <= MaxTokens
    BY <2>2, <2>3, SignInAssumption DEF Held
  <2>9. Held'
    BY <2>2, <2>4, <2>8 DEF Held, CodesGrow, TokensGrow
  <2> QED
    BY <2>7, <2>9
<1>6. CASE UNCHANGED vars
  BY <1>6 DEF vars, TypeOK, Held
<1> QED
  BY <1>1, <1>2, <1>3, <1>4, <1>5, <1>6, <1>7, Steps

\* Every variable keeps to its type, and what a request holds is there.
THEOREM SignInTypeCorrect == Spec => [](TypeOK /\ Held)
<1>1. ASSUME Init PROVE TypeOK /\ Held
  <2>1. codes \in Seq(CodeType) /\ tokens \in Seq(TokenType) /\ Len(codes) = 0 /\ Len(tokens) = 0
    BY <1>1, EmptySeq DEF Init
  <2>2. user \in Row
    BY <1>1 DEF Init, Nobody, Row, Device
  <2>3. req \in [Requests -> ReqType] /\ \A r \in Requests : req[r].step = "none"
    BY <1>1, NothingHeld DEF Init
  <2>4. TypeOK
    BY <1>1, <2>1, <2>2, <2>3 DEF Init, TypeOK
  <2>5. Held
    BY <2>1, <2>3, SignInAssumption DEF Held
  <2> QED
    BY <2>4, <2>5
<1>2. TypeOK /\ Held /\ [Next]_vars => TypeOK' /\ Held'
  BY HeldStep
<1> QED
  BY <1>1, <1>2, PTL DEF Spec

-----------------------------------------------------------------------------
(* Uses of a code and of a token.                                          *)

\* How many requests hold something is a number, no larger when fewer do, one
\* more when one begins to, one less when one lets go.
LEMMA HoldersCounted ==
  ASSUME NEW H, NEW G, H \subseteq Requests, G \subseteq Requests
  PROVE  /\ Cardinality(H) \in Nat
         /\ G \subseteq H => Cardinality(G) <= Cardinality(H)
         /\ \A r \in Requests : G \subseteq H \cup {r} => Cardinality(G) <= Cardinality(H) + 1
         /\ \A r \in H : G \subseteq H \ {r} => Cardinality(G) + 1 <= Cardinality(H)
         /\ H = {} => Cardinality(H) = 0
<1>1. IsFiniteSet(H) /\ IsFiniteSet(G) /\ IsFiniteSet(Requests)
  BY FS_Subset, SignInAssumption
<1>2. Cardinality(H) \in Nat /\ Cardinality(G) \in Nat
  BY <1>1, FS_CardinalityType
<1>3. G \subseteq H => Cardinality(G) <= Cardinality(H)
  BY <1>1, FS_Subset
<1>4. ASSUME NEW r \in Requests, G \subseteq H \cup {r}
      PROVE  Cardinality(G) <= Cardinality(H) + 1
  <2>1. IsFiniteSet(H \cup {r}) /\ Cardinality(H \cup {r}) <= Cardinality(H) + 1
        /\ Cardinality(H \cup {r}) \in Nat
    <3>1. /\ IsFiniteSet(H \cup {r})
          /\ \/ Cardinality(H \cup {r}) = Cardinality(H)
             \/ Cardinality(H \cup {r}) = Cardinality(H) + 1
      BY <1>1, FS_AddElement
    <3> QED
      BY <1>2, <3>1
  <2>2. Cardinality(G) <= Cardinality(H \cup {r})
    BY <1>4, <2>1, FS_Subset
  <2> QED
    BY <1>2, <2>1, <2>2
<1>5. ASSUME NEW r \in H, G \subseteq H \ {r}
      PROVE  Cardinality(G) + 1 <= Cardinality(H)
  <2>1. IsFiniteSet(H \ {r}) /\ Cardinality(H \ {r}) = Cardinality(H) - 1
    BY <1>1, FS_RemoveElement
  <2>2. Cardinality(G) <= Cardinality(H \ {r})
    BY <1>5, <2>1, FS_Subset
  <2> QED
    BY <1>2, <2>1, <2>2
<1>6. H = {} => Cardinality(H) = 0
  BY FS_EmptySet
<1> QED
  BY <1>2, <1>3, <1>4, <1>5, <1>6

\* Who holds a code or a token after a step: nobody who did not, but a request
\* that begins; and a request that has been answered no longer does.
LEMMA HoldersStep ==
  ASSUME TypeOK, Held, [Next]_vars, NEW kind \in {"verify", "refresh"}, NEW n \in Nat
  PROVE  \/ /\ Holding(kind, n)' \subseteq Holding(kind, n)
            /\ overlaps' >= overlaps
            /\ signed' = signed /\ exchanged' = exchanged
         \/ \E r \in Requests :
              /\ req[r].step = "none"
              /\ Holding(kind, n)' \subseteq Holding(kind, n) \cup {r}
              /\ \/ Holding(kind, n) = {} /\ overlaps' = overlaps
                 \/ overlaps' = overlaps + 1
              /\ signed' = signed /\ exchanged' = exchanged
              /\ r \in Holding(kind, n)' =>
                   /\ kind = "verify" => n \in DOMAIN codes /\ ~codes[n].used
                   /\ kind = "refresh" => n \in DOMAIN tokens /\ tokens[n].live
         \/ \E r \in Requests :
              /\ Issue(r) /\ LastStep(r) /\ overlaps' = overlaps
              /\ Holding(kind, n)' \subseteq Holding(kind, n) \ {r}
              /\ r \in Holding(req[r].kind, req[r].used)
<1>1. CASE Aside
  BY <1>1, AsideStep DEF Holding, TypeOK
<1>2. ASSUME NEW r \in Requests, Begins(r)
      PROVE  /\ req[r].step = "none"
             /\ Holding(kind, n)' \subseteq Holding(kind, n) \cup {r}
             /\ \/ Holding(kind, n) = {} /\ overlaps' = overlaps
                \/ overlaps' = overlaps + 1
             /\ signed' = signed /\ exchanged' = exchanged
             /\ r \in Holding(kind, n)' =>
                  /\ kind = "verify" => n \in DOMAIN codes /\ ~codes[n].used
                  /\ kind = "refresh" => n \in DOMAIN tokens /\ tokens[n].live
  <2>1. PICK q \in ReqType :
           /\ Begin(r, q)
           /\ q.kind = "verify" => q.used \in DOMAIN codes /\ ~codes[q.used].used
           /\ q.kind = "refresh" => q.used \in DOMAIN tokens /\ tokens[q.used].live
    BY <1>2, Beginnings DEF Begins
  <2>2. /\ req[r].step = "none" /\ req'[r] = q
        /\ \A o \in Requests \ {r} : req'[o] = req[o]
        /\ signed' = signed /\ exchanged' = exchanged
        /\ \/ AllIdle /\ overlaps' = overlaps
           \/ overlaps' = overlaps + 1
    BY <2>1, Begun
  <2>3. Holding(kind, n)' \subseteq Holding(kind, n) \cup {r}
    BY <2>2 DEF Holding
  <2>4. AllIdle => Holding(kind, n) = {}
    BY DEF AllIdle, Holding
  <2>5. r \in Holding(kind, n)' => q.kind = kind /\ q.used = n
    BY <2>2 DEF Holding
  <2> QED
    BY <2>1, <2>2, <2>3, <2>4, <2>5
<1>3. ASSUME NEW r \in Requests, FinishSend(r) \/ Abort(r)
      PROVE  /\ Holding(kind, n)' \subseteq Holding(kind, n)
             /\ overlaps' = overlaps /\ signed' = signed /\ exchanged' = exchanged
  <2>1. \A o \in Requests : req'[o] = req[o] \/ req'[o].step = "none"
    BY <1>3, ClosedStep, NothingHeld DEF TypeOK
  <2> QED
    BY <1>3, <2>1, ClosedStep DEF Holding
<1>4. ASSUME NEW r \in Requests, Revoke(r) \/ Mint(r)
      PROVE  /\ Holding(kind, n)' \subseteq Holding(kind, n)
             /\ overlaps' = overlaps /\ signed' = signed /\ exchanged' = exchanged
  <2>1. \A o \in Requests : /\ req'[o].kind = req[o].kind /\ req'[o].used = req[o].used
                            /\ req'[o].step # "none" => req[o].step # "none"
    BY <1>4, RevokedStep, MintStep
  <2> QED
    BY <1>4, <2>1, RevokedStep, MintStep DEF Holding
<1>5. ASSUME NEW r \in Requests, Issue(r)
      PROVE  /\ LastStep(r) /\ overlaps' = overlaps
             /\ Holding(kind, n)' \subseteq Holding(kind, n) \ {r}
             /\ r \in Holding(req[r].kind, req[r].used)
  <2>1. LastStep(r) /\ req[r].step # "none" /\ overlaps' = overlaps
    BY <1>5, IssueStep, IssuesFor
  <2>2. req'[r].step = "none" /\ \A o \in Requests \ {r} : req'[o] = req[o]
    BY <1>5, IssueStep, NothingHeld DEF TypeOK
  <2> QED
    BY <2>1, <2>2 DEF Holding
<1>6. CASE UNCHANGED vars
  BY <1>6 DEF vars, Holding, TypeOK
<1>7. overlaps \in Nat
  BY DEF TypeOK
<1>8. CASE \E r \in Requests : Begins(r)
  BY <1>2, <1>8
<1>9. CASE \E r \in Requests : Issue(r)
  BY <1>5, <1>9
<1>10. CASE \/ Aside \/ UNCHANGED vars
            \/ \E r \in Requests : FinishSend(r) \/ Abort(r) \/ Revoke(r) \/ Mint(r)
  BY <1>1, <1>3, <1>4, <1>6, <1>7, <1>10
<1> QED
  BY <1>8, <1>9, <1>10, Steps

\* A step leaves the codes counted.
LEMMA CodesStep ==
  ASSUME TypeOK, Held, CodesCounted, [Next]_vars
  PROVE  CodesCounted'
<1> SUFFICES ASSUME NEW c \in 1 .. MaxCodes
             PROVE  /\ signed'[c] > 0 => c \in DOMAIN codes' /\ codes'[c].used
                    /\ signed'[c] + Cardinality(Holding("verify", c)') <= Uses'
  BY DEF CodesCounted
<1> DEFINE H == Holding("verify", c)
<1>1. /\ signed[c] > 0 => c \in DOMAIN codes /\ codes[c].used
      /\ signed[c] + Cardinality(H) <= 1 + overlaps
  BY DEF CodesCounted, Uses
<1>2. H \subseteq Requests /\ H' \subseteq Requests /\ c \in Nat
  BY SignInAssumption DEF Holding
<1>3. /\ Cardinality(H) \in Nat /\ Cardinality(H') \in Nat
      /\ H' \subseteq H => Cardinality(H') <= Cardinality(H)
      /\ \A r \in Requests : H' \subseteq H \cup {r} => Cardinality(H') <= Cardinality(H) + 1
      /\ \A r \in H : H' \subseteq H \ {r} => Cardinality(H') + 1 <= Cardinality(H)
      /\ H = {} => Cardinality(H) = 0
  BY <1>2, HoldersCounted
<1>4. /\ signed[c] \in Nat /\ overlaps \in Nat /\ TypeOK'
      /\ overlaps' \in Nat /\ signed'[c] \in Nat
  BY HeldStep DEF TypeOK
<1>5. CodesGrow
  <2>1. CASE Aside \/ \E r \in Requests : Begins(r) \/ Revoke(r) \/ Mint(r)
    <3>1. codes' = codes
      BY <2>1, AsideStep, Beginnings, Begun, RevokedStep, MintStep DEF Begins
    <3> QED
      BY <3>1, Unchanged
  <2>2. CASE \E r \in Requests : FinishSend(r) \/ Abort(r)
    BY <2>2, ClosedStep
  <2>3. CASE \E r \in Requests : Issue(r)
    BY <2>3, IssueStep, IssuedCode
  <2>4. CASE UNCHANGED vars
    BY <2>4, Unchanged DEF vars
  <2> QED
    BY <2>1, <2>2, <2>3, <2>4, Steps
<1> HIDE DEF H
<1>6. CASE H' \subseteq H /\ overlaps' >= overlaps /\ signed' = signed
  BY <1>1, <1>3, <1>4, <1>5, <1>6 DEF CodesGrow, Uses, H
<1>7. ASSUME NEW r \in Requests,
             H' \subseteq H \cup {r},
             (H = {} /\ overlaps' = overlaps) \/ overlaps' = overlaps + 1,
             signed' = signed,
             r \in H' => c \in DOMAIN codes /\ ~codes[c].used
      PROVE  /\ signed'[c] > 0 => c \in DOMAIN codes' /\ codes'[c].used
             /\ signed'[c] + Cardinality(H') <= Uses'
  <2>1. signed'[c] > 0 => c \in DOMAIN codes' /\ codes'[c].used
    BY <1>1, <1>5, <1>7 DEF CodesGrow
  <2>2. CASE r \in H'
    <3>1. signed[c] = 0
      BY <1>1, <1>4, <1>7, <2>2
    <3>2. Cardinality(H') <= Cardinality(H) + 1
      BY <1>3, <1>7
    <3> QED
      BY <1>1, <1>3, <1>4, <1>7, <2>1, <3>1, <3>2 DEF Uses
  <2>3. CASE r \notin H'
    <3>1. Cardinality(H') <= Cardinality(H)
      BY <1>3, <1>7, <2>3
    <3> QED
      BY <1>1, <1>3, <1>4, <1>7, <2>1, <3>1 DEF Uses
  <2> QED
    BY <2>2, <2>3
<1>8. ASSUME NEW r \in Requests, Issue(r), LastStep(r), overlaps' = overlaps,
             H' \subseteq H \ {r}, r \in Holding(req[r].kind, req[r].used)
      PROVE  /\ signed'[c] > 0 => c \in DOMAIN codes' /\ codes'[c].used
             /\ signed'[c] + Cardinality(H') <= Uses'
  <2>1. Cardinality(H') <= Cardinality(H)
    BY <1>3, <1>8
  <2>2. signed' = IF req[r].kind = "verify" THEN [signed EXCEPT ![req[r].used] = @ + 1] ELSE signed
    BY <1>8, IssueStep
  <2>3. CASE req[r].kind = "verify" /\ req[r].used = c
    <3>1. r \in H
      BY <1>8, <2>3 DEF H
    <3>2. signed'[c] = signed[c] + 1
      BY <2>2, <2>3 DEF TypeOK
    <3>3. Cardinality(H') + 1 <= Cardinality(H)
      BY <1>3, <1>8, <3>1
    <3>4. codes'[c].used /\ c \in DOMAIN codes /\ c \in DOMAIN codes'
      <4>1. c \in DOMAIN codes
        BY <1>8, <2>3, IssuesFor DEF Held
      <4> QED
        BY <1>5, <1>8, <2>3, <4>1, IssuedCode DEF CodesGrow
    <3> QED
      BY <1>1, <1>3, <1>4, <1>8, <3>2, <3>3, <3>4 DEF Uses
  <2>4. CASE ~(req[r].kind = "verify" /\ req[r].used = c)
    <3>1. signed'[c] = signed[c]
      BY <2>2, <2>4 DEF TypeOK
    <3> QED
      BY <1>1, <1>3, <1>4, <1>5, <1>8, <2>1, <3>1 DEF Uses, CodesGrow
  <2> QED
    BY <2>3, <2>4
<1> USE DEF H
<1> QED
  BY <1>2, <1>6, <1>7, <1>8, HoldersStep

\* And the tokens.
LEMMA TokensStep ==
  ASSUME TypeOK, Held, TokensCounted, [Next]_vars
  PROVE  TokensCounted'
<1> SUFFICES ASSUME NEW t \in 1 .. MaxTokens
             PROVE  /\ exchanged'[t] > 0 => t \in DOMAIN tokens' /\ ~tokens'[t].live
                    /\ exchanged'[t] + Cardinality(Holding("refresh", t)') <= Uses'
  BY DEF TokensCounted
<1> DEFINE H == Holding("refresh", t)
<1>1. /\ exchanged[t] > 0 => t \in DOMAIN tokens /\ ~tokens[t].live
      /\ exchanged[t] + Cardinality(H) <= 1 + overlaps
  BY DEF TokensCounted, Uses
<1>2. H \subseteq Requests /\ H' \subseteq Requests /\ t \in Nat
  BY SignInAssumption DEF Holding
<1>3. /\ Cardinality(H) \in Nat /\ Cardinality(H') \in Nat
      /\ H' \subseteq H => Cardinality(H') <= Cardinality(H)
      /\ \A r \in Requests : H' \subseteq H \cup {r} => Cardinality(H') <= Cardinality(H) + 1
      /\ \A r \in H : H' \subseteq H \ {r} => Cardinality(H') + 1 <= Cardinality(H)
      /\ H = {} => Cardinality(H) = 0
  BY <1>2, HoldersCounted
<1>4. /\ exchanged[t] \in Nat /\ overlaps \in Nat /\ TypeOK'
      /\ overlaps' \in Nat /\ exchanged'[t] \in Nat
  BY HeldStep DEF TypeOK
<1>5. TokensGrow
  <2>1. CASE Aside
    BY <2>1, AsideStep
  <2>2. CASE \E r \in Requests : Begins(r) \/ Revoke(r) \/ Mint(r) \/ FinishSend(r) \/ Abort(r)
    <3>1. tokens' = tokens
      BY <2>2, Beginnings, Begun, RevokedStep, MintStep, ClosedStep DEF Begins
    <3> QED
      BY <3>1, Unchanged
  <2>3. CASE \E r \in Requests : Issue(r)
    BY <2>3, IssueStep, IssuedToken
  <2>4. CASE UNCHANGED vars
    BY <2>4, Unchanged DEF vars
  <2> QED
    BY <2>1, <2>2, <2>3, <2>4, Steps
<1> HIDE DEF H
<1>6. CASE H' \subseteq H /\ overlaps' >= overlaps /\ exchanged' = exchanged
  BY <1>1, <1>3, <1>4, <1>5, <1>6 DEF TokensGrow, Uses, H
<1>7. ASSUME NEW r \in Requests,
             H' \subseteq H \cup {r},
             (H = {} /\ overlaps' = overlaps) \/ overlaps' = overlaps + 1,
             exchanged' = exchanged,
             r \in H' => t \in DOMAIN tokens /\ tokens[t].live
      PROVE  /\ exchanged'[t] > 0 => t \in DOMAIN tokens' /\ ~tokens'[t].live
             /\ exchanged'[t] + Cardinality(H') <= Uses'
  <2>1. exchanged'[t] > 0 => t \in DOMAIN tokens' /\ ~tokens'[t].live
    BY <1>1, <1>5, <1>7 DEF TokensGrow
  <2>2. CASE r \in H'
    <3>1. exchanged[t] = 0
      BY <1>1, <1>4, <1>7, <2>2
    <3>2. Cardinality(H') <= Cardinality(H) + 1
      BY <1>3, <1>7
    <3> QED
      BY <1>1, <1>3, <1>4, <1>7, <2>1, <3>1, <3>2 DEF Uses
  <2>3. CASE r \notin H'
    <3>1. Cardinality(H') <= Cardinality(H)
      BY <1>3, <1>7, <2>3
    <3> QED
      BY <1>1, <1>3, <1>4, <1>7, <2>1, <3>1 DEF Uses
  <2> QED
    BY <2>2, <2>3
<1>8. ASSUME NEW r \in Requests, Issue(r), LastStep(r), overlaps' = overlaps,
             H' \subseteq H \ {r}, r \in Holding(req[r].kind, req[r].used)
      PROVE  /\ exchanged'[t] > 0 => t \in DOMAIN tokens' /\ ~tokens'[t].live
             /\ exchanged'[t] + Cardinality(H') <= Uses'
  <2>1. Cardinality(H') <= Cardinality(H)
    BY <1>3, <1>8
  <2>2. exchanged' = IF req[r].kind = "refresh" THEN [exchanged EXCEPT ![req[r].used] = @ + 1] ELSE exchanged
    BY <1>8, IssueStep
  <2>3. CASE req[r].kind = "refresh" /\ req[r].used = t
    <3>1. r \in H
      BY <1>8, <2>3 DEF H
    <3>2. exchanged'[t] = exchanged[t] + 1
      BY <2>2, <2>3 DEF TypeOK
    <3>3. Cardinality(H') + 1 <= Cardinality(H)
      BY <1>3, <1>8, <3>1
    <3>4. t \in DOMAIN tokens' /\ ~tokens'[t].live
      <4>1. t \in DOMAIN tokens /\ t \in Ended(req[r])
        BY <1>8, <2>3, IssuesFor DEF Held, Ended
      <4> QED
        BY <1>5, <1>8, <4>1, IssuedToken DEF TokensGrow
    <3> QED
      BY <1>1, <1>3, <1>4, <1>8, <3>2, <3>3, <3>4 DEF Uses
  <2>4. CASE ~(req[r].kind = "refresh" /\ req[r].used = t)
    <3>1. exchanged'[t] = exchanged[t]
      BY <2>2, <2>4 DEF TypeOK
    <3> QED
      BY <1>1, <1>3, <1>4, <1>5, <1>8, <2>1, <3>1 DEF Uses, TokensGrow
  <2> QED
    BY <2>3, <2>4
<1> USE DEF H
<1> QED
  BY <1>2, <1>6, <1>7, <1>8, HoldersStep

\* A code signs in once and a refresh token is exchanged once, but for one more
\* time for every request that began beside another one.
THEOREM UsesAreCounted == Spec => []UsedOnce
<1>1. ASSUME Init PROVE CodesCounted /\ TokensCounted
  <2>1. \A kind, n : Holding(kind, n) = {}
    BY <1>1, NothingHeld DEF Init, Holding
  <2>2. \A kind, n : Cardinality(Holding(kind, n)) = 0
    BY <2>1, FS_EmptySet
  <2>3. overlaps = 0 /\ (\A c \in 1 .. MaxCodes : signed[c] = 0)
        /\ \A t \in 1 .. MaxTokens : exchanged[t] = 0
    BY <1>1 DEF Init
  <2> QED
    BY <2>2, <2>3 DEF CodesCounted, TokensCounted, Uses
<1>2. TypeOK /\ Held /\ CodesCounted /\ TokensCounted /\ [Next]_vars
        => CodesCounted' /\ TokensCounted'
  BY CodesStep, TokensStep
<1>3. ASSUME TypeOK, CodesCounted, TokensCounted PROVE UsedOnce
  <2>1. \A kind, n : Cardinality(Holding(kind, n)) \in Nat
    <3> SUFFICES ASSUME NEW kind, NEW n PROVE Cardinality(Holding(kind, n)) \in Nat
      OBVIOUS
    <3>1. Holding(kind, n) \subseteq Requests
      BY DEF Holding
    <3> QED
      BY <3>1, HoldersCounted
  <2>2. signed \in [1 .. MaxCodes -> Nat] /\ exchanged \in [1 .. MaxTokens -> Nat]
        /\ overlaps \in Nat
    BY <1>3 DEF TypeOK
  <2> QED
    BY <1>3, <2>1, <2>2 DEF CodesCounted, TokensCounted, UsedOnce, Uses
<1> QED
  BY <1>1, <1>2, <1>3, SignInTypeCorrect, PTL DEF Spec

-----------------------------------------------------------------------------
(* One phone.                                                              *)

\* What OneAtATime says of the requests and of the account.
LEMMA ShrinkingHolds ==
  ASSUME TypeOK, Alone, OnePhone, overlaps = 0,
         \A r \in Requests : WillHold(req[r]),
         TokensGrow, LiveTokens' \subseteq LiveTokens,
         user'.active \in {None, user.active}, overlaps' = overlaps,
         \A r \in Requests : req'[r] = req[r] \/ req'[r].step = "none"
  PROVE  Alone' /\ OnePhone' /\ \A r \in Requests : WillHold(req[r])'
<1>1. \A t \in LiveTokens' : t \in LiveTokens /\ tokens'[t].device = tokens[t].device
  BY DEF LiveTokens, TokensGrow
<1>2. Alone'
  BY DEF Alone
<1>3. OnePhone'
  BY <1>1 DEF OnePhone
<1>4. ASSUME NEW r \in Requests PROVE WillHold(req[r])'
  <2>1. CASE req'[r].step = "none"
    BY <2>1 DEF WillHold
  <2>2. CASE req'[r] = req[r]
    BY <1>1, <2>2 DEF WillHold, TakesOver
  <2> QED
    BY <2>1, <2>2
<1> QED
  BY <1>2, <1>3, <1>4

LEMMA OneAtATimeStep ==
  ASSUME TypeOK, Held, OneAtATime, [Next]_vars
  PROVE  OneAtATime'
<1> SUFFICES ASSUME overlaps' = 0
             PROVE  Alone' /\ OnePhone' /\ \A r \in Requests : WillHold(req[r])'
  BY DEF OneAtATime
<1>1. overlaps \in Nat
  BY DEF TypeOK
<1>2. ASSUME overlaps' = overlaps
      PROVE  /\ overlaps = 0 /\ Alone /\ OnePhone
             /\ \A r \in Requests : WillHold(req[r])
  BY <1>2 DEF OneAtATime
<1>3. CASE Aside
  <2>1. /\ overlaps' = overlaps /\ req' = req /\ TokensGrow
        /\ DOMAIN tokens' = DOMAIN tokens
        /\ \A t \in DOMAIN tokens : tokens'[t].live => tokens[t].live
        /\ user'.active \in {None, user.active}
    BY <1>3, AsideStep
  <2>2. LiveTokens' \subseteq LiveTokens
    BY <2>1 DEF LiveTokens
  <2> QED
    BY <1>2, <2>1, <2>2, ShrinkingHolds
<1>4. ASSUME NEW r \in Requests, FinishSend(r) \/ Abort(r)
      PROVE  Alone' /\ OnePhone' /\ \A o \in Requests : WillHold(req[o])'
  <2>1. /\ overlaps' = overlaps /\ user' = user /\ tokens' = tokens
        /\ \A o \in Requests : req'[o] = req[o] \/ req'[o].step = "none"
    BY <1>4, ClosedStep, NothingHeld DEF TypeOK
  <2>2. LiveTokens' \subseteq LiveTokens /\ TokensGrow
    BY <2>1, Unchanged DEF LiveTokens
  <2> QED
    BY <1>2, <2>1, <2>2, ShrinkingHolds
<1>5. ASSUME NEW r \in Requests, Revoke(r)
      PROVE  Alone' /\ OnePhone' /\ \A o \in Requests : WillHold(req[o])'
  <2>1. /\ UNCHANGED <<user, tokens, overlaps>>
        /\ req[r].step # "none" /\ req'[r].step = "revoked" /\ req'[r].cut = LiveTokens
        /\ req'[r].device = req[r].device /\ req'[r].saw = req[r].saw
        /\ \A o \in Requests \ {r} : req'[o] = req[o]
        /\ TakesOver(req[r])
    BY <1>5, RevokedStep
  <2>2. Alone' /\ OnePhone'
    BY <1>2, <2>1 DEF Alone, OnePhone, LiveTokens
  <2>3. LiveTokens' = LiveTokens
    BY <2>1 DEF LiveTokens
  <2>4. WillHold(req[r])'
    BY <2>1, <2>3 DEF WillHold, TakesOver
  <2>5. ASSUME NEW o \in Requests \ {r} PROVE WillHold(req[o])'
    BY <1>2, <2>1, <2>3 DEF WillHold, TakesOver
  <2> QED
    BY <2>2, <2>4, <2>5
<1>6. ASSUME NEW r \in Requests, Begins(r)
      PROVE  Alone' /\ OnePhone' /\ \A o \in Requests : WillHold(req[o])'
  <2>1. PICK q \in ReqType :
           /\ Begin(r, q) /\ q.step = "read"
           /\ q.kind # "send" => q.device \in Devices /\ q.saw = user
    BY <1>6, Beginnings DEF Begins
  <2>2. /\ req'[r] = q /\ \A o \in Requests \ {r} : req'[o] = req[o]
        /\ UNCHANGED <<user, tokens>>
        /\ \/ AllIdle /\ overlaps' = overlaps
           \/ overlaps' = overlaps + 1
    BY <2>1, Begun
  <2>3. overlaps' = overlaps /\ \A o \in Requests \ {r} : req'[o].step = "none"
    BY <1>1, <2>2 DEF AllIdle
  <2>4. LiveTokens' = LiveTokens
    BY <2>2 DEF LiveTokens
  <2>5. Alone' /\ OnePhone'
    BY <1>2, <2>2, <2>3, <2>4 DEF Alone, OnePhone
  <2>6. ASSUME q.kind # "send", ~TakesOver(q)
        PROVE  user.active = q.device /\ \A t \in LiveTokens : tokens[t].device = q.device
    <3>1. user.active = q.device /\ q.device # None
      BY <2>1, <2>6, SignInAssumption DEF TakesOver
    <3> QED
      BY <1>2, <2>3, <3>1 DEF OnePhone
  <2>7. WillHold(q)'
    BY <2>1, <2>2, <2>4, <2>6 DEF WillHold, TakesOver
  <2>8. \A o \in Requests : WillHold(req[o])'
    BY <2>2, <2>3, <2>7 DEF WillHold
  <2> QED
    BY <2>5, <2>8
<1>7. ASSUME NEW r \in Requests, Issue(r)
      PROVE  Alone' /\ OnePhone' /\ \A o \in Requests : WillHold(req[o])'
  <2>1. /\ LastStep(r) /\ overlaps' = overlaps /\ user' = Returned(req[r])
        /\ req' = [req EXCEPT ![r] = NoReq]
    BY <1>7, IssueStep
  <2>2. /\ req[r].step # "none" /\ req[r].kind # "send"
        /\ TakesOver(req[r]) => req[r].step = "revoked"
    BY <2>1, IssuesFor
  <2>3. \A o \in Requests : req'[o].step = "none"
    BY <1>2, <2>1, <2>2, NothingHeld DEF Alone, TypeOK
  <2>4. Alone' /\ \A o \in Requests : WillHold(req[o])'
    BY <2>3 DEF Alone, WillHold
  <2>5. WillHold(req[r])
    BY <1>2, <2>1
  <2>6. user'.active \in {None, req[r].device}
    BY <2>1, <2>2, <2>5 DEF Returned, WillHold
  <2>7. ASSUME NEW t \in LiveTokens' PROVE tokens'[t].device = req[r].device
    <3>1. /\ TokensGrow /\ DOMAIN tokens' = DOMAIN tokens \cup {Len(tokens) + 1}
          /\ \A x \in DOMAIN tokens : tokens'[x].live => tokens[x].live /\ x \notin Ended(req[r])
          /\ tokens'[Len(tokens) + 1].device = req[r].device
      BY <1>7, <2>1, IssuedToken
    <3>2. CASE t = Len(tokens) + 1
      BY <3>1, <3>2
    <3>3. CASE t \in DOMAIN tokens
      <4>1. t \in LiveTokens /\ t \notin req[r].cut /\ tokens'[t].device = tokens[t].device
        BY <3>1, <3>3 DEF LiveTokens, TokensGrow, Ended
      <4>2. ~TakesOver(req[r])
        BY <2>2, <2>5, <4>1 DEF WillHold
      <4> QED
        BY <2>2, <2>5, <4>1, <4>2 DEF WillHold
    <3> QED
      BY <3>1, <3>2, <3>3 DEF LiveTokens
  <2>8. OnePhone'
    BY <2>6, <2>7 DEF OnePhone
  <2> QED
    BY <2>4, <2>8
<1>8. CASE UNCHANGED vars
  BY <1>2, <1>8 DEF vars, Alone, OnePhone, WillHold, TakesOver, LiveTokens
<1>9. ASSUME NEW r \in Requests, Mint(r)
      PROVE  Alone' /\ OnePhone' /\ \A o \in Requests : WillHold(req[o])'
  <2>1. /\ UNCHANGED <<user, tokens, overlaps>>
        /\ req[r].step # "none" /\ req'[r].step # "revoked" /\ req'[r].kind = "send"
        /\ \A o \in Requests \ {r} : req'[o] = req[o]
    BY <1>9, MintStep
  <2>2. LiveTokens' = LiveTokens
    BY <2>1 DEF LiveTokens
  <2>3. Alone' /\ OnePhone'
    BY <1>2, <2>1, <2>2 DEF Alone, OnePhone
  <2>4. WillHold(req[r])'
    BY <2>1 DEF WillHold
  <2>5. ASSUME NEW o \in Requests \ {r} PROVE WillHold(req[o])'
    BY <1>2, <2>1, <2>2 DEF WillHold, TakesOver
  <2> QED
    BY <2>3, <2>4, <2>5
<1> QED
  BY <1>3, <1>4, <1>5, <1>6, <1>7, <1>8, <1>9, Steps

\* As long as no request began beside another one, the tokens that still work
\* belong to one phone, the one whose session it is.
THEOREM OnePhoneHolds == Spec => []OnePhone
<1>1. ASSUME Init PROVE OneAtATime
  BY <1>1, NothingHeld DEF Init, OneAtATime, Alone, OnePhone, LiveTokens, WillHold
<1>2. TypeOK /\ Held /\ OneAtATime /\ [Next]_vars => OneAtATime'
  BY OneAtATimeStep
<1>3. OneAtATime => OnePhone
  BY DEF OneAtATime, OnePhone
<1> QED
  BY <1>1, <1>2, <1>3, SignInTypeCorrect, PTL DEF Spec

-----------------------------------------------------------------------------
(* Codes in an hour, and codes that are live.                              *)

\* The sends under way.
Sends == {r \in Requests : req[r].step # "none" /\ req[r].kind = "send"}

\* The codes, and the sends, whose time is in the hour that begins at h.
SentIn(h) == {c \in DOMAIN codes : h <= codes[c].at /\ codes[c].at < h + Hour}
SendingIn(h) == {r \in Sends : h <= req[r].at /\ req[r].at < h + Hour}

\* Nothing is dated later than now, and an hour has no more codes and sends
\* than may be sent and one for each overlap.
HourCounted ==
  /\ \A c \in DOMAIN codes : codes[c].at <= now
  /\ \A r \in Sends : req[r].at <= now
  /\ \A h \in Nat : Cardinality(SentIn(h)) + Cardinality(SendingIn(h)) <= MaxSends + overlaps

\* The codes that will outlast a send: committed since it read.
Fresh(r) == IF req[r].step = "read" THEN {} ELSE Outstanding \ req[r].cut

\* A send adds a code of its own to those it does not consume, and so do the
\* sends that commit before it.
LiveCounted ==
  /\ Cardinality(Outstanding) <= Uses
  /\ \A r \in Sends : Cardinality(Fresh(r)) + Cardinality(Sends) <= Uses

\* What a step is to the codes: nothing but some of them used up or a send
\* given up;
Quiet ==
  /\ DOMAIN codes' = DOMAIN codes /\ \A c \in DOMAIN codes : codes'[c].at = codes[c].at
  /\ Outstanding' \subseteq Outstanding
  /\ Sends' \subseteq Sends
  /\ \A r \in Sends' : req'[r].at = req[r].at /\ Fresh(r)' \subseteq Fresh(r)
  /\ now' \in Nat /\ now' >= now /\ overlaps' \in Nat /\ overlaps' >= overlaps

\* a send that begins;
Sending(r) ==
  /\ ~Throttled
  /\ codes' = codes /\ now' = now
  /\ Sends' = Sends \cup {r} /\ r \in Requests \ Sends
  /\ req'[r].at = now /\ Fresh(r)' = {}
  /\ \A o \in Sends : req'[o].at = req[o].at /\ Fresh(o)' = Fresh(o)
  /\ \/ Sends = {} /\ overlaps' = overlaps
     \/ overlaps' = overlaps + 1

\* or one that commits its code.
Sent(r) ==
  LET n == Len(codes) + 1 IN
  /\ r \in Sends /\ Sends' = Sends \ {r}
  /\ DOMAIN codes' = DOMAIN codes \cup {n}
  /\ codes'[n].at = req[r].at /\ \A c \in DOMAIN codes : codes'[c].at = codes[c].at
  /\ Outstanding' \subseteq Fresh(r) \cup {n}
  /\ \A o \in Sends' : req'[o].at = req[o].at /\ Fresh(o)' \subseteq Fresh(o) \cup {n}
  /\ now' = now /\ overlaps' = overlaps

LEMMA NothingSent ==
  ASSUME TypeOK
  PROVE  /\ codes' = codes => Outstanding' = Outstanding
         /\ codes' = codes /\ req' = req => Sends' = Sends /\ \A r \in Requests : Fresh(r)' = Fresh(r)
  BY DEF Outstanding, Sends, Fresh

LEMMA BeginsSending ==
  ASSUME TypeOK, Held, NEW r \in Requests, Begins(r)
  PROVE  Quiet \/ Sending(r)
<1>1. CASE BeginSend(r)
  <2> DEFINE q == [NoReq EXCEPT !.step = "read", !.at = now]
  <2>1. q \in ReqType /\ q.kind = "send" /\ q.step = "read" /\ q.at = now
    BY DEF NoReq, Nobody, ReqType, Row, Device, TypeOK
  <2>2. Begin(r, q) /\ ~Throttled
    BY <1>1 DEF BeginSend
  <2> HIDE DEF q
  <2>3. /\ req[r].step = "none" /\ req'[r] = q
        /\ \A o \in Requests \ {r} : req'[o] = req[o]
        /\ codes' = codes /\ now' = now
        /\ \/ AllIdle /\ overlaps' = overlaps
           \/ overlaps' = overlaps + 1
    BY <2>1, <2>2, Begun
  <2>4. Outstanding' = Outstanding
    BY <2>3, NothingSent
  <2>5. Sends' = Sends \cup {r} /\ r \in Requests \ Sends
    BY <2>1, <2>3 DEF Sends
  <2>6. Fresh(r)' = {} /\ \A o \in Sends : req'[o].at = req[o].at /\ Fresh(o)' = Fresh(o)
    BY <2>1, <2>3, <2>4, <2>5 DEF Fresh, Sends
  <2>7. AllIdle => Sends = {}
    BY DEF AllIdle, Sends
  <2> QED
    BY <2>1, <2>2, <2>3, <2>5, <2>6, <2>7 DEF Sending
<1>2. CASE \/ \E d \in Devices : BeginGoogle(r, d) \/ \E c \in DOMAIN codes : BeginVerify(r, d, c)
           \/ \E t \in DOMAIN tokens : BeginRefresh(r, t)
  <2>1. PICK q : Begin(r, q) /\ q.kind # "send"
    <3>1. \A kind, d, used : SignInOf(kind, d, used).kind = kind
      BY DEF SignInOf, NoReq
    <3> QED
      BY <1>2, <3>1 DEF BeginGoogle, BeginVerify, BeginRefresh
  <2>2. /\ req[r].step = "none" /\ req'[r] = q
        /\ \A o \in Requests \ {r} : req'[o] = req[o]
        /\ codes' = codes /\ now' = now /\ (overlaps' = overlaps \/ overlaps' = overlaps + 1)
    BY <2>1 DEF Begin, TypeOK, tables
  <2>3. Outstanding' = Outstanding
    BY <2>2, NothingSent
  <2>4. Sends' = Sends
    BY <2>1, <2>2 DEF Sends
  <2>5. \A o \in Sends : req'[o].at = req[o].at /\ Fresh(o)' = Fresh(o)
    BY <2>2, <2>3 DEF Fresh, Sends
  <2>6. now \in Nat /\ overlaps \in Nat
    BY DEF TypeOK
  <2> QED
    BY <2>2, <2>3, <2>4, <2>5, <2>6 DEF Quiet
<1> QED
  BY <1>1, <1>2 DEF Begins

LEMMA MintsQuietly ==
  ASSUME TypeOK, Held, NEW r \in Requests, Mint(r)
  PROVE  Quiet
<1>1. /\ codes' = codes /\ now' = now /\ overlaps' = overlaps
      /\ req[r].step \in {"read", "waiting"} /\ req[r].kind = "send"
      /\ req'[r].step \in {"waiting", "minted"} /\ req'[r].kind = "send" /\ req'[r].at = req[r].at
      /\ req'[r].cut = IF req[r].step = "read" THEN Outstanding ELSE req[r].cut
      /\ \A o \in Requests \ {r} : req'[o] = req[o]
  BY MintStep
<1>2. Outstanding' = Outstanding
  BY <1>1, NothingSent
<1>3. Sends' = Sends
  BY <1>1 DEF Sends
<1>4. Fresh(r)' \subseteq Fresh(r)
  BY <1>1, <1>2 DEF Fresh
<1>5. \A o \in Sends \ {r} : req'[o].at = req[o].at /\ Fresh(o)' = Fresh(o)
  BY <1>1, <1>2 DEF Fresh, Sends
<1>6. now \in Nat /\ overlaps \in Nat
  BY DEF TypeOK
<1> QED
  BY <1>1, <1>2, <1>3, <1>4, <1>5, <1>6 DEF Quiet

LEMMA SendsCommit ==
  ASSUME TypeOK, Held, NEW r \in Requests, FinishSend(r)
  PROVE  Sent(r)
<1> DEFINE f == [c \in DOMAIN codes |->
                   IF c \in req[r].cut THEN [codes[c] EXCEPT !.used = TRUE] ELSE codes[c]]
           e == [at |-> req[r].at, used |-> FALSE]
           n == Len(codes) + 1
<1>1. codes \in Seq(CodeType) /\ \A c \in DOMAIN codes : codes[c] \in CodeType
  BY ElementOfSeq, LenProperties DEF TypeOK
<1>2. \A c \in DOMAIN codes : /\ f[c] \in CodeType /\ f[c].at = codes[c].at
                              /\ ~f[c].used => ~codes[c].used /\ c \notin req[r].cut
  <2> SUFFICES ASSUME NEW c \in DOMAIN codes
               PROVE  /\ f[c] \in CodeType /\ f[c].at = codes[c].at
                      /\ ~f[c].used => ~codes[c].used /\ c \notin req[r].cut
    OBVIOUS
  <2>1. CASE c \in req[r].cut
    BY <1>1, <2>1 DEF CodeType
  <2>2. CASE c \notin req[r].cut
    BY <1>1, <2>2 DEF CodeType
  <2> QED
    BY <2>1, <2>2
<1>3. e \in CodeType /\ e.at = req[r].at
  BY DEF TypeOK, ReqType, CodeType
<1>4. codes' = Append(f, e) /\ f = [c \in DOMAIN codes |-> f[c]]
  BY DEF FinishSend
<1> HIDE DEF f, e
<1>5. f \in Seq(CodeType) /\ Len(f) = Len(codes) /\ DOMAIN f = DOMAIN codes
  BY <1>1, <1>2, <1>4, Rewritten
<1>6. /\ DOMAIN f = 1 .. Len(f) /\ DOMAIN Append(f, e) = 1 .. Len(f) + 1
      /\ \A i \in DOMAIN f : Append(f, e)[i] = f[i]
      /\ Append(f, e)[Len(f) + 1] = e
  BY <1>3, <1>5, Appended
<1>7. Len(codes) \in Nat
  BY Unchanged
<1>8. /\ DOMAIN codes' = DOMAIN codes \cup {n} /\ codes'[n] = e
      /\ \A c \in DOMAIN codes : codes'[c] = f[c]
  BY <1>4, <1>5, <1>6, <1>7
<1>9. /\ req[r].step = "minted" /\ req' = [req EXCEPT ![r] = NoReq]
      /\ now' = now /\ overlaps' = overlaps
  BY DEF FinishSend, End
<1>10. r \in Sends /\ Sends' = Sends \ {r}
  BY <1>9, NothingHeld DEF Sends, TypeOK, Held
<1>11. Outstanding' \subseteq (Outstanding \ req[r].cut) \cup {n}
  BY <1>2, <1>8 DEF Outstanding
<1>12. Fresh(r) = Outstanding \ req[r].cut
  BY <1>9 DEF Fresh
<1>13. Outstanding' \subseteq Outstanding \cup {n}
  BY <1>11
<1>14. \A o \in Sends' : req'[o] = req[o]
  BY <1>9, <1>10 DEF TypeOK, Sends
<1>15. \A o \in Sends' : req'[o].at = req[o].at /\ Fresh(o)' \subseteq Fresh(o) \cup {n}
  BY <1>13, <1>14 DEF Fresh
<1> QED
  BY <1>2, <1>3, <1>8, <1>9, <1>10, <1>11, <1>12, <1>15 DEF Sent

LEMMA IssuesQuietly ==
  ASSUME TypeOK, Held, NEW r \in Requests, Issue(r)
  PROVE  Quiet
<1>1. /\ req' = [req EXCEPT ![r] = NoReq] /\ now' = now /\ overlaps' = overlaps
      /\ req[r].kind # "send"
  BY IssueStep, IssuesFor
<1>2. Sends' = Sends /\ \A o \in Sends : req'[o] = req[o]
  BY <1>1, NothingHeld DEF Sends, TypeOK
<1>3. /\ DOMAIN codes' = DOMAIN codes
      /\ \A c \in DOMAIN codes : codes'[c].at = codes[c].at /\ (codes[c].used => codes'[c].used)
  <2>1. CASE req[r].kind # "verify"
    BY <2>1 DEF Issue
  <2>2. CASE req[r].kind = "verify"
    <3>1. codes' = [codes EXCEPT ![req[r].used].used = TRUE]
      BY <2>2 DEF Issue
    <3>2. \A c \in DOMAIN codes : codes[c] \in CodeType
      BY ElementOfSeq, LenProperties DEF TypeOK
    <3> QED
      BY <3>1, <3>2 DEF CodeType
  <2> QED
    BY <2>1, <2>2
<1>4. Outstanding' \subseteq Outstanding
  BY <1>3 DEF Outstanding
<1>5. \A o \in Sends : Fresh(o)' \subseteq Fresh(o)
  BY <1>2, <1>4 DEF Fresh
<1>6. now \in Nat /\ overlaps \in Nat
  BY DEF TypeOK
<1> QED
  BY <1>1, <1>2, <1>3, <1>4, <1>5, <1>6 DEF Quiet

\* Every step is one of these.
LEMMA SendsStep ==
  ASSUME TypeOK, Held, [Next]_vars
  PROVE  Quiet \/ \E r \in Requests : Sending(r) \/ Sent(r)
<1>1. now \in Nat /\ overlaps \in Nat
  BY DEF TypeOK
<1>2. CASE Aside \/ UNCHANGED vars
  <2>1. codes' = codes /\ req' = req /\ overlaps' = overlaps
    BY <1>2, AsideStep DEF vars
  <2>2. now' \in Nat /\ now' >= now
    <3>1. CASE Tick
      BY <1>1, <3>1 DEF Tick
    <3>2. CASE ResetDevice \/ DeleteUser \/ RestoreUser \/ UNCHANGED vars
      BY <1>1, <3>2 DEF ResetDevice, DeleteUser, RestoreUser, Rewrite, vars
    <3>3. CASE \E d \in Devices : DeleteMe(d) \/ \E which \in {{d}, Devices} : Logout(d, which)
      <4>1. now' = now
        BY <3>3 DEF DeleteMe, Logout
      <4> QED
        BY <1>1, <4>1
    <3> QED
      BY <1>2, <3>1, <3>2, <3>3 DEF Aside
  <2>3. Outstanding' = Outstanding /\ Sends' = Sends /\ \A r \in Requests : Fresh(r)' = Fresh(r)
    BY <2>1, NothingSent
  <2>4. Sends \subseteq Requests
    BY DEF Sends
  <2> QED
    BY <1>1, <2>1, <2>2, <2>3, <2>4 DEF Quiet
<1>3. ASSUME NEW r \in Requests, Abort(r) PROVE Quiet
  <2>1. /\ req' = [req EXCEPT ![r] = NoReq] /\ codes' = codes /\ now' = now /\ overlaps' = overlaps
    BY <1>3 DEF Abort, End, tables
  <2>2. Outstanding' = Outstanding
    BY <2>1, NothingSent
  <2>3. Sends' \subseteq Sends /\ \A o \in Sends' : req'[o] = req[o]
    BY <2>1, NothingHeld DEF Sends, TypeOK
  <2>4. \A o \in Sends' : Fresh(o)' \subseteq Fresh(o)
    BY <2>2, <2>3 DEF Fresh
  <2> QED
    BY <1>1, <2>1, <2>2, <2>3, <2>4 DEF Quiet
<1>4. ASSUME NEW r \in Requests, Revoke(r) PROVE Quiet
  <2>1. /\ codes' = codes /\ now' = now /\ overlaps' = overlaps
        /\ req[r].kind # "send" /\ req'[r].kind = req[r].kind
        /\ \A o \in Requests \ {r} : req'[o] = req[o]
    BY <1>4, RevokedStep
  <2>2. Outstanding' = Outstanding
    BY <2>1, NothingSent
  <2>3. Sends' = Sends /\ \A o \in Sends' : req'[o] = req[o]
    BY <2>1 DEF Sends
  <2>4. \A o \in Sends' : Fresh(o)' \subseteq Fresh(o)
    BY <2>2, <2>3 DEF Fresh
  <2> QED
    BY <1>1, <2>1, <2>2, <2>3, <2>4 DEF Quiet
<1> QED
  BY <1>2, <1>3, <1>4, BeginsSending, MintsQuietly, SendsCommit, IssuesQuietly, Steps

\* Sets of codes are finite, as those of requests are; a set in another and one
\* element has at most one more.
LEMMA CodeSets ==
  ASSUME TypeOK, NEW A, NEW B, B \subseteq 1 .. Len(codes)
  PROVE  /\ Cardinality(B) \in Nat /\ IsFiniteSet(B)
         /\ A \subseteq B => Cardinality(A) \in Nat /\ Cardinality(A) <= Cardinality(B)
         /\ \A x : A \subseteq B \cup {x} => Cardinality(A) \in Nat /\ Cardinality(A) <= Cardinality(B) + 1
<1>1. IsFiniteSet(B)
  <2>1. IsFiniteSet(1 .. Len(codes))
    BY Unchanged, FS_Interval
  <2> QED
    BY <2>1, FS_Subset
<1>2. Cardinality(B) \in Nat
  BY <1>1, FS_CardinalityType
<1>3. ASSUME A \subseteq B PROVE Cardinality(A) \in Nat /\ Cardinality(A) <= Cardinality(B)
  <2>1. IsFiniteSet(A) /\ Cardinality(A) <= Cardinality(B)
    BY <1>1, <1>3, FS_Subset
  <2> QED
    BY <2>1, FS_CardinalityType
<1>4. ASSUME NEW x, A \subseteq B \cup {x}
      PROVE  Cardinality(A) \in Nat /\ Cardinality(A) <= Cardinality(B) + 1
  <2>1. IsFiniteSet(B \cup {x}) /\ (\/ Cardinality(B \cup {x}) = Cardinality(B)
                                    \/ Cardinality(B \cup {x}) = Cardinality(B) + 1)
    BY <1>1, FS_AddElement
  <2>2. IsFiniteSet(A) /\ Cardinality(A) <= Cardinality(B \cup {x})
    BY <1>4, <2>1, FS_Subset
  <2>3. Cardinality(A) \in Nat
    BY <2>2, FS_CardinalityType
  <2> QED
    BY <1>2, <2>1, <2>2, <2>3
<1> QED
  BY <1>1, <1>2, <1>3, <1>4

LEMMA SetsOfSends ==
  ASSUME TypeOK
  PROVE  /\ Sends \subseteq Requests /\ Outstanding \subseteq 1 .. Len(codes)
         /\ \A r : Fresh(r) \subseteq 1 .. Len(codes)
         /\ \A h : SentIn(h) \subseteq 1 .. Len(codes) /\ SendingIn(h) \subseteq Requests
  BY Unchanged DEF Sends, Outstanding, Fresh, SentIn, SendingIn

LEMMA HourStep ==
  ASSUME TypeOK, Held, HourCounted, [Next]_vars
  PROVE  HourCounted'
<1>1. /\ now \in Nat /\ overlaps \in Nat /\ MaxSends \in Nat /\ Hour \in Nat
      /\ \A c \in DOMAIN codes : codes[c].at \in Nat
      /\ \A r \in Requests : req[r].at \in Nat
  <2>1. \A c \in DOMAIN codes : codes[c] \in CodeType
    BY ElementOfSeq, LenProperties DEF TypeOK
  <2> QED
    BY <2>1, SignInAssumption DEF TypeOK, CodeType, ReqType
<1>2. CASE Quiet
  <2>1. /\ \A c \in DOMAIN codes' : codes'[c].at <= now'
        /\ \A r \in Sends' : req'[r].at <= now'
    BY <1>1, <1>2, SetsOfSends DEF Quiet, HourCounted
  <2>2. ASSUME NEW h \in Nat
        PROVE  Cardinality(SentIn(h)') + Cardinality(SendingIn(h)') <= MaxSends + overlaps'
    <3>1. SentIn(h)' = SentIn(h) /\ SendingIn(h)' \subseteq SendingIn(h)
      BY <1>2 DEF Quiet, SentIn, SendingIn
    <3>2. SendingIn(h) \subseteq Requests /\ SendingIn(h)' \subseteq Requests
          /\ SentIn(h) \subseteq 1 .. Len(codes)
      BY <3>1, SetsOfSends
    <3>3. Cardinality(SendingIn(h)) \in Nat /\ Cardinality(SendingIn(h)') \in Nat
          /\ Cardinality(SendingIn(h)') <= Cardinality(SendingIn(h))
      BY <3>1, <3>2, HoldersCounted
    <3>4. Cardinality(SentIn(h)) \in Nat
      BY <3>2, CodeSets
    <3>5. Cardinality(SentIn(h)) + Cardinality(SendingIn(h)) <= MaxSends + overlaps
      BY DEF HourCounted
    <3>6. overlaps' \in Nat /\ overlaps' >= overlaps
      BY <1>2 DEF Quiet
    <3> QED
      BY <1>1, <3>1, <3>3, <3>4, <3>5, <3>6
  <2> QED
    BY <2>1, <2>2 DEF HourCounted
<1>3. ASSUME NEW r \in Requests, Sending(r) PROVE HourCounted'
  <2>1. /\ \A c \in DOMAIN codes' : codes'[c].at <= now'
        /\ \A o \in Sends' : req'[o].at <= now'
    BY <1>1, <1>3 DEF Sending, HourCounted
  <2>2. ASSUME NEW h \in Nat
        PROVE  Cardinality(SentIn(h)') + Cardinality(SendingIn(h)') <= MaxSends + overlaps'
    <3>1. /\ SentIn(h)' = SentIn(h)
          /\ SendingIn(h)' \subseteq SendingIn(h) \cup {r}
          /\ ~(h <= now /\ now < h + Hour) => SendingIn(h)' \subseteq SendingIn(h)
      BY <1>3 DEF Sending, SentIn, SendingIn
    <3>2. SendingIn(h) \subseteq Requests /\ SendingIn(h)' \subseteq Requests
          /\ SentIn(h) \subseteq 1 .. Len(codes)
      BY <3>1, SetsOfSends
    <3>3. /\ Cardinality(SendingIn(h)) \in Nat /\ Cardinality(SendingIn(h)') \in Nat
          /\ SendingIn(h)' \subseteq SendingIn(h) => Cardinality(SendingIn(h)') <= Cardinality(SendingIn(h))
          /\ Cardinality(SendingIn(h)') <= Cardinality(SendingIn(h)) + 1
          /\ SendingIn(h) = {} => Cardinality(SendingIn(h)) = 0
      BY <3>1, <3>2, HoldersCounted
    <3>4. Cardinality(SentIn(h)) \in Nat
      BY <3>2, CodeSets
    <3>5. Cardinality(SentIn(h)) + Cardinality(SendingIn(h)) <= MaxSends + overlaps
      BY DEF HourCounted
    <3>6. CASE ~(h <= now /\ now < h + Hour)
      <4>1. overlaps' = overlaps \/ overlaps' = overlaps + 1
        BY <1>3 DEF Sending
      <4> QED
        BY <1>1, <3>1, <3>3, <3>4, <3>5, <3>6, <4>1
    <3>7. CASE overlaps' = overlaps + 1
      BY <1>1, <3>1, <3>3, <3>4, <3>5, <3>7
    <3>8. CASE Sends = {} /\ overlaps' = overlaps /\ h <= now /\ now < h + Hour
      <4> DEFINE Recent == {c \in DOMAIN codes : now - codes[c].at < Hour}
      <4>1. ~(Cardinality(Recent) >= MaxSends)
        BY <1>3 DEF Sending, Throttled
      <4>2. SentIn(h) \subseteq Recent
        BY <1>1, <3>8 DEF SentIn, HourCounted
      <4>3. Recent \subseteq 1 .. Len(codes)
        BY Unchanged
      <4> HIDE DEF Recent
      <4>4. Cardinality(Recent) \in Nat /\ Cardinality(SentIn(h)) <= Cardinality(Recent)
        BY <4>2, <4>3, CodeSets
      <4>5. SendingIn(h) = {}
        BY <3>8 DEF SendingIn
      <4> QED
        BY <1>1, <3>1, <3>3, <3>4, <3>8, <4>1, <4>4, <4>5
    <3> QED
      BY <1>3, <3>6, <3>7, <3>8 DEF Sending
  <2> QED
    BY <2>1, <2>2 DEF HourCounted
<1>4. ASSUME NEW r \in Requests, Sent(r) PROVE HourCounted'
  <2> DEFINE n == Len(codes) + 1
  <2>1. /\ \A c \in DOMAIN codes' : codes'[c].at <= now'
        /\ \A o \in Sends' : req'[o].at <= now'
    BY <1>1, <1>4 DEF Sent, HourCounted
  <2>2. ASSUME NEW h \in Nat
        PROVE  Cardinality(SentIn(h)') + Cardinality(SendingIn(h)') <= MaxSends + overlaps'
    <3>1. /\ SentIn(h)' \subseteq SentIn(h) \cup {n}
          /\ SendingIn(h)' \subseteq SendingIn(h) \ {r}
          /\ r \notin SendingIn(h) => SentIn(h)' \subseteq SentIn(h)
      BY <1>4 DEF Sent, SentIn, SendingIn
    <3>2. SendingIn(h) \subseteq Requests /\ SendingIn(h)' \subseteq Requests
          /\ SentIn(h) \subseteq 1 .. Len(codes)
      BY <3>1, SetsOfSends
    <3>3. /\ Cardinality(SendingIn(h)) \in Nat /\ Cardinality(SendingIn(h)') \in Nat
          /\ Cardinality(SendingIn(h)') <= Cardinality(SendingIn(h))
          /\ r \in SendingIn(h) => Cardinality(SendingIn(h)') + 1 <= Cardinality(SendingIn(h))
      BY <3>1, <3>2, HoldersCounted
    <3>4. /\ Cardinality(SentIn(h)) \in Nat /\ Cardinality(SentIn(h)') \in Nat
          /\ Cardinality(SentIn(h)') <= Cardinality(SentIn(h)) + 1
          /\ r \notin SendingIn(h) => Cardinality(SentIn(h)') <= Cardinality(SentIn(h))
      BY <3>1, <3>2, CodeSets
    <3>5. Cardinality(SentIn(h)) + Cardinality(SendingIn(h)) <= MaxSends + overlaps
      BY DEF HourCounted
    <3>6. overlaps' = overlaps
      BY <1>4 DEF Sent
    <3>7. CASE r \in SendingIn(h)
      BY <1>1, <3>3, <3>4, <3>5, <3>6, <3>7
    <3>8. CASE r \notin SendingIn(h)
      BY <1>1, <3>3, <3>4, <3>5, <3>6, <3>8
    <3> QED
      BY <3>7, <3>8
  <2> QED
    BY <2>1, <2>2 DEF HourCounted
<1> QED
  BY <1>2, <1>3, <1>4, SendsStep

LEMMA LiveStep ==
  ASSUME TypeOK, Held, LiveCounted, [Next]_vars
  PROVE  LiveCounted'
<1>1. overlaps \in Nat /\ Cardinality(Outstanding) <= 1 + overlaps
  BY DEF TypeOK, LiveCounted, Uses
<1>2. /\ Sends \subseteq Requests /\ Outstanding \subseteq 1 .. Len(codes)
      /\ \A r : Fresh(r) \subseteq 1 .. Len(codes)
  BY SetsOfSends
<1>3. \A r \in Sends : Cardinality(Fresh(r)) + Cardinality(Sends) <= 1 + overlaps
  BY DEF LiveCounted, Uses
<1>4. Cardinality(Outstanding) \in Nat /\ Cardinality(Sends) \in Nat
      /\ \A r : Cardinality(Fresh(r)) \in Nat
  BY <1>2, CodeSets, HoldersCounted
<1>5. CASE Quiet
  <2>1. /\ Outstanding' \subseteq Outstanding /\ Sends' \subseteq Sends
        /\ \A r \in Sends' : Fresh(r)' \subseteq Fresh(r)
        /\ overlaps' \in Nat /\ overlaps' >= overlaps
    BY <1>5 DEF Quiet
  <2>2. Cardinality(Outstanding') \in Nat /\ Cardinality(Outstanding') <= Cardinality(Outstanding)
    BY <1>2, <2>1, CodeSets
  <2>3. Cardinality(Sends') \in Nat /\ Cardinality(Sends') <= Cardinality(Sends)
    <3>1. Sends' \subseteq Requests
      BY <1>2, <2>1
    <3> QED
      BY <1>2, <2>1, <3>1, HoldersCounted
  <2>4. ASSUME NEW r \in Sends'
        PROVE  Cardinality(Fresh(r)') + Cardinality(Sends') <= 1 + overlaps'
    <3>1. Cardinality(Fresh(r)') \in Nat /\ Cardinality(Fresh(r)') <= Cardinality(Fresh(r))
      BY <1>2, <2>1, CodeSets
    <3> QED
      BY <1>1, <1>3, <1>4, <2>1, <2>3, <3>1
  <2> QED
    BY <1>1, <1>4, <2>1, <2>2, <2>4 DEF LiveCounted, Uses
<1>6. ASSUME NEW r \in Requests, Sending(r) PROVE LiveCounted'
  <2>1. /\ codes' = codes /\ Sends' = Sends \cup {r}
        /\ Fresh(r)' = {} /\ \A o \in Sends : Fresh(o)' = Fresh(o)
        /\ (Sends = {} /\ overlaps' = overlaps) \/ overlaps' = overlaps + 1
    BY <1>6 DEF Sending
  <2>2. Outstanding' = Outstanding
    BY <2>1, NothingSent
  <2>3. Cardinality(Sends') \in Nat /\ Cardinality(Sends') <= Cardinality(Sends) + 1
        /\ (Sends = {} => Cardinality(Sends) = 0)
    <3>1. Sends' \subseteq Requests /\ Sends' \subseteq Sends \cup {r}
      BY <1>2, <2>1
    <3> QED
      BY <1>2, <3>1, HoldersCounted
  <2>4. Cardinality(Sends) <= 1 + overlaps
    BY <1>1, <1>3, <1>4, <2>3
  <2>5. Cardinality(Fresh(r)') + Cardinality(Sends') <= 1 + overlaps'
    <3>1. Cardinality(Fresh(r)') = 0
      BY <2>1, FS_EmptySet
    <3> QED
      BY <1>1, <1>4, <2>1, <2>3, <2>4, <3>1
  <2>6. ASSUME NEW o \in Sends
        PROVE  Cardinality(Fresh(o)') + Cardinality(Sends') <= 1 + overlaps'
    <3>1. overlaps' = overlaps + 1 /\ Fresh(o)' = Fresh(o)
      BY <2>1
    <3>2. Cardinality(Fresh(o)) + Cardinality(Sends) <= 1 + overlaps
      BY <1>3
    <3> QED
      BY <1>1, <1>4, <2>3, <3>1, <3>2
  <2> QED
    BY <1>1, <1>4, <2>1, <2>2, <2>5, <2>6 DEF LiveCounted, Uses
<1>7. ASSUME NEW r \in Requests, Sent(r) PROVE LiveCounted'
  <2> DEFINE n == Len(codes) + 1
  <2>1. /\ r \in Sends /\ Sends' = Sends \ {r}
        /\ Outstanding' \subseteq Fresh(r) \cup {n}
        /\ \A o \in Sends' : Fresh(o)' \subseteq Fresh(o) \cup {n}
        /\ overlaps' = overlaps
    BY <1>7 DEF Sent
  <2> HIDE DEF n
  <2>2. Cardinality(Sends') \in Nat /\ Cardinality(Sends') + 1 <= Cardinality(Sends)
    <3>1. Sends' \subseteq Requests /\ Sends' \subseteq Sends \ {r}
      BY <1>2, <2>1
    <3> QED
      BY <1>2, <2>1, <3>1, HoldersCounted
  <2>3. Cardinality(Outstanding') \in Nat /\ Cardinality(Outstanding') <= Cardinality(Fresh(r)) + 1
    BY <1>2, <2>1, CodeSets
  <2>4. ASSUME NEW o \in Sends'
        PROVE  Cardinality(Fresh(o)') + Cardinality(Sends') <= 1 + overlaps'
    <3>1. Cardinality(Fresh(o)') \in Nat /\ Cardinality(Fresh(o)') <= Cardinality(Fresh(o)) + 1
      BY <1>2, <2>1, <2>4, CodeSets
    <3>2. Cardinality(Fresh(o)) + Cardinality(Sends) <= 1 + overlaps
      BY <1>3, <2>1
    <3> QED
      BY <1>1, <1>4, <2>1, <2>2, <3>1, <3>2
  <2>5. Cardinality(Fresh(r)) + Cardinality(Sends) <= 1 + overlaps
    BY <1>3, <2>1
  <2>6. Cardinality(Outstanding') <= 1 + overlaps'
    BY <1>1, <1>4, <2>1, <2>2, <2>3, <2>5
  <2> QED
    BY <2>4, <2>6 DEF LiveCounted, Uses
<1> QED
  BY <1>5, <1>6, <1>7, SendsStep

\* No hour has more codes in it than may be sent, and two are never live at
\* once, but for one more for every request that began beside another one.
THEOREM CodesAreCounted == Spec => []CodesPerHour
<1>1. ASSUME Init PROVE HourCounted /\ LiveCounted
  <2>1. codes = <<>> /\ DOMAIN codes = {} /\ overlaps = 0
    BY <1>1, EmptySeq DEF Init
  <2>2. Sends = {}
    BY <1>1, NothingHeld DEF Init, Sends
  <2>3. Outstanding = {} /\ \A h : SentIn(h) = {} /\ SendingIn(h) = {}
    BY <2>1, <2>2 DEF Outstanding, SentIn, SendingIn
  <2>4. Cardinality(Outstanding) = 0
        /\ \A h : Cardinality(SentIn(h)) = 0 /\ Cardinality(SendingIn(h)) = 0
    BY <2>3, FS_EmptySet
  <2>5. HourCounted
    BY <2>1, <2>2, <2>4, SignInAssumption DEF HourCounted
  <2>6. LiveCounted
    BY <2>1, <2>2, <2>4 DEF LiveCounted, Uses
  <2> QED
    BY <2>5, <2>6
<1>2. TypeOK /\ Held /\ HourCounted /\ LiveCounted /\ [Next]_vars => HourCounted' /\ LiveCounted'
  BY HourStep, LiveStep
<1>3. ASSUME TypeOK, HourCounted, LiveCounted PROVE CodesPerHour
  <2>1. overlaps \in Nat /\ MaxSends \in Nat /\ MaxTime \in Nat
    BY <1>3, SignInAssumption DEF TypeOK
  <2>2. ASSUME NEW h \in 1 .. MaxTime
        PROVE  Cardinality({c \in DOMAIN codes : h <= codes[c].at /\ codes[c].at < h + Hour})
                 < MaxSends + Uses
    <3>1. SentIn(h) \subseteq 1 .. Len(codes) /\ SendingIn(h) \subseteq Requests
      BY <1>3, SetsOfSends
    <3>2. Cardinality(SentIn(h)) \in Nat /\ Cardinality(SendingIn(h)) \in Nat
      BY <1>3, <3>1, CodeSets, HoldersCounted
    <3>3. Cardinality(SentIn(h)) + Cardinality(SendingIn(h)) <= MaxSends + overlaps
      BY <1>3, <2>1 DEF HourCounted
    <3>4. Cardinality(SentIn(h)) < MaxSends + Uses
      BY <2>1, <3>2, <3>3 DEF Uses
    <3> QED
      BY <3>4 DEF SentIn
  <2>3. Cardinality({c \in DOMAIN codes : Live(c)}) <= Uses
    <3> DEFINE L == {c \in DOMAIN codes : Live(c)}
    <3>1. L \subseteq Outstanding
      BY DEF Live, Outstanding
    <3>2. Outstanding \subseteq 1 .. Len(codes)
      BY <1>3, SetsOfSends
    <3> HIDE DEF L
    <3>3. Cardinality(L) \in Nat /\ Cardinality(L) <= Cardinality(Outstanding)
          /\ Cardinality(Outstanding) \in Nat
      BY <1>3, <3>1, <3>2, CodeSets
    <3>4. Cardinality(Outstanding) <= 1 + overlaps
      BY <1>3 DEF LiveCounted, Uses
    <3>5. Cardinality(L) <= 1 + overlaps
      BY <2>1, <3>3, <3>4
    <3> QED
      BY <3>5 DEF Uses, L
  <2> QED
    BY <2>2, <2>3 DEF CodesPerHour
<1> QED
  BY <1>1, <1>2, <1>3, SignInTypeCorrect, PTL DEF Spec

-----------------------------------------------------------------------------
(* Console.                                                                *)

\* The steps of a request that begins, and those that leave the rows of
\* admin_users as they are.
WorkBegins(w) ==
  \/ \E a \in Admins : BeginLogin(w, a)
  \/ \E s \in DOMAIN sessions : BeginRotate(w, s)
  \/ \E owner, target \in Admins :
       \/ BeginRemove(w, owner, target)
       \/ \E role \in Roles : BeginCreate(w, owner, target, role)
       \/ \E role \in Roles \cup {Keep}, active \in {"on", "off", Keep}, password \in BOOLEAN :
            BeginUpdate(w, owner, target, role, active, password)

LEMMA ConsoleSteps ==
  ASSUME [ConsoleNext]_consoleVars
  PROVE  \/ \E w \in Windows : WorkBegins(w) \/ Sweep(w) \/ FinishCreate(w) \/ FinishUpdate(w)
                                 \/ Open(w) \/ AbortWork(w)
         \/ \E s \in DOMAIN sessions : RevokeSession(s)
         \/ UNCHANGED consoleVars
  BY DEF ConsoleNext, WorkBegins

\* An account that is active is there.
Listed == \A a \in Admins : admins[a].active => admins[a].exists

\* Who is created is given a role.
Given == \A w \in Windows : work[w].kind = "create" => work[w].role # Keep

\* Whoever may lose the role or the flag leaves another active owner.
Safe(q) ==
  q.step # "none" /\ q.kind = "update" =>
    /\ q.saw = admins[q.target] /\ q.saw.exists
    /\ q.saw.role = "owner" /\ (q.role = "support" \/ q.active = "off") => Remaining(q.target) # {}

\* A request that opens a session.
Opens(q) == q.kind \in {"login", "refresh"}

\* Whoever is switched off has the sessions ended, which are read before.
Ordered(q) ==
  /\ q.ends => q.kind = "update"
  /\ q.kind = "update" /\ q.active = "off" => q.ends
  /\ q.step = "swept" => q.ends
  /\ q.step # "swept" => q.cut = {}

\* One request at a time.
WorkAlone == \A w, o \in Windows : work[w].step # "none" /\ work[o].step # "none" => w = o

Owned ==
  beside = 0 =>
    /\ WorkAlone /\ Listed
    /\ \E a \in Admins : ActiveOwner(a)
    /\ \A w \in Windows : Safe(work[w])

-----------------------------------------------------------------------------
LEMMA Nothing == NoRow \in AdminRow /\ NoWork \in WorkType /\ NoWork.step = "none"
  BY ConsoleAssumption DEF NoRow, NoWork, AdminRow, WorkType, Roles, Keep

\* The sessions there are.
LEMMA Numbered ==
  ASSUME ConsoleTypeOK
  PROVE  /\ DOMAIN sessions = 1 .. Len(sessions) /\ Len(sessions) \in Nat
         /\ \A s \in DOMAIN sessions : sessions[s] \in SessionType
  BY LenProperties, ElementOfSeq DEF ConsoleTypeOK

LEMMA WithoutType ==
  ASSUME ConsoleTypeOK, NEW gone
  PROVE  Without(gone) \in Seq(SessionType)
<1>1. \A s \in DOMAIN sessions : Without(gone)[s] \in SessionType
  <2> SUFFICES ASSUME NEW s \in DOMAIN sessions PROVE Without(gone)[s] \in SessionType
    OBVIOUS
  <2>1. sessions[s] \in SessionType
    BY Numbered
  <2>2. CASE s \in gone
    BY <2>1, <2>2 DEF Without, SessionType
  <2>3. CASE s \notin gone
    BY <2>1, <2>3 DEF Without
  <2> QED
    BY <2>2, <2>3
<1>2. Without(gone) = [s \in DOMAIN sessions |-> Without(gone)[s]]
  BY DEF Without
<1> HIDE DEF Without
<1>3. Without(gone) \in [1 .. Len(sessions) -> SessionType]
  BY <1>1, <1>2, Numbered
<1> QED
  BY <1>3, Numbered, SeqDef

\* What a request that begins has read.
BeginsAs(w, q) ==
  /\ work[w].step = "none" /\ work' = [work EXCEPT ![w] = q]
  /\ UNCHANGED <<admins, sessions, ended>>
  /\ \/ (\A o \in Windows : work[o].step = "none") /\ beside' = beside
     \/ beside' = beside + 1
  /\ Safe(q) /\ Ordered(q) /\ q.step = "read"
  /\ q.kind = "create" => q.role # Keep
  /\ Opens(q) => admins[q.target].active

LEMMA WorkBeginnings ==
  ASSUME ConsoleTypeOK, NEW w \in Windows, WorkBegins(w)
  PROVE  \E q \in WorkType : BeginsAs(w, q)
<1>1. ASSUME NEW target \in Admins, NEW p \in WorkType, NEW q \in WorkType, BeginWork(w, target, p),
             q = [p EXCEPT !.step = "read", !.target = target], Safe(q), Ordered(q),
             q.kind = "create" => q.role # Keep, Opens(q) => admins[target].active
      PROVE  BeginsAs(w, q)
  <2>1. q.step = "read" /\ q.target = target
    BY <1>1 DEF WorkType
  <2> QED
    BY <1>1, <2>1 DEF BeginWork, BeginsAs
<1>2. ASSUME NEW a \in Admins, BeginLogin(w, a)
      PROVE  \E q \in WorkType : BeginsAs(w, q)
  <2> DEFINE p == [NoWork EXCEPT !.kind = "login"]
             q == [p EXCEPT !.step = "read", !.target = a]
  <2>1. p \in WorkType /\ q \in WorkType /\ q.kind = "login" /\ BeginWork(w, a, p)
    BY <1>2, Nothing DEF BeginLogin, WorkType
  <2>2. Safe(q) /\ Ordered(q) /\ admins[a].active
    BY <1>2, <2>1 DEF Safe, Ordered, NoWork, BeginLogin
  <2> QED
    BY <1>1, <2>1, <2>2
<1>3. ASSUME NEW s \in DOMAIN sessions, BeginRotate(w, s)
      PROVE  \E q \in WorkType : BeginsAs(w, q)
  <2> DEFINE p == [NoWork EXCEPT !.kind = "refresh", !.used = s]
             q == [p EXCEPT !.step = "read", !.target = sessions[s].admin]
  <2>1. s \in Nat /\ sessions[s] \in SessionType
    BY Numbered
  <2>2. sessions[s].admin \in Admins
    BY <2>1 DEF SessionType
  <2>3. p \in WorkType /\ q \in WorkType /\ q.kind = "refresh" /\ BeginWork(w, sessions[s].admin, p)
    BY <1>3, <2>1, <2>2, Nothing DEF BeginRotate, WorkType
  <2>4. Safe(q) /\ Ordered(q) /\ admins[sessions[s].admin].active
    BY <1>3, <2>3 DEF Safe, Ordered, NoWork, BeginRotate
  <2> QED
    BY <1>1, <2>2, <2>3, <2>4
<1>4. ASSUME NEW owner \in Admins, NEW target \in Admins, NEW role \in Roles,
             BeginCreate(w, owner, target, role)
      PROVE  \E q \in WorkType : BeginsAs(w, q)
  <2> DEFINE p == [NoWork EXCEPT !.kind = "create", !.role = role]
             q == [p EXCEPT !.step = "read", !.target = target]
  <2>1. p \in WorkType /\ q \in WorkType /\ q.kind = "create" /\ q.role = role /\ BeginWork(w, target, p)
    BY <1>4, Nothing DEF BeginCreate, WorkType
  <2>2. Safe(q) /\ Ordered(q) /\ ~Opens(q) /\ role # Keep
    BY <2>1 DEF Safe, Ordered, Opens, NoWork, Roles, Keep
  <2> QED
    BY <1>1, <2>1, <2>2
<1>5. ASSUME NEW target \in Admins, NEW p \in WorkType, p.kind = "update",
             p.saw = admins[target], p.saw.exists,
             p.saw.role = "owner" /\ (p.role = "support" \/ p.active = "off")
               => Remaining(target) # {},
             p.active = "off" => p.ends, p.cut = {}, BeginWork(w, target, p)
      PROVE  \E q \in WorkType : BeginsAs(w, q)
  <2> DEFINE q == [p EXCEPT !.step = "read", !.target = target]
  <2>1. q \in WorkType /\ q.kind = "update" /\ q.saw = p.saw
        /\ q.target = target /\ q.role = p.role /\ q.active = p.active
        /\ q.step = "read" /\ q.ends = p.ends /\ q.cut = p.cut
    BY <1>5 DEF WorkType
  <2>2. Safe(q) /\ Ordered(q) /\ ~Opens(q)
    BY <1>5, <2>1 DEF Safe, Ordered, Opens
  <2> QED
    BY <1>1, <1>5, <2>1, <2>2
<1>6. ASSUME NEW owner \in Admins, NEW target \in Admins, BeginRemove(w, owner, target)
      PROVE  \E q \in WorkType : BeginsAs(w, q)
  <2> DEFINE p == [NoWork EXCEPT !.saw = admins[target], !.active = "off", !.ends = TRUE]
  <2>1. admins[target] \in AdminRow /\ NoWork.kind = "update"
    BY DEF ConsoleTypeOK, NoWork
  <2>2. /\ p \in WorkType /\ p.kind = "update" /\ p.saw = admins[target]
        /\ p.ends /\ p.cut = {}
    BY <2>1, Nothing DEF WorkType, NoWork
  <2>3. /\ BeginWork(w, target, p) /\ admins[target].exists
        /\ admins[target].role = "owner" => Remaining(target) # {}
    BY <1>6 DEF BeginRemove
  <2> HIDE DEF p
  <2> QED
    BY <1>5, <2>2, <2>3
<1>7. ASSUME NEW owner \in Admins, NEW target \in Admins, NEW role \in Roles \cup {Keep},
             NEW active \in {"on", "off", Keep}, NEW password \in BOOLEAN,
             BeginUpdate(w, owner, target, role, active, password)
      PROVE  \E q \in WorkType : BeginsAs(w, q)
  <2> DEFINE p == [NoWork EXCEPT !.saw = admins[target], !.role = role, !.active = active,
                                !.ends = password \/ active = "off"]
  <2>1. admins[target] \in AdminRow /\ NoWork.kind = "update"
    BY DEF ConsoleTypeOK, NoWork
  <2>2. /\ p \in WorkType /\ p.kind = "update" /\ p.saw = admins[target]
        /\ p.role = role /\ p.active = active
        /\ p.active = "off" => p.ends
        /\ p.cut = {}
    BY <2>1, Nothing DEF WorkType, NoWork
  <2>3. /\ BeginWork(w, target, p) /\ admins[target].exists
        /\ admins[target].role = "owner" /\ (role = "support" \/ active = "off")
             => Remaining(target) # {}
    BY <1>7 DEF BeginUpdate
  <2> HIDE DEF p
  <2> QED
    BY <1>5, <2>2, <2>3
<1> QED
  BY <1>2, <1>3, <1>4, <1>6, <1>7 DEF WorkBegins

\* What becomes of a request that goes on or is over.
LEMMA Goings ==
  ASSUME ConsoleTypeOK, NEW w \in Windows,
         Sweep(w) \/ FinishCreate(w) \/ FinishUpdate(w) \/ Open(w) \/ AbortWork(w)
  PROVE  /\ work' \in [Windows -> WorkType] /\ beside' = beside
         /\ \A o \in Windows \ {w} : work'[o] = work[o]
         /\ \/ work'[w] = NoWork
            \/ /\ work'[w].step = "swept" /\ work[w].step = "read" /\ UNCHANGED admins
               /\ work'[w].kind = work[w].kind /\ work'[w].saw = work[w].saw
               /\ work'[w].target = work[w].target /\ work'[w].role = work[w].role
               /\ work'[w].active = work[w].active
<1>1. CASE Sweep(w)
  <2>1. LiveOf(work[w].target) \subseteq Nat
    BY Numbered DEF LiveOf
  <2>2. work[w] \in WorkType
    BY DEF ConsoleTypeOK
  <2>3. /\ work' = [work EXCEPT ![w] = [work[w] EXCEPT !.step = "swept", !.cut = LiveOf(work[w].target)]]
        /\ work[w].step = "read" /\ UNCHANGED <<admins, beside>>
    BY <1>1 DEF Sweep, Swept
  <2> DEFINE q == [work[w] EXCEPT !.step = "swept", !.cut = LiveOf(work[w].target)]
  <2>4. /\ q \in WorkType /\ q.step = "swept" /\ q.kind = work[w].kind /\ q.saw = work[w].saw
        /\ q.target = work[w].target /\ q.role = work[w].role /\ q.active = work[w].active
    BY <2>1, <2>2 DEF WorkType
  <2> HIDE DEF q
  <2>5. work' = [work EXCEPT ![w] = q]
    BY <2>3 DEF q
  <2> QED
    BY <2>3, <2>4, <2>5 DEF ConsoleTypeOK
<1>2. CASE FinishCreate(w) \/ FinishUpdate(w) \/ Open(w) \/ AbortWork(w)
  <2>1. work' = [work EXCEPT ![w] = NoWork] /\ beside' = beside
    BY <1>2 DEF FinishCreate, FinishUpdate, Open, AbortWork, EndWork
  <2> QED
    BY <2>1, Nothing DEF ConsoleTypeOK
<1> QED
  BY <1>1, <1>2

\* The row an update leaves.
LEMMA ChangedType ==
  ASSUME ConsoleTypeOK, NEW q \in WorkType
  PROVE  /\ Changed(q) \in AdminRow /\ Changed(q).exists
         /\ q.saw = admins[q.target] =>
              /\ Changed(q).role = IF q.role = Keep THEN q.saw.role ELSE q.role
              /\ Changed(q).active = IF q.active = Keep THEN q.saw.active ELSE q.active = "on"
<1>1. admins[q.target] \in AdminRow /\ q.saw \in AdminRow
  BY DEF ConsoleTypeOK, WorkType
<1>2. q.role \in Roles \cup {Keep} /\ q.active \in {"on", "off", Keep}
  BY DEF WorkType
<1> QED
  BY <1>1, <1>2 DEF Changed, AdminRow

LEMMA TypeStep ==
  ASSUME ConsoleTypeOK, Given, [ConsoleNext]_consoleVars
  PROVE  ConsoleTypeOK' /\ Given'
<1>1. ASSUME NEW w \in Windows, WorkBegins(w) PROVE ConsoleTypeOK' /\ Given'
  <2>1. PICK q \in WorkType : BeginsAs(w, q)
    BY <1>1, WorkBeginnings
  <2> QED
    BY <2>1 DEF BeginsAs, ConsoleTypeOK, Given
<1>2. ASSUME NEW w \in Windows,
             Sweep(w) \/ FinishCreate(w) \/ FinishUpdate(w) \/ Open(w) \/ AbortWork(w)
      PROVE  ConsoleTypeOK' /\ Given'
  <2>1. work' \in [Windows -> WorkType] /\ beside' = beside
    BY <1>2, Goings
  <2>2. work[w] \in WorkType
    BY DEF ConsoleTypeOK
  <2>3. admins' \in [Admins -> AdminRow]
    <3>1. CASE FinishCreate(w)
      <4>1. work[w].role \in Roles /\ work[w].target \in Admins
        BY <2>2, <3>1 DEF FinishCreate, Given, WorkType
      <4>2. [exists |-> TRUE, role |-> work[w].role, active |-> TRUE] \in AdminRow
        BY <4>1 DEF AdminRow
      <4>3. admins' = [admins EXCEPT ![work[w].target] =
                         [exists |-> TRUE, role |-> work[w].role, active |-> TRUE]]
        BY <3>1 DEF FinishCreate
      <4> QED
        BY <4>2, <4>3 DEF ConsoleTypeOK
    <3>2. CASE FinishUpdate(w)
      BY <2>2, <3>2, ChangedType DEF FinishUpdate, ConsoleTypeOK
    <3> QED
      BY <1>2, <3>1, <3>2 DEF Sweep, Open, AbortWork, ConsoleTypeOK
  <2>4. sessions' \in Seq(SessionType)
    <3>1. CASE Open(w)
      <4>1. [admin |-> work[w].target, live |-> TRUE] \in SessionType
        BY <2>2 DEF WorkType, SessionType
      <4> QED
        BY <3>1, <4>1, WithoutType, AppendProperties DEF Open
    <3>2. CASE FinishUpdate(w)
      BY <3>2, WithoutType DEF FinishUpdate
    <3> QED
      BY <1>2, <3>1, <3>2 DEF Sweep, FinishCreate, AbortWork, ConsoleTypeOK
  <2>5. ended' \in [Admins -> Nat]
    BY <1>2, Numbered DEF Sweep, FinishCreate, FinishUpdate, Open, AbortWork, ConsoleTypeOK
  <2>6. Given'
    BY <1>2, Goings DEF Given, NoWork
  <2> QED
    BY <2>1, <2>3, <2>4, <2>5, <2>6 DEF ConsoleTypeOK
<1>3. ASSUME NEW s \in DOMAIN sessions, RevokeSession(s) PROVE ConsoleTypeOK' /\ Given'
  BY <1>3, WithoutType DEF RevokeSession, ConsoleTypeOK, Given
<1>4. CASE UNCHANGED consoleVars
  BY <1>4 DEF consoleVars, ConsoleTypeOK, Given
<1> QED
  BY <1>1, <1>2, <1>3, <1>4, ConsoleSteps

\* Every variable keeps to its type.
THEOREM ConsoleTypeCorrect == ConsoleSpec => [](ConsoleTypeOK /\ Given)
<1>1. ASSUME ConsoleInit PROVE ConsoleTypeOK /\ Given
  <2>1. admins \in [Admins -> AdminRow] /\ sessions \in Seq(SessionType)
    BY <1>1, Nothing, EmptySeq DEF ConsoleInit, AdminRow, Roles
  <2> QED
    BY <1>1, <2>1, Nothing DEF ConsoleInit, ConsoleTypeOK, Given, NoWork
<1>2. ConsoleTypeOK /\ Given /\ [ConsoleNext]_consoleVars => ConsoleTypeOK' /\ Given'
  BY TypeStep
<1> QED
  BY <1>1, <1>2, PTL DEF ConsoleSpec

-----------------------------------------------------------------------------
\* A step of a request that writes no row of admin_users.
LEMMA OwnedHolds ==
  ASSUME ConsoleTypeOK, Owned, beside = 0, UNCHANGED <<admins, beside>>,
         \A w \in Windows :
           \/ work'[w].step = "none"
           \/ /\ work[w].step # "none"
              /\ work'[w].kind = work[w].kind /\ work'[w].saw = work[w].saw
              /\ work'[w].target = work[w].target /\ work'[w].role = work[w].role
              /\ work'[w].active = work[w].active
  PROVE  Owned'
<1>1. WorkAlone' /\ Listed'
  BY DEF Owned, WorkAlone, Listed
<1>2. (\E a \in Admins : ActiveOwner(a))'
  BY DEF Owned, ActiveOwner
<1>3. \A a : Remaining(a)' = Remaining(a)
  BY DEF Remaining, ActiveOwner
<1>4. ASSUME NEW w \in Windows PROVE Safe(work[w])'
  <2>1. Safe(work[w])
    BY DEF Owned
  <2> QED
    BY <1>3, <2>1 DEF Safe
<1> QED
  BY <1>1, <1>2, <1>4 DEF Owned

LEMMA OwnedStep ==
  ASSUME ConsoleTypeOK, Owned, [ConsoleNext]_consoleVars
  PROVE  Owned'
<1> SUFFICES ASSUME beside' = 0 PROVE Owned'
  BY DEF Owned
<1>0. beside \in Nat
  BY DEF ConsoleTypeOK
<1>1. ASSUME NEW w \in Windows, WorkBegins(w) PROVE Owned'
  <2>1. PICK q \in WorkType : BeginsAs(w, q)
    BY <1>1, WorkBeginnings
  <2>2. /\ beside = 0 /\ UNCHANGED <<admins, beside>> /\ Safe(q)
        /\ work'[w] = q /\ \A o \in Windows \ {w} : work'[o].step = "none"
    BY <1>0, <2>1 DEF BeginsAs, ConsoleTypeOK
  <2>3. WorkAlone' /\ Listed' /\ (\E a \in Admins : ActiveOwner(a))'
    BY <2>2 DEF Owned, WorkAlone, Listed, ActiveOwner
  <2>4. \A a : Remaining(a)' = Remaining(a)
    BY <2>2 DEF Remaining, ActiveOwner
  <2>5. \A o \in Windows : Safe(work[o])'
    BY <2>2, <2>4 DEF Safe
  <2> QED
    BY <2>3, <2>5 DEF Owned
<1>2. ASSUME NEW w \in Windows, Sweep(w) \/ Open(w) \/ AbortWork(w) PROVE Owned'
  <2>1. UNCHANGED <<admins, beside>>
    BY <1>2 DEF Sweep, Open, AbortWork
  <2>2. /\ \A o \in Windows \ {w} : work'[o] = work[o]
        /\ \/ work'[w] = NoWork
           \/ /\ work[w].step = "read"
              /\ work'[w].kind = work[w].kind /\ work'[w].saw = work[w].saw
              /\ work'[w].target = work[w].target /\ work'[w].role = work[w].role
              /\ work'[w].active = work[w].active
    BY <1>2, Goings
  <2> QED
    BY <2>1, <2>2, Nothing, OwnedHolds
<1>3. ASSUME NEW s \in DOMAIN sessions, RevokeSession(s) PROVE Owned'
  BY <1>3, OwnedHolds DEF RevokeSession
<1>4. ASSUME NEW w \in Windows, FinishCreate(w) \/ FinishUpdate(w) PROVE Owned'
  <2>1. /\ beside = 0 /\ work' = [work EXCEPT ![w] = NoWork]
        /\ work[w].step # "none" /\ work[w] \in WorkType
    BY <1>4 DEF FinishCreate, FinishUpdate, EndWork, ConsoleTypeOK
  <2>2. \A o \in Windows : work'[o].step = "none"
    BY <2>1, Nothing DEF Owned, WorkAlone, ConsoleTypeOK
  <2>3. WorkAlone' /\ \A o \in Windows : Safe(work[o])'
    BY <2>2 DEF WorkAlone, Safe
  <2>4. /\ Listed /\ Safe(work[w]) /\ work[w].target \in Admins
        /\ \E a \in Admins : ActiveOwner(a)
    BY <2>1 DEF Owned, WorkType
  <2>5. CASE FinishCreate(w)
    <3>1. /\ admins' = [admins EXCEPT ![work[w].target] =
                          [exists |-> TRUE, role |-> work[w].role, active |-> TRUE]]
          /\ ~admins[work[w].target].exists
      BY <2>5 DEF FinishCreate
    <3>2. Listed'
      BY <2>4, <3>1 DEF Listed, ConsoleTypeOK
    <3>3. (\E a \in Admins : ActiveOwner(a))'
      BY <2>4, <3>1 DEF Listed, ActiveOwner, ConsoleTypeOK
    <3> QED
      BY <2>3, <3>2, <3>3 DEF Owned
  <2>6. CASE FinishUpdate(w)
    <3> DEFINE q == work[w]
    <3>1. /\ admins' = [admins EXCEPT ![q.target] = Changed(q)] /\ q.kind = "update"
          /\ Changed(q).exists
      BY <2>1, <2>6, ChangedType DEF FinishUpdate
    <3>2. Listed'
      BY <2>4, <3>1 DEF Listed, ConsoleTypeOK
    <3>3. ASSUME Remaining(q.target) # {} PROVE (\E a \in Admins : ActiveOwner(a))'
      BY <3>1, <3>3 DEF Remaining, ActiveOwner, ConsoleTypeOK
    <3>4. ASSUME Remaining(q.target) = {} PROVE (\E a \in Admins : ActiveOwner(a))'
      <4>1. ActiveOwner(q.target)
        BY <2>4, <3>4 DEF Remaining
      <4>2. /\ q.saw = admins[q.target] /\ q.saw.role = "owner" /\ q.saw.active
            /\ q.role # "support" /\ q.active # "off"
        BY <2>1, <2>4, <3>1, <3>4, <4>1 DEF Safe, ActiveOwner
      <4>3. q.role \in {"owner", Keep} /\ q.active \in {"on", Keep}
        BY <2>1, <4>2 DEF WorkType, Roles
      <4>4. Changed(q).role = "owner" /\ Changed(q).active
        BY <2>1, <4>2, <4>3, ChangedType
      <4> QED
        BY <2>4, <3>1, <4>4 DEF ActiveOwner, ConsoleTypeOK
    <3> QED
      BY <2>3, <3>2, <3>3, <3>4 DEF Owned
  <2> QED
    BY <1>4, <2>5, <2>6
<1>5. CASE UNCHANGED consoleVars
  BY <1>5 DEF consoleVars, Owned, WorkAlone, Listed, Safe, ActiveOwner, Remaining
<1> QED
  BY <1>1, <1>2, <1>3, <1>4, <1>5, ConsoleSteps

\* As long as no request began beside another one there is an active owner.
THEOREM OwnedForever == ConsoleSpec => []SomeOwner
<1>1. ASSUME ConsoleInit PROVE Owned
  <2>1. ActiveOwner(First) /\ Listed
    BY <1>1, ConsoleAssumption DEF ConsoleInit, ActiveOwner, Listed, NoRow
  <2> QED
    BY <1>1, <2>1, Nothing, ConsoleAssumption DEF ConsoleInit, Owned, WorkAlone, Safe
<1>2. ConsoleTypeOK /\ Owned /\ [ConsoleNext]_consoleVars => Owned'
  BY OwnedStep
<1>3. Owned => SomeOwner
  BY DEF Owned, SomeOwner
<1> QED
  BY <1>1, <1>2, <1>3, ConsoleTypeCorrect, PTL DEF ConsoleSpec
-----------------------------------------------------------------------------
(* The sessions that outlive their end.                                    *)

\* The requests under way, and those that will open a session of somebody
\* who has been switched off since they began.
Busy == {w \in Windows : work[w].step # "none"}
OpensLate == {w \in Busy : Opens(work[w]) /\ ~admins[work[w].target].active}

\* A session opened too late for the request that is ending the admin's.
Missed(s) ==
  \E w \in Windows :
    /\ work[w].step = "swept" /\ work[w].target = sessions[s].admin
    /\ s \notin work[w].cut

\* The sessions that outlive their end, and those that will.
Outliving ==
  {s \in DOMAIN sessions :
    /\ sessions[s].live
    /\ ~admins[sessions[s].admin].active \/ s <= ended[sessions[s].admin] \/ Missed(s)}

\* Each of them has a request that began beside another one, and so has all
\* but one of the requests under way.
OutlivingCounted ==
  /\ Cardinality(Outliving) + Cardinality(OpensLate) <= beside
  /\ Busy # {} => Cardinality(Outliving) + Cardinality(Busy) <= beside + 1

SweptRight ==
  /\ \A a \in Admins : ended[a] <= Len(sessions)
  /\ \A w \in Windows : Ordered(work[w]) /\ work[w].cut \subseteq DOMAIN sessions

SessionsInv == OutlivingCounted /\ SweptRight

LEMMA Countable ==
  ASSUME ConsoleTypeOK
  PROVE  /\ IsFiniteSet(Outliving) /\ IsFiniteSet(Busy) /\ IsFiniteSet(OpensLate)
         /\ Cardinality(Outliving) \in Nat /\ Cardinality(Busy) \in Nat
         /\ Cardinality(OpensLate) \in Nat
         /\ OpensLate \subseteq Busy
<1>1. IsFiniteSet(DOMAIN sessions)
  BY Numbered, FS_Interval
<1>2. Outliving \subseteq DOMAIN sessions /\ Busy \subseteq Windows /\ OpensLate \subseteq Busy
  BY DEF Outliving, Busy, OpensLate
<1>3. IsFiniteSet(Windows)
  BY ConsoleAssumption
<1>4. IsFiniteSet(Outliving)
  BY <1>1, <1>2, FS_Subset
<1>5. IsFiniteSet(Busy)
  BY <1>2, <1>3, FS_Subset
<1>6. IsFiniteSet(OpensLate)
  BY <1>2, <1>5, FS_Subset
<1> QED
  BY <1>2, <1>4, <1>5, <1>6, FS_CardinalityType

\* A request that is over, and nothing else outlives its end.
LEMMA OverCounted ==
  ASSUME ConsoleTypeOK, OutlivingCounted, NEW w \in Busy,
         Busy' = Busy \ {w}, Outliving' \subseteq Outliving, beside' = beside
  PROVE  OutlivingCounted'
<1>1. beside \in Nat
  BY DEF ConsoleTypeOK
<1>2. IsFiniteSet(Busy') /\ Cardinality(Busy') = Cardinality(Busy) - 1
  BY Countable, FS_RemoveElement
<1>3. IsFiniteSet(Outliving') /\ Cardinality(Outliving') <= Cardinality(Outliving)
  BY Countable, FS_Subset
<1>4. OpensLate' \subseteq Busy'
  BY DEF OpensLate
<1>5. IsFiniteSet(OpensLate') /\ Cardinality(OpensLate') <= Cardinality(Busy')
  BY <1>2, <1>4, FS_Subset
<1>6. Cardinality(Outliving') \in Nat /\ Cardinality(OpensLate') \in Nat
  BY <1>3, <1>5, FS_CardinalityType
<1>7. /\ Cardinality(Outliving) + Cardinality(Busy) <= beside + 1
      /\ Cardinality(Outliving) \in Nat /\ Cardinality(Busy) \in Nat
  BY Countable DEF OutlivingCounted
<1>8. Cardinality(Outliving') + Cardinality(OpensLate') <= beside'
  BY <1>1, <1>2, <1>3, <1>5, <1>6, <1>7
<1>9. Cardinality(Outliving') + Cardinality(Busy') <= beside' + 1
  BY <1>1, <1>2, <1>3, <1>6, <1>7
<1> QED
  BY <1>8, <1>9 DEF OutlivingCounted

\* A request that opens one more session, which outlives its end only if the
\* request is late or somebody else is ending the admin's sessions.
LEMMA OpenCounted ==
  ASSUME ConsoleTypeOK, OutlivingCounted, NEW w \in Busy, NEW n,
         Busy' = Busy \ {w}, OpensLate' = OpensLate \ {w}, beside' = beside,
         Outliving' \subseteq Outliving \cup {n},
         n \in Outliving' => w \in OpensLate \/ \E v \in Busy \ {w} : v \notin OpensLate
  PROVE  OutlivingCounted'
<1>1. beside \in Nat
  BY DEF ConsoleTypeOK
<1>2. /\ Cardinality(Busy') = Cardinality(Busy) - 1
      /\ IsFiniteSet(Busy') /\ IsFiniteSet(OpensLate')
      /\ Cardinality(OpensLate') <= Cardinality(OpensLate)
      /\ w \in OpensLate => Cardinality(OpensLate') = Cardinality(OpensLate) - 1
  <2>1. IsFiniteSet(Busy) /\ IsFiniteSet(OpensLate) /\ Cardinality(OpensLate) \in Nat
    BY Countable
  <2>2. IsFiniteSet(Busy') /\ Cardinality(Busy') = Cardinality(Busy) - 1
    BY <2>1, FS_RemoveElement
  <2>3. /\ IsFiniteSet(OpensLate')
        /\ Cardinality(OpensLate') = IF w \in OpensLate THEN Cardinality(OpensLate) - 1
                                                        ELSE Cardinality(OpensLate)
    BY <2>1, FS_RemoveElement
  <2> QED
    BY <2>1, <2>2, <2>3
<1>3. /\ IsFiniteSet(Outliving \cup {n})
      /\ Cardinality(Outliving \cup {n}) <= Cardinality(Outliving) + 1
  <2>1. IsFiniteSet(Outliving) /\ Cardinality(Outliving) \in Nat
    BY Countable
  <2>2. /\ IsFiniteSet(Outliving \cup {n})
        /\ Cardinality(Outliving \cup {n}) = IF n \in Outliving THEN Cardinality(Outliving)
                                             ELSE Cardinality(Outliving) + 1
    BY <2>1, FS_AddElement
  <2> QED
    BY <2>1, <2>2
<1>4. IsFiniteSet(Outliving') /\ Cardinality(Outliving') <= Cardinality(Outliving) + 1
  <2>1. Cardinality(Outliving') <= Cardinality(Outliving \cup {n}) /\ IsFiniteSet(Outliving')
    BY <1>3, FS_Subset
  <2>2. Cardinality(Outliving') \in Nat /\ Cardinality(Outliving \cup {n}) \in Nat
    BY <1>3, <2>1, FS_CardinalityType
  <2> QED
    BY <1>3, <2>1, <2>2, Countable
<1>5. /\ Cardinality(Outliving) + Cardinality(Busy) <= beside + 1
      /\ Cardinality(Outliving) + Cardinality(OpensLate) <= beside
      /\ Cardinality(Outliving) \in Nat /\ Cardinality(Busy) \in Nat
      /\ Cardinality(OpensLate) \in Nat
  BY Countable DEF OutlivingCounted
<1>6. Cardinality(Outliving') \in Nat /\ Cardinality(OpensLate') \in Nat
  BY <1>2, <1>4, FS_CardinalityType
<1>7. Cardinality(Outliving') + Cardinality(Busy') <= beside' + 1
  BY <1>1, <1>2, <1>4, <1>5, <1>6
<1>8. Cardinality(Outliving') + Cardinality(OpensLate') <= beside'
  <2>1. CASE n \notin Outliving'
    <3>1. Cardinality(Outliving') <= Cardinality(Outliving)
      BY <2>1, Countable, FS_Subset
    <3> QED
      BY <1>1, <1>2, <1>5, <1>6, <3>1
  <2>2. CASE w \in OpensLate
    BY <1>1, <1>2, <1>4, <1>5, <1>6, <2>2
  <2>3. CASE \E v \in Busy \ {w} : v \notin OpensLate
    <3> PICK v \in Busy \ {w} : v \notin OpensLate
      BY <2>3
    <3>1. OpensLate' \subseteq Busy' \ {v}
      BY Countable
    <3>2. IsFiniteSet(Busy' \ {v}) /\ Cardinality(Busy' \ {v}) = Cardinality(Busy') - 1
      BY <1>2, FS_RemoveElement
    <3>3. Cardinality(OpensLate') <= Cardinality(Busy' \ {v})
      BY <3>1, <3>2, FS_Subset
    <3> QED
      BY <1>1, <1>2, <1>4, <1>5, <1>6, <3>2, <3>3
  <2> QED
    BY <2>1, <2>2, <2>3
<1> QED
  BY <1>7, <1>8 DEF OutlivingCounted

\* A request that begins: nothing it will do is late yet.
LEMMA BeginCounted ==
  ASSUME ConsoleTypeOK, SessionsInv, NEW w \in Windows, NEW q \in WorkType, BeginsAs(w, q)
  PROVE  SessionsInv'
<1>1. work' = [work EXCEPT ![w] = q] /\ work[w].step = "none" /\ q.step = "read"
  BY DEF BeginsAs
<1>2. UNCHANGED <<admins, sessions, ended>>
  BY DEF BeginsAs
<1>3. work'[w] = q /\ \A o \in Windows \ {w} : work'[o] = work[o]
  BY <1>1 DEF ConsoleTypeOK
<1>4. Busy' = Busy \cup {w} /\ w \notin Busy
  BY <1>1, <1>3 DEF Busy
<1>5. OpensLate' = OpensLate
  BY <1>1, <1>2, <1>3 DEF OpensLate, Busy, BeginsAs
<1>6. Outliving' = Outliving
  <2>1. \A s \in DOMAIN sessions : Missed(s)' <=> Missed(s)
    BY <1>1, <1>2, <1>3 DEF Missed
  <2> QED
    BY <1>2, <2>1 DEF Outliving
<1>7. SweptRight'
  <2>1. \A o \in Windows : Ordered(work[o])' /\ (work[o].cut \subseteq DOMAIN sessions)'
    BY <1>1, <1>2, <1>3 DEF SessionsInv, SweptRight, Ordered, BeginsAs
  <2> QED
    BY <1>2, <2>1 DEF SessionsInv, SweptRight
<1>8. OutlivingCounted'
  <2>1. /\ Cardinality(Outliving) + Cardinality(OpensLate) <= beside
        /\ Busy # {} => Cardinality(Outliving) + Cardinality(Busy) <= beside + 1
        /\ beside \in Nat
    BY DEF SessionsInv, OutlivingCounted, ConsoleTypeOK
  <2>2. /\ IsFiniteSet(Busy) /\ Cardinality(Busy) \in Nat
        /\ Cardinality(Outliving) \in Nat /\ Cardinality(OpensLate) \in Nat
    BY Countable
  <2>3. Cardinality(Busy') = Cardinality(Busy) + 1
    BY <1>4, <2>2, FS_AddElement
  <2>4. CASE Busy = {}
    <3>1. beside' = beside \/ beside' = beside + 1
      BY <2>4, FS_EmptySet DEF BeginsAs
    <3>2. Cardinality(Busy) = 0
      BY <2>4, FS_EmptySet
    <3> QED
      BY <1>5, <1>6, <2>1, <2>2, <2>3, <3>1, <3>2 DEF OutlivingCounted
  <2>5. CASE Busy # {}
    <3>1. beside' = beside + 1
      BY <2>5 DEF BeginsAs, Busy
    <3> QED
      BY <1>5, <1>6, <2>1, <2>2, <2>3, <2>5, <3>1 DEF OutlivingCounted
  <2> QED
    BY <2>4, <2>5
<1> QED
  BY <1>7, <1>8 DEF SessionsInv

\* revoke_all has read every session of the admin that is live.
LEMMA SweepCounted ==
  ASSUME ConsoleTypeOK, SessionsInv, NEW w \in Windows, Sweep(w)
  PROVE  SessionsInv'
<1> DEFINE q == [work[w] EXCEPT !.step = "swept", !.cut = LiveOf(work[w].target)]
<1>1. work[w] \in WorkType /\ work[w].step = "read" /\ work[w].ends
  BY DEF ConsoleTypeOK, Sweep
<1>2. /\ q.step = "swept" /\ q.cut = LiveOf(work[w].target) /\ q.target = work[w].target
      /\ q.kind = work[w].kind /\ q.ends = work[w].ends /\ q.active = work[w].active
  BY <1>1 DEF WorkType
<1>3. work' = [work EXCEPT ![w] = q] /\ UNCHANGED <<admins, sessions, ended, beside>>
  BY DEF Sweep, Swept
<1> HIDE DEF q
<1>4. work'[w] = q /\ \A o \in Windows \ {w} : work'[o] = work[o]
  BY <1>3 DEF ConsoleTypeOK
<1>5. Busy' = Busy
  BY <1>1, <1>2, <1>4 DEF Busy
<1>6. OpensLate' = OpensLate
  <2>1. \A o \in Windows : Opens(work[o])' <=> Opens(work[o])
    BY <1>2, <1>4 DEF Opens
  <2>2. \A o \in Windows : work'[o].target = work[o].target
    BY <1>2, <1>4
  <2>3. Busy \subseteq Windows
    BY DEF Busy
  <2> QED
    BY <1>3, <1>5, <2>1, <2>2, <2>3 DEF OpensLate
<1>7. Outliving' = Outliving
  <2>1. ASSUME NEW s \in DOMAIN sessions, sessions[s].live PROVE Missed(s)' <=> Missed(s)
    <3>1. sessions[s].admin = q.target => s \in q.cut
      BY <1>2, <2>1 DEF LiveOf
    <3> QED
      BY <1>1, <1>2, <1>3, <1>4, <3>1 DEF Missed
  <2> QED
    BY <1>3, <2>1 DEF Outliving
<1>8. SweptRight'
  <2>1. q.cut \subseteq DOMAIN sessions
    BY <1>2 DEF LiveOf
  <2>2. Ordered(q)
    BY <1>1, <1>2 DEF SessionsInv, SweptRight, Ordered
  <2>3. \A o \in Windows : Ordered(work[o])' /\ (work[o].cut \subseteq DOMAIN sessions)'
    BY <1>3, <1>4, <2>1, <2>2 DEF SessionsInv, SweptRight, Ordered
  <2> QED
    BY <1>3, <2>3 DEF SessionsInv, SweptRight
<1>9. OutlivingCounted'
  BY <1>3, <1>5, <1>6, <1>7 DEF SessionsInv, OutlivingCounted
<1> QED
  BY <1>8, <1>9 DEF SessionsInv

\* What is left of a request that is over.
LEMMA EndsWork ==
  ASSUME ConsoleTypeOK, NEW w \in Windows, EndWork(w)
  PROVE  /\ work'[w] = NoWork /\ \A o \in Windows \ {w} : work'[o] = work[o]
         /\ Busy' = Busy \ {w}
         /\ \A o \in Windows : Ordered(work[o]) => Ordered(work[o])'
         /\ \A o \in Windows : work'[o].cut \subseteq work[o].cut
<1>1. work'[w] = NoWork /\ \A o \in Windows \ {w} : work'[o] = work[o]
  BY DEF EndWork, ConsoleTypeOK
<1>2. NoWork.step = "none" /\ NoWork.cut = {} /\ Ordered(NoWork)
  BY DEF NoWork, Ordered, Keep
<1> QED
  BY <1>1, <1>2 DEF Busy, Ordered

\* The sessions there are after some have ended.
LEMMA WithoutIs ==
  ASSUME ConsoleTypeOK, NEW gone
  PROVE  /\ DOMAIN Without(gone) = DOMAIN sessions /\ Len(Without(gone)) = Len(sessions)
         /\ \A s \in DOMAIN sessions :
              /\ Without(gone)[s].admin = sessions[s].admin
              /\ Without(gone)[s].live => sessions[s].live /\ s \notin gone
<1>1. DOMAIN Without(gone) = DOMAIN sessions
  BY DEF Without
<1>2. Len(Without(gone)) = Len(sessions)
  BY <1>1, WithoutType, Numbered, LenProperties
<1>3. ASSUME NEW s \in DOMAIN sessions
      PROVE  /\ Without(gone)[s].admin = sessions[s].admin
             /\ Without(gone)[s].live => sessions[s].live /\ s \notin gone
  BY Numbered DEF Without, SessionType
<1> QED
  BY <1>1, <1>2, <1>3

\* A request that is over and opens nothing.
LEMMA OverSessions ==
  ASSUME ConsoleTypeOK, SessionsInv, NEW w \in Busy, EndWork(w), beside' = beside,
         DOMAIN sessions' = DOMAIN sessions, Len(sessions') = Len(sessions),
         \A a \in Admins : ended'[a] <= Len(sessions),
         Outliving' \subseteq Outliving
  PROVE  SessionsInv'
<1>1. w \in Windows
  BY DEF Busy
<1>2. OutlivingCounted'
  BY <1>1, EndsWork, OverCounted DEF SessionsInv
<1>3. SweptRight'
  BY <1>1, EndsWork DEF SessionsInv, SweptRight
<1> QED
  BY <1>2, <1>3 DEF SessionsInv

LEMMA CreateCounted ==
  ASSUME ConsoleTypeOK, SessionsInv, NEW w \in Windows, FinishCreate(w) \/ AbortWork(w)
  PROVE  SessionsInv'
<1>1. w \in Busy /\ EndWork(w) /\ UNCHANGED <<sessions, ended, beside>>
  BY DEF FinishCreate, AbortWork, Busy
<1>2. \A a \in Admins : admins[a].active => admins'[a].active
  <2>1. CASE FinishCreate(w)
    <3>1. admins' = [admins EXCEPT ![work[w].target] =
                       [exists |-> TRUE, role |-> work[w].role, active |-> TRUE]]
      BY <2>1 DEF FinishCreate
    <3> QED
      BY <3>1 DEF ConsoleTypeOK
  <2>2. CASE AbortWork(w)
    BY <2>2 DEF AbortWork
  <2> QED
    BY <2>1, <2>2
<1>3. Outliving' \subseteq Outliving
  <2>1. \A s \in DOMAIN sessions : sessions[s].admin \in Admins
    BY Numbered DEF SessionType
  <2>2. \A s \in DOMAIN sessions : Missed(s)' => Missed(s)
    BY <1>1, EndsWork DEF Missed, NoWork
  <2> QED
    BY <1>1, <1>2, <2>1, <2>2 DEF Outliving
<1>4. \A a \in Admins : ended'[a] <= Len(sessions)
  BY <1>1 DEF SessionsInv, SweptRight
<1> QED
  BY <1>1, <1>3, <1>4, OverSessions

LEMMA RevokeCounted ==
  ASSUME ConsoleTypeOK, SessionsInv, NEW s \in DOMAIN sessions, RevokeSession(s)
  PROVE  SessionsInv'
<1>1. sessions' = Without({s}) /\ UNCHANGED <<admins, work, ended, beside>>
  BY DEF RevokeSession
<1>2. /\ DOMAIN sessions' = DOMAIN sessions /\ Len(sessions') = Len(sessions)
      /\ \A n \in DOMAIN sessions : /\ sessions'[n].admin = sessions[n].admin
                                    /\ sessions'[n].live => sessions[n].live
  BY <1>1, WithoutIs
<1>3. Outliving' \subseteq Outliving
  <2>1. \A n \in DOMAIN sessions : Missed(n)' <=> Missed(n)
    BY <1>1, <1>2 DEF Missed
  <2> QED
    BY <1>1, <1>2, <2>1 DEF Outliving
<1>4. Busy' = Busy /\ OpensLate' = OpensLate
  BY <1>1 DEF Busy, OpensLate
<1>5. Cardinality(Outliving') <= Cardinality(Outliving) /\ Cardinality(Outliving') \in Nat
  BY <1>3, Countable, FS_Subset, FS_CardinalityType
<1>6. beside \in Nat /\ Cardinality(Outliving) \in Nat /\ Cardinality(OpensLate) \in Nat
      /\ Cardinality(Busy) \in Nat
  BY Countable DEF ConsoleTypeOK
<1>7. OutlivingCounted'
  BY <1>1, <1>4, <1>5, <1>6 DEF SessionsInv, OutlivingCounted
<1>8. SweptRight'
  BY <1>1, <1>2 DEF SessionsInv, SweptRight, Ordered
<1> QED
  BY <1>7, <1>8 DEF SessionsInv

\* The sessions there are once one more is open.
LEMMA OpenedIs ==
  ASSUME ConsoleTypeOK, NEW w \in Windows, Open(w)
  PROVE  LET n == Len(sessions) + 1 IN
         /\ DOMAIN sessions' = DOMAIN sessions \cup {n} /\ Len(sessions') = n
         /\ n \notin DOMAIN sessions
         /\ sessions'[n].admin = work[w].target
         /\ \A s \in DOMAIN sessions : /\ sessions'[s].admin = sessions[s].admin
                                       /\ sessions'[s].live => sessions[s].live
<1> DEFINE kept == Without({work[w].used})
           new == [admin |-> work[w].target, live |-> TRUE]
<1>1. kept \in Seq(SessionType) /\ DOMAIN kept = DOMAIN sessions /\ Len(kept) = Len(sessions)
  BY WithoutType, WithoutIs
<1>2. new \in SessionType /\ new.admin = work[w].target
  BY DEF ConsoleTypeOK, WorkType, SessionType
<1>3. \A s \in DOMAIN sessions : /\ kept[s].admin = sessions[s].admin
                                 /\ kept[s].live => sessions[s].live
  BY WithoutIs
<1>4. sessions' = Append(kept, new)
  BY DEF Open
<1> HIDE DEF kept, new
<1>5. /\ Len(sessions') = Len(sessions) + 1
      /\ \A s \in 1 .. Len(sessions) : sessions'[s] = kept[s]
      /\ sessions'[Len(sessions) + 1] = new
      /\ sessions' \in Seq(SessionType)
  BY <1>1, <1>2, <1>4, AppendProperties
<1>6. DOMAIN sessions' = 1 .. Len(sessions) + 1
  BY <1>5, LenProperties
<1> QED
  BY <1>2, <1>3, <1>5, <1>6, Numbered

LEMMA OpenedCounted ==
  ASSUME ConsoleTypeOK, SessionsInv, NEW w \in Windows, Open(w)
  PROVE  SessionsInv'
<1> DEFINE n == Len(sessions) + 1
<1>1. /\ w \in Busy /\ Opens(work[w]) /\ EndWork(w) /\ UNCHANGED <<admins, ended, beside>>
  BY DEF Open, Opens, Busy
<1>2. /\ DOMAIN sessions' = DOMAIN sessions \cup {n} /\ Len(sessions') = n
      /\ n \notin DOMAIN sessions /\ Len(sessions) \in Nat
      /\ sessions'[n].admin = work[w].target
      /\ \A s \in DOMAIN sessions : /\ sessions'[s].admin = sessions[s].admin
                                    /\ sessions'[s].live => sessions[s].live
  BY OpenedIs, Numbered
<1> HIDE DEF n
<1>3. Busy' = Busy \ {w} /\ OpensLate' = OpensLate \ {w}
  <2>1. Busy' = Busy \ {w}
    BY EndsWork, <1>1
  <2>2. \A o \in Windows \ {w} : work'[o] = work[o]
    BY EndsWork, <1>1
  <2>3. Busy \subseteq Windows
    BY DEF Busy
  <2> QED
    BY <1>1, <2>1, <2>2, <2>3 DEF OpensLate, Opens
<1>4. /\ \A o \in Windows : work'[o].step # "none" => work'[o] = work[o] /\ o # w
      /\ \A o \in Windows : work'[o].step = "swept" => work'[o] = work[o] /\ o # w
  BY <1>1, EndsWork, Nothing
<1>5. \A s \in DOMAIN sessions : Missed(s)' => Missed(s)
  BY <1>2, <1>4 DEF Missed
<1>6. Outliving' \subseteq Outliving \cup {n}
  BY <1>1, <1>2, <1>5 DEF Outliving
<1>7. ASSUME n \in Outliving' PROVE w \in OpensLate \/ \E v \in Busy \ {w} : v \notin OpensLate
  <2>1. \/ ~admins[work[w].target].active \/ n <= ended[work[w].target]
        \/ \E v \in Windows : work'[v].step = "swept"
    <3>1. \/ ~admins'[sessions'[n].admin].active \/ n <= ended'[sessions'[n].admin]
          \/ \E v \in Windows : work'[v].step = "swept"
      BY <1>7 DEF Outliving, Missed
    <3>2. sessions'[n].admin = work[w].target
      BY <1>2
    <3> QED
      BY <1>1, <3>1, <3>2
  <2>2. ~(n <= ended[work[w].target])
    <3>1. work[w].target \in Admins
      BY DEF ConsoleTypeOK, WorkType
    <3>2. ended[work[w].target] <= Len(sessions) /\ ended[work[w].target] \in Nat
      BY <3>1 DEF SessionsInv, SweptRight, ConsoleTypeOK
    <3> QED
      BY <1>2, <3>2 DEF n
  <2>3. CASE ~admins[work[w].target].active
    BY <1>1, <2>3 DEF OpensLate
  <2>4. CASE \E v \in Windows : work'[v].step = "swept"
    <3> PICK v \in Windows : work'[v].step = "swept"
      BY <2>4
    <3>1. work[v].step = "swept" /\ v # w
      BY <1>4
    <3>2. work[v].kind = "update"
      BY <3>1 DEF SessionsInv, SweptRight, Ordered
    <3> QED
      BY <3>1, <3>2 DEF Busy, OpensLate, Opens
  <2> QED
    BY <2>1, <2>2, <2>3, <2>4
<1>8. OutlivingCounted'
  BY <1>1, <1>3, <1>6, <1>7, OpenCounted DEF SessionsInv
<1>9. SweptRight'
  <2>1. \A a \in Admins : ended'[a] <= Len(sessions')
    BY <1>1, <1>2 DEF SessionsInv, SweptRight, ConsoleTypeOK, n
  <2>2. \A o \in Windows : Ordered(work[o])' /\ (work[o].cut \subseteq DOMAIN sessions)'
    BY <1>1, <1>2, EndsWork DEF SessionsInv, SweptRight
  <2> QED
    BY <2>1, <2>2 DEF SweptRight
<1> QED
  BY <1>8, <1>9 DEF SessionsInv

\* Whoever is switched off by it had every session ended by it but those that
\* others opened beside it.
LEMMA UpdateCounted ==
  ASSUME ConsoleTypeOK, SessionsInv, NEW w \in Windows, FinishUpdate(w)
  PROVE  SessionsInv'
<1> DEFINE q == work[w]
<1>1. q \in WorkType /\ q.target \in Admins /\ admins[q.target] \in AdminRow
  BY DEF ConsoleTypeOK, WorkType
<1>2. /\ q.kind = "update" /\ EndWork(w) /\ beside' = beside
      /\ sessions' = Without(q.cut)
      /\ admins' = [admins EXCEPT ![q.target] = Changed(q)]
      /\ q.ends => q.step = "swept" /\ ended' = [ended EXCEPT ![q.target] = Len(sessions)]
      /\ ~q.ends => q.step = "read" /\ ended' = ended
  BY DEF FinishUpdate
<1>3. w \in Busy /\ Ordered(q)
  BY <1>2 DEF Busy, SessionsInv, SweptRight
<1>4. /\ DOMAIN sessions' = DOMAIN sessions /\ Len(sessions') = Len(sessions)
      /\ \A s \in DOMAIN sessions : /\ sessions'[s].admin = sessions[s].admin
                                    /\ sessions'[s].live => sessions[s].live /\ s \notin q.cut
  BY <1>2, WithoutIs
<1>5. \A a \in Admins : ended'[a] <= Len(sessions)
  <2>1. \A a \in Admins : ended[a] <= Len(sessions)
    BY DEF SessionsInv, SweptRight
  <2>2. Len(sessions) \in Nat /\ ended \in [Admins -> Nat]
    BY Numbered DEF ConsoleTypeOK
  <2>3. CASE q.ends
    BY <1>2, <2>1, <2>2, <2>3
  <2>4. CASE ~q.ends
    BY <1>2, <2>1, <2>4
  <2> QED
    BY <2>3, <2>4
<1>6. \A s \in DOMAIN sessions : Missed(s)' => Missed(s)
  BY <1>2, <1>4, EndsWork DEF Missed, NoWork
<1>7. ASSUME ~q.ends, admins[q.target].active PROVE Changed(q).active
  <2>1. q.active \in {"on", Keep}
    BY <1>1, <1>2, <1>3, <1>7 DEF Ordered, WorkType
  <2> QED
    BY <1>7, <2>1 DEF Changed
<1>8. Outliving' \subseteq Outliving
  <2> SUFFICES ASSUME NEW s \in Outliving' PROVE s \in Outliving
    OBVIOUS
  <2>1. /\ s \in DOMAIN sessions /\ sessions[s].live /\ sessions[s].admin \in Admins
        /\ s \notin q.cut /\ sessions'[s].admin = sessions[s].admin
        /\ \/ ~admins'[sessions[s].admin].active \/ s <= ended'[sessions[s].admin] \/ Missed(s)
    BY <1>4, <1>6, Numbered DEF Outliving, SessionType
  <2>2. CASE sessions[s].admin = q.target /\ q.ends
    BY <1>2, <2>1, <2>2 DEF Outliving, Missed
  <2>3. CASE sessions[s].admin # q.target
    BY <1>2, <2>1, <2>3 DEF Outliving, ConsoleTypeOK
  <2>4. CASE sessions[s].admin = q.target /\ ~q.ends
    BY <1>2, <1>7, <2>1, <2>4 DEF Outliving, ConsoleTypeOK
  <2> QED
    BY <2>2, <2>3, <2>4
<1> QED
  BY <1>2, <1>3, <1>4, <1>5, <1>8, OverSessions

\* No session outlives the deactivation, the removal or the password change
\* that came after it, but one for each request that began beside another.
THEOREM SessionsAreEnded == ConsoleSpec => []SessionsEnd
<1>1. ASSUME ConsoleInit PROVE SessionsInv
  <2>1. Busy = {} /\ OpensLate = {} /\ Outliving = {}
    BY <1>1 DEF ConsoleInit, Busy, OpensLate, Outliving, NoWork
  <2>2. SweptRight
    BY <1>1, ConsoleAssumption DEF ConsoleInit, SweptRight, Ordered, NoWork, Keep
  <2> QED
    BY <1>1, <2>1, <2>2, FS_EmptySet DEF ConsoleInit, SessionsInv, OutlivingCounted
<1>2. ConsoleTypeOK /\ SessionsInv /\ [ConsoleNext]_consoleVars => SessionsInv'
  <2> SUFFICES ASSUME ConsoleTypeOK, SessionsInv, [ConsoleNext]_consoleVars PROVE SessionsInv'
    OBVIOUS
  <2>1. ASSUME NEW w \in Windows, WorkBegins(w) PROVE SessionsInv'
    BY <2>1, WorkBeginnings, BeginCounted
  <2>2. ASSUME NEW w \in Windows,
               Sweep(w) \/ FinishCreate(w) \/ FinishUpdate(w) \/ Open(w) \/ AbortWork(w)
        PROVE  SessionsInv'
    BY <2>2, SweepCounted, CreateCounted, UpdateCounted, OpenedCounted
  <2>3. ASSUME NEW s \in DOMAIN sessions, RevokeSession(s) PROVE SessionsInv'
    BY <2>3, RevokeCounted
  <2>4. CASE UNCHANGED consoleVars
    BY <2>4 DEF consoleVars, SessionsInv, OutlivingCounted, SweptRight, Outliving, OpensLate,
                Busy, Missed, Ordered, Opens
  <2> QED
    BY <2>1, <2>2, <2>3, <2>4, ConsoleSteps
<1>3. ConsoleTypeOK /\ SessionsInv => SessionsEnd
  <2> SUFFICES ASSUME ConsoleTypeOK, SessionsInv PROVE SessionsEnd
    OBVIOUS
  <2>1. Outlived \subseteq Outliving
    BY DEF Outlived, Outliving
  <2>2. Cardinality(Outlived) <= Cardinality(Outliving) /\ Cardinality(Outlived) \in Nat
    BY <2>1, Countable, FS_Subset, FS_CardinalityType
  <2>3. /\ Cardinality(Outliving) + Cardinality(OpensLate) <= beside
        /\ Cardinality(Outliving) \in Nat /\ Cardinality(OpensLate) \in Nat /\ beside \in Nat
    BY Countable DEF SessionsInv, OutlivingCounted, ConsoleTypeOK
  <2> QED
    BY <2>2, <2>3 DEF SessionsEnd
<1> QED
  BY <1>1, <1>2, <1>3, ConsoleTypeCorrect, PTL DEF ConsoleSpec
===============================================================================
