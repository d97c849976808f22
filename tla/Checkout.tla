------------------------------ MODULE Checkout ------------------------------
(***************************************************************************)
(* Starting a payment: a Kora page, a Paystack page, or a prompt pushed to *)
(* the student's phone by Safaricom with Kora to fall back on.  What       *)
(* becomes of a payment once it has a row is Settlement's.                 *)
(*                                                                         *)
(* A call to a provider may not get through, be refused, or get through    *)
(* and lose its answer.  A prompt can be paid as soon as it rings, a page  *)
(* once the app was given its address; either is told by the request that  *)
(* opened it and its provider, for every request mints references of its   *)
(* own.  Requests that name no plan for sale or no Safaricom number change *)
(* nothing and are left out.                                               *)
(***************************************************************************)
EXTENDS Naturals, FiniteSets

CONSTANTS
  Taps,          \* requests to start a payment
  Configured     \* the providers this server has keys for

Providers == {"daraja", "kora", "paystack"}

ASSUME CheckoutAssumption == Configured \subseteq Providers

VARIABLES
  tap,      \* how far each request has come
  rings,    \* prompts that rang for it
  payable,  \* what a student can pay
  rows,     \* the payments recorded as pending
  paid,
  unlucky   \* requests that lost an answer or ended before their commit

checkoutVars == <<tap, rings, payable, rows, paid, unlucky>>

Nothing == [step |-> "new", provider |-> "kora", attempt |-> 1]

CheckoutInit ==
  /\ tap = [r \in Taps |-> Nothing]
  /\ rings = [r \in Taps |-> 0]
  /\ payable = {} /\ rows = {} /\ paid = {} /\ unlucky = {}

At(r, step) == tap[r].step = step
Goes(r, step, provider) ==
  tap' = [tap EXCEPT ![r] = [step |-> step, provider |-> provider, attempt |-> 1]]
Over(r) == Goes(r, "over", tap[r].provider)
Money == <<rings, payable, rows, paid>>

\* POST /checkout.
StartCheckout(r) ==
  /\ At(r, "new") /\ "kora" \in Configured
  /\ Goes(r, "open", "kora")
  /\ UNCHANGED <<Money, unlucky>>

\* POST /card.
StartCard(r) ==
  /\ At(r, "new") /\ "paystack" \in Configured
  /\ Goes(r, "open", "paystack")
  /\ UNCHANGED <<Money, unlucky>>

\* POST /mpesa.
StartMpesa(r) ==
  /\ At(r, "new")
  /\ Goes(r, IF "daraja" \in Configured THEN "push" ELSE "fallback", "daraja")
  /\ UNCHANGED <<Money, unlucky>>

-----------------------------------------------------------------------------
\* Mutant of Retried: a request whose answer was lost is sent again.
RetriedWhenLost == {"unconnected", "lost"}

\* What is sent a second time: a call whose connection never opened.
Retried == {"unconnected"}

\* What may come of sending the push: it rings if it was accepted, and may
\* have if the answer was lost or cannot be read.
Outcomes == {"unconnected", "lost", "refused", "unreadable", "accepted"}
Rings(outcome) ==
  CASE outcome = "accepted" -> {1}
    [] outcome \in {"lost", "unreadable"} -> {0, 1}
    [] OTHER -> {0}

\* push_stk, by way of _post.  An answer that is not JSON is not an AppError
\* and ends the request.
PushStk(r) ==
  /\ At(r, "push")
  /\ \E outcome \in Outcomes : \E n \in Rings(outcome) :
       /\ rings' = [rings EXCEPT ![r] = @ + n]
       /\ payable' = IF n = 1 THEN payable \cup {<<r, "daraja">>} ELSE payable
       /\ unlucky' = IF outcome \in {"lost", "unreadable"} THEN unlucky \cup {r} ELSE unlucky
       /\ IF outcome \in Retried /\ tap[r].attempt = 1
          THEN tap' = [tap EXCEPT ![r].attempt = 2]
          ELSE CASE outcome = "accepted" -> Goes(r, "record", "daraja")
                 [] outcome = "unreadable" -> Over(r)
                 [] OTHER -> Goes(r, "fallback", "daraja")
  /\ UNCHANGED <<rows, paid>>

\* There is no token to push with.
NoToken(r) ==
  /\ At(r, "push") /\ tap[r].attempt = 1
  /\ Goes(r, "fallback", "daraja")
  /\ UNCHANGED <<Money, unlucky>>

\* The same payment with Kora, under a reference of its own.
MpesaFallback(r) ==
  /\ At(r, "fallback")
  /\ IF "kora" \in Configured THEN Goes(r, "open", "kora") ELSE Over(r)
  /\ UNCHANGED <<Money, unlucky>>

\* initialize_transaction opened a page, whose address the server now has; or
\* it failed and the request with it.
InitializeTransaction(r) ==
  /\ At(r, "open") /\ tap[r].provider = "kora"
  /\ Goes(r, "record", "kora") \/ Over(r)
  /\ UNCHANGED <<Money, unlucky>>

InitializeCard(r) ==
  /\ At(r, "open") /\ tap[r].provider = "paystack"
  /\ Goes(r, "record", "paystack") \/ Over(r)
  /\ UNCHANGED <<Money, unlucky>>

\* Mutant of Recorded: a prompt is left to its callback to record.
RecordedUnlessPrompt(r) == {<<r, p>> : p \in {tap[r].provider} \ {"daraja"}}

Recorded(r) == {<<r, tap[r].provider>>}

\* record_pending_payment and the commit, after which the app gets its answer.
RecordPending(r) ==
  /\ At(r, "record")
  /\ rows' = rows \cup Recorded(r)
  /\ payable' = payable \cup {<<r, tap[r].provider>>}
  /\ Over(r)
  /\ UNCHANGED <<rings, paid, unlucky>>

\* The process stops, or the database does, before the commit.
Lost(r) ==
  /\ tap[r].step \notin {"new", "over"}
  /\ Over(r) /\ unlucky' = unlucky \cup {r}
  /\ UNCHANGED Money

StudentPays(c) ==
  /\ c \in payable \ paid
  /\ paid' = paid \cup {c}
  /\ UNCHANGED <<tap, rings, payable, rows, unlucky>>

CheckoutNext ==
  \/ \E r \in Taps :
       \/ StartCheckout(r) \/ StartCard(r) \/ StartMpesa(r)
       \/ PushStk(r) \/ NoToken(r) \/ MpesaFallback(r)
       \/ InitializeTransaction(r) \/ InitializeCard(r) \/ RecordPending(r) \/ Lost(r)
  \/ \E c \in Taps \X Providers : StudentPays(c)

CheckoutSpec == CheckoutInit /\ [][CheckoutNext]_checkoutVars

-----------------------------------------------------------------------------
\* Every variable keeps to its type.
CheckoutTypeOK ==
  /\ tap \in [Taps -> [step : {"new", "push", "fallback", "open", "record", "over"},
                       provider : Providers, attempt : {1, 2}]]
  /\ rings \in [Taps -> Nat]
  /\ payable \subseteq Taps \X Providers
  /\ rows \subseteq Taps \X Providers
  /\ paid \subseteq payable
  /\ unlucky \subseteq Taps

\* One tap rings the phone at most once, whatever happens to the calls: "a
\* retry may put a second PIN prompt on a student's phone" (_RETRYABLE).
OnePrompt == \A r \in Taps : rings[r] <= 1

\* Money has a row to be found by, once the request that opened the payment is
\* over, and one tap is paid once.  The exception is a prompt whose answer was
\* lost, or whose request was: it can be paid with no row, and beside Kora.
MoneyIsTraced ==
  /\ \A c \in paid \ rows :
       c[2] = "daraja" /\ (At(c[1], "over") => c[1] \in unlucky)
  /\ \A c, d \in paid : c[1] = d[1] /\ c # d => c[1] \in unlucky

\* What makes the two inductive: until its push a request has rung nothing and
\* opened nothing to pay; from there on, what can be paid beside the provider it
\* stands for now comes of an answer that was lost.
Traced(r) ==
  /\ rings[r] <= 1
  /\ tap[r].step \in {"new", "push"} => rings[r] = 0
  /\ \A p \in Providers : <<r, p>> \in payable =>
       /\ tap[r].step \notin {"new", "push"}
       /\ tap[r].step \in {"fallback", "open"} => r \in unlucky
       /\ tap[r].step = "record" => p = tap[r].provider \/ r \in unlucky
       /\ <<r, p>> \notin rows =>
            p = "daraja" /\ (tap[r].step = "record" => tap[r].provider = "daraja" \/ r \in unlucky)
                       /\ (tap[r].step # "record" => r \in unlucky)
       /\ \A q \in Providers \ {p} : <<r, q>> \in payable => r \in unlucky

AllTraced == \A r \in Taps : Traced(r)
=============================================================================
