------------------------------- MODULE App_proofs -------------------------------
(***************************************************************************)
(* What holds of Checkout for any number of requests and any providers, of *)
(* Tutor for any requests and any ceilings, and of Releases for any        *)
(* versions.                                                               *)
(*                                                                         *)
(* The proofs about Tutor take each action of Next as one of the moves it  *)
(* is of the counters (Moves), and argue about those.  Three invariants    *)
(* stand on each other: a request writes its counters in order and holds   *)
(* what it wrote alone (Paths); what is stored counts no more than was     *)
(* given (NoMoreThanServed) and at most the overlaps less (Floor); so who  *)
(* is let in finds room under the ceiling (Room).                          *)
(*                                                                         *)
(* The proof about Releases carries that every set of releases has a       *)
(* newest one (AnyHaveNewest), which a new release extends: no induction   *)
(* over the set is needed.                                                 *)
(***************************************************************************)
EXTENDS Tutor, Checkout, Releases, Streak, FiniteSetTheorems, SequenceTheorems, WellFoundedInduction, TLAPS

-----------------------------------------------------------------------------
(* Checkout: types.                                                        *)

\* Every variable keeps to its type, for any requests and providers.
THEOREM CheckoutTypeCorrect == CheckoutSpec => []CheckoutTypeOK
<1>1. CheckoutInit => CheckoutTypeOK
  BY DEF CheckoutInit, CheckoutTypeOK, Nothing, Providers
<1>2. CheckoutTypeOK /\ [CheckoutNext]_checkoutVars => CheckoutTypeOK'
  <2> SUFFICES ASSUME CheckoutTypeOK, [CheckoutNext]_checkoutVars PROVE CheckoutTypeOK'
    OBVIOUS
  <2> USE DEF CheckoutTypeOK, Money, Goes, Over, At, Providers
  <2>1. ASSUME NEW r \in Taps, StartCheckout(r) \/ StartCard(r) PROVE CheckoutTypeOK'
    BY <2>1 DEF StartCheckout, StartCard
  <2>2. ASSUME NEW r \in Taps, StartMpesa(r) PROVE CheckoutTypeOK'
    BY <2>2 DEF StartMpesa
  <2>3. ASSUME NEW r \in Taps, PushStk(r) PROVE CheckoutTypeOK'
    <3> PICK outcome \in Outcomes : \E n \in Rings(outcome) :
          /\ rings' = [rings EXCEPT ![r] = @ + n]
          /\ payable' = IF n = 1 THEN payable \cup {<<r, "daraja">>} ELSE payable
          /\ unlucky' = IF outcome \in {"lost", "unreadable"} THEN unlucky \cup {r} ELSE unlucky
          /\ IF outcome \in Retried /\ tap[r].attempt = 1
             THEN tap' = [tap EXCEPT ![r].attempt = 2]
             ELSE CASE outcome = "accepted" -> Goes(r, "record", "daraja")
                    [] outcome = "unreadable" -> Over(r)
                    [] OTHER -> Goes(r, "fallback", "daraja")
      BY <2>3 DEF PushStk
    <3>1. Rings(outcome) \subseteq {0, 1}
      BY DEF Rings
    <3>2. UNCHANGED <<rows, paid>>
      BY <2>3 DEF PushStk
    <3> QED
      BY <3>1, <3>2
  <2>4. ASSUME NEW r \in Taps, NoToken(r) \/ MpesaFallback(r) PROVE CheckoutTypeOK'
    BY <2>4 DEF NoToken, MpesaFallback
  <2>5. ASSUME NEW r \in Taps, InitializeTransaction(r) \/ InitializeCard(r) PROVE CheckoutTypeOK'
    BY <2>5 DEF InitializeTransaction, InitializeCard
  <2>6. ASSUME NEW r \in Taps, RecordPending(r) \/ Lost(r) PROVE CheckoutTypeOK'
    BY <2>6 DEF RecordPending, Lost, Recorded
  <2>7. ASSUME NEW c \in Taps \X Providers, StudentPays(c) PROVE CheckoutTypeOK'
    BY <2>7 DEF StudentPays
  <2>8. CASE UNCHANGED checkoutVars
    BY <2>8 DEF checkoutVars
  <2> QED
    BY <2>1, <2>2, <2>3, <2>4, <2>5, <2>6, <2>7, <2>8 DEF CheckoutNext
<1> QED
  BY <1>1, <1>2, PTL DEF CheckoutSpec

-----------------------------------------------------------------------------
(* Checkout: safety.                                                       *)

\* A request is traced after a step if it was before and the step did nothing
\* to it.
LEMMA Untouched ==
  ASSUME NEW q \in Taps, Traced(q), tap'[q] = tap[q], rings'[q] = rings[q],
         \A p \in Providers : /\ <<q, p>> \in payable' <=> <<q, p>> \in payable
                              /\ <<q, p>> \in rows' <=> <<q, p>> \in rows,
         q \in unlucky => q \in unlucky'
  PROVE  Traced(q)'
  BY DEF Traced

\* A step of one request leaves the other ones as they are.
LEMMA TracedStep ==
  ASSUME CheckoutTypeOK, AllTraced, NEW r \in Taps, CheckoutTypeOK',
         \A q \in Taps \ {r} :
           /\ tap'[q] = tap[q] /\ rings'[q] = rings[q]
           /\ \A p \in Providers : /\ <<q, p>> \in payable' <=> <<q, p>> \in payable
                                   /\ <<q, p>> \in rows' <=> <<q, p>> \in rows
           /\ q \in unlucky => q \in unlucky',
         Traced(r)'
  PROVE  AllTraced'
<1>1. ASSUME NEW q \in Taps \ {r} PROVE Traced(q)'
  BY <1>1, Untouched DEF AllTraced
<1> QED
  BY <1>1 DEF AllTraced

\* Starting a payment, and going from one provider to the next.
LEMMA TracedOnTheWay ==
  ASSUME CheckoutTypeOK, CheckoutTypeOK', AllTraced, NEW r \in Taps,
         \/ StartCheckout(r) \/ StartCard(r) \/ StartMpesa(r) \/ NoToken(r)
         \/ MpesaFallback(r) \/ InitializeTransaction(r) \/ InitializeCard(r)
  PROVE  AllTraced'
<1> USE DEF StartCheckout, StartCard, StartMpesa, NoToken, MpesaFallback, InitializeTransaction,
            InitializeCard, Money, Goes, Over, At
<1>1. UNCHANGED <<rings, payable, rows, unlucky>>
  OBVIOUS
<1>2. \A q \in Taps \ {r} : tap'[q] = tap[q]
  BY DEF CheckoutTypeOK
<1>3. \/ tap[r].step = "new" /\ tap'[r].step \in {"push", "fallback", "open"}
      \/ tap[r].step = "push" /\ tap'[r].step = "fallback"
      \/ tap[r].step = "fallback" /\ tap'[r].step \in {"open", "over"}
      \/ tap[r].step = "open" /\ tap'[r].step \in {"record", "over"}
  BY DEF CheckoutTypeOK
<1>4. Traced(r)
  BY DEF AllTraced
<1>5. Traced(r)'
  BY <1>1, <1>3, <1>4 DEF Traced
<1> QED
  BY <1>1, <1>2, <1>5, TracedStep

\* The push: an answer that was lost is remembered.
LEMMA TracedPush ==
  ASSUME CheckoutTypeOK, CheckoutTypeOK', AllTraced, NEW r \in Taps, PushStk(r)
  PROVE  AllTraced'
<1> PICK outcome \in Outcomes : \E n \in Rings(outcome) :
      /\ rings' = [rings EXCEPT ![r] = @ + n]
      /\ payable' = IF n = 1 THEN payable \cup {<<r, "daraja">>} ELSE payable
      /\ unlucky' = IF outcome \in {"lost", "unreadable"} THEN unlucky \cup {r} ELSE unlucky
      /\ IF outcome \in Retried /\ tap[r].attempt = 1
         THEN tap' = [tap EXCEPT ![r].attempt = 2]
         ELSE CASE outcome = "accepted" -> Goes(r, "record", "daraja")
                [] outcome = "unreadable" -> Over(r)
                [] OTHER -> Goes(r, "fallback", "daraja")
  BY DEF PushStk
<1> PICK n \in Rings(outcome) :
      /\ rings' = [rings EXCEPT ![r] = @ + n]
      /\ payable' = IF n = 1 THEN payable \cup {<<r, "daraja">>} ELSE payable
      /\ unlucky' = IF outcome \in {"lost", "unreadable"} THEN unlucky \cup {r} ELSE unlucky
      /\ IF outcome \in Retried /\ tap[r].attempt = 1
         THEN tap' = [tap EXCEPT ![r].attempt = 2]
         ELSE CASE outcome = "accepted" -> Goes(r, "record", "daraja")
                [] outcome = "unreadable" -> Over(r)
                [] OTHER -> Goes(r, "fallback", "daraja")
  OBVIOUS
<1>1. rows' = rows /\ tap[r].step = "push"
  BY DEF PushStk, At
<1>2. Traced(r)
  BY DEF AllTraced
<1>3. \/ outcome = "accepted" /\ n = 1
      \/ outcome \in {"lost", "unreadable"} /\ n \in {0, 1}
      \/ outcome \in {"unconnected", "refused"} /\ n = 0
  BY DEF Outcomes, Rings
<1>4. \A q \in Taps \ {r} : tap'[q] = tap[q]
  BY DEF CheckoutTypeOK, Goes, Over
<1>5. \/ tap'[r].step = "push" /\ n = 0
      \/ tap'[r].step = "record" /\ tap'[r].provider = "daraja"
      \/ tap'[r].step = "over" /\ r \in unlucky'
      \/ tap'[r].step = "fallback" /\ (n = 1 => r \in unlucky')
  BY <1>1, <1>3 DEF CheckoutTypeOK, Goes, Over, Retried
<1>6. rings'[r] = n
  BY <1>1, <1>2, <1>3 DEF Traced, CheckoutTypeOK
<1>7. \A p \in Providers : <<r, p>> \in payable' => n = 1 /\ p = "daraja"
  BY <1>1, <1>2 DEF Traced
<1>8. Traced(r)'
  BY <1>3, <1>5, <1>6, <1>7 DEF Traced
<1>9. \A q \in Taps \ {r}, p \in Providers : <<q, p>> \in payable' <=> <<q, p>> \in payable
  OBVIOUS
<1>10. \A q \in Taps \ {r} : rings'[q] = rings[q]
  BY DEF CheckoutTypeOK
<1> QED
  BY <1>1, <1>4, <1>8, <1>9, <1>10, TracedStep

\* The row is there when the app is answered.
LEMMA TracedRecord ==
  ASSUME CheckoutTypeOK, CheckoutTypeOK', AllTraced, NEW r \in Taps, RecordPending(r)
  PROVE  AllTraced'
<1> USE DEF RecordPending, Recorded, Over, Goes, At
<1>1. Traced(r)
  BY DEF AllTraced
<1>2. /\ tap[r].step = "record" /\ tap'[r].step = "over"
      /\ UNCHANGED <<rings, unlucky>>
      /\ tap[r].provider \in Providers
  BY DEF CheckoutTypeOK
<1>3. \A p \in Providers : <<r, p>> \in payable' => <<r, p>> \in payable \/ p = tap[r].provider
  OBVIOUS
<1>4. <<r, tap[r].provider>> \in rows' /\ rows \subseteq rows'
  OBVIOUS
<1>5. Traced(r)'
  BY <1>1, <1>2, <1>3, <1>4 DEF Traced
<1>6. \A q \in Taps \ {r} : tap'[q] = tap[q]
  BY DEF CheckoutTypeOK
<1>7. \A q \in Taps \ {r}, p \in Providers : /\ <<q, p>> \in payable' <=> <<q, p>> \in payable
                                             /\ <<q, p>> \in rows' <=> <<q, p>> \in rows
  OBVIOUS
<1> QED
  BY <1>2, <1>5, <1>6, <1>7, TracedStep

\* A request that ends before its commit is remembered too.
LEMMA TracedLost ==
  ASSUME CheckoutTypeOK, CheckoutTypeOK', AllTraced, NEW r \in Taps, Lost(r)
  PROVE  AllTraced'
<1> USE DEF Lost, Over, Goes, Money
<1>1. Traced(r) /\ tap'[r].step = "over" /\ r \in unlucky'
  BY DEF AllTraced, CheckoutTypeOK
<1>2. UNCHANGED <<rings, payable, rows>> /\ tap[r].step # "new"
  OBVIOUS
<1>3. Traced(r)'
  BY <1>1, <1>2 DEF Traced
<1>4. \A q \in Taps \ {r} : tap'[q] = tap[q]
  BY DEF CheckoutTypeOK
<1> QED
  BY <1>2, <1>3, <1>4, TracedStep

\* Whatever calls fail or lose their answers, every request is traced.
THEOREM EveryTapIsTraced == CheckoutSpec => []AllTraced
<1>1. CheckoutInit => AllTraced
  BY DEF CheckoutInit, AllTraced, Traced, Nothing
<1>2. CheckoutTypeOK /\ CheckoutTypeOK' /\ AllTraced /\ [CheckoutNext]_checkoutVars => AllTraced'
  <2> SUFFICES ASSUME CheckoutTypeOK, CheckoutTypeOK', AllTraced, [CheckoutNext]_checkoutVars PROVE AllTraced'
    OBVIOUS
  <2>1. ASSUME NEW c \in Taps \X Providers, StudentPays(c) PROVE AllTraced'
    BY <2>1 DEF StudentPays, AllTraced, Traced
  <2>2. CASE UNCHANGED checkoutVars
    BY <2>2 DEF checkoutVars, AllTraced, Traced
  <2> QED
    BY <2>1, <2>2, TracedOnTheWay, TracedPush, TracedRecord, TracedLost DEF CheckoutNext
<1> QED
  BY <1>1, <1>2, CheckoutTypeCorrect, PTL DEF CheckoutSpec

\* One tap rings the phone at most once, whatever happens to the calls.
THEOREM NoSecondPrompt == CheckoutSpec => []OnePrompt
<1>1. AllTraced => OnePrompt
  BY DEF AllTraced, Traced, OnePrompt
<1> QED
  BY <1>1, EveryTapIsTraced, PTL

\* Money without a row, and one tap paid twice, come only of an answer or a
\* request that was lost.
THEOREM MoneyHasARow == CheckoutSpec => []MoneyIsTraced
<1>1. CheckoutTypeOK /\ AllTraced => MoneyIsTraced
  <2> SUFFICES ASSUME CheckoutTypeOK, AllTraced PROVE MoneyIsTraced
    OBVIOUS
  <2>1. \A c \in paid : c[1] \in Taps /\ c[2] \in Providers /\ c = <<c[1], c[2]>>
    BY DEF CheckoutTypeOK
  <2>2. ASSUME NEW c \in paid \ rows
        PROVE  c[2] = "daraja" /\ (At(c[1], "over") => c[1] \in unlucky)
    BY <2>1, <2>2 DEF CheckoutTypeOK, AllTraced, Traced, At
  <2>3. ASSUME NEW c \in paid, NEW d \in paid, c[1] = d[1], c # d
        PROVE  c[1] \in unlucky
    <3>1. c[2] # d[2]
      BY <2>1, <2>3
    <3>2. /\ <<c[1], c[2]>> \in payable /\ <<c[1], d[2]>> \in payable
          /\ d[2] \in Providers \ {c[2]}
      BY <2>1, <2>3, <3>1 DEF CheckoutTypeOK
    <3> QED
      BY <2>1, <3>2 DEF AllTraced, Traced
  <2> QED
    BY <2>2, <2>3 DEF MoneyIsTraced
<1> QED
  BY <1>1, CheckoutTypeCorrect, EveryTapIsTraced, PTL

-----------------------------------------------------------------------------
(* Counters, and what a request writes of them.                            *)

\* A map of counters, by its keys.
LEMMA CountersAre ==
  ASSUME NEW f, f \in Counters
  PROVE  /\ DOMAIN f \subseteq Keys
         /\ f = [k \in DOMAIN f |-> f[k]]
         /\ \A k \in DOMAIN f : f[k] \in MeterRow /\ f[k].count \in Nat /\ f[k].born \in Nat
<1>1. PICK keys \in SUBSET Keys : f \in [keys -> MeterRow]
  BY DEF Counters
<1>2. \A k \in keys : f[k] \in MeterRow
  BY <1>1
<1>3. \A row \in MeterRow : row.count \in Nat /\ row.born \in Nat
  BY TutorAssumption DEF MeterRow
<1> QED
  BY <1>1, <1>2, <1>3

LEMMA ToCounters ==
  ASSUME NEW keys \in SUBSET Keys, NEW f \in [keys -> MeterRow]
  PROVE  f \in Counters
BY DEF Counters

LEMMA NoCounters == <<>> \in Counters /\ DOMAIN <<>> = {}
<1>1. <<>> \in [{} -> MeterRow]
  OBVIOUS
<1>2. {} \in SUBSET Keys
  OBVIOUS
<1> QED
  BY <1>1, <1>2, ToCounters

LEMMA Overlaid ==
  ASSUME NEW new \in Counters, NEW old \in Counters
  PROVE  /\ Overlay(new, old) \in Counters
         /\ DOMAIN Overlay(new, old) = DOMAIN new \cup DOMAIN old
         /\ \A k \in DOMAIN new : Overlay(new, old)[k] = new[k]
         /\ \A k \in DOMAIN old \ DOMAIN new : Overlay(new, old)[k] = old[k]
<1> DEFINE f == Overlay(new, old)
<1>1. /\ DOMAIN f = DOMAIN new \cup DOMAIN old
      /\ \A k \in DOMAIN new : f[k] = new[k]
      /\ \A k \in DOMAIN old \ DOMAIN new : f[k] = old[k]
  BY DEF Overlay
<1>2. DOMAIN f \subseteq Keys /\ \A k \in DOMAIN f : f[k] \in MeterRow
  BY <1>1, CountersAre
<1>3. f = [k \in DOMAIN f |-> f[k]]
  BY DEF Overlay
<1> HIDE DEF f
<1>4. f \in [DOMAIN f -> MeterRow]
  BY <1>2, <1>3
<1>5. f \in Counters
  BY <1>2, <1>4, ToCounters
<1> QED
  BY <1>1, <1>5 DEF f

LEMMA Restricted ==
  ASSUME NEW f \in Counters, NEW keys \in SUBSET DOMAIN f
  PROVE  /\ Restrict(f, keys) \in Counters
         /\ DOMAIN Restrict(f, keys) = keys
         /\ \A k \in keys : Restrict(f, keys)[k] = f[k]
<1>1. /\ DOMAIN Restrict(f, keys) = keys
      /\ \A k \in keys : Restrict(f, keys)[k] = f[k]
  BY DEF Restrict
<1>2. Restrict(f, keys) \in [keys -> MeterRow]
  BY CountersAre DEF Restrict
<1>3. keys \in SUBSET Keys
  BY CountersAre
<1> QED
  BY <1>1, <1>2, <1>3, ToCounters

LEMMA RowTypes ==
  /\ NoRow \in MeterRow /\ NoRow.count = 0 /\ NoRow.born = MaxActs + 1
  /\ \A row \in MeterRow : row.count \in Nat /\ row.born \in Nat
  /\ \A n \in Nat, b \in 0 .. MaxActs : [count |-> n, born |-> b] \in MeterRow
BY TutorAssumption DEF NoRow, MeterRow

\* The month is one of the calendar's, and so every key is one.
LEMMA KeysAre ==
  ASSUME TypeOK
  PROVE  /\ MonthKey \in Months
         /\ \A m \in Metrics : KeyOf(m) \in Keys /\ KeyOf(m)[1] = m
         /\ \A m \in Monthly : KeyOf(m) = <<m, MonthKey>>
         /\ KeyOf("ai_queries_lifetime") = <<"ai_queries_lifetime", Lifetime>>
<1>1. MonthKey \in Months
  <2>1. now \in Nat /\ zone \in Nat /\ now <= MaxTime /\ zone <= 1 /\ MaxTime \in Nat
    BY TutorAssumption DEF TypeOK
  <2>2. now + zone <= MaxTime + 1
    BY <2>1
  <2>3. \A a, b \in Nat : a <= b => a \div 2 <= b \div 2
    OBVIOUS
  <2>4. (now + zone) \div 2 <= (MaxTime + 1) \div 2
    BY <2>1, <2>2, <2>3
  <2> QED
    BY <2>1, <2>4 DEF MonthKey, Months
<1>2. \A m \in Monthly : KeyOf(m) = <<m, MonthKey>>
  BY DEF KeyOf, PeriodOf
<1>3. \A m \in Metrics \ Monthly : KeyOf(m) = <<m, Lifetime>>
  BY DEF KeyOf, PeriodOf
<1>4. "ai_queries_lifetime" \in Metrics \ Monthly
  BY DEF Metrics, Monthly
<1>5. \A m \in Monthly : <<m, MonthKey>> \in Keys
  BY <1>1 DEF Keys
<1>6. \A m \in Metrics \ Monthly : <<m, Lifetime>> \in Keys
  BY DEF Keys
<1>7. \A m \in Metrics : m \in Monthly \/ m \in Metrics \ Monthly
  OBVIOUS
<1> QED
  BY <1>1, <1>2, <1>3, <1>4, <1>5, <1>6, <1>7

-----------------------------------------------------------------------------
(* What a step is, as far as the counters go.                              *)

\* No row was born after now.
Dated ==
  /\ \A k \in DOMAIN meter : meter[k].born <= acts
  /\ \A r \in Requests : \A k \in DOMAIN req[r].wrote : req[r].wrote[k].born <= acts
  /\ \A r \in Requests : req[r].seen = NoRow \/ req[r].seen.born <= acts

OthersRest(r) == \A s \in Requests \ {r} : req'[s] = req[s]
SamePlan(r) == req'[r].kind = req[r].kind /\ req'[r].tier = req[r].tier

\* A request begins, or is refused.
Started(r) ==
  /\ ~UnderWay(r)
  /\ req'[r].step = IF Allowed(req'[r].kind, tier) THEN "checked" ELSE "refused"
  /\ req'[r].tier = tier /\ req'[r].left = Spends(req'[r].kind, tier)
  /\ DOMAIN req'[r].wrote = {} /\ req'[r].seen = NoRow
  /\ overlaps' = IF SomeUnderWay THEN overlaps + 1 ELSE overlaps
  /\ UNCHANGED <<meter, served, straddled>>

\* It ends without a charge.
Stopped(r) ==
  /\ req'[r].step = "idle" /\ DOMAIN req'[r].wrote = {} /\ req'[r].seen = NoRow
  /\ UNCHANGED <<meter, served, overlaps, straddled>>

\* It goes on, and the counters are still ahead.
Advanced(r) ==
  /\ req[r].step \in {"checked", "planning"} /\ req'[r].step \in {"planning", "count"}
  /\ SamePlan(r) /\ req'[r].left = req[r].left /\ req'[r].wrote = req[r].wrote
  /\ req'[r].seen = req[r].seen
  /\ UNCHANGED <<meter, served, overlaps, straddled>>

\* It reads a counter, and again when the row has come to exist.
Looked(r) ==
  /\ req'[r].step = "counted"
  /\ SamePlan(r) /\ req'[r].left = req[r].left /\ req'[r].wrote = req[r].wrote
  /\ LET k == req'[r].key IN
     \/ /\ req[r].step = "count" /\ req[r].left # <<>> /\ k = KeyOf(Head(req[r].left))
        /\ req'[r].seen = IF k \in DOMAIN meter THEN meter[k] ELSE NoRow
     \/ /\ req[r].step = "counted" /\ k = req[r].key
        /\ k \in DOMAIN meter /\ req'[r].seen = meter[k]
  /\ UNCHANGED <<meter, served, overlaps, straddled>>

\* It writes the counter it read.
Penned(r) ==
  LET k == req[r].key
      row == req'[r].wrote[k]
  IN
  /\ req[r].step = "counted" /\ req'[r].step = "count"
  /\ \A s \in Requests \ {r} : ~HoldsKey(s, k)
  /\ SamePlan(r) /\ req'[r].left = Tail(req[r].left) /\ req'[r].seen = NoRow
  /\ DOMAIN req'[r].wrote = DOMAIN req[r].wrote \cup {k}
  /\ \A j \in DOMAIN req[r].wrote \ {k} : req'[r].wrote[j] = req[r].wrote[j]
  /\ \/ req[r].seen = NoRow /\ k \notin DOMAIN meter /\ row.count = 1 /\ row.born = acts
     \/ /\ req[r].seen # NoRow /\ k \in DOMAIN meter /\ meter[k].born = req[r].seen.born
        /\ row.count = req[r].seen.count + 1 /\ row.born = req[r].seen.born
  /\ UNCHANGED <<meter, served, overlaps, straddled>>

\* It is charged, and ends.
Charged(r) ==
  /\ req[r].step = "count" /\ req[r].left = <<>>
  /\ ~UnderWay(r)' /\ DOMAIN req'[r].wrote = {} /\ req'[r].seen = NoRow
  /\ req'[r].step \in {"idle", "stream"}
  /\ DOMAIN meter' = DOMAIN req[r].wrote \cup DOMAIN meter
  /\ \A k \in DOMAIN req[r].wrote : meter'[k] = req[r].wrote[k]
  /\ \A k \in DOMAIN meter \ DOMAIN req[r].wrote : meter'[k] = meter[k]
  /\ \A t \in Tiers, k \in Keys :
       served'[t][k] = IF t = req[r].tier /\ HoldsKey(r, k) THEN served[t][k] + 1 ELSE served[t][k]
  /\ UNCHANGED <<overlaps, straddled>>

\* The calendar, the zone or the plan moves, or the chat is pushed.
Outside ==
  /\ UNCHANGED <<meter, req, served>>
  /\ acts' \in {acts, acts + 1}
  /\ \/ MonthKey' = MonthKey /\ UNCHANGED <<overlaps, straddled>>
     \/ MonthKey' >= MonthKey /\ overlaps' = overlaps /\ Straddles
     \/ overlaps' = overlaps + 1 /\ Straddles

\* The console gives the allowance back.
GivenBack(metrics) ==
  /\ \A r \in Requests, k \in DOMAIN meter : k[1] \in metrics => ~HoldsKey(r, k)
  /\ DOMAIN meter' = {k \in DOMAIN meter : k[1] \notin metrics}
  /\ \A k \in DOMAIN meter' : meter'[k] = meter[k]
  /\ \A t \in Tiers, k \in Keys : served'[t][k] = IF k[1] \in metrics THEN 0 ELSE served[t][k]
  /\ acts' = acts + 1
  /\ UNCHANGED <<now, zone, tier, req, overlaps, straddled>>

OfRequest(r) ==
  /\ OthersRest(r)
  /\ UNCHANGED <<now, zone, tier, acts>>
  /\ Started(r) \/ Stopped(r) \/ Advanced(r) \/ Looked(r) \/ Penned(r) \/ Charged(r)

Moves ==
  \/ \E r \in Requests : OfRequest(r)
  \/ Outside
  \/ \E metrics \in SUBSET Metrics : GivenBack(metrics)
  \/ UNCHANGED vars

LEMMA Moved ==
  ASSUME TypeOK, NEW r \in Requests, NEW q \in Request, To(r, q)
  PROVE  req' \in [Requests -> Request] /\ req'[r] = q /\ OthersRest(r)
BY DEF TypeOK, To, OthersRest

LEMMA Fields ==
  ASSUME NEW q \in Request
  PROVE  /\ q.step \in Steps /\ q.kind \in Kinds /\ q.turn \subseteq Turns /\ q.tier \in Tiers
         /\ q.sawChat \in BOOLEAN /\ q.left \in Seq(Metrics) /\ q.key \in Keys
         /\ q.seen \in MeterRow /\ q.wrote \in Counters
BY DEF Request

LEMMA IdleIs ==
  /\ Idle \in Request
  /\ Idle.step = "idle" /\ Idle.kind = "ask" /\ Idle.wrote = <<>> /\ Idle.seen = NoRow
  /\ Idle.key \in Keys
<1>1. <<"ai_queries", 1>> \in Keys
  <2>1. (MaxTime + 1) \div 2 \in Nat
    BY TutorAssumption
  <2>2. 1 \in Months
    BY <2>1 DEF Months
  <2> QED
    BY <2>2 DEF Keys, Monthly
<1>2. <<>> \in Counters
  BY NoCounters
<1>3. NoRow \in MeterRow
  BY RowTypes
<1> QED
  BY <1>1, <1>2, <1>3 DEF Idle, Request, Steps, Kinds, Tiers

LEMMA SpendsAre ==
  ASSUME NEW kind \in Kinds, NEW t \in Tiers
  PROVE  Spends(kind, t) \in Seq(Metrics)
<1>1. \A a, b \in Metrics : <<a, b>> \in Seq(Metrics) /\ <<a>> \in Seq(Metrics)
  OBVIOUS
<1>2. /\ "ai_queries" \in Metrics /\ "ai_queries_lifetime" \in Metrics
      /\ QuizMetric(t) \in Metrics
  BY DEF Metrics, Monthly, QuizMetric
<1> QED
  BY <1>1, <1>2 DEF Spends

LEMMA Beginning ==
  ASSUME TypeOK, Dated, NEW r \in Requests, Begin(r)
  PROVE  TypeOK' /\ OfRequest(r)
<1>1. PICK kind \in {"ask", "quiz"}, t \in Turns :
       To(r, [Idle EXCEPT !.step = IF Allowed(kind, tier) THEN "checked" ELSE "refused",
                          !.kind = kind, !.turn = IF kind = "ask" THEN {t} ELSE {},
                          !.tier = tier, !.sawChat = chat,
                          !.left = Spends(kind, tier)])
  BY DEF Begin
<1> DEFINE step == IF Allowed(kind, tier) THEN "checked" ELSE "refused"
           turn == IF kind = "ask" THEN {t} ELSE {}
           left == Spends(kind, tier)
           q == [Idle EXCEPT !.step = step, !.kind = kind, !.turn = turn, !.tier = tier,
                             !.sawChat = chat, !.left = left]
<1>2. /\ step \in Steps /\ kind \in Kinds /\ turn \subseteq Turns /\ tier \in Tiers
      /\ chat \in BOOLEAN /\ left \in Seq(Metrics)
  BY SpendsAre DEF TypeOK, Steps, Kinds
<1>3. To(r, q)
  BY <1>1
<1> HIDE DEF step, turn, left
<1>4. /\ q \in Request
      /\ q.step = step /\ q.kind = kind /\ q.tier = tier /\ q.left = left
      /\ q.wrote = Idle.wrote /\ q.seen = Idle.seen
  BY <1>2, IdleIs DEF Request
<1> HIDE DEF q
<1>5. req' \in [Requests -> Request] /\ req'[r] = q /\ OthersRest(r)
  BY <1>3, <1>4, Moved
<1>6. ~UnderWay(r)
  BY DEF Begin, UnderWay
<1>7. /\ begun < MaxBegun /\ begun' = begun + 1
      /\ overlaps' = IF SomeUnderWay THEN overlaps + 1 ELSE overlaps
      /\ UNCHANGED <<now, zone, tier, acts, meter, chat, messages, served, straddled>>
  BY DEF Begin, Quiet, Stored
<1>8. Started(r)
  BY <1>4, <1>5, <1>6, <1>7, IdleIs, NoCounters DEF Started, step, left
<1>9. TypeOK'
  BY <1>5, <1>7, TutorAssumption DEF TypeOK
<1> QED
  BY <1>5, <1>7, <1>8, <1>9 DEF OfRequest

\* A step of a request that leaves everything but itself alone.
LEMMA Stays ==
  ASSUME TypeOK, NEW r \in Requests, NEW q \in Request, To(r, q), Quiet,
         UNCHANGED <<Stored, begun, Past>>
  PROVE  /\ TypeOK' /\ req'[r] = q /\ OthersRest(r)
         /\ UNCHANGED <<now, zone, tier, acts, meter, served, overlaps, straddled>>
<1>1. req' \in [Requests -> Request] /\ req'[r] = q /\ OthersRest(r)
  BY Moved
<1>2. UNCHANGED <<now, zone, tier, acts, meter, chat, messages, begun, served, overlaps, straddled>>
  BY DEF Quiet, Stored, Past
<1> QED
  BY <1>1, <1>2 DEF TypeOK

LEMMA Aborted ==
  ASSUME TypeOK, NEW r \in Requests, Abort(r), Quiet
  PROVE  TypeOK' /\ OfRequest(r)
<1>1. /\ TypeOK' /\ req'[r] = Idle /\ OthersRest(r)
      /\ UNCHANGED <<now, zone, tier, acts, meter, served, overlaps, straddled>>
  BY Stays, IdleIs DEF Abort
<1> QED
  BY <1>1, IdleIs, NoCounters DEF OfRequest, Stopped

LEMMA Advancing ==
  ASSUME TypeOK, NEW r \in Requests, NEW step \in {"planning", "count"},
         req[r].step \in {"checked", "planning"}, Quiet,
         To(r, [req[r] EXCEPT !.step = step]), UNCHANGED <<Stored, begun, Past>>
  PROVE  TypeOK' /\ OfRequest(r)
<1> DEFINE q == [req[r] EXCEPT !.step = step]
<1>0. req[r] \in Request
  BY DEF TypeOK
<1>1. /\ q \in Request
      /\ q.step = step /\ q.kind = req[r].kind /\ q.tier = req[r].tier /\ q.left = req[r].left
      /\ q.wrote = req[r].wrote /\ q.seen = req[r].seen
  BY <1>0 DEF Request, Steps
<1> HIDE DEF q
<1>2. /\ TypeOK' /\ req'[r] = q /\ OthersRest(r)
      /\ UNCHANGED <<now, zone, tier, acts, meter, served, overlaps, straddled>>
  BY <1>1, Stays DEF q
<1> QED
  BY <1>1, <1>2 DEF OfRequest, Advanced, SamePlan

LEMMA Counting ==
  ASSUME TypeOK, NEW r \in Requests, Count(r)
  PROVE  TypeOK' /\ OfRequest(r)
<1> DEFINE k == KeyOf(Head(req[r].left))
           seen == IF k \in DOMAIN meter THEN meter[k] ELSE NoRow
           q == [req[r] EXCEPT !.step = "counted", !.key = k, !.seen = seen]
<1>0. req[r] \in Request /\ req[r].left \in Seq(Metrics) /\ meter \in Counters
  BY Fields DEF TypeOK
<1>1. req[r].step = "count" /\ req[r].left # <<>> /\ To(r, q)
  BY DEF Count
<1>2. Head(req[r].left) \in Metrics
  BY <1>0, <1>1
<1>3. k \in Keys
  BY <1>2, KeysAre
<1>4. seen \in MeterRow
  BY <1>0, CountersAre, RowTypes
<1> HIDE DEF k, seen
<1>5. /\ q \in Request
      /\ q.step = "counted" /\ q.kind = req[r].kind /\ q.tier = req[r].tier /\ q.left = req[r].left
      /\ q.wrote = req[r].wrote /\ q.key = k /\ q.seen = seen
  BY <1>0, <1>3, <1>4 DEF Request, Steps
<1> HIDE DEF q
<1>6. /\ TypeOK' /\ req'[r] = q /\ OthersRest(r)
      /\ UNCHANGED <<now, zone, tier, acts, meter, served, overlaps, straddled>>
  BY <1>1, <1>5, Stays DEF Count
<1>7. Looked(r)
  BY <1>1, <1>5, <1>6 DEF Looked, SamePlan, k, seen
<1> QED
  BY <1>6, <1>7 DEF OfRequest

LEMMA Writing ==
  ASSUME TypeOK, Dated, NEW r \in Requests, Write(r)
  PROVE  TypeOK' /\ OfRequest(r)
<1> DEFINE k == req[r].key
           was == req[r]
<1>0. /\ was \in Request /\ was.left \in Seq(Metrics) /\ meter \in Counters /\ k \in Keys
      /\ was.wrote \in Counters /\ was.seen \in MeterRow
  BY Fields DEF TypeOK
<1>1. /\ was.step = "counted" /\ Quiet
      /\ \A s \in Requests \ {r} : ~HoldsKey(s, k)
  BY DEF Write
<1>2. ASSUME NEW row \in MeterRow, To(r, Wrote(r, row)), UNCHANGED <<Stored, begun, Past>>,
             \/ was.seen = NoRow /\ k \notin DOMAIN meter /\ row.count = 1 /\ row.born = acts
             \/ /\ was.seen # NoRow /\ k \in DOMAIN meter /\ meter[k].born = was.seen.born
                /\ row.count = was.seen.count + 1 /\ row.born = was.seen.born
      PROVE  TypeOK' /\ OfRequest(r)
  <2> DEFINE one == [j \in {k} |-> row]
             wrote == Overlay(one, was.wrote)
             left == Tail(was.left)
             q == [was EXCEPT !.step = "count", !.left = left, !.key = Idle.key, !.seen = NoRow,
                              !.wrote = wrote]
  <2>1. one \in Counters /\ DOMAIN one = {k} /\ one[k] = row
    <3>1. one \in [{k} -> MeterRow] /\ {k} \in SUBSET Keys
      BY <1>0
    <3> HIDE DEF k
    <3> QED
      BY <3>1, ToCounters
  <2>2. /\ wrote \in Counters /\ DOMAIN wrote = DOMAIN was.wrote \cup {k} /\ wrote[k] = row
        /\ \A j \in DOMAIN was.wrote \ {k} : wrote[j] = was.wrote[j]
    <3> HIDE DEF one, k
    <3>1. /\ wrote \in Counters /\ DOMAIN wrote = DOMAIN one \cup DOMAIN was.wrote
          /\ \A j \in DOMAIN one : wrote[j] = one[j]
          /\ \A j \in DOMAIN was.wrote \ DOMAIN one : wrote[j] = was.wrote[j]
      BY <1>0, <2>1, Overlaid
    <3> HIDE DEF wrote
    <3> QED
      BY <2>1, <3>1
  <2>3. left \in Seq(Metrics)
    <3>1. CASE was.left = <<>>
      BY <3>1
    <3>2. CASE was.left # <<>>
      BY <1>0, <3>2
    <3> QED
      BY <3>1, <3>2
  <2>4. To(r, q)
    BY <1>2 DEF Wrote
  <2> HIDE DEF one, wrote, left
  <2>5. /\ q \in Request
        /\ q.step = "count" /\ q.kind = was.kind /\ q.tier = was.tier /\ q.left = left
        /\ q.wrote = wrote /\ q.seen = NoRow
    BY <1>0, <2>2, <2>3, IdleIs, RowTypes DEF Request, Steps
  <2> HIDE DEF q
  <2>6. /\ TypeOK' /\ req'[r] = q /\ OthersRest(r)
        /\ UNCHANGED <<now, zone, tier, acts, meter, served, overlaps, straddled>>
    BY <1>1, <1>2, <2>4, <2>5, Stays
  <2>7. Penned(r)
    BY <1>1, <1>2, <2>2, <2>5, <2>6 DEF Penned, SamePlan, left
  <2> QED
    BY <2>6, <2>7 DEF OfRequest
<1>3. ASSUME k \in DOMAIN meter PROVE meter[k] # NoRow
  <2>1. meter[k].born <= acts /\ acts \in 0 .. MaxActs /\ MaxActs \in Nat
    BY <1>3, TutorAssumption DEF Dated, TypeOK
  <2>2. meter[k].born \in Nat
    BY <1>0, <1>3, CountersAre
  <2> QED
    BY <2>1, <2>2, RowTypes
<1>4. CASE was.seen = NoRow /\ Inserted(k) = NoRow
  <2>1. k \notin DOMAIN meter
    BY <1>3, <1>4 DEF Inserted
  <2> DEFINE row == [count |-> 1, born |-> acts]
  <2>2. row \in MeterRow /\ row.count = 1 /\ row.born = acts
    BY RowTypes DEF TypeOK
  <2>3. To(r, Wrote(r, row)) /\ UNCHANGED <<Stored, begun, Past>>
    BY <1>4 DEF Write
  <2> HIDE DEF row
  <2> QED
    BY <1>2, <1>4, <2>1, <2>2, <2>3
<1>5. CASE was.seen = NoRow /\ Inserted(k) # NoRow
  <2>1. k \in DOMAIN meter /\ Inserted(k) = meter[k]
    BY <1>5 DEF Inserted
  <2> DEFINE q == [was EXCEPT !.seen = meter[k]]
  <2>2. To(r, q) /\ UNCHANGED <<Stored, begun, Past>>
    BY <1>5, <2>1 DEF Write
  <2>3. meter[k] \in MeterRow
    BY <1>0, <2>1, CountersAre
  <2>4. /\ q \in Request
        /\ q.step = "counted" /\ q.kind = was.kind /\ q.tier = was.tier /\ q.left = was.left
        /\ q.wrote = was.wrote /\ q.key = k /\ q.seen = meter[k]
    BY <1>0, <1>1, <2>3 DEF Request
  <2> HIDE DEF q
  <2>5. /\ TypeOK' /\ req'[r] = q /\ OthersRest(r)
        /\ UNCHANGED <<now, zone, tier, acts, meter, served, overlaps, straddled>>
    BY <1>1, <2>2, <2>4, Stays
  <2>6. Looked(r)
    BY <1>1, <2>1, <2>4, <2>5 DEF Looked, SamePlan
  <2> QED
    BY <2>5, <2>6 DEF OfRequest
<1>6. CASE was.seen # NoRow /\ k \in DOMAIN meter /\ meter[k].born = was.seen.born
  <2> DEFINE row == [was.seen EXCEPT !.count = @ + 1]
  <2>1. row \in MeterRow /\ row.count = was.seen.count + 1 /\ row.born = was.seen.born
    BY <1>0 DEF MeterRow
  <2>2. To(r, Wrote(r, row)) /\ UNCHANGED <<Stored, begun, Past>>
    BY <1>6 DEF Write
  <2> HIDE DEF row
  <2> QED
    BY <1>2, <1>6, <2>1, <2>2
<1>7. CASE was.seen # NoRow /\ ~(k \in DOMAIN meter /\ meter[k].born = was.seen.born)
  <2>1. Abort(r)
    BY <1>7 DEF Write
  <2> QED
    BY <1>1, <2>1, Aborted
<1> QED
  BY <1>4, <1>5, <1>6, <1>7

\* What a charge does, in a question and in a quiz.
LEMMA Charging ==
  ASSUME TypeOK, NEW r \in Requests, Charge(r), NEW q \in Request, To(r, q),
         q.step \in {"idle", "stream"}, DOMAIN q.wrote = {}, q.seen = NoRow,
         chat' \in BOOLEAN, messages' \subseteq Turns
  PROVE  TypeOK' /\ OfRequest(r)
<1> DEFINE was == req[r]
<1>0. was \in Request /\ meter \in Counters /\ was.wrote \in Counters /\ was.tier \in Tiers
  BY Fields DEF TypeOK
<1>1. /\ was.step = "count" /\ was.left = <<>>
      /\ meter' = Overlay(was.wrote, meter)
      /\ UNCHANGED <<now, zone, tier, acts, begun, overlaps, straddled>>
  BY DEF Charge, Quiet
<1> DEFINE had == served[was.tier]
           has == [k \in Keys |-> IF HoldsKey(r, k) THEN had[k] + 1 ELSE had[k]]
<1>2. served' = [served EXCEPT ![was.tier] = has]
  BY DEF Charge
<1>3. had \in [Keys -> Nat]
  BY <1>0 DEF TypeOK
<1>4. has \in [Keys -> Nat]
  BY <1>3
<1>5. served' \in [Tiers -> [Keys -> Nat]]
  <2> HIDE DEF has
  <2> QED
    BY <1>0, <1>2, <1>4 DEF TypeOK
<1>6. \A t \in Tiers, k \in Keys :
        served'[t][k] = IF t = was.tier /\ HoldsKey(r, k) THEN served[t][k] + 1 ELSE served[t][k]
  BY <1>0, <1>2 DEF TypeOK
<1>7. req' \in [Requests -> Request] /\ req'[r] = q /\ OthersRest(r)
  BY Moved
<1>8. /\ meter' \in Counters /\ DOMAIN meter' = DOMAIN was.wrote \cup DOMAIN meter
      /\ \A k \in DOMAIN was.wrote : meter'[k] = was.wrote[k]
      /\ \A k \in DOMAIN meter \ DOMAIN was.wrote : meter'[k] = meter[k]
  BY <1>0, <1>1, Overlaid
<1>9. ~UnderWay(r)'
  BY <1>7 DEF UnderWay
<1>10. TypeOK'
  BY <1>1, <1>5, <1>7, <1>8 DEF TypeOK
<1>11. Charged(r)
  BY <1>1, <1>6, <1>7, <1>8, <1>9 DEF Charged
<1> QED
  BY <1>1, <1>7, <1>10, <1>11 DEF OfRequest

LEMMA Asking ==
  ASSUME TypeOK, NEW r \in Requests, Ask(r) \/ BuildQuiz(r)
  PROVE  TypeOK' /\ OfRequest(r)
<1>0. Charge(r) /\ req[r].turn \subseteq Turns
  BY Fields DEF Ask, BuildQuiz, TypeOK
<1>1. CASE Ask(r)
  <2> DEFINE q == [Idle EXCEPT !.step = "stream", !.turn = req[r].turn]
  <2>1. q \in Request /\ q.step = "stream" /\ q.wrote = <<>> /\ q.seen = NoRow
    BY <1>0, IdleIs DEF Request, Steps
  <2>2. To(r, q) /\ chat' \in BOOLEAN /\ messages' \subseteq Turns
    BY <1>0, <1>1 DEF Ask, TypeOK
  <2> HIDE DEF q
  <2> QED
    BY <1>0, <2>1, <2>2, NoCounters, Charging
<1>2. CASE BuildQuiz(r)
  <2>1. To(r, Idle) /\ chat' \in BOOLEAN /\ messages' \subseteq Turns
    BY <1>2 DEF BuildQuiz, TypeOK
  <2> QED
    BY <1>0, <2>1, IdleIs, NoCounters, Charging
<1> QED
  BY <1>1, <1>2

LEMMA RequestStep ==
  ASSUME TypeOK, Dated, NEW r \in Requests,
         \/ Begin(r) \/ EnsureChat(r) \/ Planned(r) \/ Built(r) \/ Failed(r)
         \/ Count(r) \/ Write(r) \/ Ask(r) \/ BuildQuiz(r) \/ Streamed(r)
  PROVE  TypeOK' /\ OfRequest(r)
<1>1. CASE EnsureChat(r)
  <2>1. CASE Abort(r)
    BY <1>1, <2>1, Aborted DEF EnsureChat
  <2>2. CASE ~Abort(r)
    BY <1>1, <2>2, Advancing DEF EnsureChat
  <2> QED
    BY <2>1, <2>2
<1>2. CASE Planned(r)
  BY <1>2, Advancing DEF Planned
<1>3. CASE Built(r)
  BY <1>3, Advancing DEF Built
<1>4. CASE Failed(r)
  BY <1>4, Aborted DEF Failed
<1>5. CASE Streamed(r)
  BY <1>5, Aborted DEF Streamed, Abort
<1> QED
  BY <1>1, <1>2, <1>3, <1>4, <1>5, Beginning, Counting, Writing, Asking

LEMMA Resetting ==
  ASSUME TypeOK, NEW metrics \in SUBSET Metrics, ResetUsage(metrics)
  PROVE  TypeOK' /\ GivenBack(metrics)
<1> DEFINE keys == {k \in DOMAIN meter : k[1] \notin metrics}
<1>1. meter \in Counters /\ keys \in SUBSET DOMAIN meter
  BY DEF TypeOK
<1>2. meter' = Restrict(meter, keys)
  BY DEF ResetUsage
<1>3. meter' \in Counters /\ DOMAIN meter' = keys /\ \A k \in keys : meter'[k] = meter[k]
  <2> HIDE DEF keys
  <2> QED
    BY <1>1, <1>2, Restricted
<1>4. served' \in [Tiers -> [Keys -> Nat]]
  BY DEF ResetUsage, TypeOK
<1>5. \A t \in Tiers, k \in Keys : served'[t][k] = IF k[1] \in metrics THEN 0 ELSE served[t][k]
  BY DEF ResetUsage
<1>6. /\ acts < MaxActs /\ acts' = acts + 1
      /\ \A r \in Requests, k \in DOMAIN meter : k[1] \in metrics => ~HoldsKey(r, k)
      /\ UNCHANGED <<now, zone, tier, chat, messages, req, begun, overlaps, straddled>>
  BY DEF ResetUsage
<1>7. TypeOK'
  BY <1>3, <1>4, <1>6, TutorAssumption DEF TypeOK
<1>8. GivenBack(metrics)
  BY <1>3, <1>5, <1>6 DEF GivenBack
<1> QED
  BY <1>7, <1>8

LEMMA WorldStep ==
  ASSUME TypeOK, Tick \/ Move \/ Change \/ \E t \in Turns : Pushed(t)
  PROVE  TypeOK' /\ Outside
<1>1. UNCHANGED <<meter, req, served>>
  BY DEF Tick, Move, Change, Pushed, Stored, Quiet, Past
<1>2. now \in Nat /\ zone \in Nat /\ acts \in Nat /\ MaxTime \in Nat /\ MaxActs \in Nat /\ now <= MaxTime
  BY TutorAssumption DEF TypeOK
<1>3. CASE Tick
  <2>1. /\ now' = now + 1 /\ UNCHANGED <<zone, tier, chat, messages, acts, begun, overlaps>>
        /\ Straddles /\ now < MaxTime
    BY <1>3 DEF Tick, Stored
  <2>2. straddled' \in BOOLEAN
    BY <2>1 DEF Straddles, TypeOK
  <2>3. now' \in 0 .. MaxTime
    BY <1>2, <2>1
  <2>4. TypeOK'
    BY <1>1, <2>1, <2>2, <2>3 DEF TypeOK
  <2>5. MonthKey' >= MonthKey
    <3>1. \A a, b \in Nat : a <= b => a \div 2 <= b \div 2
      OBVIOUS
    <3>2. (now + zone) \div 2 <= (now' + zone) \div 2
      BY <1>2, <2>1, <3>1
    <3>3. (now + zone) \div 2 \in Nat /\ (now' + zone) \div 2 \in Nat
      BY <1>2, <2>1
    <3> QED
      BY <2>1, <3>2, <3>3 DEF MonthKey
  <2> QED
    BY <1>1, <2>1, <2>4, <2>5 DEF Outside
<1>4. CASE Move
  <2>1. /\ zone' = 1 - zone /\ overlaps' = overlaps + 1 /\ acts' = acts + 1 /\ acts < MaxActs
        /\ UNCHANGED <<now, tier, chat, messages, begun>> /\ Straddles
    BY <1>4 DEF Move, Stored
  <2>2. straddled' \in BOOLEAN
    BY <2>1 DEF Straddles, TypeOK
  <2>3. TypeOK'
    BY <1>1, <1>2, <2>1, <2>2 DEF TypeOK
  <2> QED
    BY <1>1, <2>1, <2>3 DEF Outside
<1>5. CASE Change
  <2>1. /\ tier' \in Tiers /\ acts' = acts + 1 /\ acts < MaxActs
        /\ UNCHANGED <<now, zone, chat, messages, begun, overlaps, straddled>>
    BY <1>5 DEF Change, Stored, Past
  <2>2. TypeOK'
    BY <1>1, <1>2, <2>1 DEF TypeOK
  <2> QED
    BY <1>1, <2>1, <2>2 DEF Outside, MonthKey
<1>6. ASSUME NEW t \in Turns, Pushed(t) PROVE TypeOK' /\ Outside
  <2>1. /\ chat' = TRUE /\ messages' = messages \cup {t}
        /\ UNCHANGED <<now, zone, tier, acts, begun, overlaps, straddled>>
    BY <1>6 DEF Pushed, Quiet, Past
  <2>2. TypeOK'
    BY <1>1, <2>1 DEF TypeOK
  <2> QED
    BY <1>1, <2>1, <2>2 DEF Outside, MonthKey
<1> QED
  BY <1>3, <1>4, <1>5, <1>6

LEMMA TutorSteps ==
  ASSUME TypeOK, Dated, [Next]_vars
  PROVE  TypeOK' /\ Moves
<1>1. CASE UNCHANGED vars
  BY <1>1 DEF vars, TypeOK, Moves
<1>2. ASSUME NEW r \in Requests,
         \/ Begin(r) \/ EnsureChat(r) \/ Planned(r) \/ Built(r) \/ Failed(r)
         \/ Count(r) \/ Write(r) \/ Ask(r) \/ BuildQuiz(r) \/ Streamed(r)
      PROVE  TypeOK' /\ Moves
  BY <1>2, RequestStep DEF Moves
<1>3. CASE Tick \/ Move \/ Change \/ \E t \in Turns : Pushed(t)
  BY <1>3, WorldStep DEF Moves
<1>4. CASE ResetUsage(Metrics) \/ \E m \in Metrics : ResetUsage({m})
  <2>1. PICK metrics \in SUBSET Metrics : ResetUsage(metrics)
    BY <1>4
  <2> QED
    BY <2>1, Resetting DEF Moves
<1> QED
  BY <1>1, <1>2, <1>3, <1>4 DEF Next

\* Every variable of the tutor keeps to its type, and no row is from the future.
LEMMA DatedStep ==
  ASSUME TypeOK, Dated, Moves
  PROVE  Dated'
<1>0. acts \in Nat
  BY DEF TypeOK
<1>1. /\ \A k \in DOMAIN meter : meter[k].born \in Nat
      /\ \A r \in Requests : /\ req[r].seen.born \in Nat
                             /\ \A k \in DOMAIN req[r].wrote : req[r].wrote[k].born \in Nat
  <2>1. meter \in Counters /\ \A r \in Requests : req[r].wrote \in Counters /\ req[r].seen \in MeterRow
    BY Fields DEF TypeOK
  <2> QED
    BY <2>1, CountersAre, RowTypes
<1>2. ASSUME NEW r \in Requests, OfRequest(r) PROVE Dated'
  <2>1. acts' = acts /\ \A s \in Requests \ {r} : req'[s] = req[s]
    BY <1>2 DEF OfRequest, OthersRest
  <2>2. /\ req'[r].seen = NoRow \/ req'[r].seen.born <= acts
        /\ \A k \in DOMAIN req'[r].wrote : req'[r].wrote[k].born <= acts
        /\ \A k \in DOMAIN meter' : meter'[k].born <= acts
    <3>1. CASE Started(r)
      BY <3>1 DEF Started, Dated
    <3>2. CASE Stopped(r)
      BY <3>2 DEF Stopped, Dated
    <3>3. CASE Advanced(r)
      BY <3>3 DEF Advanced, Dated
    <3>4. CASE Looked(r)
      BY <3>4 DEF Looked, Dated
    <3>5. CASE Penned(r)
      <4>1. req'[r].wrote[req[r].key].born <= acts
        BY <1>0, <3>5 DEF Penned, Dated
      <4> QED
        BY <3>5, <4>1 DEF Penned, Dated
    <3>6. CASE Charged(r)
      BY <3>6 DEF Charged, Dated
    <3> QED
      BY <1>2, <3>1, <3>2, <3>3, <3>4, <3>5, <3>6 DEF OfRequest
  <2> QED
    BY <2>1, <2>2 DEF Dated
<1>3. CASE Outside
  BY <1>0, <1>1, <1>3 DEF Outside, Dated
<1>4. ASSUME NEW metrics \in SUBSET Metrics, GivenBack(metrics) PROVE Dated'
  BY <1>0, <1>1, <1>4 DEF GivenBack, Dated
<1>5. CASE UNCHANGED vars
  BY <1>5 DEF vars, Dated
<1> QED
  BY <1>2, <1>3, <1>4, <1>5 DEF Moves

LEMMA AtFirst ==
  ASSUME Init
  PROVE  /\ TypeOK /\ Dated
         /\ meter = <<>> /\ DOMAIN meter = {} /\ ~straddled /\ overlaps = 0
         /\ \A r \in Requests : req[r].step = "idle" /\ DOMAIN req[r].wrote = {} /\ req[r].seen = NoRow
         /\ \A t \in Tiers, k \in Keys : served[t][k] = 0
<1>1. /\ meter = <<>> /\ DOMAIN meter = {} /\ ~straddled /\ overlaps = 0
      /\ \A r \in Requests : req[r].step = "idle" /\ DOMAIN req[r].wrote = {} /\ req[r].seen = NoRow
      /\ \A t \in Tiers, k \in Keys : served[t][k] = 0
  BY IdleIs, NoCounters DEF Init
<1>2. TypeOK
  <2>1. served \in [Tiers -> [Keys -> Nat]]
    BY DEF Init
  <2>2. req \in [Requests -> Request] /\ meter \in Counters
    BY IdleIs, NoCounters DEF Init
  <2>3. now \in 0 .. MaxTime /\ acts \in 0 .. MaxActs /\ begun \in 0 .. MaxBegun
    BY TutorAssumption DEF Init
  <2>4. zone \in {0, 1} /\ tier \in Tiers /\ chat \in BOOLEAN /\ messages \subseteq Turns
        /\ overlaps \in Nat /\ straddled \in BOOLEAN
    BY DEF Init, Tiers
  <2> QED
    BY <2>1, <2>2, <2>3, <2>4 DEF TypeOK
<1> QED
  BY <1>1, <1>2 DEF Dated

\* Every variable keeps to its type, and no row of the counters, stored, read
\* or about to be stored, is younger than the clock.
THEOREM TutorTypeCorrect == Spec => [](TypeOK /\ Dated)
<1>1. Init => TypeOK /\ Dated
  BY AtFirst
<1>2. TypeOK /\ Dated /\ [Next]_vars => TypeOK' /\ Dated'
  BY TutorSteps, DatedStep
<1> QED
  BY <1>1, <1>2, PTL DEF Spec

-----------------------------------------------------------------------------
(* The way of a request.                                                   *)

OnWhat(kind, t) == IF kind = "ask" THEN {"ai_queries", "ai_queries_lifetime"} ELSE {QuizMetric(t)}

LifetimeKey == <<"ai_queries_lifetime", Lifetime>>

\* How far a request has come by what it has still to write and what it wrote:
\* the month's row of the questions comes first.
Path(q) ==
  /\ q.step \in {"idle", "refused", "stream"} => DOMAIN q.wrote = {}
  /\ q.step \in {"checked", "planning"} => q.left = Spends(q.kind, q.tier)
  /\ q.left = Spends(q.kind, q.tier) => DOMAIN q.wrote = {}
  /\ q.step \in {"checked", "planning", "count", "counted"} =>
       \/ q.left = Spends(q.kind, q.tier)
       \/ /\ q.kind = "ask" /\ q.left \in {<<"ai_queries_lifetime">>, <<>>}
          /\ \E m \in Months : <<"ai_queries", m>> \in DOMAIN q.wrote
       \/ q.kind = "quiz" /\ q.left = <<>>
  /\ q.step = "counted" => q.left # <<>> /\ q.key[1] = Head(q.left)
  /\ \A k \in DOMAIN q.wrote : k[1] \in OnWhat(q.kind, q.tier)

\* A counter's row is held by one request.
Exclusive == \A r, s \in Requests : \A k \in Keys : HoldsKey(r, k) /\ HoldsKey(s, k) => r = s

Paths == Exclusive /\ \A r \in Requests : Path(req[r])

LEMMA SpentOn ==
  ASSUME NEW kind \in Kinds, NEW t \in Tiers
  PROVE  /\ Spends(kind, t) # <<>> /\ Head(Spends(kind, t)) \in OnWhat(kind, t)
         /\ kind = "ask" => /\ Head(Spends(kind, t)) = "ai_queries"
                            /\ Tail(Spends(kind, t)) = <<"ai_queries_lifetime">>
         /\ kind = "quiz" => /\ Tail(Spends(kind, t)) = <<>>
                             /\ Head(Spends(kind, t)) = QuizMetric(t)
         /\ <<"ai_queries_lifetime">> # <<>> /\ Tail(<<"ai_queries_lifetime">>) = <<>>
         /\ Head(<<"ai_queries_lifetime">>) = "ai_queries_lifetime"
         /\ <<"ai_queries_lifetime">> # Spends(kind, t) /\ <<>> # Spends(kind, t)
<1>1. \A a, b : /\ <<a, b>> # <<>> /\ <<a>> # <<>> /\ Head(<<a, b>>) = a /\ Head(<<a>>) = a
                /\ Tail(<<a, b>>) = <<b>> /\ Tail(<<a>>) = <<>>
  OBVIOUS
<1>2. Len(<<"ai_queries", "ai_queries_lifetime">>) = 2 /\ Len(<<"ai_queries_lifetime">>) = 1
  OBVIOUS
<1>3. QuizMetric(t) # "ai_queries_lifetime"
  BY DEF QuizMetric
<1>4. CASE kind = "ask"
  BY <1>1, <1>2, <1>4 DEF Spends, OnWhat
<1>5. CASE kind = "quiz"
  BY <1>1, <1>3, <1>5 DEF Spends, OnWhat
<1> QED
  BY <1>4, <1>5 DEF Kinds

LEMMA KeysOf ==
  ASSUME NEW k \in Keys
  PROVE  /\ k = <<k[1], k[2]>> /\ k[1] \in Metrics
         /\ k[1] \in Monthly => k[2] \in Months
         /\ k[1] \notin Monthly => k[2] = Lifetime
         /\ k[1] = "ai_queries" => k = <<"ai_queries", k[2]>> /\ k[2] \in Months
         /\ k[1] = "ai_queries_lifetime" => k = LifetimeKey
BY DEF Keys, Metrics, Monthly, LifetimeKey

\* What a request has read or written of a counter is of the plan it pays by;
\* who is at the lifetime counter holds a month's row.
LEMMA PathMeans ==
  ASSUME TypeOK, NEW r \in Requests, Path(req[r])
  PROVE  /\ \A k \in DOMAIN req[r].wrote : UnderWay(r) /\ k[1] \in OnWhat(req[r].kind, req[r].tier)
         /\ req[r].step = "counted" =>
              UnderWay(r) /\ req[r].key[1] \in OnWhat(req[r].kind, req[r].tier)
         /\ LifetimeKey \in DOMAIN req[r].wrote \/ (req[r].step = "counted" /\ req[r].key = LifetimeKey)
              => \E m \in Months : <<"ai_queries", m>> \in DOMAIN req[r].wrote
<1> DEFINE q == req[r]
<1>1. q.step \in Steps /\ q.kind \in Kinds /\ q.tier \in Tiers /\ q.key \in Keys
  BY Fields DEF TypeOK
<1>2. Path(q)
  OBVIOUS
<1>3. UnderWay(r) <=> q.step \in {"checked", "planning", "count", "counted"}
  BY DEF UnderWay
<1>4. QuizMetric(q.tier) # "ai_queries_lifetime" /\ "ai_queries" # "ai_queries_lifetime"
  BY DEF QuizMetric
<1>5. LifetimeKey[1] = "ai_queries_lifetime"
  BY DEF LifetimeKey
<1> HIDE DEF q
<1>6. \A k \in DOMAIN q.wrote : UnderWay(r) /\ k[1] \in OnWhat(q.kind, q.tier)
  BY <1>1, <1>2, <1>3 DEF Path, Steps
<1>7. ASSUME q.step = "counted" PROVE UnderWay(r) /\ q.key[1] \in OnWhat(q.kind, q.tier)
  <2>1. UnderWay(r)
    BY <1>3, <1>7
  <2>2. q.key[1] = Head(q.left) /\ q.left # <<>>
    BY <1>2, <1>7 DEF Path
  <2>3. \/ q.left = Spends(q.kind, q.tier)
        \/ q.kind = "ask" /\ q.left = <<"ai_queries_lifetime">>
    BY <1>2, <1>7, <2>2 DEF Path
  <2>4. Head(q.left) \in OnWhat(q.kind, q.tier)
    BY <1>1, <2>3, SpentOn DEF OnWhat
  <2> QED
    BY <2>1, <2>2, <2>4
<1>8. ASSUME LifetimeKey \in DOMAIN q.wrote
      PROVE  \E m \in Months : <<"ai_queries", m>> \in DOMAIN q.wrote
  <2>1. UnderWay(r) /\ "ai_queries_lifetime" \in OnWhat(q.kind, q.tier)
    BY <1>5, <1>6, <1>8
  <2>2. q.kind = "ask"
    BY <1>1, <1>4, <2>1 DEF OnWhat, Kinds
  <2>3. q.left # Spends(q.kind, q.tier)
    BY <1>2, <1>8 DEF Path
  <2> QED
    BY <1>2, <1>3, <2>1, <2>2, <2>3 DEF Path
<1>9. ASSUME q.step = "counted", q.key = LifetimeKey
      PROVE  \E m \in Months : <<"ai_queries", m>> \in DOMAIN q.wrote
  <2>1. Head(q.left) = "ai_queries_lifetime" /\ q.left # <<>>
    BY <1>2, <1>5, <1>9 DEF Path
  <2>2. q.left # Spends(q.kind, q.tier)
    BY <1>1, <1>4, <2>1, SpentOn DEF Kinds
  <2> QED
    BY <1>2, <1>9, <2>1, <2>2 DEF Path
<1> QED
  BY <1>6, <1>7, <1>8, <1>9 DEF q

LEMMA PathStep ==
  ASSUME TypeOK, TypeOK', Paths, NEW r \in Requests, OfRequest(r)
  PROVE  Path(req'[r])
<1> DEFINE q == req[r]
           p == req'[r]
<1>0. q.kind \in Kinds /\ q.tier \in Tiers /\ q.step \in Steps /\ Path(q) /\ q.key \in Keys
  BY Fields DEF TypeOK, Paths
<1>1. p.kind \in Kinds /\ p.tier \in Tiers /\ p.step \in Steps /\ p.key \in Keys
  BY Fields DEF TypeOK
<1>2. CASE Started(r)
  <2>1. /\ p.step \in {"checked", "refused"} /\ p.left = Spends(p.kind, p.tier)
        /\ DOMAIN p.wrote = {}
    BY <1>2, <1>1 DEF Started
  <2> HIDE DEF p
  <2>9. Path(p)
    BY <2>1 DEF Path
  <2> QED
    BY <2>9 DEF p
<1>3. CASE Stopped(r)
  <2>1. p.step = "idle" /\ DOMAIN p.wrote = {}
    BY <1>3 DEF Stopped
  <2> HIDE DEF p
  <2>9. Path(p)
    BY <2>1 DEF Path
  <2> QED
    BY <2>9 DEF p
<1>4. CASE Advanced(r)
  <2>1. /\ q.step \in {"checked", "planning"} /\ p.step \in {"planning", "count"}
        /\ p.kind = q.kind /\ p.tier = q.tier /\ p.left = q.left /\ p.wrote = q.wrote
    BY <1>4 DEF Advanced, SamePlan
  <2> HIDE DEF p, q
  <2>9. Path(p)
    BY <1>0, <2>1 DEF Path
  <2> QED
    BY <2>9 DEF p
<1>5. CASE Looked(r)
  <2>1. /\ p.step = "counted" /\ q.step \in {"count", "counted"}
        /\ p.kind = q.kind /\ p.tier = q.tier /\ p.left = q.left /\ p.wrote = q.wrote
        /\ \/ q.step = "count" /\ q.left # <<>> /\ p.key = KeyOf(Head(q.left))
           \/ q.step = "counted" /\ p.key = q.key
    BY <1>5 DEF Looked, SamePlan
  <2>2. q.left # <<>> /\ p.key[1] = Head(q.left)
    <3>1. CASE q.step = "counted" /\ p.key = q.key
      BY <1>0, <3>1 DEF Path
    <3>2. CASE q.step = "count" /\ q.left # <<>> /\ p.key = KeyOf(Head(q.left))
      <4>1. q.left \in Seq(Metrics)
        BY Fields DEF TypeOK
      <4>2. Head(q.left) \in Metrics
        BY <3>2, <4>1
      <4> QED
        BY <3>2, <4>2, KeysAre
    <3> QED
      BY <2>1, <3>1, <3>2
  <2> HIDE DEF p, q
  <2>9. Path(p)
    BY <1>0, <2>1, <2>2 DEF Path
  <2> QED
    BY <2>9 DEF p
<1>6. CASE Penned(r)
  <2>1. /\ q.step = "counted" /\ p.step = "count"
        /\ p.kind = q.kind /\ p.tier = q.tier /\ p.left = Tail(q.left)
        /\ DOMAIN p.wrote = DOMAIN q.wrote \cup {q.key}
    BY <1>6 DEF Penned, SamePlan
  <2>2. q.key[1] \in OnWhat(q.kind, q.tier)
    BY <1>0, <2>1, PathMeans
  <2>3. q.left # <<>> /\ q.key[1] = Head(q.left)
        /\ \/ q.left = Spends(q.kind, q.tier)
           \/ /\ q.kind = "ask" /\ q.left = <<"ai_queries_lifetime">>
              /\ \E m \in Months : <<"ai_queries", m>> \in DOMAIN q.wrote
    BY <1>0, <2>1 DEF Path
  <2> HIDE DEF p, q
  <2>4. \A k \in DOMAIN p.wrote : k[1] \in OnWhat(p.kind, p.tier)
    BY <1>0, <2>1, <2>2 DEF Path
  <2>5. /\ p.left # Spends(p.kind, p.tier)
        /\ \/ /\ p.kind = "ask" /\ p.left \in {<<"ai_queries_lifetime">>, <<>>}
              /\ \E m \in Months : <<"ai_queries", m>> \in DOMAIN p.wrote
           \/ p.kind = "quiz" /\ p.left = <<>>
    <3>1. CASE q.kind = "ask" /\ q.left = Spends(q.kind, q.tier)
      <4>1. q.key[1] = "ai_queries" /\ p.left = <<"ai_queries_lifetime">>
        BY <1>0, <2>1, <2>3, <3>1, SpentOn
      <4>2. q.key = <<"ai_queries", q.key[2]>> /\ q.key[2] \in Months
        BY <1>0, <4>1, KeysOf
      <4> QED
        BY <1>0, <2>1, <3>1, <4>1, <4>2, SpentOn
    <3>2. CASE q.kind = "quiz" /\ q.left = Spends(q.kind, q.tier)
      <4>1. p.left = <<>>
        BY <1>0, <2>1, <3>2, SpentOn
      <4> QED
        BY <1>0, <2>1, <3>2, <4>1, SpentOn
    <3>3. CASE /\ q.kind = "ask" /\ q.left = <<"ai_queries_lifetime">>
               /\ \E m \in Months : <<"ai_queries", m>> \in DOMAIN q.wrote
      <4>1. p.left = <<>>
        BY <1>0, <2>1, <3>3, SpentOn
      <4> QED
        BY <1>0, <2>1, <3>3, <4>1, SpentOn
    <3> QED
      BY <1>0, <2>3, <3>1, <3>2, <3>3 DEF Kinds
  <2>9. Path(p)
    BY <2>1, <2>4, <2>5 DEF Path
  <2> QED
    BY <2>9 DEF p
<1>7. CASE Charged(r)
  <2>1. p.step \in {"idle", "stream"} /\ DOMAIN p.wrote = {}
    BY <1>7 DEF Charged
  <2> HIDE DEF p
  <2>9. Path(p)
    BY <2>1 DEF Path
  <2> QED
    BY <2>9 DEF p
<1> QED
  BY <1>2, <1>3, <1>4, <1>5, <1>6, <1>7 DEF OfRequest

\* Of what is held, only a write adds to it.
LEMMA HeldBy ==
  ASSUME NEW r \in Requests, OfRequest(r), NEW k, HoldsKey(r, k)'
  PROVE  HoldsKey(r, k) \/ (Penned(r) /\ k = req[r].key)
BY DEF OfRequest, HoldsKey, Started, Stopped, Advanced, Looked, Penned, Charged

LEMMA PathsStep ==
  ASSUME TypeOK, TypeOK', Paths, Moves
  PROVE  Paths'
<1>1. ASSUME NEW r \in Requests, OfRequest(r) PROVE Paths'
  <2>1. \A s \in Requests \ {r} : req'[s] = req[s]
    BY <1>1 DEF OfRequest, OthersRest
  <2>2. \A s \in Requests : Path(req'[s])
    BY <1>1, <2>1, PathStep DEF Paths
  <2>3. \A s \in Requests \ {r}, k \in Keys : HoldsKey(s, k)' <=> HoldsKey(s, k)
    BY <2>1 DEF HoldsKey
  <2>4. ASSUME NEW s \in Requests \ {r}, NEW k \in Keys, HoldsKey(r, k)', HoldsKey(s, k)
        PROVE  FALSE
    <3>1. HoldsKey(r, k) \/ (Penned(r) /\ k = req[r].key)
      BY <1>1, <2>4, HeldBy
    <3> QED
      BY <2>4, <3>1 DEF Paths, Exclusive, Penned
  <2>5. Exclusive'
    <3> SUFFICES ASSUME NEW s \in Requests, NEW o \in Requests, NEW k \in Keys,
                        HoldsKey(s, k)', HoldsKey(o, k)', s # o
                 PROVE  FALSE
      BY DEF Exclusive
    <3>1. CASE s = r
      BY <2>3, <2>4, <3>1
    <3>2. CASE o = r
      BY <2>3, <2>4, <3>2
    <3>3. CASE s # r /\ o # r
      BY <2>3, <3>3 DEF Paths, Exclusive
    <3> QED
      BY <3>1, <3>2, <3>3
  <2> QED
    BY <2>2, <2>5 DEF Paths
<1>2. CASE UNCHANGED req
  BY <1>2 DEF Paths, Exclusive, HoldsKey
<1> QED
  BY <1>1, <1>2 DEF Moves, Outside, GivenBack, vars

LEMMA PathsFirst ==
  ASSUME Init
  PROVE  Paths
<1>1. \A r \in Requests : req[r].left = <<>> /\ req[r].kind = "ask" /\ req[r].tier = "free"
  BY DEF Init, Idle
<1>2. \A r \in Requests : req[r].step = "idle" /\ DOMAIN req[r].wrote = {}
  BY AtFirst
<1> QED
  BY <1>1, <1>2 DEF Paths, Path, Exclusive, HoldsKey

\* All that is kept of the tutor's rows and requests.
THEOREM RequestsKeepTheirWay == Spec => [](TypeOK /\ Dated /\ Paths)
<1>1. Init => Paths
  BY PathsFirst
<1>2. TypeOK /\ Dated /\ TypeOK' /\ Paths /\ [Next]_vars => Paths'
  BY TutorSteps, PathsStep
<1> QED
  BY <1>1, <1>2, TutorTypeCorrect, PTL DEF Spec

-----------------------------------------------------------------------------
(* The lifetime counter.                                                   *)

Usage(k) == IF k \in DOMAIN meter THEN meter[k].count ELSE 0

\* While no request has seen its month turn, all are at the same month's row,
\* so that one at most is at the lifetime's: what it read is what there is.
Lone(r) ==
  /\ \A k \in DOMAIN req[r].wrote : k[1] = "ai_queries" => k[2] = MonthKey
  /\ req[r].step = "counted" /\ req[r].key[1] = "ai_queries" => req[r].key[2] = MonthKey
  /\ req[r].step = "counted" /\ req[r].key = LifetimeKey /\ LifetimeKey \in DOMAIN meter =>
       meter[LifetimeKey] = req[r].seen
  /\ LifetimeKey \in DOMAIN req[r].wrote => req[r].wrote[LifetimeKey].count = Usage(LifetimeKey) + 1

LifetimeInv == ~straddled => Served(LifetimeKey) = Usage(LifetimeKey) /\ \A r \in Requests : Lone(r)

LEMMA LifetimeIsKey == LifetimeKey \in Keys /\ LifetimeKey[1] = "ai_queries_lifetime"
  BY DEF LifetimeKey, Keys, Metrics, Monthly

\* What is given back, and what is left alone.
LEMMA Returned ==
  ASSUME TypeOK, NEW metrics \in SUBSET Metrics, GivenBack(metrics), NEW k \in Keys
  PROVE  /\ k[1] \in metrics =>
              /\ \A t \in Tiers : served'[t][k] = 0
              /\ Served(k)' = 0 /\ Usage(k)' = 0 /\ k \notin DOMAIN meter'
              /\ k \in DOMAIN meter => \A r \in Requests : ~HoldsKey(r, k)
         /\ k[1] \notin metrics =>
              /\ \A t \in Tiers : served'[t][k] = served[t][k]
              /\ Served(k)' = Served(k) /\ Usage(k)' = Usage(k)
              /\ k \in DOMAIN meter' <=> k \in DOMAIN meter
              /\ k \in DOMAIN meter => meter'[k] = meter[k]
<1>1. \A t \in Tiers : served'[t][k] = IF k[1] \in metrics THEN 0 ELSE served[t][k]
  BY DEF GivenBack
<1>2. /\ DOMAIN meter' = {j \in DOMAIN meter : j[1] \notin metrics}
      /\ \A j \in DOMAIN meter' : meter'[j] = meter[j]
      /\ \A r \in Requests, j \in DOMAIN meter : j[1] \in metrics => ~HoldsKey(r, j)
  BY DEF GivenBack
<1>3. "free" \in Tiers /\ "paid" \in Tiers
  BY DEF Tiers
<1>4. CASE k[1] \in metrics
  <2>1. \A t \in Tiers : served'[t][k] = 0
    BY <1>1, <1>4
  <2>2. Served(k)' = 0
    BY <1>3, <2>1 DEF Served
  <2>3. k \notin DOMAIN meter' /\ (k \in DOMAIN meter => \A r \in Requests : ~HoldsKey(r, k))
    BY <1>2, <1>4
  <2>4. Usage(k)' = 0
    BY <2>3 DEF Usage
  <2> QED
    BY <1>4, <2>1, <2>2, <2>3, <2>4
<1>5. CASE k[1] \notin metrics
  <2>1. \A t \in Tiers : served'[t][k] = served[t][k]
    BY <1>1, <1>5
  <2>2. Served(k)' = Served(k)
    BY <1>3, <2>1 DEF Served
  <2>3. (k \in DOMAIN meter' <=> k \in DOMAIN meter) /\ (k \in DOMAIN meter => meter'[k] = meter[k])
    BY <1>2, <1>5
  <2>4. Usage(k)' = Usage(k)
    BY <2>3 DEF Usage
  <2> QED
    BY <1>5, <2>1, <2>2, <2>3, <2>4
<1> QED
  BY <1>4, <1>5

\* Two requests are never at the lifetime counter.
LEMMA OneAtLifetime ==
  ASSUME TypeOK, Paths, NEW r \in Requests, NEW s \in Requests, Lone(r), Lone(s),
         LifetimeKey \in DOMAIN req[r].wrote \/ (req[r].step = "counted" /\ req[r].key = LifetimeKey),
         LifetimeKey \in DOMAIN req[s].wrote \/ (req[s].step = "counted" /\ req[s].key = LifetimeKey)
  PROVE  r = s
<1> DEFINE month == <<"ai_queries", MonthKey>>
<1>1. month \in DOMAIN req[r].wrote
  <2>1. PICK m \in Months : <<"ai_queries", m>> \in DOMAIN req[r].wrote
    BY PathMeans DEF Paths
  <2>2. m = MonthKey
    BY <2>1 DEF Lone
  <2> QED
    BY <2>1, <2>2
<1>2. month \in DOMAIN req[s].wrote
  <2>1. PICK m \in Months : <<"ai_queries", m>> \in DOMAIN req[s].wrote
    BY PathMeans DEF Paths
  <2>2. m = MonthKey
    BY <2>1 DEF Lone
  <2> QED
    BY <2>1, <2>2
<1>3. month \in Keys
  BY KeysAre DEF Keys, Monthly
<1> QED
  BY <1>1, <1>2, <1>3 DEF Paths, Exclusive, HoldsKey

LEMMA LoneByRequest ==
  ASSUME TypeOK, TypeOK', Dated, Paths, ~straddled, LifetimeInv, NEW r \in Requests, OfRequest(r)
  PROVE  Served(LifetimeKey)' = Usage(LifetimeKey)' /\ \A s \in Requests : Lone(s)'
<1> DEFINE K == LifetimeKey
<1>0. /\ K \in Keys /\ K[1] # "ai_queries"
      /\ Served(K) = Usage(K) /\ \A s \in Requests : Lone(s)
      /\ "free" \in Tiers /\ "paid" \in Tiers
  BY LifetimeIsKey DEF LifetimeInv, Tiers
<1>1. /\ \A s \in Requests \ {r} : req'[s] = req[s]
      /\ MonthKey' = MonthKey
  BY DEF OfRequest, OthersRest, MonthKey
<1>2. served["free"][K] \in Nat /\ served["paid"][K] \in Nat
  BY <1>0 DEF TypeOK
<1> HIDE DEF K
<1>3. CASE UNCHANGED <<meter, served>> /\ DOMAIN req'[r].wrote = {} /\ req'[r].step # "counted"
  BY <1>0, <1>1, <1>3 DEF Lone, Usage, Served, K
<1>4. CASE Started(r) \/ Stopped(r)
  BY <1>3, <1>4 DEF Started, Stopped
<1>5. CASE Advanced(r)
  <2>1. /\ req'[r].wrote = req[r].wrote /\ req'[r].step # "counted"
        /\ UNCHANGED <<meter, served>>
    BY <1>5 DEF Advanced
  <2> QED
    BY <1>0, <1>1, <2>1 DEF Lone, Usage, Served, K
<1>6. CASE Looked(r)
  <2>1. /\ req'[r].wrote = req[r].wrote /\ UNCHANGED <<meter, served>>
    BY <1>6 DEF Looked
  <2>2. req'[r].key \in DOMAIN meter => req'[r].seen = meter[req'[r].key]
    BY <1>6 DEF Looked
  <2>3. req'[r].key[1] = "ai_queries" => req'[r].key[2] = MonthKey
    <3>1. CASE req[r].step = "counted" /\ req'[r].key = req[r].key
      BY <1>0, <3>1 DEF Lone
    <3>2. CASE req[r].left # <<>> /\ req'[r].key = KeyOf(Head(req[r].left))
      <4>1. req[r].left \in Seq(Metrics)
        BY Fields DEF TypeOK
      <4>2. Head(req[r].left) \in Metrics
        BY <3>2, <4>1
      <4>3. KeyOf(Head(req[r].left))[1] = Head(req[r].left) /\ "ai_queries" \in Monthly
        BY <4>2, KeysAre DEF Monthly
      <4>4. req'[r].key[1] = "ai_queries" => req'[r].key = KeyOf("ai_queries")
        BY <3>2, <4>3
      <4>5. KeyOf("ai_queries") = <<"ai_queries", MonthKey>>
        BY <4>3, KeysAre
      <4> QED
        BY <4>4, <4>5
    <3> QED
      BY <1>6, <3>1, <3>2 DEF Looked
  <2>4. Lone(r)'
    BY <1>0, <1>1, <2>1, <2>2, <2>3 DEF Lone, Usage, K
  <2> QED
    BY <1>0, <1>1, <2>1, <2>4 DEF Lone, Usage, Served, K
<1>7. CASE Penned(r)
  <2>1. /\ req'[r].step # "counted" /\ UNCHANGED <<meter, served>>
        /\ DOMAIN req'[r].wrote = DOMAIN req[r].wrote \cup {req[r].key}
        /\ \A j \in DOMAIN req[r].wrote \ {req[r].key} : req'[r].wrote[j] = req[r].wrote[j]
        /\ req[r].step = "counted"
    BY <1>7 DEF Penned
  <2>2. \A k \in DOMAIN req'[r].wrote : k[1] = "ai_queries" => k[2] = MonthKey
    BY <1>0, <2>1 DEF Lone
  <2>3. K \in DOMAIN req'[r].wrote => req'[r].wrote[K].count = Usage(K) + 1
    <3>1. CASE K # req[r].key
      BY <1>0, <2>1, <3>1 DEF Lone, K
    <3>2. CASE K = req[r].key
      <4>1. CASE K \notin DOMAIN meter
        BY <1>7, <3>2, <4>1 DEF Penned, Usage
      <4>2. CASE K \in DOMAIN meter
        <5>1. meter[K] = req[r].seen
          BY <1>0, <2>1, <3>2, <4>2 DEF Lone, K
        <5> QED
          BY <1>7, <3>2, <4>2, <5>1 DEF Penned, Usage
      <4> QED
        BY <4>1, <4>2
    <3> QED
      BY <3>1, <3>2
  <2>4. Lone(r)'
    BY <1>1, <2>1, <2>2, <2>3 DEF Lone, Usage, K
  <2> QED
    BY <1>0, <1>1, <2>1, <2>4 DEF Lone, Usage, Served, K
<1>8. CASE Charged(r)
  <2>1. /\ DOMAIN req'[r].wrote = {} /\ req'[r].step # "counted"
        /\ DOMAIN meter' = DOMAIN req[r].wrote \cup DOMAIN meter
        /\ \A k \in DOMAIN req[r].wrote : meter'[k] = req[r].wrote[k]
        /\ \A k \in DOMAIN meter \ DOMAIN req[r].wrote : meter'[k] = meter[k]
        /\ \A t \in Tiers, k \in Keys :
             served'[t][k] = IF t = req[r].tier /\ HoldsKey(r, k) THEN served[t][k] + 1 ELSE served[t][k]
    BY <1>8 DEF Charged
  <2>2. CASE K \notin DOMAIN req[r].wrote
    <3>1. Usage(K)' = Usage(K) /\ (K \in DOMAIN meter' <=> K \in DOMAIN meter)
          /\ (K \in DOMAIN meter => meter'[K] = meter[K])
      BY <2>1, <2>2 DEF Usage
    <3>2. Served(K)' = Served(K)
      BY <1>0, <2>1, <2>2 DEF Served, HoldsKey
    <3>3. ASSUME NEW s \in Requests PROVE Lone(s)'
      <4>1. CASE s = r
        BY <2>1, <4>1 DEF Lone, K
      <4>2. CASE s # r
        BY <1>0, <1>1, <3>1, <4>2 DEF Lone, K
      <4> QED
        BY <4>1, <4>2
    <3> QED
      BY <1>0, <3>1, <3>2, <3>3 DEF K
  <2>3. CASE K \in DOMAIN req[r].wrote
    <3>1. Usage(K)' = Usage(K) + 1
      BY <1>0, <2>1, <2>3 DEF Usage, Lone, K
    <3>2. Served(K)' = Served(K) + 1
      <4>1. req[r].tier \in Tiers
        BY Fields DEF TypeOK
      <4>2. req[r].tier = "free" \/ req[r].tier = "paid"
        BY <4>1 DEF Tiers
      <4> QED
        BY <1>0, <1>2, <2>1, <2>3, <4>2 DEF Served, HoldsKey
    <3>3. ASSUME NEW s \in Requests PROVE Lone(s)'
      <4>1. CASE s = r
        BY <2>1, <4>1 DEF Lone, K
      <4>2. CASE s # r
        <5>1. K \notin DOMAIN req[s].wrote /\ ~(req[s].step = "counted" /\ req[s].key = K)
          BY <1>0, <2>3, <4>2, OneAtLifetime DEF K
        <5> QED
          BY <1>0, <1>1, <4>2, <5>1 DEF Lone, K
      <4> QED
        BY <4>1, <4>2
    <3> QED
      BY <1>0, <3>1, <3>2, <3>3 DEF K
  <2> QED
    BY <2>2, <2>3
<1> QED
  BY <1>4, <1>5, <1>6, <1>7, <1>8 DEF OfRequest

LEMMA LifetimeStep ==
  ASSUME TypeOK, TypeOK', Dated, Paths, LifetimeInv, Moves
  PROVE  LifetimeInv'
<1> SUFFICES ASSUME ~straddled' PROVE Served(LifetimeKey)' = Usage(LifetimeKey)' /\ \A s \in Requests : Lone(s)'
  BY DEF LifetimeInv
<1>1. ASSUME NEW r \in Requests, OfRequest(r)
      PROVE  Served(LifetimeKey)' = Usage(LifetimeKey)' /\ \A s \in Requests : Lone(s)'
  <2>1. straddled' = straddled
    BY <1>1 DEF OfRequest, Started, Stopped, Advanced, Looked, Penned, Charged
  <2> QED
    BY <1>1, <2>1, LoneByRequest
<1>2. CASE Outside
  <2>1. UNCHANGED <<meter, req, served>> /\ ~straddled /\ (MonthKey' = MonthKey \/ ~SomeUnderWay)
    BY <1>2 DEF Outside, Straddles, TypeOK
  <2>2. Served(LifetimeKey) = Usage(LifetimeKey) /\ \A s \in Requests : Lone(s)
    BY <2>1 DEF LifetimeInv
  <2>3. Served(LifetimeKey)' = Usage(LifetimeKey)'
    BY <2>1, <2>2 DEF Served, Usage
  <2>4. CASE MonthKey' = MonthKey
    BY <2>1, <2>2, <2>3, <2>4 DEF Lone, Usage
  <2>5. CASE ~SomeUnderWay
    <3>1. \A s \in Requests : DOMAIN req[s].wrote = {} /\ req[s].step # "counted"
      BY <2>5, PathMeans DEF SomeUnderWay, Paths
    <3> QED
      BY <2>1, <2>3, <3>1 DEF Lone
  <2> QED
    BY <2>1, <2>4, <2>5
<1>3. ASSUME NEW metrics \in SUBSET Metrics, GivenBack(metrics)
      PROVE  Served(LifetimeKey)' = Usage(LifetimeKey)' /\ \A s \in Requests : Lone(s)'
  <2>1. UNCHANGED <<req, straddled>> /\ MonthKey' = MonthKey
    BY <1>3 DEF GivenBack, MonthKey
  <2>2. Served(LifetimeKey) = Usage(LifetimeKey) /\ \A s \in Requests : Lone(s)
    BY <2>1 DEF LifetimeInv
  <2>3. CASE LifetimeKey[1] \in metrics
    <3>1. /\ Served(LifetimeKey)' = 0 /\ Usage(LifetimeKey)' = 0 /\ LifetimeKey \notin DOMAIN meter'
          /\ LifetimeKey \in DOMAIN meter => \A r \in Requests : ~HoldsKey(r, LifetimeKey)
      BY <1>3, <2>3, LifetimeIsKey, Returned
    <3>2. \A s \in Requests : LifetimeKey \in DOMAIN req[s].wrote => Usage(LifetimeKey) = 0
      BY <3>1 DEF Usage, HoldsKey
    <3> QED
      BY <2>1, <2>2, <3>1, <3>2 DEF Lone
  <2>4. CASE LifetimeKey[1] \notin metrics
    <3>1. /\ Served(LifetimeKey)' = Served(LifetimeKey) /\ Usage(LifetimeKey)' = Usage(LifetimeKey)
          /\ LifetimeKey \in DOMAIN meter' <=> LifetimeKey \in DOMAIN meter
          /\ LifetimeKey \in DOMAIN meter => meter'[LifetimeKey] = meter[LifetimeKey]
      BY <1>3, <2>4, LifetimeIsKey, Returned
    <3> QED
      BY <2>1, <2>2, <3>1 DEF Lone
  <2> QED
    BY <2>3, <2>4
<1>4. CASE UNCHANGED vars
  BY <1>4 DEF vars, LifetimeInv, Lone, Usage, Served, MonthKey
<1> QED
  BY <1>1, <1>2, <1>3, <1>4 DEF Moves

\* However requests overlap, and whatever is paid, reset or moved meanwhile,
\* the lifetime counter is what was given, unless a request was under way as
\* the student's month turned.
THEOREM LifetimeIsExact == Spec => []LifetimeExact
<1>1. Init => LifetimeInv
  <2> SUFFICES ASSUME Init PROVE LifetimeInv
    OBVIOUS
  <2>1. "free" \in Tiers /\ "paid" \in Tiers /\ LifetimeKey \in Keys
    BY LifetimeIsKey DEF Tiers
  <2>2. Served(LifetimeKey) = 0 /\ Usage(LifetimeKey) = 0
    BY <2>1, AtFirst DEF Served, Usage
  <2>3. \A r \in Requests : DOMAIN req[r].wrote = {} /\ req[r].step # "counted"
    BY AtFirst
  <2> QED
    BY <2>2, <2>3 DEF LifetimeInv, Lone
<1>2. TypeOK /\ TypeOK' /\ Dated /\ Paths /\ LifetimeInv /\ [Next]_vars => LifetimeInv'
  BY TutorSteps, LifetimeStep
<1>3. LifetimeInv => LifetimeExact
  BY DEF LifetimeInv, LifetimeExact, LifetimeKey, Usage
<1> QED
  BY <1>1, <1>2, <1>3, RequestsKeepTheirWay, PTL DEF Spec

-----------------------------------------------------------------------------
(* Nobody is turned away too early.                                        *)

LEMMA CountsAre ==
  ASSUME TypeOK, NEW k \in Keys
  PROVE  /\ Usage(k) \in Nat /\ Served(k) \in Nat
         /\ \A t \in Tiers : served[t][k] \in Nat
<1>1. \A t \in Tiers : served[t][k] \in Nat
  BY DEF TypeOK
<1>2. Served(k) \in Nat
  BY <1>1 DEF Served, Tiers
<1>3. Usage(k) \in Nat
  BY CountersAre DEF Usage, TypeOK
<1> QED
  BY <1>1, <1>2, <1>3

\* What a charge leaves of a counter.
LEMMA ChargedKey ==
  ASSUME TypeOK, NEW r \in Requests, Charged(r), NEW k \in Keys
  PROVE  /\ HoldsKey(r, k) =>
              /\ k \in DOMAIN meter' /\ meter'[k] = req[r].wrote[k]
              /\ Usage(k)' = req[r].wrote[k].count /\ Served(k)' = Served(k) + 1
              /\ served'[req[r].tier][k] = served[req[r].tier][k] + 1
              /\ \A t \in Tiers \ {req[r].tier} : served'[t][k] = served[t][k]
         /\ ~HoldsKey(r, k) =>
              /\ k \in DOMAIN meter' <=> k \in DOMAIN meter
              /\ k \in DOMAIN meter => meter'[k] = meter[k]
              /\ Usage(k)' = Usage(k) /\ Served(k)' = Served(k)
              /\ \A t \in Tiers : served'[t][k] = served[t][k]
<1>1. /\ DOMAIN meter' = DOMAIN req[r].wrote \cup DOMAIN meter
      /\ \A j \in DOMAIN req[r].wrote : meter'[j] = req[r].wrote[j]
      /\ \A j \in DOMAIN meter \ DOMAIN req[r].wrote : meter'[j] = meter[j]
  BY DEF Charged
<1>2. \A t \in Tiers :
         served'[t][k] = IF t = req[r].tier /\ HoldsKey(r, k) THEN served[t][k] + 1 ELSE served[t][k]
  BY DEF Charged
<1>3. req[r].tier \in Tiers /\ (req[r].tier = "free" \/ req[r].tier = "paid")
      /\ "free" \in Tiers /\ "paid" \in Tiers
  BY Fields DEF TypeOK, Tiers
<1>4. served["free"][k] \in Nat /\ served["paid"][k] \in Nat
  BY <1>3, CountsAre
<1>5. CASE HoldsKey(r, k)
  <2>1. k \in DOMAIN meter' /\ meter'[k] = req[r].wrote[k]
    BY <1>1, <1>5 DEF HoldsKey
  <2>2. Usage(k)' = req[r].wrote[k].count
    BY <2>1 DEF Usage
  <2>3. /\ served'[req[r].tier][k] = served[req[r].tier][k] + 1
        /\ \A t \in Tiers \ {req[r].tier} : served'[t][k] = served[t][k]
    BY <1>2, <1>3, <1>5
  <2>4. Served(k)' = Served(k) + 1
    BY <1>3, <1>4, <2>3 DEF Served
  <2> QED
    BY <1>5, <2>1, <2>2, <2>3, <2>4
<1>6. CASE ~HoldsKey(r, k)
  <2>1. (k \in DOMAIN meter' <=> k \in DOMAIN meter) /\ (k \in DOMAIN meter => meter'[k] = meter[k])
    BY <1>1, <1>6 DEF HoldsKey
  <2>2. Usage(k)' = Usage(k)
    BY <2>1 DEF Usage
  <2>3. \A t \in Tiers : served'[t][k] = served[t][k]
    BY <1>2, <1>6
  <2>4. Served(k)' = Served(k)
    BY <1>3, <2>3 DEF Served
  <2> QED
    BY <1>6, <2>1, <2>2, <2>3, <2>4
<1> QED
  BY <1>5, <1>6

\* A row that is written is the one that is there, with one more at most.
FairlyWritten(r) ==
  \A k \in Keys : HoldsKey(r, k) =>
    IF k \in DOMAIN meter
    THEN req[r].wrote[k].born = meter[k].born /\ req[r].wrote[k].count <= Served(k) + 1
    ELSE req[r].wrote[k].count = 1

\* What was read is the row that is there, or of a row older than any that is
\* or will be.
FairlyRead(r) ==
  req[r].step = "counted" /\ req[r].seen # NoRow =>
    LET k == req[r].key
        born == req[r].seen.born
    IN
    \/ k \in DOMAIN meter /\ meter[k].born = born /\ req[r].seen.count <= Served(k)
    \/ /\ born < acts
       /\ k \in DOMAIN meter => meter[k].born > born
       /\ \A s \in Requests : HoldsKey(s, k) => req[s].wrote[k].born > born

NoMoreThanServed ==
  /\ \A k \in Keys : Usage(k) <= Served(k)
  /\ \A r \in Requests : FairlyWritten(r) /\ FairlyRead(r)

LEMMA RowsAre ==
  ASSUME TypeOK, NEW r \in Requests
  PROVE  /\ req[r].key \in Keys /\ req[r].seen.count \in Nat /\ req[r].seen.born \in Nat
         /\ acts \in Nat
         /\ \A k \in Keys : HoldsKey(r, k) => req[r].wrote[k].count \in Nat /\ req[r].wrote[k].born \in Nat
         /\ \A k \in DOMAIN meter : k \in Keys /\ meter[k].count \in Nat /\ meter[k].born \in Nat
<1>1. req[r].key \in Keys /\ req[r].seen \in MeterRow /\ req[r].wrote \in Counters /\ meter \in Counters
  BY Fields DEF TypeOK
<1>2. \A k \in DOMAIN meter : k \in Keys /\ meter[k].count \in Nat /\ meter[k].born \in Nat
  BY <1>1, CountersAre
<1>3. \A k \in DOMAIN req[r].wrote : req[r].wrote[k].count \in Nat /\ req[r].wrote[k].born \in Nat
  BY <1>1, CountersAre
<1>4. req[r].seen.count \in Nat /\ req[r].seen.born \in Nat
  BY <1>1, RowTypes
<1> QED
  BY <1>1, <1>2, <1>3, <1>4 DEF HoldsKey, TypeOK

\* A step of a request that leaves the counters alone.
LEMMA ServedAlike ==
  ASSUME UNCHANGED <<meter, served>>
  PROVE  \A k : Usage(k)' = Usage(k) /\ Served(k)' = Served(k)
BY DEF Usage, Served

LEMMA NoMoreByRequest ==
  ASSUME TypeOK, Dated, Paths, NoMoreThanServed, NEW r \in Requests, OfRequest(r)
  PROVE  NoMoreThanServed'
<1>1. acts' = acts /\ \A s \in Requests \ {r} : req'[s] = req[s]
  BY DEF OfRequest, OthersRest
<1>2. \A s \in Requests \ {r}, k \in Keys : HoldsKey(s, k)' <=> HoldsKey(s, k)
  BY <1>1 DEF HoldsKey
<1>3. ASSUME UNCHANGED <<meter, served>>, FairlyWritten(r)', FairlyRead(r)',
             \A k \in Keys : HoldsKey(r, k)' => HoldsKey(r, k) /\ req'[r].wrote[k] = req[r].wrote[k]
      PROVE  NoMoreThanServed'
  <2>1. \A k \in Keys : Usage(k)' <= Served(k)'
    BY <1>3, ServedAlike DEF NoMoreThanServed
  <2>2. ASSUME NEW s \in Requests \ {r} PROVE FairlyWritten(s)' /\ FairlyRead(s)'
    <3>1. FairlyWritten(s) /\ FairlyRead(s) /\ req[s].key \in Keys
      BY RowsAre DEF NoMoreThanServed
    <3>2. FairlyWritten(s)'
      BY <1>1, <1>2, <1>3, <3>1, ServedAlike DEF FairlyWritten
    <3>3. FairlyRead(s)'
      <4>1. \A o \in Requests : HoldsKey(o, req[s].key)' =>
               HoldsKey(o, req[s].key) /\ req'[o].wrote[req[s].key] = req[o].wrote[req[s].key]
        BY <1>1, <1>2, <1>3, <3>1
      <4> QED
        BY <1>1, <1>3, <3>1, <4>1, ServedAlike DEF FairlyRead
    <3> QED
      BY <3>2, <3>3
  <2> QED
    BY <1>3, <2>1, <2>2 DEF NoMoreThanServed
<1>4. CASE Started(r) \/ Stopped(r)
  <2>1. /\ UNCHANGED <<meter, served>> /\ DOMAIN req'[r].wrote = {} /\ req'[r].step # "counted"
    BY <1>4 DEF Started, Stopped
  <2>2. FairlyWritten(r)' /\ FairlyRead(r)' /\ \A k \in Keys : ~HoldsKey(r, k)'
    BY <2>1 DEF FairlyWritten, FairlyRead, HoldsKey
  <2> QED
    BY <1>3, <2>1, <2>2
<1>5. CASE Advanced(r)
  <2>1. UNCHANGED <<meter, served>> /\ req'[r].wrote = req[r].wrote /\ req'[r].step # "counted"
    BY <1>5 DEF Advanced
  <2>2. FairlyWritten(r)' /\ FairlyRead(r)' /\ \A k \in Keys : HoldsKey(r, k)' => HoldsKey(r, k)
    BY <2>1, ServedAlike DEF FairlyWritten, FairlyRead, HoldsKey, NoMoreThanServed
  <2> QED
    BY <1>3, <2>1, <2>2
<1>6. CASE Looked(r)
  <2>1. UNCHANGED <<meter, served>> /\ req'[r].wrote = req[r].wrote
    BY <1>6 DEF Looked
  <2>2. FairlyWritten(r)' /\ \A k \in Keys : HoldsKey(r, k)' => HoldsKey(r, k)
    BY <2>1, ServedAlike DEF FairlyWritten, HoldsKey, NoMoreThanServed
  <2>3. FairlyRead(r)'
    <3> DEFINE k == req'[r].key
    <3>1. CASE k \in DOMAIN meter /\ req'[r].seen = meter[k]
      <4>1. k \in Keys /\ meter[k].count = Usage(k)
        BY <3>1, RowsAre DEF Usage
      <4>2. meter[k].count <= Served(k)
        BY <4>1 DEF NoMoreThanServed
      <4> QED
        BY <2>1, <3>1, <4>2, ServedAlike DEF FairlyRead
    <3>2. CASE req'[r].seen = NoRow
      BY <3>2 DEF FairlyRead
    <3> QED
      BY <1>6, <3>1, <3>2 DEF Looked
  <2> QED
    BY <1>3, <2>1, <2>2, <2>3
<1>7. CASE Penned(r)
  <2> DEFINE j == req[r].key
             row == req'[r].wrote[j]
  <2>1. /\ UNCHANGED <<meter, served>> /\ req'[r].step # "counted" /\ req[r].step = "counted"
        /\ DOMAIN req'[r].wrote = DOMAIN req[r].wrote \cup {j}
        /\ \A k \in DOMAIN req[r].wrote \ {j} : req'[r].wrote[k] = req[r].wrote[k]
        /\ \/ req[r].seen = NoRow /\ j \notin DOMAIN meter /\ row.count = 1 /\ row.born = acts
           \/ /\ req[r].seen # NoRow /\ j \in DOMAIN meter /\ meter[j].born = req[r].seen.born
              /\ row.count = req[r].seen.count + 1 /\ row.born = req[r].seen.born
    BY <1>7 DEF Penned
  <2>2. /\ j \in Keys /\ req[r].seen.count \in Nat /\ req[r].seen.born \in Nat /\ Served(j) \in Nat
        /\ \A k \in DOMAIN meter : meter[k].born \in Nat
    BY RowsAre, CountsAre
  <2>3. /\ j \in DOMAIN meter => row.born = meter[j].born /\ row.count <= Served(j) + 1
        /\ j \notin DOMAIN meter => row.count = 1 /\ row.born = acts
    <3>1. CASE j \notin DOMAIN meter
      BY <2>1, <3>1
    <3>2. CASE j \in DOMAIN meter
      <4>1. /\ req[r].seen # NoRow /\ meter[j].born = req[r].seen.born
            /\ row.count = req[r].seen.count + 1 /\ row.born = req[r].seen.born
        BY <2>1, <3>2
      <4>2. FairlyRead(r)
        BY DEF NoMoreThanServed
      <4>3. req[r].seen.count <= Served(j)
        BY <2>1, <2>2, <3>2, <4>1, <4>2 DEF FairlyRead
      <4> QED
        BY <2>2, <3>2, <4>1, <4>3
    <3> QED
      BY <3>1, <3>2
  <2> HIDE DEF j, row
  <2>4. FairlyWritten(r)'
    <3> SUFFICES ASSUME NEW k \in Keys, HoldsKey(r, k)'
                 PROVE  IF k \in DOMAIN meter
                        THEN req'[r].wrote[k].born = meter[k].born /\ req'[r].wrote[k].count <= Served(k) + 1
                        ELSE req'[r].wrote[k].count = 1
      BY <2>1, ServedAlike DEF FairlyWritten
    <3>1. CASE k = j
      BY <2>3, <3>1 DEF row
    <3>2. CASE k # j
      BY <2>1, <3>2 DEF HoldsKey, NoMoreThanServed, FairlyWritten
    <3> QED
      BY <3>1, <3>2
  <2>5. ASSUME NEW s \in Requests PROVE FairlyRead(s)'
    <3>1. CASE s = r
      BY <2>1, <3>1 DEF FairlyRead
    <3>2. CASE s # r
      <4>1. FairlyRead(s) /\ req'[s] = req[s] /\ req[s].key \in Keys /\ req[s].seen.born \in Nat
        BY <1>1, <3>2, RowsAre DEF NoMoreThanServed
      <4>2. SUFFICES ASSUME req[s].step = "counted", req[s].seen # NoRow,
                            req[s].seen.born < acts,
                            req[s].key \in DOMAIN meter => meter[req[s].key].born > req[s].seen.born,
                            \A o \in Requests : HoldsKey(o, req[s].key) =>
                               req[o].wrote[req[s].key].born > req[s].seen.born,
                            NEW o \in Requests, HoldsKey(o, req[s].key)'
                     PROVE  req'[o].wrote[req[s].key].born > req[s].seen.born
        BY <1>1, <2>1, <4>1, ServedAlike DEF FairlyRead
      <4>3. CASE o # r
        <5>1. req'[o] = req[o] /\ HoldsKey(o, req[s].key)
          BY <1>1, <4>1, <4>2, <4>3 DEF HoldsKey
        <5> QED
          BY <4>2, <5>1
      <4>4. CASE o = r /\ req[s].key # j
        <5>1. req[s].key \in DOMAIN req'[r].wrote
          BY <4>1, <4>2, <4>4 DEF HoldsKey
        <5>2. /\ req[s].key \in DOMAIN req[r].wrote
              /\ req'[r].wrote[req[s].key] = req[r].wrote[req[s].key]
          BY <2>1, <4>4, <5>1
        <5>3. req[r].wrote[req[s].key].born > req[s].seen.born
          BY <4>2, <5>2 DEF HoldsKey
        <5> QED
          BY <4>4, <5>2, <5>3
      <4>5. CASE o = r /\ req[s].key = j
        <5>1. req'[o].wrote[req[s].key] = row
          BY <4>5 DEF row
        <5>2. CASE j \in DOMAIN meter
          BY <2>3, <4>2, <4>5, <5>1, <5>2
        <5>3. CASE j \notin DOMAIN meter
          BY <2>3, <4>2, <4>5, <5>1, <5>3
        <5> QED
          BY <5>2, <5>3
      <4> QED
        BY <4>3, <4>4, <4>5
    <3> QED
      BY <3>1, <3>2
  <2>6. ASSUME NEW s \in Requests \ {r} PROVE FairlyWritten(s)'
    BY <1>1, <1>2, <2>1, ServedAlike DEF FairlyWritten, NoMoreThanServed
  <2>7. \A k \in Keys : Usage(k)' <= Served(k)'
    BY <2>1, ServedAlike DEF NoMoreThanServed
  <2> QED
    BY <2>4, <2>5, <2>6, <2>7 DEF NoMoreThanServed
<1>8. CASE Charged(r)
  <2>1. DOMAIN req'[r].wrote = {} /\ req'[r].step # "counted"
    BY <1>8 DEF Charged
  <2>2. ASSUME NEW k \in Keys PROVE Usage(k)' <= Served(k)'
    <3>0. Usage(k) <= Served(k) /\ Served(k) \in Nat
      BY CountsAre DEF NoMoreThanServed
    <3>1. CASE HoldsKey(r, k)
      <4>1. Usage(k)' = req[r].wrote[k].count /\ Served(k)' = Served(k) + 1
        BY <1>8, <3>1, ChargedKey
      <4>2. req[r].wrote[k].count <= Served(k) + 1
        <5>1. FairlyWritten(r)
          BY DEF NoMoreThanServed
        <5>2. CASE k \in DOMAIN meter
          BY <3>1, <5>1, <5>2 DEF FairlyWritten
        <5>3. CASE k \notin DOMAIN meter
          <6>1. req[r].wrote[k].count = 1
            BY <3>1, <5>1, <5>3 DEF FairlyWritten
          <6> QED
            BY <3>0, <6>1
        <5> QED
          BY <5>2, <5>3
      <4> QED
        BY <4>1, <4>2
    <3>2. CASE ~HoldsKey(r, k)
      BY <1>8, <3>0, <3>2, ChargedKey
    <3> QED
      BY <3>1, <3>2
  <2>3. ASSUME NEW s \in Requests PROVE FairlyWritten(s)'
    <3>1. CASE s = r
      BY <2>1, <3>1 DEF FairlyWritten, HoldsKey
    <3>2. CASE s # r
      <4> SUFFICES ASSUME NEW k \in Keys, HoldsKey(s, k)
                   PROVE  IF k \in DOMAIN meter'
                          THEN req[s].wrote[k].born = meter'[k].born /\ req[s].wrote[k].count <= Served(k)' + 1
                          ELSE req[s].wrote[k].count = 1
        BY <1>1, <1>2, <3>2 DEF FairlyWritten
      <4>1. ~HoldsKey(r, k)
        BY <3>2 DEF Paths, Exclusive
      <4>2. /\ k \in DOMAIN meter' <=> k \in DOMAIN meter
            /\ k \in DOMAIN meter => meter'[k] = meter[k]
            /\ Served(k)' = Served(k)
        BY <1>8, <4>1, ChargedKey
      <4> QED
        BY <4>2 DEF NoMoreThanServed, FairlyWritten
    <3> QED
      BY <3>1, <3>2
  <2>4. ASSUME NEW s \in Requests PROVE FairlyRead(s)'
    <3>1. CASE s = r
      BY <2>1, <3>1 DEF FairlyRead
    <3>2. CASE s # r
      <4> DEFINE k == req[s].key
                 born == req[s].seen.born
      <4>1. /\ FairlyRead(s) /\ req'[s] = req[s] /\ k \in Keys /\ born \in Nat
            /\ req[s].seen.count \in Nat /\ Served(k) \in Nat
        BY <1>1, <3>2, RowsAre, CountsAre DEF NoMoreThanServed
      <4>2. \A o \in Requests : HoldsKey(o, k)' => o # r /\ HoldsKey(o, k) /\ req'[o] = req[o]
        BY <1>1, <1>2, <2>1, <4>1 DEF HoldsKey
      <4>3. CASE ~(req[s].step = "counted" /\ req[s].seen # NoRow)
        BY <4>1, <4>3 DEF FairlyRead
      <4>4. CASE /\ req[s].step = "counted" /\ req[s].seen # NoRow
                 /\ k \in DOMAIN meter /\ meter[k].born = born /\ req[s].seen.count <= Served(k)
        <5>1. k \in DOMAIN meter' /\ meter'[k].born = born /\ req[s].seen.count <= Served(k)'
          <6>1. CASE HoldsKey(r, k)
            <7>1. meter'[k] = req[r].wrote[k] /\ Served(k)' = Served(k) + 1 /\ k \in DOMAIN meter'
              BY <1>8, <4>1, <6>1, ChargedKey
            <7>2. req[r].wrote[k].born = meter[k].born
              BY <4>1, <4>4, <6>1 DEF NoMoreThanServed, FairlyWritten
            <7> QED
              BY <4>1, <4>4, <7>1, <7>2
          <6>2. CASE ~HoldsKey(r, k)
            BY <1>8, <4>1, <4>4, <6>2, ChargedKey
          <6> QED
            BY <6>1, <6>2
        <5> QED
          BY <4>1, <5>1 DEF FairlyRead
      <4>5. CASE /\ req[s].step = "counted" /\ req[s].seen # NoRow
                 /\ born < acts
                 /\ k \in DOMAIN meter => meter[k].born > born
                 /\ \A o \in Requests : HoldsKey(o, k) => req[o].wrote[k].born > born
        <5>1. k \in DOMAIN meter' => meter'[k].born > born
          <6>1. CASE HoldsKey(r, k)
            BY <1>8, <4>1, <4>5, <6>1, ChargedKey
          <6>2. CASE ~HoldsKey(r, k)
            BY <1>8, <4>1, <4>5, <6>2, ChargedKey
          <6> QED
            BY <6>1, <6>2
        <5>2. \A o \in Requests : HoldsKey(o, k)' => req'[o].wrote[k].born > born
          BY <4>2, <4>5
        <5> QED
          BY <1>1, <4>1, <4>5, <5>1, <5>2 DEF FairlyRead
      <4> QED
        BY <4>1, <4>3, <4>4, <4>5 DEF FairlyRead
    <3> QED
      BY <3>1, <3>2
  <2> QED
    BY <2>2, <2>3, <2>4 DEF NoMoreThanServed
<1> QED
  BY <1>4, <1>5, <1>6, <1>7, <1>8 DEF OfRequest

LEMMA NoMoreOutside ==
  ASSUME TypeOK, Dated, NoMoreThanServed, UNCHANGED <<meter, req, served>>, acts' \in {acts, acts + 1}
  PROVE  NoMoreThanServed'
<1>1. \A k \in Keys : Usage(k)' <= Served(k)'
  BY ServedAlike DEF NoMoreThanServed
<1>2. ASSUME NEW s \in Requests PROVE FairlyWritten(s)' /\ FairlyRead(s)'
  <2>1. FairlyWritten(s) /\ FairlyRead(s)
    BY DEF NoMoreThanServed
  <2>2. req[s].key \in Keys /\ req[s].seen.born \in Nat /\ acts \in Nat
    BY RowsAre
  <2>3. FairlyWritten(s)'
    BY <2>1, ServedAlike DEF FairlyWritten, HoldsKey
  <2>4. req[s].seen.born < acts => req[s].seen.born < acts'
    BY <2>2
  <2>5. FairlyRead(s)'
    BY <2>1, <2>4, ServedAlike DEF FairlyRead, HoldsKey
  <2> QED
    BY <2>3, <2>5
<1> QED
  BY <1>1, <1>2 DEF NoMoreThanServed

LEMMA NoMoreGivenBack ==
  ASSUME TypeOK, Dated, NoMoreThanServed, NEW metrics \in SUBSET Metrics, GivenBack(metrics)
  PROVE  NoMoreThanServed'
<1>0. req' = req /\ acts' = acts + 1
  BY DEF GivenBack
<1>1. ASSUME NEW k \in Keys PROVE Usage(k)' <= Served(k)'
  <2>1. CASE k[1] \in metrics
    BY <2>1, Returned
  <2>2. CASE k[1] \notin metrics
    BY <2>2, Returned DEF NoMoreThanServed
  <2> QED
    BY <2>1, <2>2
<1>2. ASSUME NEW s \in Requests PROVE FairlyWritten(s)'
  <2> SUFFICES ASSUME NEW k \in Keys, HoldsKey(s, k)
               PROVE  IF k \in DOMAIN meter'
                      THEN req[s].wrote[k].born = meter'[k].born /\ req[s].wrote[k].count <= Served(k)' + 1
                      ELSE req[s].wrote[k].count = 1
    BY <1>0 DEF FairlyWritten, HoldsKey
  <2>1. FairlyWritten(s)
    BY DEF NoMoreThanServed
  <2>2. CASE k[1] \in metrics
    <3>1. k \notin DOMAIN meter' /\ k \notin DOMAIN meter
      BY <2>2, Returned
    <3> QED
      BY <2>1, <3>1 DEF FairlyWritten
  <2>3. CASE k[1] \notin metrics
    <3>1. /\ Served(k)' = Served(k)
          /\ k \in DOMAIN meter' <=> k \in DOMAIN meter
          /\ k \in DOMAIN meter => meter'[k] = meter[k]
      BY <2>3, Returned
    <3> QED
      BY <2>1, <3>1 DEF FairlyWritten
  <2> QED
    BY <2>2, <2>3
<1>3. ASSUME NEW s \in Requests, req[s].step = "counted", req[s].seen # NoRow,
             NEW k \in Keys, k = req[s].key, NEW born \in Nat, born = req[s].seen.born
      PROVE  FairlyRead(s)'
  <2>1. acts \in Nat /\ born <= acts
    BY <1>3, RowsAre DEF Dated
  <2>2. \/ k \in DOMAIN meter /\ meter[k].born = born /\ req[s].seen.count <= Served(k)
        \/ /\ born < acts
           /\ k \in DOMAIN meter => meter[k].born > born
           /\ \A o \in Requests : HoldsKey(o, k) => req[o].wrote[k].born > born
    BY <1>3 DEF NoMoreThanServed, FairlyRead
  <2>3. SUFFICES
        \/ k \in DOMAIN meter' /\ meter'[k].born = born /\ req[s].seen.count <= Served(k)'
        \/ /\ born < acts'
           /\ k \in DOMAIN meter' => meter'[k].born > born
           /\ \A o \in Requests : HoldsKey(o, k) => req[o].wrote[k].born > born
    BY <1>0, <1>3 DEF FairlyRead, HoldsKey
  <2>4. born < acts'
    BY <1>0, <2>1
  <2>5. CASE k[1] \in metrics
    <3>1. k \notin DOMAIN meter' /\ (k \in DOMAIN meter => \A o \in Requests : ~HoldsKey(o, k))
      BY <2>5, Returned
    <3> QED
      BY <2>2, <2>4, <3>1
  <2>6. CASE k[1] \notin metrics
    <3>1. /\ Served(k)' = Served(k)
          /\ k \in DOMAIN meter' <=> k \in DOMAIN meter
          /\ k \in DOMAIN meter => meter'[k] = meter[k]
      BY <2>6, Returned
    <3> QED
      BY <2>2, <2>4, <3>1
  <2> QED
    BY <2>5, <2>6
<1>4. ASSUME NEW s \in Requests PROVE FairlyRead(s)'
  BY <1>0, <1>3, RowsAre DEF FairlyRead
<1> QED
  BY <1>1, <1>2, <1>4 DEF NoMoreThanServed

\* What is stored counts no more than was given.
THEOREM CountersNeverRunAhead == Spec => []NoMoreThanServed
<1>1. Init => NoMoreThanServed
  <2> SUFFICES ASSUME Init PROVE NoMoreThanServed
    OBVIOUS
  <2>1. "free" \in Tiers /\ "paid" \in Tiers
    BY DEF Tiers
  <2>2. \A k \in Keys : Served(k) = 0 /\ Usage(k) = 0
    BY <2>1, AtFirst DEF Served, Usage
  <2>3. \A r \in Requests : DOMAIN req[r].wrote = {} /\ req[r].step # "counted"
    BY AtFirst
  <2> QED
    BY <2>2, <2>3 DEF NoMoreThanServed, FairlyWritten, FairlyRead, HoldsKey
<1>2. TypeOK /\ Dated /\ Paths /\ NoMoreThanServed /\ [Next]_vars => NoMoreThanServed'
  <2> SUFFICES ASSUME TypeOK, Dated, Paths, NoMoreThanServed, Moves PROVE NoMoreThanServed'
    BY TutorSteps
  <2>1. ASSUME NEW r \in Requests, OfRequest(r) PROVE NoMoreThanServed'
    BY <2>1, NoMoreByRequest
  <2>2. CASE Outside \/ UNCHANGED vars
    BY <2>2, NoMoreOutside DEF Outside, vars
  <2>3. ASSUME NEW metrics \in SUBSET Metrics, GivenBack(metrics) PROVE NoMoreThanServed'
    BY <2>3, NoMoreGivenBack
  <2> QED
    BY <2>1, <2>2, <2>3 DEF Moves
<1> QED
  BY <1>1, <1>2, RequestsKeepTheirWay, PTL DEF Spec

LEMMA CeilingsAre ==
  ASSUME NEW kind \in Kinds, NEW t \in Tiers, NEW c \in Ceilings(kind, t)
  PROVE  c[1] \in OnWhat(kind, t) /\ c[1] \in Metrics /\ c[2] \in Nat
<1>1. FreeMonthly \in Nat /\ FreeLifetime \in Nat /\ FreeQuizzes \in Nat /\ PaidMonthly \in Nat
      /\ PaidQuizzes \in Nat
  BY TutorAssumption
<1>2. CASE kind = "quiz"
  BY <1>1, <1>2 DEF Ceilings, OnWhat, QuizMetric, Metrics, Monthly
<1>3. CASE kind = "ask" /\ t = "free"
  BY <1>1, <1>3 DEF Ceilings, OnWhat, Metrics, Monthly
<1>4. CASE kind = "ask" /\ t = "paid"
  BY <1>1, <1>4 DEF Ceilings, OnWhat, Metrics, Monthly
<1> QED
  BY <1>2, <1>3, <1>4 DEF Kinds, Tiers

\* A counter at its ceiling is one of this month of the student's, or of ever.
LEMMA AtCeiling ==
  ASSUME TypeOK, NEW kind \in Kinds
  PROVE  /\ \A c \in Ceilings(kind, tier) : CurrentUsage(c[1]) = Usage(KeyOf(c[1])) /\ KeyOf(c[1]) \in Keys
         /\ Allowed(kind, tier) <=> \A c \in Ceilings(kind, tier) : Usage(KeyOf(c[1])) < c[2]
<1>1. tier \in Tiers
  BY DEF TypeOK
<1>2. \A c \in Ceilings(kind, tier) : CurrentUsage(c[1]) = Usage(KeyOf(c[1]))
  BY DEF CurrentUsage, Usage
<1>3. \A c \in Ceilings(kind, tier) : KeyOf(c[1]) \in Keys
  BY <1>1, CeilingsAre, KeysAre
<1> QED
  BY <1>2, <1>3 DEF Allowed

\* Whoever is turned away has been given what the plan includes.
THEOREM NobodyTurnedAwayEarly == Spec => TurnedAwayWhenSpent
<1> DEFINE A == \A r \in Requests : req[r] # req'[r] /\ req'[r].step = "refused" =>
                  \E c \in Ceilings(req'[r].kind, tier), k \in Keys :
                    k[1] = c[1] /\ k[2] \in {OwnMonth, Lifetime} /\ Served(k) >= c[2]
<1>1. TypeOK /\ TypeOK' /\ Dated /\ NoMoreThanServed /\ [Next]_vars => [A]_vars
  <2> SUFFICES ASSUME TypeOK, TypeOK', Dated, NoMoreThanServed, Moves,
                      NEW r \in Requests, req[r] # req'[r], req'[r].step = "refused"
               PROVE  \E c \in Ceilings(req'[r].kind, tier), k \in Keys :
                        k[1] = c[1] /\ k[2] \in {OwnMonth, Lifetime} /\ Served(k) >= c[2]
    BY TutorSteps
  <2>1. OfRequest(r)
    BY DEF Moves, OfRequest, OthersRest, Outside, GivenBack, vars
  <2>2. Started(r)
    BY <2>1 DEF OfRequest, Stopped, Advanced, Looked, Penned, Charged
  <2>3. req'[r].kind \in Kinds /\ tier \in Tiers
    BY Fields DEF TypeOK
  <2>4. ~Allowed(req'[r].kind, tier)
    BY <2>2 DEF Started
  <2>5. PICK c \in Ceilings(req'[r].kind, tier) : ~(Usage(KeyOf(c[1])) < c[2])
    BY <2>3, <2>4, AtCeiling
  <2>6. c[1] \in Metrics /\ c[2] \in Nat
    BY <2>3, CeilingsAre
  <2> DEFINE k == KeyOf(c[1])
  <2>7. k \in Keys /\ k[1] = c[1] /\ k[2] \in {MonthKey, Lifetime}
    BY <2>6, KeysAre DEF KeyOf, PeriodOf
  <2>8. MonthKey = OwnMonth
    <3>1. now \in Nat /\ zone \in Nat
      BY TutorAssumption DEF TypeOK
    <3>2. (now + zone) \div 2 \in Nat
      BY <3>1
    <3> QED
      BY <3>2 DEF MonthKey, OwnMonth
  <2> HIDE DEF k
  <2>9. Served(k) >= c[2]
    <3>1. Usage(k) \in Nat /\ Served(k) \in Nat /\ Usage(k) <= Served(k)
      BY <2>7, CountsAre DEF NoMoreThanServed
    <3>2. ~(Usage(k) < c[2])
      BY <2>5 DEF k
    <3> QED
      BY <2>6, <3>1, <3>2
  <2> QED
    BY <2>7, <2>8, <2>9
<1> QED
  BY <1>1, RequestsKeepTheirWay, CountersNeverRunAhead, PTL DEF Spec, TurnedAwayWhenSpent

-----------------------------------------------------------------------------
(* Nobody is given more.                                                   *)

\* The requests under way, those of a kind and a plan, and those that have
\* come to a counter.
Busy == {r \in Requests : UnderWay(r)}
Of(kind, t) == {r \in Busy : req[r].kind = kind /\ req[r].tier = t}
AtKey(r, k) == HoldsKey(r, k) \/ (req[r].step = "counted" /\ req[r].key = k)
AtCounter(kind, t, k) == {r \in Of(kind, t) : AtKey(r, k)}

\* A set that may differ in one member.
LEMMA OneMore ==
  ASSUME NEW R, IsFiniteSet(R), NEW S \in SUBSET R, NEW T \in SUBSET R, NEW r \in R,
         \A s \in R \ {r} : s \in S <=> s \in T
  PROVE  /\ Cardinality(S) \in Nat /\ Cardinality(T) \in Nat
         /\ r \in S /\ r \notin T => Cardinality(S) = Cardinality(T) + 1
         /\ r \notin S /\ r \in T => Cardinality(T) = Cardinality(S) + 1
         /\ (r \in S <=> r \in T) => Cardinality(T) = Cardinality(S)
<1>1. IsFiniteSet(S) /\ IsFiniteSet(T)
  BY FS_Subset
<1>2. Cardinality(S) \in Nat /\ Cardinality(T) \in Nat
  BY <1>1, FS_CardinalityType
<1>3. ASSUME r \in S, r \notin T PROVE Cardinality(S) = Cardinality(T) + 1
  <2>1. S = T \cup {r}
    BY <1>3
  <2> QED
    BY <1>1, <1>3, <2>1, FS_AddElement
<1>4. ASSUME r \notin S, r \in T PROVE Cardinality(T) = Cardinality(S) + 1
  <2>1. T = S \cup {r}
    BY <1>4
  <2> QED
    BY <1>1, <1>4, <2>1, FS_AddElement
<1>5. ASSUME r \in S <=> r \in T PROVE S = T
  BY <1>5
<1> QED
  BY <1>2, <1>3, <1>4, <1>5

LEMMA Tallies ==
  ASSUME NEW kind, NEW t, NEW k
  PROVE  /\ Cardinality(Busy) \in Nat /\ Cardinality(Of(kind, t)) \in Nat
         /\ Cardinality(AtCounter(kind, t, k)) \in Nat
         /\ Cardinality(AtCounter(kind, t, k)) <= Cardinality(Of(kind, t))
         /\ Cardinality(Of(kind, t)) <= Cardinality(Busy)
<1>1. Busy \subseteq Requests /\ Of(kind, t) \subseteq Busy /\ AtCounter(kind, t, k) \subseteq Of(kind, t)
  BY DEF Busy, Of, AtCounter
<1>2. IsFiniteSet(Busy) /\ IsFiniteSet(Of(kind, t)) /\ IsFiniteSet(AtCounter(kind, t, k))
  BY <1>1, TutorAssumption, FS_Subset
<1> QED
  BY <1>1, <1>2, FS_CardinalityType, FS_Subset

\* What a step of a request does to them.
LEMMA TalliesByRequest ==
  ASSUME NEW r \in Requests, OthersRest(r), NEW kind, NEW t, NEW k
  PROVE  /\ UnderWay(r) /\ ~UnderWay(r)' => Cardinality(Busy) = Cardinality(Busy)' + 1
         /\ ~UnderWay(r) /\ UnderWay(r)' => Cardinality(Busy)' = Cardinality(Busy) + 1
         /\ (UnderWay(r) <=> UnderWay(r)') => Cardinality(Busy)' = Cardinality(Busy)
         /\ r \in Of(kind, t) /\ ~(r \in Of(kind, t))' =>
              Cardinality(Of(kind, t)) = Cardinality(Of(kind, t))' + 1
         /\ r \notin Of(kind, t) /\ (r \in Of(kind, t))' =>
              Cardinality(Of(kind, t))' = Cardinality(Of(kind, t)) + 1
         /\ (r \in Of(kind, t) <=> (r \in Of(kind, t))') =>
              Cardinality(Of(kind, t))' = Cardinality(Of(kind, t))
         /\ r \in AtCounter(kind, t, k) /\ ~(r \in AtCounter(kind, t, k))' =>
              Cardinality(AtCounter(kind, t, k)) = Cardinality(AtCounter(kind, t, k))' + 1
         /\ r \notin AtCounter(kind, t, k) /\ (r \in AtCounter(kind, t, k))' =>
              Cardinality(AtCounter(kind, t, k))' = Cardinality(AtCounter(kind, t, k)) + 1
         /\ (r \in AtCounter(kind, t, k) <=> (r \in AtCounter(kind, t, k))') =>
              Cardinality(AtCounter(kind, t, k))' = Cardinality(AtCounter(kind, t, k))
<1>0. IsFiniteSet(Requests)
  BY TutorAssumption
<1>1. \A s \in Requests \ {r} : req'[s] = req[s]
  BY DEF OthersRest
<1>2. /\ Busy \in SUBSET Requests /\ Busy' \in SUBSET Requests
      /\ r \in Busy <=> UnderWay(r)
      /\ r \in Busy' <=> UnderWay(r)'
      /\ \A s \in Requests \ {r} : s \in Busy <=> s \in Busy'
  BY <1>1 DEF Busy, UnderWay
<1>3. /\ Of(kind, t) \in SUBSET Requests /\ Of(kind, t)' \in SUBSET Requests
      /\ \A s \in Requests \ {r} : s \in Of(kind, t) <=> s \in Of(kind, t)'
  BY <1>1, <1>2 DEF Of
<1>4. /\ AtCounter(kind, t, k) \in SUBSET Requests /\ AtCounter(kind, t, k)' \in SUBSET Requests
      /\ \A s \in Requests \ {r} : s \in AtCounter(kind, t, k) <=> s \in AtCounter(kind, t, k)'
  BY <1>1, <1>3 DEF AtCounter, AtKey, HoldsKey
<1>5. /\ UnderWay(r) /\ ~UnderWay(r)' => Cardinality(Busy) = Cardinality(Busy') + 1
      /\ ~UnderWay(r) /\ UnderWay(r)' => Cardinality(Busy') = Cardinality(Busy) + 1
      /\ (UnderWay(r) <=> UnderWay(r)') => Cardinality(Busy') = Cardinality(Busy)
  BY <1>0, <1>2, OneMore
<1> DEFINE O == Of(kind, t)
           P == Of(kind, t)'
           A == AtCounter(kind, t, k)
           B == AtCounter(kind, t, k)'
<1>6. /\ r \in O /\ r \notin P => Cardinality(O) = Cardinality(P) + 1
      /\ r \notin O /\ r \in P => Cardinality(P) = Cardinality(O) + 1
      /\ (r \in O <=> r \in P) => Cardinality(P) = Cardinality(O)
  <2> HIDE DEF O, P
  <2> QED
    BY <1>0, <1>3, OneMore DEF O, P
<1>7. /\ r \in A /\ r \notin B => Cardinality(A) = Cardinality(B) + 1
      /\ r \notin A /\ r \in B => Cardinality(B) = Cardinality(A) + 1
      /\ (r \in A <=> r \in B) => Cardinality(B) = Cardinality(A)
  <2> HIDE DEF A, B
  <2> QED
    BY <1>0, <1>4, OneMore DEF A, B
<1> QED
  BY <1>5, <1>6, <1>7

LEMMA TalliesNext ==
  ASSUME NEW kind, NEW t, NEW k
  PROVE  /\ Cardinality(Busy)' \in Nat /\ Cardinality(Of(kind, t))' \in Nat
         /\ Cardinality(AtCounter(kind, t, k))' \in Nat
         /\ Cardinality(AtCounter(kind, t, k))' <= Cardinality(Of(kind, t))'
<1>1. Busy' \subseteq Requests /\ Of(kind, t)' \subseteq Busy' /\ AtCounter(kind, t, k)' \subseteq Of(kind, t)'
  BY DEF Busy, Of, AtCounter
<1>2. IsFiniteSet(Busy') /\ IsFiniteSet(Of(kind, t)') /\ IsFiniteSet(AtCounter(kind, t, k)')
  BY <1>1, TutorAssumption, FS_Subset
<1>3. Cardinality(Busy') \in Nat /\ Cardinality(Of(kind, t)') \in Nat
      /\ Cardinality(AtCounter(kind, t, k)') \in Nat
  BY <1>2, FS_CardinalityType
<1>4. Cardinality(AtCounter(kind, t, k)') <= Cardinality(Of(kind, t)')
  BY <1>1, <1>2, FS_Subset
<1> QED
  BY <1>3, <1>4

Load == Cardinality(Busy)

\* However many read a counter before any of them writes it, each count that
\* is lost is of a request that began beside another.  m is below all that is
\* stored, read or about to be stored of a counter; those under way may all be
\* given on top of it.
Under(k, m) ==
  /\ m <= Usage(k)
  /\ \A r \in Requests : req[r].step = "counted" /\ req[r].key = k => m <= req[r].seen.count
  /\ \A r \in Requests : HoldsKey(r, k) => m + 1 <= req[r].wrote[k].count
  /\ Served(k) + Load <= (m + 1) + overlaps

Floor ==
  /\ Load <= 1 + overlaps
  /\ \A k \in Keys : /\ Served(k) <= Usage(k) + overlaps
                     /\ \E m \in Nat : Under(k, m)

\* The rows of one request, over m.
RowsOver(r, k, m) ==
  /\ req[r].step = "counted" /\ req[r].key = k => m <= req[r].seen.count
  /\ HoldsKey(r, k) => m + 1 <= req[r].wrote[k].count

LEMMA UnderIs ==
  ASSUME NEW k, NEW m
  PROVE  Under(k, m) <=> /\ m <= Usage(k)
                         /\ \A r \in Requests : RowsOver(r, k, m)
                         /\ Served(k) + Load <= (m + 1) + overlaps
BY DEF Under, RowsOver

LEMMA OthersOver ==
  ASSUME NEW r \in Requests, OthersRest(r), NEW k, NEW m, \A s \in Requests : RowsOver(s, k, m)
  PROVE  \A s \in Requests \ {r} : RowsOver(s, k, m)'
BY DEF OthersRest, RowsOver, HoldsKey

LEMMA MetersNat ==
  ASSUME TypeOK, TypeOK'
  PROVE  /\ overlaps \in Nat /\ Load \in Nat
         /\ overlaps' \in Nat /\ Load' \in Nat
BY Tallies, TalliesNext DEF TypeOK, Load

LEMMA FloorByRequest ==
  ASSUME TypeOK, TypeOK', Paths, Floor, NEW r \in Requests, OfRequest(r)
  PROVE  Floor'
<1>0. /\ overlaps \in Nat /\ overlaps' \in Nat /\ Load \in Nat /\ Load' \in Nat /\ Load <= 1 + overlaps
      /\ OthersRest(r)
  BY MetersNat DEF Floor, OfRequest
<1>1. /\ UnderWay(r) /\ ~UnderWay(r)' => Load = Load' + 1
      /\ ~UnderWay(r) /\ UnderWay(r)' => Load' = Load + 1
      /\ (UnderWay(r) <=> UnderWay(r)') => Load' = Load
  BY <1>0, TalliesByRequest DEF Load
<1>2. UnderWay(r) => Load >= 1
  <2>1. UnderWay(r) => Busy # {} /\ Busy \subseteq Requests
    BY DEF Busy
  <2>2. IsFiniteSet(Busy)
    BY TutorAssumption, FS_Subset DEF Busy
  <2>3. UnderWay(r) => Load # 0
    BY <2>1, <2>2, FS_EmptySet DEF Load
  <2> QED
    BY <1>0, <2>3
<1>3. ~SomeUnderWay => Load = 0
  <2>1. ~SomeUnderWay => Busy = {}
    BY DEF Busy, SomeUnderWay
  <2> QED
    BY <2>1, FS_EmptySet DEF Load
\* A step that leaves the counters alone and lets no more be under way.
<1>4. ASSUME UNCHANGED <<meter, served>>, Load' <= Load, overlaps <= overlaps',
             \A k \in Keys, m \in Nat : m <= Usage(k) /\ RowsOver(r, k, m) => RowsOver(r, k, m)'
      PROVE  Floor'
  <2>1. Load' <= 1 + overlaps'
    <3>1. PICK n \in Nat, o \in Nat : n = Load' /\ o = overlaps'
      BY <1>0
    <3>2. n <= Load /\ overlaps <= o
      BY <1>4, <3>1
    <3>3. n <= 1 + o
      BY <1>0, <3>2
    <3> QED
      BY <3>1, <3>3
  <2>2. ASSUME NEW k \in Keys
        PROVE  Served(k)' <= Usage(k)' + overlaps' /\ \E m \in Nat : Under(k, m)'
    <3>1. PICK m \in Nat : Under(k, m)
      BY DEF Floor
    <3>2. /\ Usage(k)' = Usage(k) /\ Served(k)' = Served(k) /\ Usage(k) \in Nat /\ Served(k) \in Nat
          /\ Served(k) <= Usage(k) + overlaps
      BY <1>4, ServedAlike, CountsAre DEF Floor
    <3>3. m <= Usage(k) /\ Served(k) + Load <= (m + 1) + overlaps /\ \A s \in Requests : RowsOver(s, k, m)
      BY <3>1, UnderIs
    <3>4. \A s \in Requests : RowsOver(s, k, m)'
      BY <1>0, <1>4, <3>3, OthersOver
    <3>5. m <= Usage(k)' /\ Served(k)' + Load' <= (m + 1) + overlaps'
      BY <1>0, <1>4, <3>2, <3>3
    <3>6. Under(k, m)'
      BY <3>4, <3>5 DEF Under, RowsOver
    <3>7. Served(k)' <= Usage(k)' + overlaps'
      BY <1>0, <1>4, <3>2
    <3> QED
      BY <3>6, <3>7
  <2> QED
    BY <2>1, <2>2 DEF Floor
<1>5. CASE Started(r)
  <2>1. UNCHANGED <<meter, served>> /\ DOMAIN req'[r].wrote = {} /\ req'[r].step # "counted" /\ ~UnderWay(r)
    BY <1>5 DEF Started
  <2>2. \A k \in Keys, m \in Nat : RowsOver(r, k, m)'
    BY <2>1 DEF RowsOver, HoldsKey
  <2>3. CASE ~UnderWay(r)'
    <3>1. Load' = Load /\ overlaps <= overlaps'
      BY <1>0, <1>1, <1>5, <2>1, <2>3 DEF Started
    <3> QED
      BY <1>0, <1>4, <2>1, <2>2, <3>1
  <2>4. CASE UnderWay(r)' /\ SomeUnderWay
    <3>1. Load' = Load + 1 /\ overlaps' = overlaps + 1
      BY <1>1, <1>5, <2>1, <2>4 DEF Started
    <3>2. Load' <= 1 + overlaps'
      BY <1>0, <3>1
    <3>3. ASSUME NEW k \in Keys
          PROVE  Served(k)' <= Usage(k)' + overlaps' /\ \E m \in Nat : Under(k, m)'
      <4>1. PICK m \in Nat : Under(k, m)
        BY DEF Floor
      <4>2. /\ Usage(k)' = Usage(k) /\ Served(k)' = Served(k) /\ Usage(k) \in Nat /\ Served(k) \in Nat
            /\ Served(k) <= Usage(k) + overlaps
        BY <2>1, ServedAlike, CountsAre DEF Floor
      <4>3. m <= Usage(k) /\ Served(k) + Load <= (m + 1) + overlaps /\ \A s \in Requests : RowsOver(s, k, m)
        BY <4>1, UnderIs
      <4>4. \A s \in Requests : RowsOver(s, k, m)'
        BY <1>0, <2>2, <4>3, OthersOver
      <4>5. m <= Usage(k)' /\ Served(k)' + Load' <= (m + 1) + overlaps'
        BY <1>0, <3>1, <4>2, <4>3
      <4>6. Under(k, m)'
        BY <4>4, <4>5 DEF Under, RowsOver
      <4>7. Served(k)' <= Usage(k)' + overlaps'
        BY <1>0, <3>1, <4>2
      <4> QED
        BY <4>6, <4>7
    <3> QED
      BY <3>2, <3>3 DEF Floor
  <2>5. CASE UnderWay(r)' /\ ~SomeUnderWay
    <3>1. Load' = 1 /\ overlaps' = overlaps
      BY <1>1, <1>3, <1>5, <2>1, <2>5 DEF Started
    <3>2. ASSUME NEW k \in Keys
          PROVE  Served(k)' <= Usage(k)' + overlaps' /\ \E m \in Nat : Under(k, m)'
      <4>1. /\ Usage(k)' = Usage(k) /\ Served(k)' = Served(k) /\ Usage(k) \in Nat /\ Served(k) \in Nat
            /\ Served(k) <= Usage(k) + overlaps
        BY <2>1, ServedAlike, CountsAre DEF Floor
      <4>2. \A s \in Requests : DOMAIN req[s].wrote = {} /\ req[s].step # "counted"
        BY <2>5, PathMeans DEF SomeUnderWay, Paths
      <4>3. \A s \in Requests \ {r} : DOMAIN req'[s].wrote = {} /\ req'[s].step # "counted"
        BY <1>0, <4>2 DEF OthersRest
      <4>4. \A s \in Requests : DOMAIN req'[s].wrote = {} /\ req'[s].step # "counted"
        BY <2>1, <4>3
      <4>5. Usage(k) <= Usage(k)' /\ Served(k)' + Load' <= (Usage(k) + 1) + overlaps'
        BY <1>0, <3>1, <4>1
      <4> DEFINE m == Usage(k)
      <4>6. m \in Nat /\ m <= Usage(k)' /\ Served(k)' + Load' <= (m + 1) + overlaps'
        BY <4>1, <4>5
      <4> HIDE DEF m
      <4>7. PICK n \in Nat : n <= Usage(k)' /\ Served(k)' + Load' <= (n + 1) + overlaps'
        BY <4>6
      <4>8. Under(k, n)'
        BY <4>4, <4>7 DEF Under, HoldsKey
      <4> QED
        BY <3>1, <4>1, <4>8
    <3> QED
      BY <1>0, <3>1, <3>2 DEF Floor
  <2> QED
    BY <2>3, <2>4, <2>5
<1>6. CASE Stopped(r)
  <2>1. /\ UNCHANGED <<meter, served, overlaps>> /\ DOMAIN req'[r].wrote = {} /\ req'[r].step # "counted"
        /\ ~UnderWay(r)'
    BY <1>6 DEF Stopped, UnderWay
  <2>2. \A k \in Keys, m \in Nat : RowsOver(r, k, m)'
    BY <2>1 DEF RowsOver, HoldsKey
  <2>3. Load' <= Load
    <3>1. PICK n \in Nat, l \in Nat : n = Load' /\ l = Load
      BY <1>0
    <3>2. l = n + 1 \/ n = l
      BY <1>1, <2>1, <3>1
    <3>3. n <= l
      BY <3>2
    <3> QED
      BY <3>1, <3>3
  <2> QED
    BY <1>0, <1>4, <2>1, <2>2, <2>3
<1>7. CASE Advanced(r)
  <2>1. /\ UNCHANGED <<meter, served, overlaps>> /\ req'[r].wrote = req[r].wrote /\ req'[r].step # "counted"
        /\ UnderWay(r)' /\ UnderWay(r)
    BY <1>7 DEF Advanced, UnderWay
  <2>2. \A k \in Keys, m \in Nat : RowsOver(r, k, m) => RowsOver(r, k, m)'
    BY <2>1 DEF RowsOver, HoldsKey
  <2>3. Load' = Load
    BY <1>1, <2>1
  <2> QED
    BY <1>0, <1>4, <2>1, <2>2, <2>3
<1>8. CASE Looked(r)
  <2>1. /\ UNCHANGED <<meter, served, overlaps>> /\ req'[r].wrote = req[r].wrote
        /\ UnderWay(r)' /\ UnderWay(r)
    BY <1>8 DEF Looked, UnderWay
  <2>2. req'[r].seen.count = Usage(req'[r].key)
    BY <1>8, RowTypes DEF Looked, Usage
  <2>3. ASSUME NEW k \in Keys, NEW m \in Nat, m <= Usage(k), RowsOver(r, k, m) PROVE RowsOver(r, k, m)'
    BY <2>1, <2>2, <2>3 DEF RowsOver, HoldsKey
  <2>4. Load' = Load
    BY <1>1, <2>1
  <2> QED
    BY <1>0, <1>4, <2>1, <2>3, <2>4
<1>9. CASE Penned(r)
  <2>1. /\ UNCHANGED <<meter, served, overlaps>> /\ req'[r].step # "counted" /\ req[r].step = "counted"
        /\ UnderWay(r)' /\ UnderWay(r)
        /\ DOMAIN req'[r].wrote = DOMAIN req[r].wrote \cup {req[r].key}
        /\ \A j \in DOMAIN req[r].wrote \ {req[r].key} : req'[r].wrote[j] = req[r].wrote[j]
    BY <1>9 DEF Penned, UnderWay
  <2>2. ASSUME NEW k \in Keys, NEW m \in Nat, m <= Usage(k), RowsOver(r, k, m) PROVE RowsOver(r, k, m)'
    <3>1. CASE k # req[r].key
      BY <2>1, <2>2, <3>1 DEF RowsOver, HoldsKey
    <3>2. CASE k = req[r].key
      <4>1. m <= req[r].seen.count /\ req[r].seen.count \in Nat
        BY <2>1, <2>2, <3>2, RowsAre DEF RowsOver
      <4>2. m + 1 <= req'[r].wrote[k].count
        <5>1. CASE k \notin DOMAIN meter
          <6>1. m = 0
            BY <2>2, <5>1 DEF Usage
          <6>2. req'[r].wrote[k].count = 1
            BY <1>9, <3>2, <5>1 DEF Penned
          <6> QED
            BY <6>1, <6>2
        <5>2. CASE k \in DOMAIN meter
          <6>1. req'[r].wrote[k].count = req[r].seen.count + 1
            BY <1>9, <3>2, <5>2 DEF Penned
          <6> QED
            BY <4>1, <6>1
        <5> QED
          BY <5>1, <5>2
      <4> QED
        BY <2>1, <4>2 DEF RowsOver
    <3> QED
      BY <3>1, <3>2
  <2>3. Load' = Load
    BY <1>1, <2>1
  <2> QED
    BY <1>0, <1>4, <2>1, <2>2, <2>3
<1>10. CASE Charged(r)
  <2>1. /\ DOMAIN req'[r].wrote = {} /\ req'[r].step # "counted" /\ overlaps' = overlaps
        /\ UnderWay(r) /\ ~UnderWay(r)'
    BY <1>10 DEF Charged, UnderWay
  <2>2. Load = Load' + 1
    BY <1>1, <2>1
  <2>3. ASSUME NEW k \in Keys
        PROVE  Served(k)' <= Usage(k)' + overlaps' /\ \E m \in Nat : Under(k, m)'
    <3>1. PICK m \in Nat : Under(k, m)
      BY DEF Floor
    <3>2. Usage(k) \in Nat /\ Served(k) \in Nat /\ Served(k) <= Usage(k) + overlaps
      BY CountsAre DEF Floor
    <3>3. m <= Usage(k) /\ Served(k) + Load <= (m + 1) + overlaps /\ \A s \in Requests : RowsOver(s, k, m)
      BY <3>1, UnderIs
    <3>4. \A s \in Requests : RowsOver(s, k, m)'
      <4>1. RowsOver(r, k, m)'
        BY <2>1 DEF RowsOver, HoldsKey
      <4> QED
        BY <1>0, <3>3, <4>1, OthersOver
    <3>5. /\ Served(k)' <= Usage(k)' + overlaps'
          /\ m <= Usage(k)' /\ Served(k)' + Load' <= (m + 1) + overlaps'
      <4>1. CASE HoldsKey(r, k)
        <5>1. Usage(k)' = req[r].wrote[k].count /\ Served(k)' = Served(k) + 1
          BY <1>10, <4>1, ChargedKey
        <5>2. m + 1 <= req[r].wrote[k].count /\ req[r].wrote[k].count \in Nat
          BY <3>3, <4>1, RowsAre DEF RowsOver
        <5>3. m + 1 <= Usage(k)' /\ Usage(k)' \in Nat
          BY <5>1, <5>2
        <5>4. Served(k)' + Load' <= (m + 1) + overlaps'
          BY <1>0, <2>1, <2>2, <3>2, <3>3, <5>1
        <5>5. Served(k)' <= (m + 1) + overlaps'
          BY <1>0, <3>2, <5>1, <5>4
        <5> QED
          BY <1>0, <3>2, <5>1, <5>3, <5>4, <5>5
      <4>2. CASE ~HoldsKey(r, k)
        <5>1. Usage(k)' = Usage(k) /\ Served(k)' = Served(k)
          BY <1>10, <4>2, ChargedKey
        <5> QED
          BY <1>0, <2>1, <2>2, <3>2, <3>3, <5>1
      <4> QED
        BY <4>1, <4>2
    <3>6. Under(k, m)'
      BY <3>4, <3>5 DEF Under, RowsOver
    <3> QED
      BY <3>5, <3>6
  <2>4. Load' <= 1 + overlaps'
    <3>1. PICK n \in Nat, l \in Nat, o \in Nat : n = Load' /\ l = Load /\ o = overlaps
      BY <1>0
    <3>2. l = n + 1 /\ l <= 1 + o
      BY <1>0, <2>2, <3>1
    <3>3. n <= 1 + o
      BY <3>2
    <3> QED
      BY <2>1, <3>1, <3>3
  <2> QED
    BY <2>3, <2>4 DEF Floor
<1> QED
  BY <1>5, <1>6, <1>7, <1>8, <1>9, <1>10 DEF OfRequest

LEMMA FloorOutside ==
  ASSUME TypeOK, TypeOK', Floor, Outside
  PROVE  Floor'
<1>1. /\ UNCHANGED <<meter, served>> /\ Load' = Load
      /\ \A k : (\A s \in Requests : RowsOver(s, k, 0)) <=> (\A s \in Requests : RowsOver(s, k, 0)')
      /\ \A k, m : Served(k)' = Served(k) /\ Usage(k)' = Usage(k)
                   /\ \A s \in Requests : RowsOver(s, k, m)' <=> RowsOver(s, k, m)
  <2>1. UNCHANGED <<meter, req, served>>
    BY DEF Outside
  <2>2. Load' = Load
    BY <2>1 DEF Load, Busy, UnderWay
  <2> QED
    BY <2>1, <2>2, ServedAlike DEF RowsOver, HoldsKey
<1>2. PICK n \in Nat, l \in Nat, o \in Nat : n = overlaps /\ l = Load /\ o = overlaps' /\ n <= o
  BY MetersNat DEF Outside
<1>3. n <= o
  BY <1>2
<1>4. Load' <= 1 + overlaps'
  <2>1. l <= 1 + n
    BY <1>2 DEF Floor
  <2>2. l <= 1 + o
    BY <1>3, <2>1
  <2> QED
    BY <1>1, <1>2, <2>2
<1>5. ASSUME NEW k \in Keys
      PROVE  Served(k)' <= Usage(k)' + overlaps' /\ \E m \in Nat : Under(k, m)'
  <2>1. PICK m \in Nat : Under(k, m)
    BY DEF Floor
  <2>2. PICK g \in Nat, u \in Nat : g = Served(k) /\ u = Usage(k)
    BY CountsAre
  <2>3. m <= u /\ g + l <= (m + 1) + n /\ g <= u + n /\ \A s \in Requests : RowsOver(s, k, m)
    BY <1>2, <2>1, <2>2, UnderIs DEF Floor
  <2>4. g + l <= (m + 1) + o /\ g <= u + o
    BY <1>3, <2>3
  <2>5. \A s \in Requests : RowsOver(s, k, m)'
    BY <1>1, <2>3
  <2>6. m <= Usage(k)' /\ Served(k)' + Load' <= (m + 1) + overlaps' /\ Served(k)' <= Usage(k)' + overlaps'
    BY <1>1, <1>2, <2>2, <2>3, <2>4
  <2>7. Under(k, m)'
    BY <2>5, <2>6 DEF Under, RowsOver
  <2> QED
    BY <2>6, <2>7
<1> QED
  BY <1>4, <1>5 DEF Floor

LEMMA FloorGivenBack ==
  ASSUME TypeOK, TypeOK', Floor, NoMoreThanServed, NEW metrics \in SUBSET Metrics, GivenBack(metrics)
  PROVE  Floor'
<1>1. Load' = Load /\ overlaps' = overlaps /\ req' = req
  BY DEF GivenBack, Load, Busy, UnderWay
<1>2. /\ overlaps \in Nat /\ Load \in Nat /\ Load <= 1 + overlaps
      /\ \A k, m : \A s \in Requests : RowsOver(s, k, m)' <=> RowsOver(s, k, m)
  BY <1>1, MetersNat DEF RowsOver, HoldsKey, Floor
<1>3. ASSUME NEW k \in Keys
      PROVE  Served(k)' <= Usage(k)' + overlaps' /\ \E m \in Nat : Under(k, m)'
  <2>1. CASE k[1] \in metrics
    <3>1. /\ Served(k)' = 0 /\ Usage(k)' = 0
          /\ k \in DOMAIN meter => \A r \in Requests : ~HoldsKey(r, k)
      BY <2>1, Returned
    <3>2. ASSUME NEW s \in Requests PROVE RowsOver(s, k, 0)
      <4>1. req[s].seen.count \in Nat
        BY RowsAre
      <4>2. HoldsKey(s, k) => req[s].wrote[k].count = 1
        BY <3>1 DEF NoMoreThanServed, FairlyWritten
      <4> QED
        BY <4>1, <4>2 DEF RowsOver
    <3>3. \A s \in Requests : RowsOver(s, k, 0)'
      BY <1>2, <3>2
    <3>4. 0 <= Usage(k)' /\ Served(k)' + Load' <= (0 + 1) + overlaps' /\ Served(k)' <= Usage(k)' + overlaps'
      BY <1>1, <1>2, <3>1
    <3>5. Under(k, 0)'
      BY <3>3, <3>4 DEF Under, RowsOver
    <3> QED
      BY <3>4, <3>5
  <2>2. CASE k[1] \notin metrics
    <3>1. PICK m \in Nat : Under(k, m)
      BY DEF Floor
    <3>2. Served(k)' = Served(k) /\ Usage(k)' = Usage(k)
      BY <2>2, Returned
    <3>3. /\ m <= Usage(k) /\ Served(k) + Load <= (m + 1) + overlaps /\ Served(k) <= Usage(k) + overlaps
          /\ \A s \in Requests : RowsOver(s, k, m)
      BY <3>1, UnderIs DEF Floor
    <3>4. /\ m <= Usage(k)' /\ Served(k)' + Load' <= (m + 1) + overlaps' /\ Served(k)' <= Usage(k)' + overlaps'
          /\ \A s \in Requests : RowsOver(s, k, m)'
      BY <1>1, <1>2, <3>2, <3>3
    <3>5. Under(k, m)'
      BY <3>4 DEF Under, RowsOver
    <3> QED
      BY <3>4, <3>5
  <2> QED
    BY <2>1, <2>2
<1> QED
  BY <1>1, <1>2, <1>3 DEF Floor

\* What is lost of a counter is one for each request that began beside another.
THEOREM LostCountsAreOverlaps == Spec => [](NoMoreThanServed /\ Floor)
<1>1. Init => Floor
  <2> SUFFICES ASSUME Init PROVE Floor
    OBVIOUS
  <2>1. "free" \in Tiers /\ "paid" \in Tiers
    BY DEF Tiers
  <2>2. \A k \in Keys : Served(k) = 0 /\ Usage(k) = 0
    BY <2>1, AtFirst DEF Served, Usage
  <2>3. \A r \in Requests : DOMAIN req[r].wrote = {} /\ req[r].step = "idle"
    BY AtFirst
  <2>4. Load = 0 /\ overlaps = 0
    <3>1. Busy = {}
      BY <2>3 DEF Busy, UnderWay
    <3> QED
      BY <3>1, AtFirst, FS_EmptySet DEF Load
  <2>5. \A k \in Keys : Under(k, 0)
    BY <2>2, <2>3, <2>4 DEF Under, HoldsKey
  <2> QED
    BY <2>2, <2>4, <2>5 DEF Floor
<1>2. TypeOK /\ TypeOK' /\ Dated /\ Paths /\ NoMoreThanServed /\ Floor /\ [Next]_vars => Floor'
  <2> SUFFICES ASSUME TypeOK, TypeOK', Dated, Paths, NoMoreThanServed, Floor, Moves PROVE Floor'
    BY TutorSteps
  <2>1. ASSUME NEW r \in Requests, OfRequest(r) PROVE Floor'
    BY <2>1, FloorByRequest
  <2>2. CASE Outside
    BY <2>2, FloorOutside
  <2>3. ASSUME NEW metrics \in SUBSET Metrics, GivenBack(metrics) PROVE Floor'
    BY <2>3, FloorGivenBack
  <2>4. CASE UNCHANGED vars
    <3>1. UNCHANGED <<meter, req, served, overlaps>>
      BY <2>4 DEF vars
    <3>2. Load' = Load /\ \A k : Served(k)' = Served(k) /\ Usage(k)' = Usage(k)
      BY <3>1, ServedAlike DEF Load, Busy, UnderWay
    <3>3. \A k, m : Under(k, m)' <=> Under(k, m)
      BY <3>1, <3>2 DEF Under, HoldsKey
    <3> QED
      BY <3>1, <3>2, <3>3 DEF Floor
  <2> QED
    BY <2>1, <2>2, <2>3, <2>4 DEF Moves
<1> QED
  BY <1>1, <1>2, RequestsKeepTheirWay, CountersNeverRunAhead, PTL DEF Spec

\* What is given of a counter (s), by those of a kind and a plan under way (v),
\* of whom so many (f) have come to it, keeps within its ceiling (c): p is the
\* counter's period and m the month.  Whoever is turned back a month, by a move
\* to another zone, finds a counter of the month ahead as it was left.
Fits(s, v, f, c, o, p, m) ==
  /\ p > m => f <= o
  /\ c = 0 => s = 0 /\ v = 0
  /\ c > 0 => /\ s + f <= c + o
              /\ s + v <= (c + o) + 1
              /\ (p = Lifetime \/ p >= m) => s + v <= c + o
              /\ p > m => (s + f) + 1 <= c + o

LEMMA FitsFewer ==
  ASSUME NEW s \in Nat, NEW v \in Nat, NEW f \in Nat, NEW c \in Nat, NEW o \in Nat,
         NEW p \in Nat, NEW m \in Nat, Fits(s, v, f, c, o, p, m),
         NEW v2 \in Nat, NEW f2 \in Nat, NEW o2 \in Nat, v2 <= v, f2 <= f, o <= o2
  PROVE  Fits(s, v2, f2, c, o2, p, m)
BY DEF Fits, Lifetime

LEMMA FitsBeside ==
  ASSUME NEW s \in Nat, NEW v \in Nat, NEW f \in Nat, NEW c \in Nat, NEW o \in Nat,
         NEW p \in Nat, NEW m \in Nat, Fits(s, v, f, c, o, p, m), c > 0
  PROVE  Fits(s, v + 1, f, c, o + 1, p, m)
BY DEF Fits, Lifetime

LEMMA FitsAlone ==
  ASSUME NEW s \in Nat, NEW c \in Nat, NEW o \in Nat, NEW p \in Nat, NEW m \in Nat,
         Fits(s, 0, 0, c, o, p, m), c > 0, p = m \/ p = Lifetime => s + 1 <= c + o
  PROVE  Fits(s, 1, 0, c, o, p, m)
BY DEF Fits, Lifetime

LEMMA FitsCame ==
  ASSUME NEW s \in Nat, NEW v \in Nat, NEW f \in Nat, NEW c \in Nat, NEW o \in Nat,
         NEW p \in Nat, NEW m \in Nat, Fits(s, v, f, c, o, p, m),
         p = m \/ p = Lifetime, NEW f2 \in Nat, f2 <= v
  PROVE  Fits(s, v, f2, c, o, p, m)
BY DEF Fits, Lifetime

LEMMA FitsGiven ==
  ASSUME NEW s \in Nat, NEW v \in Nat, NEW f \in Nat, NEW c \in Nat, NEW o \in Nat,
         NEW p \in Nat, NEW m \in Nat, Fits(s, v + 1, f + 1, c, o, p, m)
  PROVE  Fits(s + 1, v, f, c, o, p, m)
BY DEF Fits, Lifetime

LEMMA FitsLater ==
  ASSUME NEW s \in Nat, NEW v \in Nat, NEW f \in Nat, NEW c \in Nat, NEW o \in Nat,
         NEW p \in Nat, NEW m \in Nat, Fits(s, v, f, c, o, p, m), NEW m2 \in Nat, m <= m2
  PROVE  Fits(s, v, f, c, o, p, m2)
BY DEF Fits, Lifetime

LEMMA FitsElsewhere ==
  ASSUME NEW s \in Nat, NEW v \in Nat, NEW f \in Nat, NEW c \in Nat, NEW o \in Nat,
         NEW p \in Nat, NEW m \in Nat, Fits(s, v, f, c, o, p, m), NEW m2 \in Nat,
         f <= v, v <= 1 + o
  PROVE  Fits(s, v, f, c, o + 1, p, m2)
BY DEF Fits, Lifetime

LEMMA FitsReturned ==
  ASSUME NEW s \in Nat, NEW v \in Nat, NEW f \in Nat, NEW c \in Nat, NEW o \in Nat,
         NEW p \in Nat, NEW m \in Nat, Fits(s, v, f, c, o, p, m), f <= v, v <= 1 + o
  PROVE  Fits(0, v, f, c, o, p, m)
BY DEF Fits, Lifetime

LEMMA FitsMeans ==
  ASSUME NEW s \in Nat, NEW v \in Nat, NEW f \in Nat, NEW c \in Nat, NEW o \in Nat,
         NEW p \in Nat, NEW m \in Nat, Fits(s, v, f, c, o, p, m)
  PROVE  s <= c + o
BY DEF Fits, Lifetime

OnPlan(kind, t) == Cardinality(Of(kind, t))
OnCounter(kind, t, k) == Cardinality(AtCounter(kind, t, k))

Room ==
  \A kind \in Kinds, t \in Tiers : \A c \in Ceilings(kind, t), k \in Keys :
    k[1] = c[1] =>
      Fits(served[t][k], OnPlan(kind, t), OnCounter(kind, t, k), c[2], overlaps, k[2], MonthKey)

\* All these numbers are.
LEMMA RoomNumbers ==
  ASSUME TypeOK, NEW kind \in Kinds, NEW t \in Tiers, NEW c \in Ceilings(kind, t), NEW k \in Keys
  PROVE  /\ served[t][k] \in Nat /\ OnPlan(kind, t) \in Nat /\ OnCounter(kind, t, k) \in Nat
         /\ c[2] \in Nat /\ overlaps \in Nat /\ k[2] \in Nat /\ MonthKey \in Nat
         /\ OnCounter(kind, t, k) <= OnPlan(kind, t) /\ OnPlan(kind, t) <= Load
<1>1. served[t][k] \in Nat /\ overlaps \in Nat
  BY CountsAre DEF TypeOK
<1>2. \A m \in Months : m \in Nat
  <2>1. (MaxTime + 1) \div 2 \in Nat
    BY TutorAssumption
  <2> QED
    BY <2>1 DEF Months
<1>3. MonthKey \in Nat /\ k[2] \in Nat
  BY <1>2, KeysAre, KeysOf DEF Lifetime
<1> QED
  BY <1>1, <1>3, CeilingsAre, Tallies DEF OnPlan, OnCounter, Load

LEMMA RoomNumbersNext ==
  ASSUME TypeOK', NEW kind \in Kinds, NEW t \in Tiers, NEW k \in Keys
  PROVE  /\ served'[t][k] \in Nat /\ OnPlan(kind, t)' \in Nat /\ OnCounter(kind, t, k)' \in Nat
         /\ overlaps' \in Nat /\ MonthKey' \in Nat
         /\ OnCounter(kind, t, k)' <= OnPlan(kind, t)'
<1>1. served'[t][k] \in Nat /\ overlaps' \in Nat
  BY DEF TypeOK
<1>2. MonthKey' \in Nat
  <2>1. PICK n \in Nat, z \in Nat : n = now' /\ z = zone'
    BY TutorAssumption DEF TypeOK
  <2>2. 1 + (n + z) \div 2 \in Nat
    OBVIOUS
  <2> QED
    BY <2>1, <2>2 DEF MonthKey
<1> QED
  BY <1>1, <1>2, TalliesNext DEF OnPlan, OnCounter

LEMMA OneKind ==
  ASSUME NEW kind \in Kinds, NEW other \in Kinds, NEW t \in Tiers,
         OnWhat(kind, t) \cap OnWhat(other, t) # {}
  PROVE  kind = other
BY DEF Kinds, OnWhat, QuizMetric

LEMMA RoomByRequest ==
  ASSUME TypeOK, TypeOK', Paths, NoMoreThanServed, Floor, Room,
         NEW r \in Requests, OfRequest(r),
         NEW kind \in Kinds, NEW t \in Tiers, NEW c \in Ceilings(kind, t), NEW k \in Keys, k[1] = c[1]
  PROVE  Fits(served'[t][k], OnPlan(kind, t)', OnCounter(kind, t, k)', c[2], overlaps', k[2], MonthKey')
<1>1. PICK s \in Nat, v \in Nat, f \in Nat, cap \in Nat, o \in Nat, p \in Nat, m \in Nat :
         /\ s = served[t][k] /\ v = OnPlan(kind, t) /\ f = OnCounter(kind, t, k)
         /\ cap = c[2] /\ o = overlaps /\ p = k[2] /\ m = MonthKey
         /\ f <= v /\ v <= Load
  BY RoomNumbers
<1>2. PICK s2 \in Nat, v2 \in Nat, f2 \in Nat, o2 \in Nat :
         /\ s2 = served'[t][k] /\ v2 = OnPlan(kind, t)' /\ f2 = OnCounter(kind, t, k)' /\ o2 = overlaps'
         /\ f2 <= v2
  BY RoomNumbersNext
<1>3. MonthKey' = m
  BY <1>1 DEF OfRequest, MonthKey
<1>4. Fits(s, v, f, cap, o, p, m)
  BY <1>1 DEF Room
<1>5. SUFFICES Fits(s2, v2, f2, cap, o2, p, m)
  BY <1>1, <1>2, <1>3
<1>6. OthersRest(r) /\ req[r] \in Request /\ req'[r] \in Request /\ Path(req[r])
  BY DEF OfRequest, TypeOK, Paths
<1> DEFINE In == r \in Of(kind, t)
           InNext == UnderWay(r)' /\ req'[r].kind = kind /\ req'[r].tier = t
           There == In /\ AtKey(r, k)
           ThereNext == InNext /\ AtKey(r, k)'
<1>7. /\ In <=> UnderWay(r) /\ req[r].kind = kind /\ req[r].tier = t
      /\ In /\ ~InNext => v = v2 + 1
      /\ ~In /\ InNext => v2 = v + 1
      /\ (In <=> InNext) => v2 = v
      /\ There /\ ~ThereNext => f = f2 + 1
      /\ ~There /\ ThereNext => f2 = f + 1
      /\ (There <=> ThereNext) => f2 = f
  <2>1. /\ In <=> UnderWay(r) /\ req[r].kind = kind /\ req[r].tier = t
        /\ There <=> r \in AtCounter(kind, t, k)
        /\ InNext <=> (r \in Of(kind, t))'
        /\ ThereNext <=> (r \in AtCounter(kind, t, k))'
    BY DEF Of, AtCounter, Busy
  <2> HIDE DEF In, InNext, There, ThereNext
  <2>2. /\ In /\ ~InNext => OnPlan(kind, t) = OnPlan(kind, t)' + 1
        /\ ~In /\ InNext => OnPlan(kind, t)' = OnPlan(kind, t) + 1
        /\ (In <=> InNext) => OnPlan(kind, t)' = OnPlan(kind, t)
    BY <1>6, <2>1, TalliesByRequest DEF OnPlan, In
  <2>3. /\ There /\ ~ThereNext => OnCounter(kind, t, k) = OnCounter(kind, t, k)' + 1
        /\ ~There /\ ThereNext => OnCounter(kind, t, k)' = OnCounter(kind, t, k) + 1
        /\ (There <=> ThereNext) => OnCounter(kind, t, k)' = OnCounter(kind, t, k)
    BY <1>6, <2>1, TalliesByRequest DEF OnCounter
  <2> QED
    BY <1>1, <1>2, <2>1, <2>2, <2>3
<1> HIDE DEF In, InNext, There, ThereNext
\* Nothing is given, nobody more is on the plan or at the counter.
<1>8. ASSUME s2 = s, o <= o2, InNext => In, ThereNext => There PROVE Fits(s2, v2, f2, cap, o2, p, m)
  <2>1. v2 <= v
    BY <1>7, <1>8
  <2>2. f2 <= f
    BY <1>7, <1>8
  <2> QED
    BY <1>4, <1>8, <2>1, <2>2, FitsFewer
<1>9. CASE Started(r)
  <2>1. /\ served' = served /\ DOMAIN req'[r].wrote = {} /\ ~UnderWay(r)
        /\ req'[r].step \in {"checked", "refused"} /\ req'[r].tier = tier
        /\ overlaps' = IF SomeUnderWay THEN overlaps + 1 ELSE overlaps
    BY <1>9 DEF Started
  <2>2. ~In /\ ~There /\ ~ThereNext /\ s2 = s
    BY <1>1, <1>2, <1>7, <2>1 DEF There, ThereNext, AtKey, HoldsKey
  <2>3. o <= o2 /\ (SomeUnderWay => o2 = o + 1) /\ (~SomeUnderWay => o2 = o)
    BY <1>1, <1>2, <2>1
  <2>4. CASE ~InNext
    BY <1>8, <2>2, <2>3, <2>4
  <2>5. CASE InNext
    <3>1. req'[r].step = "checked" /\ req'[r].kind = kind /\ tier = t /\ Allowed(kind, tier)
      BY <1>9, <2>1, <2>5 DEF Started, InNext, UnderWay
    <3>2. /\ c[1] \in Metrics /\ KeyOf(c[1]) \in Keys /\ Usage(KeyOf(c[1])) < cap
          /\ Usage(KeyOf(c[1])) \in Nat
      BY <1>1, <3>1, CeilingsAre, AtCeiling, CountsAre
    <3>3. cap > 0
      BY <3>2
    <3>4. v2 = v + 1 /\ f2 = f
      BY <1>7, <2>2, <2>5
    <3>5. CASE SomeUnderWay
      <4>1. Fits(s, v + 1, f, cap, o + 1, p, m)
        BY <1>4, <3>3, FitsBeside
      <4> QED
        BY <2>2, <2>3, <3>4, <3>5, <4>1
    <3>6. CASE ~SomeUnderWay
      <4>1. v = 0 /\ f = 0
        <5>1. Busy = {}
          BY <3>6 DEF Busy, SomeUnderWay
        <5>2. Load = 0
          BY <5>1, FS_EmptySet DEF Load
        <5>3. v <= 0
          BY <1>1, <5>2
        <5> QED
          BY <1>1, <5>3
      <4>2. ASSUME p = m \/ p = Lifetime PROVE s + 1 <= cap + o
        <5>1. k = KeyOf(c[1])
          <6>1. CASE k[1] \in Monthly
            <7>1. k[2] \in Months /\ k = <<k[1], k[2]>> /\ KeyOf(c[1]) = <<c[1], MonthKey>>
              BY <6>1, KeysOf, KeysAre
            <7>2. p # Lifetime
              BY <1>1, <7>1 DEF Lifetime, Months
            <7> QED
              BY <1>1, <4>2, <7>1, <7>2
          <6>2. CASE k[1] \notin Monthly
            BY <6>2, KeysOf DEF KeyOf, PeriodOf
          <6> QED
            BY <6>1, <6>2
        <5>2. Served(k) <= Usage(k) + o /\ Served(k) \in Nat /\ Usage(k) \in Nat /\ Usage(k) < cap
          BY <1>1, <3>2, <5>1, CountsAre DEF Floor
        <5>3. s <= Served(k)
          <6>1. served["free"][k] \in Nat /\ served["paid"][k] \in Nat
            BY CountsAre DEF Tiers
          <6> QED
            BY <1>1, <6>1 DEF Served, Tiers
        <5> QED
          BY <5>2, <5>3
      <4>3. v2 = 1 /\ f2 = 0 /\ o2 = o
        BY <2>3, <3>4, <3>6, <4>1
      <4> QED
        BY <1>4, <2>2, <3>3, <4>1, <4>2, <4>3, FitsAlone
    <3> QED
      BY <3>5, <3>6
  <2> QED
    BY <2>4, <2>5
<1>10. CASE Stopped(r)
  <2>1. s2 = s /\ o <= o2 /\ ~InNext /\ ~ThereNext
    BY <1>1, <1>2, <1>10 DEF Stopped, InNext, ThereNext, UnderWay
  <2> QED
    BY <1>8, <2>1
<1>11. CASE Advanced(r)
  <2>1. s2 = s /\ o <= o2
    BY <1>1, <1>2, <1>11 DEF Advanced
  <2>2. InNext => In
    BY <1>7, <1>11 DEF Advanced, SamePlan, InNext, UnderWay
  <2>3. AtKey(r, k)' => AtKey(r, k)
    BY <1>11 DEF Advanced, AtKey, HoldsKey
  <2> QED
    BY <1>8, <2>1, <2>2, <2>3 DEF There, ThereNext
<1>12. CASE Looked(r)
  <2>1. s2 = s /\ o2 = o /\ o <= o2
    BY <1>1, <1>2, <1>12 DEF Looked
  <2>2. InNext <=> In
    BY <1>7, <1>12 DEF Looked, SamePlan, InNext, UnderWay
  <2>3. CASE k # req'[r].key \/ (req[r].step = "counted" /\ k = req[r].key)
    <3>1. AtKey(r, k)' => AtKey(r, k)
      BY <1>12, <2>3 DEF Looked, AtKey, HoldsKey
    <3> QED
      BY <1>8, <2>1, <2>2, <3>1 DEF There, ThereNext
  <2>4. CASE k = req'[r].key /\ req[r].step = "count" /\ req[r].left # <<>>
             /\ req'[r].key = KeyOf(Head(req[r].left))
    <3>1. p = m \/ p = Lifetime
      BY <1>1, <2>4 DEF KeyOf, PeriodOf
    <3>2. v2 = v /\ f2 <= v
      BY <1>2, <1>7, <2>2
    <3>3. Fits(s, v, f2, cap, o, p, m)
      BY <1>4, <3>1, <3>2, FitsCame
    <3> QED
      BY <2>1, <3>2, <3>3
  <2> QED
    BY <1>12, <2>3, <2>4 DEF Looked
<1>13. CASE Penned(r)
  <2>1. s2 = s /\ o <= o2
    BY <1>1, <1>2, <1>13 DEF Penned
  <2>2. InNext => In
    BY <1>7, <1>13 DEF Penned, SamePlan, InNext, UnderWay
  <2>3. AtKey(r, k)' => AtKey(r, k)
    BY <1>13 DEF Penned, AtKey, HoldsKey
  <2> QED
    BY <1>8, <2>1, <2>2, <2>3 DEF There, ThereNext
<1>14. CASE Charged(r)
  <2>1. ~InNext /\ ~ThereNext /\ o2 = o /\ o <= o2 /\ UnderWay(r)
    BY <1>1, <1>2, <1>14 DEF Charged, InNext, ThereNext, UnderWay
  <2>2. CASE HoldsKey(r, k) /\ req[r].tier = t
    <3>1. req[r].kind \in Kinds /\ k[1] \in OnWhat(req[r].kind, t) /\ k[1] \in OnWhat(kind, t)
      BY <1>6, <2>2, Fields, PathMeans, CeilingsAre DEF HoldsKey
    <3>2. req[r].kind = kind
      BY <3>1, OneKind
    <3>3. In /\ There
      BY <1>7, <2>1, <2>2, <3>2 DEF There, AtKey
    <3>4. v = v2 + 1 /\ f = f2 + 1
      BY <1>7, <2>1, <3>3
    <3>5. s2 = s + 1
      BY <1>1, <1>2, <1>14, <2>2, ChargedKey
    <3> QED
      BY <1>4, <2>1, <3>4, <3>5, FitsGiven
  <2>3. CASE ~(HoldsKey(r, k) /\ req[r].tier = t)
    <3>1. s2 = s
      <4>1. served'[t][k] = served[t][k]
        BY <1>14, <2>3 DEF Charged
      <4> QED
        BY <1>1, <1>2, <4>1
    <3> QED
      BY <1>8, <2>1, <3>1
  <2> QED
    BY <2>2, <2>3
<1> QED
  BY <1>9, <1>10, <1>11, <1>12, <1>13, <1>14 DEF OfRequest

\* The numbers of those under way, when no request takes a step.
LEMMA RestingTallies ==
  ASSUME UNCHANGED req
  PROVE  Load' = Load /\ \A kind, t, k : OnPlan(kind, t)' = OnPlan(kind, t)
                                         /\ OnCounter(kind, t, k)' = OnCounter(kind, t, k)
BY DEF Load, OnPlan, OnCounter, Of, AtCounter, Busy, UnderWay, AtKey, HoldsKey

LEMMA RoomResting ==
  ASSUME TypeOK, TypeOK', Floor, Room, UNCHANGED req,
         \/ UNCHANGED served /\ (Outside \/ UNCHANGED vars)
         \/ \E metrics \in SUBSET Metrics : GivenBack(metrics),
         NEW kind \in Kinds, NEW t \in Tiers, NEW c \in Ceilings(kind, t), NEW k \in Keys, k[1] = c[1]
  PROVE  Fits(served'[t][k], OnPlan(kind, t)', OnCounter(kind, t, k)', c[2], overlaps', k[2], MonthKey')
<1>1. PICK s \in Nat, v \in Nat, f \in Nat, cap \in Nat, o \in Nat, p \in Nat, m \in Nat :
         /\ s = served[t][k] /\ v = OnPlan(kind, t) /\ f = OnCounter(kind, t, k)
         /\ cap = c[2] /\ o = overlaps /\ p = k[2] /\ m = MonthKey
         /\ f <= v /\ v <= Load
  BY RoomNumbers
<1>2. PICK s2 \in Nat, o2 \in Nat, m2 \in Nat : s2 = served'[t][k] /\ o2 = overlaps' /\ m2 = MonthKey'
  BY RoomNumbersNext
<1>3. OnPlan(kind, t)' = v /\ OnCounter(kind, t, k)' = f
  BY <1>1, RestingTallies
<1>4. Fits(s, v, f, cap, o, p, m)
  BY <1>1 DEF Room
<1>5. SUFFICES Fits(s2, v, f, cap, o2, p, m2)
  BY <1>1, <1>2, <1>3
<1>6. f <= v /\ v <= 1 + o
  <2>1. PICK l \in Nat : l = Load
    BY MetersNat
  <2>2. f <= v /\ v <= l /\ l <= 1 + o
    BY <1>1, <2>1 DEF Floor
  <2> QED
    BY <2>2
<1>7. CASE UNCHANGED served /\ (Outside \/ UNCHANGED vars)
  <2>1. s2 = s
    BY <1>1, <1>2, <1>7
  <2>2. CASE m2 = m /\ o2 = o
    BY <1>4, <2>1, <2>2
  <2>3. CASE m <= m2 /\ o2 = o
    BY <1>4, <2>1, <2>3, FitsLater
  <2>4. CASE o2 = o + 1
    <3>1. Fits(s, v, f, cap, o + 1, p, m2)
      BY <1>4, <1>6, FitsElsewhere
    <3> QED
      BY <2>1, <2>4, <3>1
  <2>5. \/ MonthKey' = MonthKey /\ overlaps' = overlaps
        \/ MonthKey' >= MonthKey /\ overlaps' = overlaps
        \/ overlaps' = overlaps + 1
    BY <1>7 DEF Outside, vars, MonthKey
  <2>6. \/ m2 = m /\ o2 = o
        \/ m2 >= m /\ o2 = o
        \/ o2 = o + 1
    BY <1>1, <1>2, <2>5
  <2>7. m2 >= m => m <= m2
    OBVIOUS
  <2> QED
    BY <2>2, <2>3, <2>4, <2>6, <2>7
<1>8. ASSUME NEW metrics \in SUBSET Metrics, GivenBack(metrics) PROVE Fits(s2, v, f, cap, o2, p, m2)
  <2>1. o2 = o /\ m2 = m
    BY <1>1, <1>2, <1>8 DEF GivenBack, MonthKey
  <2>2. CASE k[1] \in metrics
    <3>1. s2 = 0
      BY <1>2, <1>8, <2>2, Returned
    <3>2. Fits(0, v, f, cap, o, p, m)
      BY <1>4, <1>6, FitsReturned
    <3> QED
      BY <2>1, <3>1, <3>2
  <2>3. CASE k[1] \notin metrics
    <3>1. s2 = s
      BY <1>1, <1>2, <1>8, <2>3, Returned
    <3> QED
      BY <1>4, <2>1, <3>1
  <2> QED
    BY <2>2, <2>3
<1> QED
  BY <1>7, <1>8

LEMMA RoomStep ==
  ASSUME TypeOK, TypeOK', Paths, NoMoreThanServed, Floor, Room, Moves
  PROVE  Room'
<1>1. SUFFICES ASSUME NEW kind \in Kinds, NEW t \in Tiers, NEW c \in Ceilings(kind, t),
                      NEW k \in Keys, k[1] = c[1]
               PROVE  Fits(served'[t][k], OnPlan(kind, t)', OnCounter(kind, t, k)', c[2],
                           overlaps', k[2], MonthKey')
  BY DEF Room
<1>2. ASSUME NEW r \in Requests, OfRequest(r)
      PROVE  Fits(served'[t][k], OnPlan(kind, t)', OnCounter(kind, t, k)', c[2], overlaps', k[2], MonthKey')
  BY <1>1, <1>2, RoomByRequest
<1>3. CASE Outside
  <2>1. UNCHANGED <<req, served>>
    BY <1>3 DEF Outside
  <2> QED
    BY <1>1, <1>3, <2>1, RoomResting
<1>4. ASSUME NEW metrics \in SUBSET Metrics, GivenBack(metrics)
      PROVE  Fits(served'[t][k], OnPlan(kind, t)', OnCounter(kind, t, k)', c[2], overlaps', k[2], MonthKey')
  <2>1. UNCHANGED req
    BY <1>4 DEF GivenBack
  <2> QED
    BY <1>1, <1>4, <2>1, RoomResting
<1>5. CASE UNCHANGED vars
  <2>1. UNCHANGED <<req, served>>
    BY <1>5 DEF vars
  <2> QED
    BY <1>1, <1>5, <2>1, RoomResting
<1> QED
  BY <1>2, <1>3, <1>4, <1>5 DEF Moves

\* Nobody is given more than the plan includes and one for each overlap.
THEOREM AllowanceIsKept == Spec => []AllowanceHolds
<1>1. Init => Room
  <2> SUFFICES ASSUME Init, NEW kind \in Kinds, NEW t \in Tiers, NEW c \in Ceilings(kind, t), NEW k \in Keys
               PROVE  Fits(served[t][k], OnPlan(kind, t), OnCounter(kind, t, k), c[2],
                           overlaps, k[2], MonthKey)
    BY DEF Room
  <2>1. served[t][k] = 0 /\ overlaps = 0 /\ TypeOK
    BY AtFirst
  <2>2. /\ OnPlan(kind, t) \in Nat /\ OnCounter(kind, t, k) \in Nat /\ c[2] \in Nat
        /\ k[2] \in Nat /\ MonthKey \in Nat
        /\ OnCounter(kind, t, k) <= OnPlan(kind, t) /\ OnPlan(kind, t) <= Load
    BY <2>1, RoomNumbers
  <2>3. Load = 0
    <3>1. Busy = {}
      BY AtFirst DEF Busy, UnderWay
    <3> QED
      BY <3>1, FS_EmptySet DEF Load
  <2>4. OnPlan(kind, t) = 0 /\ OnCounter(kind, t, k) = 0
    BY <2>2, <2>3
  <2>5. \A cap, p, m \in Nat : Fits(0, 0, 0, cap, 0, p, m)
    BY DEF Fits, Lifetime
  <2> QED
    BY <2>1, <2>2, <2>4, <2>5
<1>2. TypeOK /\ TypeOK' /\ Dated /\ Paths /\ NoMoreThanServed /\ Floor /\ Room /\ [Next]_vars => Room'
  BY TutorSteps, RoomStep
<1>3. TypeOK /\ Room => AllowanceHolds
  <2> SUFFICES ASSUME TypeOK, Room, NEW kind \in Kinds, NEW t \in Tiers, NEW c \in Ceilings(kind, t),
                      NEW k \in Keys, k[1] = c[1]
               PROVE  served[t][k] <= c[2] + overlaps
    BY DEF AllowanceHolds, Kinds
  <2> QED
    BY RoomNumbers, FitsMeans DEF Room
<1> QED
  BY <1>1, <1>2, <1>3, RequestsKeepTheirWay, LostCountsAreOverlaps, PTL DEF Spec

-----------------------------------------------------------------------------
(* Releases: whoever must update can.                                      *)

\* b is newer from its i-th number on.
Newer(a, b, i) ==
  /\ i \in 1 .. Len(b) /\ i <= Len(a) + 1
  /\ \A n \in 1 .. i - 1 : a[n] = b[n]
  /\ i <= Len(a) => a[i] < b[i]

LEMMA OlderMeans ==
  ASSUME NEW a \in Seq(Nat), NEW b \in Seq(Nat)
  PROVE  Older(a, b) <=> \E i \in Nat : Newer(a, b, i)
<1>0. Len(a) \in Nat /\ Len(b) \in Nat
  OBVIOUS
<1>1. \A i \in Nat : i <= Len(a) /\ i <= Len(b) =>
         (SubSeq(a, 1, i) = SubSeq(b, 1, i) <=> \A n \in 1 .. i : a[n] = b[n])
  <2> SUFFICES ASSUME NEW i \in Nat, i <= Len(a), i <= Len(b)
               PROVE  SubSeq(a, 1, i) = SubSeq(b, 1, i) <=> \A n \in 1 .. i : a[n] = b[n]
    OBVIOUS
  <2>1. /\ Len(SubSeq(a, 1, i)) = i /\ Len(SubSeq(b, 1, i)) = i
        /\ SubSeq(a, 1, i) \in Seq(Nat) /\ SubSeq(b, 1, i) \in Seq(Nat)
        /\ \A n \in 1 .. i : SubSeq(a, 1, i)[n] = a[n] /\ SubSeq(b, 1, i)[n] = b[n]
    BY <1>0
  <2>2. (\A n \in 1 .. i : a[n] = b[n]) => SubSeq(a, 1, i) = SubSeq(b, 1, i)
    BY <2>1, SeqEqual
  <2> QED
    BY <2>1, <2>2
<1>2. a = SubSeq(a, 1, Len(a))
  <2>1. /\ Len(SubSeq(a, 1, Len(a))) = Len(a) /\ SubSeq(a, 1, Len(a)) \in Seq(Nat)
        /\ \A n \in 1 .. Len(a) : SubSeq(a, 1, Len(a))[n] = a[n]
    BY <1>0
  <2> QED
    BY <2>1, SeqEqual
<1>3. ASSUME Older(a, b) PROVE \E i \in Nat : Newer(a, b, i)
  <2>1. CASE Len(a) < Len(b) /\ a = SubSeq(b, 1, Len(a))
    <3>1. \A n \in 1 .. Len(a) : a[n] = b[n]
      BY <1>0, <1>1, <1>2, <2>1
    <3>2. Newer(a, b, Len(a) + 1)
      BY <1>0, <2>1, <3>1 DEF Newer
    <3> QED
      BY <1>0, <3>2
  <2>2. ASSUME NEW i \in 1 .. Len(a), i <= Len(b), SubSeq(a, 1, i - 1) = SubSeq(b, 1, i - 1), a[i] < b[i]
        PROVE  \E n \in Nat : Newer(a, b, n)
    <3>1. i - 1 \in Nat /\ i - 1 <= Len(a) /\ i - 1 <= Len(b)
      BY <1>0, <2>2
    <3>2. \A n \in 1 .. i - 1 : a[n] = b[n]
      BY <1>1, <2>2, <3>1
    <3>3. Newer(a, b, i)
      BY <1>0, <2>2, <3>2 DEF Newer
    <3> QED
      BY <1>0, <3>3
  <2> QED
    BY <1>3, <2>1, <2>2 DEF Older
<1>4. ASSUME NEW i \in Nat, Newer(a, b, i) PROVE Older(a, b)
  <2>1. i \in 1 .. Len(b) /\ i <= Len(a) + 1 /\ (\A n \in 1 .. i - 1 : a[n] = b[n]) /\ (i <= Len(a) => a[i] < b[i])
    BY <1>4 DEF Newer
  <2>2. CASE i <= Len(a)
    <3>1. i - 1 \in Nat /\ i - 1 <= Len(a) /\ i - 1 <= Len(b) /\ i \in 1 .. Len(a) /\ i <= Len(b)
      BY <1>0, <2>1, <2>2
    <3>2. SubSeq(a, 1, i - 1) = SubSeq(b, 1, i - 1)
      BY <1>1, <2>1, <3>1
    <3> QED
      BY <2>1, <2>2, <3>1, <3>2 DEF Older
  <2>3. CASE i > Len(a)
    <3>1. i = Len(a) + 1 /\ i - 1 = Len(a) /\ Len(a) < Len(b)
      BY <1>0, <2>1, <2>3
    <3>2. \A n \in 1 .. Len(a) : a[n] = b[n]
      BY <2>1, <3>1
    <3>3. a = SubSeq(b, 1, Len(a))
      <4> DEFINE s == SubSeq(b, 1, Len(a))
      <4>1. s \in Seq(Nat) /\ Len(s) = Len(a) /\ \A n \in 1 .. Len(a) : s[n] = b[n]
        BY <1>0, <3>1
      <4>2. \A n \in 1 .. Len(a) : a[n] = s[n]
        BY <3>2, <4>1
      <4> HIDE DEF s
      <4>3. a = s
        BY <1>0, <4>1, <4>2, SeqEqual
      <4> QED
        BY <4>3 DEF s
    <3> QED
      BY <3>1, <3>3 DEF Older
  <2> QED
    BY <1>0, <2>2, <2>3
<1> QED
  BY <1>3, <1>4

\* A set of numbers has a least one.
LEMMA First ==
  ASSUME NEW T \in SUBSET Nat, T # {}
  PROVE  \E i \in T : \A n \in T : i <= n
<1> DEFINE less == OpToRel(<, Nat)
<1>1. \A a, b \in Nat : a < b => <<a, b>> \in less
  BY DEF OpToRel
<1>2. IsWellFoundedOn(less, Nat)
  BY NatLessThanWellFounded
<1> HIDE DEF less
<1>3. PICK i \in T : \A n \in T : ~(<<n, i>> \in less)
  BY <1>2, WFMin
<1>4. \A n \in T : ~(n < i)
  BY <1>1, <1>3
<1> QED
  BY <1>4

LEMMA NeverOlderThanItself ==
  ASSUME NEW a \in Seq(Nat)
  PROVE  ~Older(a, a)
<1>1. \A i \in Nat : ~Newer(a, a, i)
  <2> SUFFICES ASSUME NEW i \in Nat, Newer(a, a, i) PROVE FALSE
    OBVIOUS
  <2>1. i \in 1 .. Len(a) /\ a[i] < a[i]
    BY DEF Newer
  <2>2. a[i] \in Nat
    BY <2>1
  <2> QED
    BY <2>1, <2>2
<1> QED
  BY <1>1, OlderMeans

LEMMA OlderGoesOn ==
  ASSUME NEW a \in Seq(Nat), NEW b \in Seq(Nat), NEW c \in Seq(Nat), Older(a, b), Older(b, c)
  PROVE  Older(a, c)
<1>0. Len(a) \in Nat /\ Len(b) \in Nat /\ Len(c) \in Nat
  OBVIOUS
<1>1. PICK i \in Nat : Newer(a, b, i)
  BY OlderMeans
<1>2. PICK j \in Nat : Newer(b, c, j)
  BY OlderMeans
<1>3. i \in 1 .. Len(b) /\ i <= Len(a) + 1 /\ (\A n \in 1 .. i - 1 : a[n] = b[n]) /\ (i <= Len(a) => a[i] < b[i])
  BY <1>1 DEF Newer
<1>4. j \in 1 .. Len(c) /\ j <= Len(b) + 1 /\ (\A n \in 1 .. j - 1 : b[n] = c[n]) /\ (j <= Len(b) => b[j] < c[j])
  BY <1>2 DEF Newer
<1>5. CASE i < j
  <2>1. i \in 1 .. Len(c) /\ b[i] = c[i]
    BY <1>0, <1>3, <1>4, <1>5
  <2>2. \A n \in 1 .. i - 1 : a[n] = c[n]
    BY <1>3, <1>4, <1>5
  <2>3. Newer(a, c, i)
    BY <1>3, <2>1, <2>2 DEF Newer
  <2> QED
    BY <2>3, OlderMeans
<1>6. CASE i = j
  <2>1. \A n \in 1 .. i - 1 : a[n] = c[n]
    BY <1>3, <1>4, <1>6
  <2>2. i <= Len(a) => a[i] < c[i]
    <3> SUFFICES ASSUME i <= Len(a) PROVE a[i] < c[i]
      OBVIOUS
    <3>1. i \in 1 .. Len(a) /\ i \in 1 .. Len(b) /\ i \in 1 .. Len(c)
      BY <1>0, <1>3, <1>4, <1>6
    <3>2. a[i] \in Nat /\ b[i] \in Nat /\ c[i] \in Nat
      BY <3>1
    <3>3. a[i] < b[i] /\ b[i] < c[i]
      BY <1>3, <1>4, <1>6, <3>1
    <3> QED
      BY <3>2, <3>3
  <2>3. Newer(a, c, i)
    BY <1>3, <1>4, <1>6, <2>1, <2>2 DEF Newer
  <2> QED
    BY <2>3, OlderMeans
<1>7. CASE j < i
  <2>1. \A n \in 1 .. j - 1 : a[n] = c[n]
    BY <1>3, <1>4, <1>7
  <2>2. j \in 1 .. i - 1 /\ j <= Len(b) /\ j <= Len(a) + 1
    BY <1>0, <1>3, <1>4, <1>7
  <2>3. a[j] = b[j] /\ b[j] < c[j]
    BY <1>3, <1>4, <2>2
  <2>4. Newer(a, c, j)
    BY <1>4, <2>1, <2>2, <2>3 DEF Newer
  <2> QED
    BY <2>4, OlderMeans
<1> QED
  BY <1>5, <1>6, <1>7

LEMMA OneIsOlder ==
  ASSUME NEW a \in Seq(Nat), NEW b \in Seq(Nat), a # b
  PROVE  Older(a, b) \/ Older(b, a)
<1>0. Len(a) \in Nat /\ Len(b) \in Nat
  OBVIOUS
<1> DEFINE T == {i \in Nat : i > 0 /\ (i > Len(a) \/ i > Len(b) \/ a[i] # b[i])}
<1>1. Len(a) + 1 \in T
  BY <1>0
<1>2. PICK i \in T : \A n \in T : i <= n
  <2>1. T \in SUBSET Nat /\ T # {}
    BY <1>1
  <2> HIDE DEF T
  <2> QED
    BY <2>1, First
<1>3. i \in Nat /\ i > 0 /\ (i > Len(a) \/ i > Len(b) \/ a[i] # b[i])
  BY <1>2
<1>4. \A n \in 1 .. i - 1 : n <= Len(a) /\ n <= Len(b) /\ a[n] = b[n]
  <2> SUFFICES ASSUME NEW n \in 1 .. i - 1, ~(n <= Len(a) /\ n <= Len(b) /\ a[n] = b[n]) PROVE FALSE
    OBVIOUS
  <2>1. n \in T
    BY <1>0, <1>3
  <2>2. i <= n
    BY <1>2, <2>1
  <2> QED
    BY <1>3, <2>2
<1> HIDE DEF T
<1>5. i <= Len(a) + 1 /\ i <= Len(b) + 1
  <2>1. i = 1 \/ i - 1 \in 1 .. i - 1
    BY <1>3
  <2> QED
    BY <1>0, <1>3, <1>4, <2>1
<1>6. CASE i > Len(a) /\ i > Len(b)
  <2>1. Len(a) = Len(b) /\ \A n \in 1 .. Len(a) : a[n] = b[n]
    BY <1>0, <1>3, <1>4, <1>5, <1>6
  <2> QED
    BY <2>1, SeqEqual
<1>7. CASE i > Len(a) /\ i <= Len(b)
  <2>1. Newer(a, b, i)
    BY <1>0, <1>3, <1>4, <1>5, <1>7 DEF Newer
  <2> QED
    BY <1>3, <2>1, OlderMeans
<1>8. CASE i <= Len(a) /\ i > Len(b)
  <2>1. Newer(b, a, i)
    BY <1>0, <1>3, <1>4, <1>5, <1>8 DEF Newer
  <2> QED
    BY <1>3, <2>1, OlderMeans
<1>9. CASE i <= Len(a) /\ i <= Len(b)
  <2>1. a[i] \in Nat /\ b[i] \in Nat /\ a[i] # b[i]
    <3>1. i \in 1 .. Len(a) /\ i \in 1 .. Len(b)
      BY <1>0, <1>3, <1>9
    <3> QED
      BY <1>0, <1>3, <1>9, <3>1
  <2>2. CASE a[i] < b[i]
    <3>1. Newer(a, b, i)
      BY <1>0, <1>3, <1>4, <1>5, <1>9, <2>2 DEF Newer
    <3> QED
      BY <1>3, <3>1, OlderMeans
  <2>3. CASE b[i] < a[i]
    <3>1. Newer(b, a, i)
      BY <1>0, <1>3, <1>4, <1>5, <1>9, <2>3 DEF Newer
    <3> QED
      BY <1>3, <3>1, OlderMeans
  <2> QED
    BY <2>1, <2>2, <2>3
<1> QED
  BY <1>0, <1>3, <1>6, <1>7, <1>8, <1>9

\* Who is behind one build is behind another, or that one is behind.
LEMMA OlderSomewhere ==
  ASSUME NEW a \in Seq(Nat), NEW b \in Seq(Nat), NEW c \in Seq(Nat), Older(a, c)
  PROVE  Older(a, b) \/ Older(b, c)
BY OneIsOlder, OlderGoesOn

-----------------------------------------------------------------------------
\* A row's floor is not above it, and however the rows come and go, any of
\* them have a newest.
Floors ==
  /\ DOMAIN releases \subseteq Versions \ {<<>>}
  /\ \A v \in DOMAIN releases : releases[v].minimum \in Versions /\ FloorFits(v, releases[v].minimum)

HasNewest(S) == S # {} => \E v \in S : \A w \in S : ~Older(v, w)

AnyHaveNewest == \A S \in SUBSET DOMAIN releases : HasNewest(S)

LEMMA ReleasesStep ==
  ASSUME Floors, AnyHaveNewest, ReleasesNext
  PROVE  Floors' /\ AnyHaveNewest'
<1>1. PICK v \in Versions \ {<<>>}, minimum \in Versions, published \in BOOLEAN :
        CreateRelease(v, minimum, published) \/ UpdateRelease(v, minimum, published)
  BY DEF ReleasesNext
<1>2. CASE CreateRelease(v, minimum, published)
  <2>1. /\ FloorFits(v, minimum) /\ DOMAIN releases' = DOMAIN releases \cup {v}
        /\ releases'[v].minimum = minimum
        /\ \A w \in DOMAIN releases \ {v} : releases'[w] = releases[w]
    BY <1>2 DEF CreateRelease
  <2>2. Floors'
    BY <2>1 DEF Floors
  <2>3. ASSUME NEW S \in SUBSET DOMAIN releases', S # {} PROVE \E w \in S : \A x \in S : ~Older(w, x)
    <3>1. v \in Seq(Nat) /\ \A w \in S : w \in Seq(Nat)
      BY <2>1, ReleasesAssumption DEF Floors
    <3>2. CASE S \ {v} = {}
      <4>1. S = {v}
        BY <2>3, <3>2
      <4> QED
        BY <3>1, <4>1, NeverOlderThanItself
    <3>3. CASE S \ {v} # {}
      <4>1. S \ {v} \in SUBSET DOMAIN releases
        BY <2>1
      <4>2. PICK w \in S \ {v} : \A x \in S \ {v} : ~Older(w, x)
        BY <3>3, <4>1 DEF AnyHaveNewest, HasNewest
      <4>3. CASE Older(w, v)
        <5>1. \A x \in S \ {v} : ~Older(v, x)
          BY <3>1, <4>2, <4>3, OlderGoesOn
        <5>2. v \in S => \A x \in S : ~Older(v, x)
          BY <3>1, <5>1, NeverOlderThanItself
        <5> QED
          BY <4>2, <5>2
      <4>4. CASE ~Older(w, v)
        BY <4>2, <4>4
      <4> QED
        BY <4>3, <4>4
    <3> QED
      BY <3>2, <3>3
  <2> QED
    BY <2>2, <2>3 DEF AnyHaveNewest, HasNewest
<1>3. CASE UpdateRelease(v, minimum, published)
  <2>1. /\ v \in DOMAIN releases
        /\ FloorFits(v, minimum) \/ minimum = releases[v].minimum
        /\ DOMAIN releases' = DOMAIN releases
        /\ releases'[v].minimum = minimum
        /\ \A w \in DOMAIN releases \ {v} : releases'[w] = releases[w]
    BY <1>3 DEF UpdateRelease
  <2>2. Floors'
    BY <2>1 DEF Floors
  <2> QED
    BY <2>1, <2>2 DEF AnyHaveNewest
<1> QED
  BY <1>1, <1>2, <1>3

LEMMA LatestIs ==
  ASSUME Floors, AnyHaveNewest, Published # {}
  PROVE  Latest \in Published /\ \A w \in Published : ~Older(Latest, w)
<1>1. Published \in SUBSET DOMAIN releases
  BY DEF Published
<1>2. \E v \in Published : \A w \in Published : ~Older(v, w)
  BY <1>1 DEF AnyHaveNewest, HasNewest
<1> QED
  BY <1>2 DEF Latest

\* However releases are recorded, changed, published and withdrawn, an app
\* that must not carry on is offered one it can (latest and check).
THEOREM ForcedCanUpdate == ReleasesSpec => []ForcedHaveAWayOut
<1>1. ReleasesInit => Floors /\ AnyHaveNewest
  <2> SUFFICES ASSUME ReleasesInit PROVE Floors /\ AnyHaveNewest
    OBVIOUS
  <2>1. DOMAIN releases = {}
    BY DEF ReleasesInit
  <2> QED
    BY <2>1 DEF Floors, AnyHaveNewest, HasNewest
<1>2. Floors /\ AnyHaveNewest /\ [ReleasesNext]_releases => Floors' /\ AnyHaveNewest'
  <2> SUFFICES ASSUME Floors, AnyHaveNewest, [ReleasesNext]_releases PROVE Floors' /\ AnyHaveNewest'
    OBVIOUS
  <2>1. CASE ReleasesNext
    BY <2>1, ReleasesStep
  <2>2. CASE UNCHANGED releases
    BY <2>2 DEF Floors, AnyHaveNewest
  <2> QED
    BY <2>1, <2>2
<1>3. Floors /\ AnyHaveNewest => ForcedHaveAWayOut
  <2> SUFFICES ASSUME Floors, AnyHaveNewest, NEW v \in Versions
               PROVE  LET told == Check(v) IN
                      /\ told.required => /\ told.available /\ Older(v, told.latest)
                                          /\ ~IsOlder(told.latest, told.minimum)
                                          /\ ~Check(told.latest).available
                      /\ ~IsOlder(v, told.minimum) => ~told.required
                      /\ (\E w \in Published : Older(v, w)) => told.available /\ ~Older(told.latest, v)
    BY DEF ForcedHaveAWayOut
  <2>1. CASE Published = {}
    <3>1. Check(v).required = FALSE
      BY <2>1 DEF Check
    <3> QED
      BY <2>1, <3>1
  <2>2. CASE Published # {}
    <3> DEFINE newest == Latest
    <3>1. newest \in Published /\ \A w \in Published : ~Older(newest, w)
      BY <2>2, LatestIs
    <3>2. newest \in DOMAIN releases
      BY <3>1 DEF Published
    <3>3. /\ newest # <<>> /\ newest \in Seq(Nat) /\ v \in Seq(Nat)
          /\ \A w \in Published : w \in Seq(Nat)
          /\ FloorFits(newest, releases[newest].minimum)
      BY <3>2, ReleasesAssumption DEF Floors, Published
    <3>4. /\ Check(v).latest = newest /\ Check(v).minimum = releases[newest].minimum
          /\ Check(v).available = IsOlder(v, newest)
          /\ Check(v).required = (IsOlder(v, newest) /\ IsOlder(v, releases[newest].minimum))
          /\ Check(newest).available = IsOlder(newest, newest)
      BY <2>2 DEF Check
    <3> HIDE DEF newest
    <3>5. ~IsOlder(newest, newest) /\ ~IsOlder(newest, releases[newest].minimum)
      BY <3>3, NeverOlderThanItself DEF IsOlder, FloorFits
    <3>6. IsOlder(v, newest) => Older(v, newest) /\ ~Older(newest, v)
      BY <3>3, NeverOlderThanItself, OlderGoesOn DEF IsOlder
    <3>7. (\E w \in Published : Older(v, w)) => IsOlder(v, newest)
      BY <3>1, <3>3, OlderSomewhere DEF IsOlder
    <3> QED
      BY <3>4, <3>5, <3>6, <3>7
  <2> QED
    BY <2>1, <2>2
<1> QED
  BY <1>1, <1>2, <1>3, PTL DEF ReleasesSpec

-----------------------------------------------------------------------------
(***************************************************************************)
(* The study streak.  The two loops over the days are functions of how far *)
(* they have come; what each holds on the way is an invariant of the loop, *)
(* and from what they end with follows what a student is shown.            *)
(***************************************************************************)

\* Numbers under a bound have a greatest.
LEMMA GreatestIs ==
  ASSUME NEW S, S # {}, NEW top \in Int, \A n \in S : n \in Int /\ n <= top
  PROVE  Greatest(S) \in S /\ \A n \in S : n <= Greatest(S)
<1> DEFINE T == {top - n : n \in S}
<1>1. T \in SUBSET Nat /\ T # {}
  OBVIOUS
<1>2. PICK i \in T : \A n \in T : i <= n
  BY <1>1, First
<1>3. PICK g \in S : i = top - g
  BY <1>2
<1>4. \A n \in S : n <= g
  <2> SUFFICES ASSUME NEW n \in S PROVE n <= g
    OBVIOUS
  <2>1. top - n \in T
    OBVIOUS
  <2>2. top - g <= top - n
    BY <1>2, <1>3, <2>1
  <2> QED
    BY <2>2
<1> QED
  BY <1>4 DEF Greatest

\* What the greatest is, is it.
LEMMA GreatestIsOne ==
  ASSUME NEW S, NEW g \in S, \A n \in S : n \in Int /\ n <= g
  PROVE  Greatest(S) = g
<1>1. Greatest(S) \in S /\ \A n \in S : n <= Greatest(S)
  BY GreatestIs
<1> QED
  BY <1>1

LEMMA LeastIs ==
  ASSUME NEW S \in SUBSET Nat, S # {}
  PROVE  Least(S) \in S /\ \A n \in S : Least(S) <= n
BY First DEF Least

\* A loop over so many steps, each from where the last one came to.
LoopOf(f, span, start, G) ==
  f[0] = start /\ \A i \in 1..span : f[i] = G[<<i, f[i - 1]>>]
Loops(span, A) == [0..span -> A]
LoopSteps(span, A) == [(1..span) \X A -> A]

\* There is such a loop.
LEMMA LoopExists ==
  ASSUME NEW span \in Nat, NEW A, NEW start \in A, NEW G \in LoopSteps(span, A)
  PROVE  \E f \in Loops(span, A) : LoopOf(f, span, start, G)
<1> USE DEF LoopSteps
<1> DEFINE P(m) == \E f \in [0..m -> A] : /\ f[0] = start
                                          /\ \A i \in 1..m : f[i] = G[<<i, f[i - 1]>>]
<1>1. P(0)
  <2> DEFINE f == [i \in 0..0 |-> start]
  <2>1. f \in [0..0 -> A] /\ f[0] = start /\ \A i \in 1..0 : f[i] = G[<<i, f[i - 1]>>]
    OBVIOUS
  <2> QED
    BY <2>1
<1>2. ASSUME NEW m \in Nat, m < span, P(m) PROVE P(m + 1)
  <2>1. PICK f \in [0..m -> A] : f[0] = start /\ \A i \in 1..m : f[i] = G[<<i, f[i - 1]>>]
    BY <1>2
  <2> DEFINE next == G[<<m + 1, f[m]>>]
             g == [i \in 0..m + 1 |-> IF i = m + 1 THEN next ELSE f[i]]
  <2>2. next \in A
    <3>1. f[m] \in A /\ m + 1 \in 1..span
      BY <1>2, <2>1
    <3>2. <<m + 1, f[m]>> \in (1..span) \X A
      BY <3>1
    <3> QED
      BY <3>2
  <2>3. g \in [0..m + 1 -> A]
    BY <1>2, <2>1, <2>2
  <2>4. g[0] = start
    BY <1>2, <2>1
  <2>5. ASSUME NEW i \in 1..m + 1 PROVE g[i] = G[<<i, g[i - 1]>>]
    <3>1. g[i - 1] = f[i - 1]
      BY <1>2
    <3>2. CASE i = m + 1
      <4>1. g[i] = next /\ f[i - 1] = f[m] /\ <<i, f[i - 1]>> = <<m + 1, f[m]>>
        BY <3>2
      <4> QED
        BY <3>1, <4>1
    <3>3. CASE i # m + 1
      <4>1. i \in 1..m /\ g[i] = f[i]
        BY <1>2, <3>3
      <4> QED
        BY <2>1, <3>1, <4>1
    <3> QED
      BY <3>2, <3>3
  <2> HIDE DEF g
  <2> QED
    BY <2>3, <2>4, <2>5
<1> HIDE DEF P
<1> DEFINE T == {m \in 0..span : ~P(m)}
<1>3. T = {}
  <2> SUFFICES ASSUME T # {} PROVE FALSE
    OBVIOUS
  <2>0. T \in SUBSET Nat
    OBVIOUS
  <2>1. PICK m \in T : \A n \in T : m <= n
    BY <2>0, First
  <2>2. m # 0
    BY <1>1
  <2>3. m - 1 \in Nat /\ m - 1 < span /\ m - 1 \in 0..span /\ ~(m <= m - 1)
    BY <2>2
  <2>4. P(m - 1)
    BY <2>1, <2>3
  <2>5. P(m - 1 + 1)
    BY <1>2, <2>3, <2>4
  <2>6. m - 1 + 1 = m
    OBVIOUS
  <2> QED
    BY <2>5, <2>6
<1>4. P(span)
  BY <1>3
<1> QED
  BY <1>4 DEF P, Loops, LoopOf

-----------------------------------------------------------------------------
\* What the loop that counts back goes through.
BackSoFar == [n : Int, expected : Int, going : BOOLEAN]

LEMMA CountGives ==
  ASSUME NEW acc \in BackSoFar, NEW d \in Int
  PROVE  /\ acc.n \in Int /\ acc.expected \in Int /\ acc.going \in BOOLEAN
         /\ acc.going /\ d = acc.expected =>
              CountBack(acc, d) = [n |-> acc.n + 1, expected |-> acc.expected - 1, going |-> TRUE]
         /\ ~(acc.going /\ d = acc.expected) =>
              CountBack(acc, d) = [n |-> acc.n, expected |-> acc.expected, going |-> FALSE]
         /\ CountBack(acc, d) \in BackSoFar
<1>1. PICK n \in Int, e \in Int, g \in BOOLEAN : acc = [n |-> n, expected |-> e, going |-> g]
  BY DEF BackSoFar
<1>2. acc.n = n /\ acc.expected = e /\ acc.going = g
  BY <1>1
<1>3. CASE g /\ d = e
  <2>1. CountBack(acc, d) = [acc EXCEPT !.n = @ + 1, !.expected = @ - 1]
    BY <1>2, <1>3 DEF CountBack
  <2>2. CountBack(acc, d) = [n |-> n + 1, expected |-> e - 1, going |-> TRUE]
    BY <1>1, <1>3, <2>1
  <2> QED
    BY <1>2, <1>3, <2>2 DEF BackSoFar
<1>4. CASE ~(g /\ d = e)
  <2>1. CountBack(acc, d) = [acc EXCEPT !.going = FALSE]
    BY <1>2, <1>4 DEF CountBack
  <2>2. CountBack(acc, d) = [n |-> n, expected |-> e, going |-> FALSE]
    BY <1>1, <2>1
  <2> QED
    BY <1>2, <1>4, <2>2 DEF BackSoFar
<1> QED
  BY <1>3, <1>4

CountsBack(found, some, newest, span) ==
  /\ found[0] = [n |-> 0, expected |-> newest, going |-> TRUE]
  /\ \A i \in 1..span :
       found[i] = IF newest - i + 1 \in some THEN CountBack(found[i - 1], newest - i + 1)
                  ELSE found[i - 1]

LEMMA CountedLoop ==
  ASSUME NEW some, NEW newest \in Int, NEW span \in Nat
  PROVE  \E found : CountsBack(found, some, newest, span) /\ Counted(some, newest, span) = found[span].n
<1> DEFINE start == [n |-> 0, expected |-> newest, going |-> TRUE]
           G == [x \in (1..span) \X BackSoFar |->
                   IF newest - x[1] + 1 \in some THEN CountBack(x[2], newest - x[1] + 1) ELSE x[2]]
           body(f) == [i \in 0..span |->
                         IF i = 0 THEN start
                         ELSE IF newest - i + 1 \in some THEN CountBack(f[i - 1], newest - i + 1)
                         ELSE f[i - 1]]
<1>1. start \in BackSoFar
  BY DEF BackSoFar
<1>2. \A acc \in BackSoFar, d \in Int : CountBack(acc, d) \in BackSoFar
  BY CountGives
<1>3. G \in [(1..span) \X BackSoFar -> BackSoFar]
  <2> SUFFICES ASSUME NEW x \in (1..span) \X BackSoFar
               PROVE  (IF newest - x[1] + 1 \in some THEN CountBack(x[2], newest - x[1] + 1) ELSE x[2]) \in BackSoFar
    OBVIOUS
  <2>1. x[2] \in BackSoFar /\ newest - x[1] + 1 \in Int
    OBVIOUS
  <2> QED
    BY <1>2, <2>1
<1>4. \A i \in 1..span : \A acc \in BackSoFar :
        G[<<i, acc>>] = IF newest - i + 1 \in some THEN CountBack(acc, newest - i + 1) ELSE acc
  OBVIOUS
<1> HIDE DEF G, start, body
<1>5. PICK f \in [0..span -> BackSoFar] : f[0] = start /\ \A i \in 1..span : f[i] = G[<<i, f[i - 1]>>]
  <2>1. G \in LoopSteps(span, BackSoFar)
    BY <1>3 DEF LoopSteps
  <2>2. \E f \in Loops(span, BackSoFar) : LoopOf(f, span, start, G)
    BY <1>1, <2>1, LoopExists
  <2> QED
    BY <2>2 DEF Loops, LoopOf
<1>6. f = body(f)
  <2>1. \A i \in 0..span : f[i] = body(f)[i]
    <3> SUFFICES ASSUME NEW i \in 0..span PROVE f[i] = body(f)[i]
      OBVIOUS
    <3> USE DEF body
    <3>1. CASE i = 0
      BY <1>5, <3>1
    <3>2. CASE i # 0
      <4>1. i \in 1..span /\ f[i - 1] \in BackSoFar
        BY <3>2
      <4> QED
        BY <1>4, <1>5, <3>2, <4>1
    <3> QED
      BY <3>1, <3>2
  <2> QED
    BY <2>1 DEF body
<1> DEFINE found == CHOOSE g : g = body(g)
<1>7. found = body(found)
  BY <1>6
<1> HIDE DEF found
<1>8. found[0] = start /\ \A i \in 1..span :
        found[i] = IF newest - i + 1 \in some THEN CountBack(found[i - 1], newest - i + 1) ELSE found[i - 1]
  <2>1. \A i \in 0..span : found[i] = body(found)[i]
    BY <1>7
  <2> QED
    BY <2>1 DEF body
<1>9. Counted(some, newest, span) = found[span].n
  BY DEF Counted, found, start, body
<1> QED
  BY <1>8, <1>9 DEF CountsBack, start

\* After i days it knows the run that ends on the newest, as far as that.
BackTo(acc, i, some, newest) ==
  /\ acc \in BackSoFar
  /\ acc.n >= 0 /\ acc.n <= i
  /\ \A j \in 0..acc.n - 1 : newest - j \in some
  /\ acc.n < i => newest - acc.n \notin some
  /\ acc.going => acc.expected = newest - acc.n
  /\ acc.n = i => acc.going

LEMMA BackStep ==
  ASSUME NEW some, NEW newest \in Int, NEW i \in Nat, NEW acc, BackTo(acc, i, some, newest)
  PROVE  BackTo(IF newest - i \in some THEN CountBack(acc, newest - i) ELSE acc, i + 1, some, newest)
<1>1. acc.n \in Int /\ acc.expected \in Int /\ acc.going \in BOOLEAN /\ acc \in BackSoFar
  BY DEF BackTo, BackSoFar
<1>2. CASE newest - i \notin some
  <2>1. acc.n <= i + 1 /\ acc.n # i + 1
    BY <1>1 DEF BackTo
  <2>2. newest - acc.n \notin some
    BY <1>1, <1>2 DEF BackTo
  <2> QED
    BY <1>1, <1>2, <2>1, <2>2 DEF BackTo
<1>3. CASE newest - i \in some /\ acc.going /\ newest - i = acc.expected
  <2> DEFINE next == CountBack(acc, newest - i)
  <2>1. next \in BackSoFar /\ next.n = acc.n + 1 /\ next.expected = acc.expected - 1 /\ next.going
    <3>1. newest - i \in Int
      OBVIOUS
    <3>2. /\ CountBack(acc, newest - i) = [n |-> acc.n + 1, expected |-> acc.expected - 1, going |-> TRUE]
          /\ CountBack(acc, newest - i) \in BackSoFar
      BY <1>1, <1>3, <3>1, CountGives
    <3> QED
      BY <3>2
  <2>2. acc.n = i
    BY <1>1, <1>3 DEF BackTo
  <2>3. \A j \in 0..next.n - 1 : newest - j \in some
    BY <1>1, <1>3, <2>1, <2>2 DEF BackTo
  <2> HIDE DEF next
  <2>4. BackTo(next, i + 1, some, newest)
    BY <1>1, <1>3, <2>1, <2>2, <2>3 DEF BackTo
  <2> QED
    BY <1>3, <2>4 DEF next
<1>4. CASE newest - i \in some /\ ~(acc.going /\ newest - i = acc.expected)
  <2> DEFINE next == CountBack(acc, newest - i)
  <2>1. next \in BackSoFar /\ next.n = acc.n /\ ~next.going
    <3>1. newest - i \in Int
      OBVIOUS
    <3>2. /\ CountBack(acc, newest - i) = [n |-> acc.n, expected |-> acc.expected, going |-> FALSE]
          /\ CountBack(acc, newest - i) \in BackSoFar
      BY <1>1, <1>4, <3>1, CountGives
    <3> QED
      BY <3>2
  <2>2. acc.n < i
    BY <1>1, <1>4 DEF BackTo
  <2> HIDE DEF next
  <2>3. BackTo(next, i + 1, some, newest)
    BY <1>1, <2>1, <2>2 DEF BackTo
  <2> QED
    BY <1>4, <2>3 DEF next
<1> QED
  BY <1>2, <1>3, <1>4

\* The count is how long the run is that ends on the newest row.
LEMMA CountedIs ==
  ASSUME NEW some, NEW newest \in Int, NEW span \in Nat
  PROVE  LET n == Counted(some, newest, span) IN
         /\ n \in 0..span
         /\ \A j \in 0..n - 1 : newest - j \in some
         /\ n < span => newest - n \notin some
<1>1. PICK found : CountsBack(found, some, newest, span) /\ Counted(some, newest, span) = found[span].n
  BY CountedLoop
<1> DEFINE P(i) == BackTo(found[i], i, some, newest)
           T == {i \in 0..span : ~P(i)}
<1>2. P(0)
  BY <1>1 DEF CountsBack, BackTo, BackSoFar
<1>3. ASSUME NEW i \in Nat, i < span, P(i) PROVE P(i + 1)
  <2>1. i + 1 \in 1..span /\ i + 1 - 1 = i /\ newest - (i + 1) + 1 = newest - i
    BY <1>3
  <2>2. found[i + 1] = IF newest - i \in some THEN CountBack(found[i], newest - i) ELSE found[i]
    BY <1>1, <2>1 DEF CountsBack
  <2>3. BackTo(IF newest - i \in some THEN CountBack(found[i], newest - i) ELSE found[i], i + 1, some, newest)
    BY <1>3, BackStep
  <2> QED
    BY <2>2, <2>3
<1> HIDE DEF P
<1>4. T = {}
  <2> SUFFICES ASSUME T # {} PROVE FALSE
    OBVIOUS
  <2>0. T \in SUBSET Nat
    OBVIOUS
  <2>1. PICK i \in T : \A n \in T : i <= n
    BY <2>0, First
  <2>2. i # 0
    BY <1>2
  <2>3. i - 1 \in Nat /\ i - 1 < span /\ i - 1 \in 0..span /\ ~(i <= i - 1)
    BY <2>2
  <2>4. P(i - 1)
    BY <2>1, <2>3
  <2>5. P(i - 1 + 1)
    BY <1>3, <2>3, <2>4
  <2>6. i - 1 + 1 = i
    OBVIOUS
  <2> QED
    BY <2>5, <2>6
<1>5. BackTo(found[span], span, some, newest)
  BY <1>4 DEF P
<1>6. found[span].n \in Int
  BY <1>5 DEF BackTo, BackSoFar
<1> QED
  BY <1>1, <1>5, <1>6 DEF BackTo

-----------------------------------------------------------------------------
\* What the loop for the longest run goes through.
OnSoFar == [previous : Int, run : Int, longest : Int]

LEMMA ExtendGives ==
  ASSUME NEW acc \in OnSoFar, NEW d \in Int
  PROVE  /\ Extend(acc, d) \in OnSoFar
         /\ Extend(acc, d).previous = d
         /\ Extend(acc, d).run = IF d - acc.previous = 1 THEN acc.run + 1 ELSE 1
         /\ Extend(acc, d).longest = IF Extend(acc, d).run > acc.longest
                                     THEN Extend(acc, d).run ELSE acc.longest
<1> DEFINE run == IF d - acc.previous = 1 THEN acc.run + 1 ELSE 1
           longest == IF run > acc.longest THEN run ELSE acc.longest
<1>1. acc.previous \in Int /\ acc.run \in Int /\ acc.longest \in Int
  BY DEF OnSoFar
<1>2. run \in Int /\ longest \in Int
  BY <1>1
<1>3. Extend(acc, d) = [previous |-> d, run |-> run, longest |-> longest]
  BY DEF Extend
<1> HIDE DEF run, longest
<1>4. /\ Extend(acc, d) \in OnSoFar
      /\ Extend(acc, d).previous = d /\ Extend(acc, d).run = run /\ Extend(acc, d).longest = longest
  BY <1>2, <1>3 DEF OnSoFar
<1> QED
  BY <1>4 DEF run, longest

GoesOn(found, some, oldest, span) ==
  /\ found[0] = [previous |-> oldest, run |-> 1, longest |-> 1]
  /\ \A i \in 1..span :
       found[i] = IF oldest + i \in some THEN Extend(found[i - 1], oldest + i) ELSE found[i - 1]

LEMMA LongestLoop ==
  ASSUME NEW some, NEW oldest \in Int, NEW span \in Nat
  PROVE  \E found : GoesOn(found, some, oldest, span) /\ LongestOf(some, oldest, span) = found[span].longest
<1> DEFINE start == [previous |-> oldest, run |-> 1, longest |-> 1]
           G == [x \in (1..span) \X OnSoFar |->
                   IF oldest + x[1] \in some THEN Extend(x[2], oldest + x[1]) ELSE x[2]]
           body(f) == [i \in 0..span |->
                         IF i = 0 THEN start
                         ELSE IF oldest + i \in some THEN Extend(f[i - 1], oldest + i)
                         ELSE f[i - 1]]
<1>1. start \in OnSoFar
  BY DEF OnSoFar
<1>2. \A acc \in OnSoFar, d \in Int : Extend(acc, d) \in OnSoFar
  BY ExtendGives
<1>3. G \in LoopSteps(span, OnSoFar)
  <2> SUFFICES ASSUME NEW x \in (1..span) \X OnSoFar
               PROVE  (IF oldest + x[1] \in some THEN Extend(x[2], oldest + x[1]) ELSE x[2]) \in OnSoFar
    BY DEF LoopSteps
  <2>1. x[2] \in OnSoFar /\ oldest + x[1] \in Int
    OBVIOUS
  <2> QED
    BY <1>2, <2>1
<1>4. \A i \in 1..span : \A acc \in OnSoFar :
        G[<<i, acc>>] = IF oldest + i \in some THEN Extend(acc, oldest + i) ELSE acc
  OBVIOUS
<1> HIDE DEF G, start, body
<1>5. PICK f \in [0..span -> OnSoFar] : f[0] = start /\ \A i \in 1..span : f[i] = G[<<i, f[i - 1]>>]
  <2>1. \E f \in Loops(span, OnSoFar) : LoopOf(f, span, start, G)
    BY <1>1, <1>3, LoopExists
  <2> QED
    BY <2>1 DEF Loops, LoopOf
<1>6. f = body(f)
  <2>1. \A i \in 0..span : f[i] = body(f)[i]
    <3> SUFFICES ASSUME NEW i \in 0..span PROVE f[i] = body(f)[i]
      OBVIOUS
    <3> USE DEF body
    <3>1. CASE i = 0
      BY <1>5, <3>1
    <3>2. CASE i # 0
      <4>1. i \in 1..span /\ f[i - 1] \in OnSoFar
        BY <3>2
      <4> QED
        BY <1>4, <1>5, <3>2, <4>1
    <3> QED
      BY <3>1, <3>2
  <2> QED
    BY <2>1 DEF body
<1> DEFINE found == CHOOSE g : g = body(g)
<1>7. found = body(found)
  BY <1>6
<1> HIDE DEF found
<1>8. found[0] = start /\ \A i \in 1..span :
        found[i] = IF oldest + i \in some THEN Extend(found[i - 1], oldest + i) ELSE found[i - 1]
  <2>1. \A i \in 0..span : found[i] = body(found)[i]
    BY <1>7
  <2> QED
    BY <2>1 DEF body
<1>9. LongestOf(some, oldest, span) = found[span].longest
  BY DEF LongestOf, found, start, body
<1> QED
  BY <1>8, <1>9 DEF GoesOn, start

\* Some days hold a run of so many that ends on one of them.
EndsRun(some, e, n) == \A j \in 0..n - 1 : e - j \in some

\* After i days it knows the run that ends on the newest row so far, and the
\* longest of the runs that end on a row so far.
OnTo(acc, i, some, oldest) ==
  /\ acc \in OnSoFar
  /\ acc.previous \in some /\ acc.previous <= oldest + i
  /\ \A m \in some : m <= oldest + i => m <= acc.previous
  /\ acc.run >= 1 /\ EndsRun(some, acc.previous, acc.run) /\ acc.previous - acc.run \notin some
  /\ acc.run <= acc.longest
  /\ \E e \in some : EndsRun(some, e, acc.longest)
  /\ \A e \in some : e <= oldest + i => \E j \in 0..acc.longest : e - j \notin some

LEMMA OnStep ==
  ASSUME NEW some \in SUBSET Int, NEW oldest \in Int, NEW i \in Nat, NEW acc, OnTo(acc, i, some, oldest)
  PROVE  OnTo(IF oldest + (i + 1) \in some THEN Extend(acc, oldest + (i + 1)) ELSE acc, i + 1, some, oldest)
<1> DEFINE d == oldest + (i + 1)
<1>1. acc \in OnSoFar /\ acc.previous \in Int /\ acc.run \in Int /\ acc.longest \in Int /\ d \in Int
  BY DEF OnTo, OnSoFar
<1>2. CASE d \notin some
  <2>1. \A m \in some : m <= oldest + (i + 1) => m <= oldest + i
    BY <1>2
  <2>2. acc.previous <= oldest + (i + 1)
    BY <1>1 DEF OnTo
  <2> QED
    BY <1>2, <2>1, <2>2 DEF OnTo
<1>3. CASE d \in some
  <2> DEFINE next == Extend(acc, d)
  <2>1. /\ next \in OnSoFar /\ next.previous = d
        /\ next.run = IF d - acc.previous = 1 THEN acc.run + 1 ELSE 1
        /\ next.longest = IF next.run > acc.longest THEN next.run ELSE acc.longest
    BY <1>1, ExtendGives
  <2> HIDE DEF next
  <2>2. next.run \in Int /\ next.longest \in Int
    BY <2>1 DEF OnSoFar
  <2>3. next.run >= 1 /\ EndsRun(some, d, next.run) /\ d - next.run \notin some
    <3>1. CASE d - acc.previous = 1
      <4>1. next.run = acc.run + 1 /\ acc.previous = d - 1 /\ acc.run >= 1
        BY <1>1, <2>1, <3>1 DEF OnTo
      <4>2. d - next.run = acc.previous - acc.run
        BY <1>1, <4>1
      <4>3. ASSUME NEW j \in 0..next.run - 1 PROVE d - j \in some
        <5>1. CASE j = 0
          BY <1>3, <5>1
        <5>2. CASE j # 0
          <6>1. j - 1 \in 0..acc.run - 1 /\ d - j = acc.previous - (j - 1)
            BY <1>1, <4>1, <5>2
          <6> QED
            BY <6>1 DEF OnTo, EndsRun
        <5> QED
          BY <5>1, <5>2
      <4> QED
        BY <1>1, <4>1, <4>2, <4>3 DEF OnTo, EndsRun
    <3>2. CASE d - acc.previous # 1
      <4>1. next.run = 1
        BY <2>1, <3>2
      <4>2. d - 1 \notin some
        BY <1>1, <3>2 DEF OnTo
      <4>3. \A j \in 0..next.run - 1 : d - j \in some
        BY <1>1, <1>3, <4>1
      <4> QED
        BY <1>1, <4>1, <4>2, <4>3 DEF EndsRun
    <3> QED
      BY <3>1, <3>2
  <2>4. next.run <= next.longest /\ acc.longest <= next.longest
    BY <1>1, <2>1, <2>2
  <2>5. \E e \in some : EndsRun(some, e, next.longest)
    <3>1. CASE next.run > acc.longest
      BY <1>3, <2>1, <2>3, <3>1
    <3>2. CASE ~(next.run > acc.longest)
      BY <2>1, <3>2 DEF OnTo
    <3> QED
      BY <3>1, <3>2
  <2>6. ASSUME NEW e \in some, e <= oldest + (i + 1) PROVE \E j \in 0..next.longest : e - j \notin some
    <3>1. CASE e = d
      <4>1. next.run \in 0..next.longest
        BY <2>2, <2>3, <2>4
      <4> QED
        BY <2>3, <3>1, <4>1
    <3>2. CASE e # d
      <4>1. e <= oldest + i
        BY <2>6, <3>2
      <4>2. PICK j \in 0..acc.longest : e - j \notin some
        BY <4>1 DEF OnTo
      <4>3. j \in 0..next.longest
        BY <1>1, <2>2, <2>4
      <4> QED
        BY <4>2, <4>3
    <3> QED
      BY <3>1, <3>2
  <2>7. next.previous \in some /\ next.previous <= oldest + (i + 1)
        /\ \A m \in some : m <= oldest + (i + 1) => m <= next.previous
    BY <1>3, <2>1
  <2> HIDE DEF d
  <2>8. OnTo(next, i + 1, some, oldest)
    BY <2>1, <2>3, <2>4, <2>5, <2>6, <2>7 DEF OnTo
  <2> QED
    BY <1>3, <2>8 DEF next, d
<1> QED
  BY <1>2, <1>3

\* It is the longest run that ends on a row.
LEMMA LongestIs ==
  ASSUME NEW some \in SUBSET Int, NEW oldest \in some, NEW span \in Nat,
         \A d \in some : oldest <= d /\ d <= oldest + span
  PROVE  LET n == LongestOf(some, oldest, span) IN
         /\ n \in Nat /\ n >= 1
         /\ \E e \in some : EndsRun(some, e, n)
         /\ \A e \in some : \E j \in 0..n : e - j \notin some
<1>1. PICK found : GoesOn(found, some, oldest, span) /\ LongestOf(some, oldest, span) = found[span].longest
  BY LongestLoop
<1> DEFINE P(i) == OnTo(found[i], i, some, oldest)
           T == {i \in 0..span : ~P(i)}
<1>2. P(0)
  <2>1. found[0] = [previous |-> oldest, run |-> 1, longest |-> 1]
    BY <1>1 DEF GoesOn
  <2>2. found[0] \in OnSoFar /\ found[0].previous = oldest /\ found[0].run = 1 /\ found[0].longest = 1
    BY <2>1 DEF OnSoFar
  <2>3. oldest - 1 \notin some /\ EndsRun(some, oldest, 1)
    BY DEF EndsRun
  <2>4. \A e \in some : e <= oldest + 0 => e = oldest
    OBVIOUS
  <2>5. \A e \in some : e <= oldest + 0 => \E j \in 0..1 : e - j \notin some
    BY <2>3, <2>4
  <2> QED
    BY <2>2, <2>3, <2>4, <2>5 DEF OnTo
<1>3. ASSUME NEW i \in Nat, i < span, P(i) PROVE P(i + 1)
  <2>1. i + 1 \in 1..span /\ i + 1 - 1 = i
    BY <1>3
  <2>2. found[i + 1] = IF oldest + (i + 1) \in some THEN Extend(found[i], oldest + (i + 1)) ELSE found[i]
    BY <1>1, <2>1 DEF GoesOn
  <2>3. OnTo(IF oldest + (i + 1) \in some THEN Extend(found[i], oldest + (i + 1)) ELSE found[i],
             i + 1, some, oldest)
    BY <1>3, OnStep
  <2> QED
    BY <2>2, <2>3
<1> HIDE DEF P
<1>4. T = {}
  <2> SUFFICES ASSUME T # {} PROVE FALSE
    OBVIOUS
  <2>0. T \in SUBSET Nat
    OBVIOUS
  <2>1. PICK i \in T : \A n \in T : i <= n
    BY <2>0, First
  <2>2. i # 0
    BY <1>2
  <2>3. i - 1 \in Nat /\ i - 1 < span /\ i - 1 \in 0..span /\ ~(i <= i - 1)
    BY <2>2
  <2>4. P(i - 1)
    BY <2>1, <2>3
  <2>5. P(i - 1 + 1)
    BY <1>3, <2>3, <2>4
  <2>6. i - 1 + 1 = i
    OBVIOUS
  <2> QED
    BY <2>5, <2>6
<1>5. OnTo(found[span], span, some, oldest)
  BY <1>4 DEF P
<1>6. found[span].longest \in Int /\ found[span].run \in Int
  BY <1>5 DEF OnTo, OnSoFar
<1> QED
  BY <1>1, <1>5, <1>6 DEF OnTo

-----------------------------------------------------------------------------
(***************************************************************************)
(* What a read shows.                                                      *)
(***************************************************************************)

\* A day is recorded no later than the student has come to it.
NotAhead == local \in Nat /\ days \subseteq 0..local

LEMMA RunsAre ==
  ASSUME NEW some, NEW last \in Int
  PROVE  /\ Runs(some, last) = {n \in 0..Lookback : EndsRun(some, last, n)}
         /\ 0 \in Runs(some, last)
<1> USE StreakAssumption
<1>1. ASSUME NEW n \in 0..Lookback
      PROVE  (last - n + 1)..last \subseteq some <=> EndsRun(some, last, n)
  <2>1. ASSUME (last - n + 1)..last \subseteq some, NEW j \in 0..n - 1 PROVE last - j \in some
    <3>1. last - j \in (last - n + 1)..last
      OBVIOUS
    <3> QED
      BY <2>1, <3>1
  <2>2. ASSUME EndsRun(some, last, n), NEW d \in (last - n + 1)..last PROVE d \in some
    <3>1. last - d \in 0..n - 1 /\ last - (last - d) = d
      OBVIOUS
    <3>2. last - (last - d) \in some
      BY <2>2, <3>1 DEF EndsRun
    <3> QED
      BY <3>1, <3>2
  <2> QED
    BY <2>1, <2>2 DEF EndsRun
<1>2. 0 \in 0..Lookback /\ EndsRun(some, last, 0)
  BY DEF EndsRun
<1>3. Runs(some, last) = {n \in 0..Lookback : EndsRun(some, last, n)}
  BY <1>1 DEF Runs
<1> QED
  BY <1>2, <1>3

\* The rows of a read, and the newest of them.
LEMMA RowsRead ==
  ASSUME NotAhead, NEW today \in ReadDates
  PROVE  /\ today \in Int /\ Rows(today) \in SUBSET Int
         /\ \A d \in Rows(today) : d \in days /\ d > today - Lookback /\ d <= local
         /\ \A d \in days : d > today - Lookback => d \in Rows(today)
         /\ Rows(today) # {} =>
              /\ Greatest(Rows(today)) \in Rows(today)
              /\ \A d \in Rows(today) : d <= Greatest(Rows(today))
<1> USE StreakAssumption
<1>1. today \in Int /\ local \in Int
  BY DEF NotAhead, ReadDates
<1>2. \A d \in days : d \in Int /\ d <= local
  BY DEF NotAhead
<1>3. /\ Rows(today) \in SUBSET Int
      /\ \A d \in Rows(today) : d \in days /\ d > today - Lookback /\ d <= local
      /\ \A d \in days : d > today - Lookback => d \in Rows(today)
  BY <1>1, <1>2 DEF Rows
<1>4. ASSUME Rows(today) # {}
      PROVE  Greatest(Rows(today)) \in Rows(today) /\ \A d \in Rows(today) : d <= Greatest(Rows(today))
  <2> DEFINE S == Rows(today)
  <2>1. S # {} /\ \A n \in S : n \in Int /\ n <= local
    BY <1>3, <1>4
  <2> HIDE DEF S
  <2>2. Greatest(S) \in S /\ \A n \in S : n <= Greatest(S)
    BY <1>1, <2>1, GreatestIs
  <2> QED
    BY <2>2 DEF S
<1> QED
  BY <1>1, <1>3, <1>4

\* The run of some days that ends on one of them, as far as the lookback.
LEMMA GreatestRun ==
  ASSUME NEW some, NEW last \in Int
  PROVE  LET run == Greatest(Runs(some, last)) IN
         /\ run \in 0..Lookback /\ EndsRun(some, last, run)
         /\ \A n \in 0..Lookback : EndsRun(some, last, n) => n <= run
<1> USE StreakAssumption
<1> DEFINE S == Runs(some, last)
<1>1. S = {n \in 0..Lookback : EndsRun(some, last, n)} /\ 0 \in S
  BY RunsAre
<1>2. S # {} /\ \A n \in S : n \in Int /\ n <= Lookback
  BY <1>1
<1> HIDE DEF S
<1>3. Greatest(S) \in S /\ \A n \in S : n <= Greatest(S)
  BY <1>2, GreatestIs
<1>4. Greatest(S) \in 0..Lookback /\ EndsRun(some, last, Greatest(S))
      /\ \A n \in 0..Lookback : EndsRun(some, last, n) => n <= Greatest(S)
  BY <1>1, <1>3
<1> QED
  BY <1>4 DEF S

\* Nothing is shown of a run that has ended before yesterday.
LEMMA NotAlive ==
  ASSUME NotAhead, local \notin days, local - 1 \notin days
  PROVE  Current(local) = 0
<1> DEFINE newest == Greatest(Rows(local))
<1>1. local \in ReadDates /\ local \in Int
  BY DEF ReadDates, NotAhead
<1>2. Rows(local) # {} => newest \in Rows(local)
  BY <1>1, RowsRead
<1>3. \A d \in Rows(local) : d \in days /\ d <= local /\ d \in Int
  BY <1>1, RowsRead
<1> HIDE DEF newest
<1>4. Rows(local) # {} => ~(newest >= local - 1)
  BY <1>1, <1>2, <1>3
<1> QED
  BY <1>4 DEF Current, Alive, newest

\* Of a run that ends today or yesterday a read shows all that it reads.
LEMMA ShownOf ==
  ASSUME NotAhead, NEW today \in ReadDates, NEW last \in days,
         last = IF local \in days THEN local ELSE local - 1
  PROVE  LET span == last - (today - Lookback)
             n == Current(today)
         IN /\ span \in Nat /\ n \in 0..span
            /\ EndsRun(days, last, n)
            /\ n < span => last - n \notin days
<1> USE StreakAssumption
<1> DEFINE some == Rows(today)
           span == last - (today - Lookback)
<1>1. /\ today \in {local, local - 1} /\ local \in Int /\ last \in Int
      /\ last <= local /\ last >= local - 1
      /\ \A d \in days : d \in Int /\ d <= last
  <2>1. today \in {local, local - 1} /\ local \in Int
    BY DEF ReadDates, NotAhead
  <2>2. \A d \in days : d \in Int /\ d <= local
    BY DEF NotAhead
  <2>3. CASE local \in days
    BY <2>1, <2>2, <2>3
  <2>4. CASE local \notin days
    <3>1. \A d \in days : d # local
      BY <2>4
    <3> QED
      BY <2>1, <2>2, <2>4, <3>1
  <2> QED
    BY <2>3, <2>4
<1>2. last > today - Lookback /\ last >= today - 1 /\ span \in Nat
  BY <1>1
<1>3. last \in some /\ \A d \in some : d \in Int /\ d <= last
  BY <1>1, <1>2, RowsRead
<1>4. /\ \A d \in some : d \in days
      /\ \A d \in days : d > today - Lookback => d \in some
  BY RowsRead
<1> HIDE DEF some
<1>5. Greatest(some) = last
  BY <1>3, GreatestIsOne
<1>6. Current(today) = Counted(some, last, span)
  BY <1>2, <1>3, <1>5 DEF Current, Alive, some
<1>7. LET n == Counted(some, last, span) IN
      /\ n \in 0..span
      /\ \A j \in 0..n - 1 : last - j \in some
      /\ n < span => last - n \notin some
  BY <1>1, <1>2, CountedIs
<1> DEFINE n == Current(today)
<1>8. n \in 0..span /\ EndsRun(some, last, n) /\ (n < span => last - n \notin some)
  BY <1>6, <1>7 DEF EndsRun
<1> HIDE DEF n
<1>9. EndsRun(days, last, n)
  BY <1>4, <1>8 DEF EndsRun
<1>10. n < span => last - n \notin days
  <2> SUFFICES ASSUME n < span, last - n \in days PROVE FALSE
    OBVIOUS
  <2>1. last - n > today - Lookback
    BY <1>1, <1>2, <1>8
  <2> QED
    BY <1>4, <1>8, <2>1
<1> QED
  BY <1>2, <1>8, <1>9, <1>10 DEF n

\* The longest run shown is the longest in the rows of the read.
LEMMA LongestShown ==
  ASSUME NotAhead
  PROVE  Longest(local) = Greatest({0} \cup UNION {Runs(Rows(local), last) : last \in days})
<1> USE StreakAssumption
<1> DEFINE some == Rows(local)
           looked == {0} \cup UNION {Runs(some, last) : last \in days}
<1>0. local \in ReadDates /\ local \in Int
  BY DEF ReadDates, NotAhead
<1>1. /\ some \in SUBSET Int
      /\ \A d \in some : d \in days /\ d > local - Lookback /\ d <= local
      /\ some # {} => Greatest(some) \in some /\ \A d \in some : d <= Greatest(some)
  BY <1>0, RowsRead
<1>2. \A d \in days : d \in Nat
  BY DEF NotAhead
<1>3. \A n \in looked : n \in 0..Lookback
  <2>1. \A last \in days : \A n \in Runs(some, last) : n \in 0..Lookback
    BY DEF Runs
  <2>2. 0 \in 0..Lookback
    OBVIOUS
  <2> QED
    BY <2>1, <2>2
<1>4. \A n \in looked : n = 0 \/ \E e \in some : EndsRun(some, e, n)
  <2> SUFFICES ASSUME NEW last \in days, NEW n \in Runs(some, last), n # 0
               PROVE  \E e \in some : EndsRun(some, e, n)
    OBVIOUS
  <2>1. n \in 0..Lookback /\ EndsRun(some, last, n) /\ last \in Int
    BY <1>2, RunsAre
  <2>2. 0 \in 0..n - 1 /\ last - 0 = last
    BY <2>1
  <2>3. last \in some
    BY <2>1, <2>2 DEF EndsRun
  <2> QED
    BY <2>1, <2>3
<1>5. CASE some = {}
  <2>1. \A n \in looked : n \in Int /\ n <= 0
    BY <1>4, <1>5
  <2>2. 0 \in looked
    OBVIOUS
  <2> HIDE DEF looked
  <2>3. Greatest(looked) = 0
    BY <2>1, <2>2, GreatestIsOne
  <2> QED
    BY <1>5, <2>3 DEF Longest, looked
<1>6. CASE some # {}
  <2> DEFINE oldest == Least(some)
             span == Greatest(some) - oldest
             n == LongestOf(some, oldest, span)
             c == Current(local)
  <2> HIDE DEF some
  <2>1. some \in SUBSET Nat
    BY <1>1, <1>2
  <2>2. oldest \in some /\ \A d \in some : oldest <= d
    BY <1>6, <2>1, LeastIs
  <2> HIDE DEF oldest
  <2> DEFINE top == Greatest(some)
  <2>3. top \in some /\ \A d \in some : d <= top
    BY <1>1, <1>6
  <2> HIDE DEF top
  <2>4. top \in Int /\ oldest \in Int /\ top >= oldest
    BY <2>1, <2>2, <2>3
  <2>5. span = top - oldest
    BY DEF top
  <2> HIDE DEF span
  <2>6. span \in Nat /\ \A d \in some : oldest <= d /\ d <= oldest + span
    BY <2>1, <2>2, <2>3, <2>4, <2>5
  <2>7. /\ n \in Nat /\ n >= 1
        /\ \E e \in some : EndsRun(some, e, n)
        /\ \A e \in some : \E j \in 0..n : e - j \notin some
    BY <1>1, <2>2, <2>6, LongestIs
  <2> HIDE DEF n
  <2>8. \A m \in Int, e \in some : EndsRun(some, e, m) => m <= n
    <3> SUFFICES ASSUME NEW m \in Int, NEW e \in some, EndsRun(some, e, m), m > n PROVE FALSE
      BY <2>7
    <3>1. PICK j \in 0..n : e - j \notin some
      BY <2>7
    <3>2. j \in 0..m - 1
      BY <2>7
    <3> QED
      BY <3>1, <3>2 DEF EndsRun
  <2>9. c \in Int /\ c <= n
    <3> DEFINE back == top - (local - Lookback)
               count == Counted(some, top, back)
    <3>0. top > local - Lookback
      BY <1>1, <2>3
    <3>1. back \in Nat
      BY <1>0, <2>4, <3>0
    <3> HIDE DEF back
    <3>2. count \in 0..back /\ \A j \in 0..count - 1 : top - j \in some
      BY <2>4, <3>1, CountedIs
    <3> HIDE DEF count
    <3>3. count \in Int /\ count <= n
      BY <2>8, <2>3, <3>1, <3>2 DEF EndsRun
    <3>4. c = IF Alive(top, local) THEN count ELSE 0
      BY <1>6 DEF Current, some, top, back, count, c
    <3> QED
      BY <2>7, <3>3, <3>4
  <2> HIDE DEF c
  <2>10. Greatest({n, c}) = n
    <3>1. n \in {n, c} /\ \A m \in {n, c} : m \in Int /\ m <= n
      BY <2>7, <2>9
    <3> DEFINE S == {n, c}
    <3> HIDE DEF S
    <3>2. n \in S /\ \A m \in S : m \in Int /\ m <= n
      BY <3>1 DEF S
    <3>3. Greatest(S) = n
      BY <3>2, GreatestIsOne
    <3> QED
      BY <3>3 DEF S
  <2>11. Longest(local) = n
    BY <1>6, <2>10 DEF Longest, some, n, c, span, oldest
  <2>12. n \in looked
    <3>1. PICK e \in some : EndsRun(some, e, n)
      BY <2>7
    <3>2. n - 1 \in 0..n - 1 /\ e \in Int /\ e <= local
      BY <1>1, <2>7
    <3>3. e - (n - 1) \in some
      BY <3>1, <3>2 DEF EndsRun
    <3>4. e - (n - 1) > local - Lookback
      BY <1>1, <3>3
    <3>5. n \in 0..Lookback
      BY <1>0, <2>7, <3>2, <3>4
    <3>6. n \in Runs(some, e)
      BY <3>1, <3>2, <3>5, RunsAre
    <3>7. e \in days
      BY <1>1
    <3> QED
      BY <3>6, <3>7
  <2>13. \A m \in looked : m \in Int /\ m <= n
    <3> SUFFICES ASSUME NEW m \in looked PROVE m \in Int /\ m <= n
      OBVIOUS
    <3>1. m \in 0..Lookback /\ (m = 0 \/ \E e \in some : EndsRun(some, e, m))
      BY <1>3, <1>4
    <3> HIDE DEF looked
    <3> QED
      BY <2>7, <2>8, <3>1
  <2> HIDE DEF looked
  <2>14. Greatest(looked) = n
    BY <2>12, <2>13, GreatestIsOne
  <2> QED
    BY <2>11, <2>14 DEF looked, some
<1> QED
  BY <1>5, <1>6

\* What is shown is right whenever no day is recorded ahead of its time.
LEMMA NotAheadIsShown == NotAhead => StreakShown
<1> USE StreakAssumption
<1> SUFFICES ASSUME NotAhead PROVE StreakShown
  OBVIOUS
<1> DEFINE last == IF local \in days THEN local ELSE local - 1
           run == Greatest(Runs(days, last))
           Seen(n) == IF n < Lookback - 1 THEN n ELSE Lookback - 1
<1>1. local \in Int /\ last \in Int
  BY DEF NotAhead
<1>2. /\ run \in 0..Lookback /\ EndsRun(days, last, run)
      /\ \A n \in 0..Lookback : EndsRun(days, last, n) => n <= run
  BY <1>1, GreatestRun
<1>3. local \in ReadDates /\ \A today \in ReadDates : today \in {local, local - 1}
  BY DEF ReadDates
<1>4. Seen(Current(local)) = Seen(run) /\ \A today \in ReadDates : Seen(run) <= Current(today)
  <2>1. CASE last \notin days
    <3>1. local \notin days /\ local - 1 \notin days
      BY <2>1
    <3>2. Current(local) = 0
      BY <3>1, NotAlive
    <3> HIDE DEF run
    <3>3. run = 0
      <4> SUFFICES ASSUME run # 0 PROVE FALSE
        OBVIOUS
      <4>1. 0 \in 0..run - 1 /\ last - 0 = last
        BY <1>1, <1>2
      <4> HIDE DEF last
      <4> QED
        BY <1>2, <2>1, <4>1 DEF EndsRun
    <3>4. \A today \in ReadDates : Current(today) \in Int /\ Current(today) >= 0
      <4> SUFFICES ASSUME NEW today \in ReadDates PROVE Current(today) \in Int /\ Current(today) >= 0
        OBVIOUS
      <4> DEFINE newest == Greatest(Rows(today))
                 span == newest - (today - Lookback)
      <4>1. CASE Rows(today) = {}
        BY <4>1 DEF Current
      <4>2. CASE Rows(today) # {}
        <5>1. newest \in Int /\ newest > today - Lookback /\ today \in Int
          BY <4>2, RowsRead
        <5>2. span \in Nat
          BY <5>1
        <5>3. Counted(Rows(today), newest, span) \in 0..span
          <6> HIDE DEF newest, span
          <6> QED
            BY <5>1, <5>2, CountedIs
        <5>4. Current(today) \in {0, Counted(Rows(today), newest, span)}
          BY DEF Current
        <5> HIDE DEF span, newest
        <5> QED
          BY <5>2, <5>3, <5>4
      <4> QED
        BY <4>1, <4>2
    <3> QED
      BY <3>2, <3>3, <3>4
  <2>2. CASE last \in days
    <3> HIDE DEF run
    <3>1. ASSUME NEW today \in ReadDates
          PROVE  /\ Current(today) \in Int /\ Seen(run) <= Current(today)
                 /\ today = local => Current(today) <= run
      <4> DEFINE span == last - (today - Lookback)
                 n == Current(today)
      <4>1. /\ span \in Nat /\ n \in 0..span
            /\ EndsRun(days, last, n)
            /\ n < span => last - n \notin days
        BY <2>2, ShownOf
      <4>2. span >= Lookback - 1 /\ (today = local => span <= Lookback)
        BY <1>1, <1>3
      <4> HIDE DEF n, span, last
      <4>3. n < span => run <= n
        <5> SUFFICES ASSUME n < span, run > n PROVE FALSE
          BY <1>2, <4>1
        <5>1. n \in 0..run - 1
          BY <1>2, <4>1
        <5> QED
          BY <1>2, <4>1, <5>1 DEF EndsRun
      <4>4. Seen(run) <= n
        BY <1>2, <4>1, <4>2, <4>3
      <4>5. today = local => n <= run
        BY <1>2, <4>1, <4>2
      <4> QED
        BY <4>1, <4>4, <4>5 DEF n
    <3>2. Current(local) \in Int /\ Seen(run) <= Current(local) /\ Current(local) <= run
      BY <1>3, <3>1
    <3>3. Seen(Current(local)) = Seen(run)
      BY <1>2, <3>2
    <3> QED
      BY <3>1, <3>3
  <2> QED
    BY <2>1, <2>2
<1>5. Longest(local) = Greatest({0} \cup UNION {Runs(Rows(local), l) : l \in days})
  BY LongestShown
<1> QED
  BY <1>4, <1>5 DEF StreakShown

\* What a student is shown is the run that ends today or yesterday.
THEOREM StreakIsRight == StreakSpec => []StreakShown
<1>1. StreakInit => NotAhead
  BY DEF StreakInit, NotAhead
<1>2. NotAhead /\ [StreakNext]_streakVars => NotAhead'
  <2> SUFFICES ASSUME NotAhead, [StreakNext]_streakVars PROVE NotAhead'
    OBVIOUS
  <2>1. CASE NextDay
    BY <2>1 DEF NextDay, NotAhead
  <2>2. ASSUME NEW d \in 0..LastDay, RecordDay(d) PROVE NotAhead'
    BY <2>2 DEF RecordDay, NotAhead
  <2>3. CASE UNCHANGED streakVars
    BY <2>3 DEF streakVars, NotAhead
  <2> QED
    BY <2>1, <2>2, <2>3 DEF StreakNext
<1> QED
  BY <1>1, <1>2, NotAheadIsShown, PTL DEF StreakSpec
===============================================================================
