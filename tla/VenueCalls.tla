----------------------------- MODULE VenueCalls -----------------------------
(***************************************************************************)
(* Calls to one venue: ThrottledExchange views share a VenueRateGovernor   *)
(* (execution/throttle) and one GuardedCcxtExchange, with its single slots *)
(* for the last response body and the last response metadata               *)
(* (platform/safety/exchange).  Callers interleave while a call awaits the *)
(* transport; between two awaits a step is atomic.                         *)
(***************************************************************************)
EXTENDS Integers, Sequences, FiniteSets

CONSTANTS
  Callers,          \* tasks that call the venue, one call at a time each
  Class,            \* request class of each caller's view
  Weight,           \* request weight of each caller's endpoint
  Placing,          \* the callers whose endpoint consumes an order slot
  OrderRate,        \* order_rate_per_10s
  WeightPerMinute,  \* request_weight_per_minute
  OrderWindow,      \* 10 seconds
  WeightWindow,     \* 60 seconds
  UsedWeights,      \* used-weight header values the venue sends
  RetryAfters,      \* Retry-After values the venue sends
  None,             \* no response, no observation, no header, no caller
  MaxCallTime,      \* bound on the monotonic clock
  MaxCalls          \* bound on the calls admitted

ShareOf == [ORDER |-> 100, RECONCILIATION |-> 95, MARKET_DATA |-> 90,
            RESEARCH |-> 80, BACKFILL |-> 80]

ASSUME VenueAssumption ==
  /\ Class \in [Callers -> DOMAIN ShareOf] /\ Weight \in [Callers -> Nat]
  /\ Placing \subseteq {k \in Callers : Class[k] = "ORDER"}  \* _cost_of
  /\ OrderRate \in Nat \ {0} /\ WeightPerMinute \in Nat
  /\ OrderWindow \in Nat \ {0} /\ WeightWindow \in Nat \ {0}
  /\ UsedWeights \subseteq Nat /\ RetryAfters \subseteq Nat
  /\ MaxCallTime \in Nat /\ MaxCalls \in Nat
  /\ None \notin Callers \cup Nat

CallTimes == 0..MaxCallTime

(* What a response's headers say: used weight absent or a number (the      *)
(* whole budget when it cannot be read); Retry-After absent or a number.   *)
Metadata == [of : Callers, status : {200, 429, 418},
             used : {None} \cup UsedWeights, retry : {None} \cup RetryAfters]

VARIABLES
  callNow,      \* monotonic seconds
  orderSlots,   \* _order_slots_used_at
  charged,      \* _weight_charged
  observed,     \* _observed_used_weight and _observed_at_seconds, or None
  refuseUntil,  \* _refuse_until_seconds, 0 for None
  banned,       \* _banned
  latest,       \* VenueResponseRecorder.latest
  body,         \* whose response body last_http_response holds
  stage,        \* per caller: "idle", "sent" or "headers" received
  sent,         \* every request admitted: caller and time
  misread       \* a call returned the body of another call's response

governor == <<orderSlots, charged, observed, refuseUntil, banned>>
callVars == <<callNow, governor, latest, body, stage, sent, misread>>

-----------------------------------------------------------------------------

(* _expire drops entries from the head until the first that is fresh. *)
Expired(t, window) == t <= callNow - window
FirstFresh(entries, stale) == CHOOSE n \in 1 .. Len(entries) + 1 : n \notin stale /\ 1 .. n - 1 \subseteq stale
DropHead(entries, stale) == SubSeq(entries, FirstFresh(entries, stale), Len(entries))

Slots   == DropHead(orderSlots, {n \in DOMAIN orderSlots : Expired(orderSlots[n], OrderWindow)})
Charges == DropHead(charged, {n \in DOMAIN charged : Expired(charged[n].at, WeightWindow)})

(* The weight charged from an instant on. *)
TotalSince(cs, from) ==
  LET sum[n \in 0 .. Len(cs)] ==
        IF n = 0 THEN 0 ELSE sum[n - 1] + (IF cs[n].at >= from THEN cs[n].weight ELSE 0)
  IN  sum[Len(cs)]

(* Mutation of UsedWeight: the venue's header replaces our own count. *)
UsedWeight_HeaderOnly ==
  IF observed = None \/ Expired(observed.at, WeightWindow) THEN TotalSince(Charges, 0)
  ELSE observed.used + TotalSince(Charges, observed.at)

(* used_request_weight: the larger of our own rolling total and the last   *)
(* header plus everything charged since.                                   *)
UsedWeight ==
  LET local == TotalSince(Charges, 0) IN
  IF observed = None \/ Expired(observed.at, WeightWindow) THEN local
  ELSE LET claimed == observed.used + TotalSince(Charges, observed.at)
       IN  IF local > claimed THEN local ELSE claimed

Ceiling(k) == (WeightPerMinute * ShareOf[Class[k]]) \div 100

(* admit refuses on a ban, a cooldown, a full order window or a class's    *)
(* spent share of the weight.                                              *)
CallAdmissible(k) ==
  /\ ~banned /\ callNow >= refuseUntil
  /\ k \in Placing => Len(Slots) < OrderRate
  /\ UsedWeight + Weight[k] <= Ceiling(k)

(* observe, of the metadata m the recorder holds. *)
ObserveResponse(m) ==
  IF m = None THEN UNCHANGED <<observed, refuseUntil, banned>>
  ELSE /\ observed' = IF m.used = None THEN observed ELSE [used |-> m.used, at |-> callNow]
       /\ banned' = (banned \/ m.status = 418)
       /\ refuseUntil' = IF m.status # 429 THEN refuseUntil
                         ELSE callNow + (IF m.retry = None THEN WeightWindow ELSE m.retry)

-----------------------------------------------------------------------------
CallsInit ==
  /\ callNow = 0 /\ orderSlots = <<>> /\ charged = <<>> /\ observed = None
  /\ refuseUntil = 0 /\ banned = FALSE /\ latest = None /\ body = None
  /\ stage = [k \in Callers |-> "idle"] /\ sent = <<>> /\ misread = FALSE

CallClock == /\ callNow < MaxCallTime /\ callNow' = callNow + 1
         /\ UNCHANGED <<governor, latest, body, stage, sent, misread>>

(* call, up to its await: admit charges the budgets, the exchange clears   *)
(* the body slot and the request goes out.  A refused call changes nothing *)
(* that a later one would see.                                             *)
Admit(k) ==
  /\ stage[k] = "idle" /\ CallAdmissible(k) /\ Len(sent) < MaxCalls
  /\ orderSlots' = IF k \in Placing THEN Append(Slots, callNow) ELSE Slots
  /\ charged' = Append(Charges, [at |-> callNow, weight |-> Weight[k]])
  /\ observed' = IF observed = None \/ Expired(observed.at, WeightWindow) THEN None
                 ELSE observed
  /\ refuseUntil' = 0
  /\ body' = None
  /\ stage' = [stage EXCEPT ![k] = "sent"]
  /\ sent' = Append(sent, [by |-> k, at |-> callNow])
  /\ UNCHANGED <<callNow, banned, latest, misread>>

(* The response's status and headers arrive: on_request_end. *)
Headers(k) ==
  /\ stage[k] = "sent"
  /\ stage' = [stage EXCEPT ![k] = "headers"]
  /\ latest' \in {m \in Metadata : m.of = k}
  /\ UNCHANGED <<callNow, governor, body, sent, misread>>

(* The body has been read: ccxt records it, call returns it, and the       *)
(* finally observes the metadata.                                          *)
Answer(k) ==
  /\ stage[k] = "headers"
  /\ stage' = [stage EXCEPT ![k] = "idle"]
  /\ body' = k
  /\ ObserveResponse(latest)
  /\ UNCHANGED <<callNow, orderSlots, charged, latest, sent, misread>>

(* Mutation of Fail: only a call that returns is observed. *)
Fail_Unobserved(k) ==
  /\ stage[k] \in {"sent", "headers"}
  /\ stage' = [stage EXCEPT ![k] = "idle"]
  /\ misread' \in {misread, misread \/ body # None}
  /\ UNCHANGED <<callNow, governor, latest, body, sent>>

(* The transport fails before the body is read: call returns what the slot *)
(* holds or raises VenueTransportError, or it is cancelled and raises; the *)
(* finally observes the metadata there is.                                 *)
Fail(k) ==
  /\ stage[k] \in {"sent", "headers"}
  /\ stage' = [stage EXCEPT ![k] = "idle"]
  /\ misread' \in {misread, misread \/ body # None}
  /\ ObserveResponse(latest)
  /\ UNCHANGED <<callNow, orderSlots, charged, latest, body, sent>>

CallsNext == CallClock \/ \E k \in Callers : Admit(k) \/ Headers(k) \/ Answer(k) \/ Fail(k)

CallsSpec == CallsInit /\ [][CallsNext]_callVars

-----------------------------------------------------------------------------
(* Every variable keeps its type, and the order slots are never more than  *)
(* the venue's limit.                                                      *)
CallsTypeOK ==
  /\ callNow \in CallTimes
  /\ orderSlots \in Seq(CallTimes) /\ Len(orderSlots) <= OrderRate
  /\ charged \in Seq([at : CallTimes, weight : Nat])
  /\ observed \in {None} \cup [used : UsedWeights, at : CallTimes]
  /\ refuseUntil \in Nat /\ banned \in BOOLEAN
  /\ latest \in {None} \cup Metadata /\ body \in {None} \cup Callers
  /\ stage \in [Callers -> {"idle", "sent", "headers"}]
  /\ sent \in Seq([by : Callers, at : CallTimes]) /\ Len(sent) <= MaxCalls
  /\ misread \in BOOLEAN

(* The requests sent by callers in K between two instants. *)
SentWithin(K, from, to) ==
  {i \in 1..Len(sent) : sent[i].by \in K /\ from <= sent[i].at /\ sent[i].at <= to}

(* No window of the order interval, wherever it begins, holds more orders  *)
(* than the venue takes (admit's rolling window).                          *)
OrderRateHeld ==
  \A t \in CallTimes :
    Cardinality(SentWithin(Placing, t, t + OrderWindow - 1)) <= OrderRate

(* A request is admitted only if our own requests of the weight window,    *)
(* itself included, stay within its class's share, whatever the headers    *)
(* claim, however stale the metadata they were read from                   *)
(* (used_request_weight takes the larger of two incomplete counts).        *)
ChargeOf(request) == [at |-> request.at, weight |-> Weight[request.by]]
ShareHeld ==
  \A i \in 1..Len(sent) :
    TotalSince([n \in 1..i |-> ChargeOf(sent[n])], sent[i].at - WeightWindow + 1)
      <= Ceiling(sent[i].by)

(* The shared governor keeps the account inside both budgets of the venue  *)
(* (VenueRateGovernor).                                                    *)
BudgetsHeld == OrderRateHeld /\ ShareHeld

(* A ban is acted on even when the call it answered then fails, as long as *)
(* no other response has overwritten it (call's finally).                  *)
BanSeen ==
  [][\A k \in Callers :
       stage[k] # "idle" /\ stage'[k] = "idle" /\ latest # None =>
         (latest.of = k /\ latest.status = 418 => banned')]_callVars

(* What GuardedCcxtExchange.call says of clearing the slot first: a call   *)
(* never returns another call's response.                                  *)
AnswerIsOwn == ~misread
=============================================================================
