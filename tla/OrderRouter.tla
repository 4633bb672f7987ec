----------------------------- MODULE OrderRouter -----------------------------
(***************************************************************************)
(* execution.Router placing one order intent for Runner.placeOrder in live *)
(* mode: PlaceFallback along the venue chain (and PlaceParallel, which the *)
(* router also offers), the venues the requests go to, and the nuke's      *)
(* CancelAllVenues running beside it.                                      *)
(*                                                                         *)
(* Time is abstract: an answer may come in time, after HardCancelMs (slow) *)
(* or not before the deadline; an order has one lot, filled or not.        *)
(***************************************************************************)
EXTENDS Naturals, Sequences, FiniteSets

CONSTANTS
  Venues,
  Primary,      \* the intent's own venue
  Fallbacks,    \* execution.router_fallback_venues, in order
  MaxPar,       \* concurrency cap of PlaceParallel
  HardCancel,   \* execution.latency_cancel_ms > 0
  Reporting,    \* venues whose connector reports fills in its answer
  Canceling,    \* venues whose connector implements CancelAll
  Lenient       \* venues that reject in a 2xx body their connector takes for an order

ASSUME RouterAssumption ==
  /\ Primary \in Venues /\ Fallbacks \in Seq(Venues)
  /\ MaxPar \in Nat \ {0} /\ HardCancel \in BOOLEAN
  /\ Reporting \subseteq Venues /\ Canceling \subseteq Venues /\ Lenient \subseteq Venues

VARIABLES
  call,         \* "ready", "fallback", "parallel", "returned", "done"
  at,           \* position in Route of the venue PlaceFallback tried last
  attempt,      \* placeOne per venue: "none", "queued", "limiter", "sent",
                \* "cancel", "ok", "failed"
  order,        \* at the venue: "none", "requested", "open", "filled",
                \* "rejected", "canceled"
  answer,       \* the order state the connector returned: "none", "open", "filled"
  lost,         \* history: attempts that failed with the request on its way
  ledger,       \* venues whose fill was logged and tracked
  ctxDone,      \* the loop's context is done
  sweep,        \* CancelAllVenues: "idle", "running", "done"
  toSweep,      \* connectors it has yet to call
  excused       \* history: CancelAll failed there, or an order came after it

venueVars == <<order, excused>>
sweepVars == <<sweep, toSweep>>
callVars == <<call, at, attempt, answer, lost, ledger>>
routerVars == <<callVars, venueVars, sweepVars, ctxDone>>

Active(v) == attempt[v] \in {"limiter", "sent", "cancel"}
Succeeded(v) == attempt[v] = "ok"

(* What the router knows of a venue fits what is there: nothing is sent    *)
(* before the limiter, a successful attempt has an order (or, at a lenient *)
(* venue, was rejected), and a failed one has none unless its answer was   *)
(* lost.                                                                   *)
AttemptMatchesOrder(v) ==
  /\ attempt[v] \in {"none", "queued", "limiter"} => order[v] = "none"
  /\ attempt[v] = "sent" => order[v] # "none"
  /\ attempt[v] \in {"cancel", "ok"} =>
       \/ order[v] \in {"open", "filled", "canceled"}
       \/ attempt[v] = "ok" /\ v \in Lenient /\ order[v] = "rejected"
  /\ attempt[v] = "failed" /\ v \notin lost => order[v] \in {"none", "rejected"}

RouterTypeOK ==
  /\ call \in {"ready", "fallback", "parallel", "returned", "done"}
  /\ at \in Nat
  /\ attempt \in [Venues -> {"none", "queued", "limiter", "sent", "cancel", "ok", "failed"}]
  /\ order \in [Venues -> {"none", "requested", "open", "filled", "rejected", "canceled"}]
  /\ answer \in [Venues -> {"none", "open", "filled"}]
  /\ lost \in SUBSET Venues /\ ledger \in SUBSET Venues
  /\ ctxDone \in BOOLEAN
  /\ sweep \in {"idle", "running", "done"} /\ toSweep \in SUBSET Venues
  /\ excused \in SUBSET Venues
  /\ \A v \in Venues : AttemptMatchesOrder(v)

RouterInit ==
  /\ call = "ready" /\ at = 0
  /\ attempt = [v \in Venues |-> "none"]
  /\ order = [v \in Venues |-> "none"]
  /\ answer = [v \in Venues |-> "none"]
  /\ lost = {} /\ ledger = {} /\ ctxDone = FALSE
  /\ sweep = "idle" /\ toSweep = {} /\ excused = {}

----------------------------------------------------------------------------
(* executionVenueChain and dedupeVenues: the primary venue, then the       *)
(* fallbacks, a venue counted where it is first mentioned.                 *)
Route == <<Primary>> \o Fallbacks

FirstMentions == {i \in DOMAIN Route : \A j \in 1..(i - 1) : Route[j] # Route[i]}
StillToTry == {i \in FirstMentions : i > at}

StartFallback ==
  /\ call = "ready" /\ call' = "fallback"
  /\ UNCHANGED <<at, attempt, answer, lost, ledger, venueVars, sweepVars, ctxDone>>

(* Plausible bug: the loop does not stop at the first success. *)
TryNextAnyway ==
  /\ call = "fallback" /\ \A v \in Venues : ~Active(v)
  /\ \E i \in StillToTry :
       /\ \A j \in StillToTry : i <= j
       /\ at' = i /\ attempt' = [attempt EXCEPT ![Route[i]] = "limiter"]
  /\ UNCHANGED <<call, answer, lost, ledger, venueVars, sweepVars, ctxDone>>

TryNext ==
  /\ call = "fallback" /\ \A v \in Venues : ~Active(v) /\ ~Succeeded(v)
  /\ \E i \in StillToTry :
       /\ \A j \in StillToTry : i <= j
       /\ at' = i /\ attempt' = [attempt EXCEPT ![Route[i]] = "limiter"]
  /\ UNCHANGED <<call, answer, lost, ledger, venueVars, sweepVars, ctxDone>>

FallbackReturns ==
  /\ call = "fallback" /\ \A v \in Venues : ~Active(v)
  /\ StillToTry = {} \/ \E v \in Venues : Succeeded(v)
  /\ call' = "returned"
  /\ UNCHANGED <<at, attempt, answer, lost, ledger, venueVars, sweepVars, ctxDone>>

(* One goroutine per venue, which first takes a slot of the semaphore. *)
StartParallel ==
  /\ call = "ready" /\ call' = "parallel"
  /\ attempt' = [v \in Venues |-> IF \E i \in FirstMentions : Route[i] = v
                                  THEN "queued" ELSE "none"]
  /\ UNCHANGED <<at, answer, lost, ledger, venueVars, sweepVars, ctxDone>>

TakeSlot(v) ==
  /\ attempt[v] = "queued"
  /\ Cardinality({w \in Venues : Active(w)}) < MaxPar
  /\ attempt' = [attempt EXCEPT ![v] = "limiter"]
  /\ UNCHANGED <<call, at, answer, lost, ledger, venueVars, sweepVars, ctxDone>>

ParallelReturns ==
  /\ call = "parallel" /\ \A v \in Venues : ~Active(v) /\ attempt[v] # "queued"
  /\ call' = "done"
  /\ UNCHANGED <<at, attempt, answer, lost, ledger, venueVars, sweepVars, ctxDone>>

----------------------------------------------------------------------------
(* placeOne *)

(* Plausible bug: the limiter's error is not checked. *)
NotSentIgnored(v) ==
  /\ attempt[v] = "limiter"
  /\ attempt' = [attempt EXCEPT ![v] = "failed"]
  /\ order' = [order EXCEPT ![v] = "requested"]
  /\ UNCHANGED <<call, at, answer, lost, ledger, excused, sweepVars, ctxDone>>

(* The limiter refuses (context done, or the deadline would pass first), no *)
(* connector is registered, or the connector does not place orders.        *)
NotSent(v) ==
  /\ attempt[v] = "limiter"
  /\ attempt' = [attempt EXCEPT ![v] = "failed"]
  /\ UNCHANGED <<call, at, answer, lost, ledger, venueVars, sweepVars, ctxDone>>

Send(v) ==
  /\ attempt[v] = "limiter" /\ ~ctxDone
  /\ attempt' = [attempt EXCEPT ![v] = "sent"]
  /\ order' = [order EXCEPT ![v] = "requested"]
  /\ UNCHANGED <<call, at, answer, lost, ledger, excused, sweepVars, ctxDone>>

(* Past HardCancelMs an order that has an exchange id is cancelled.        *)
AfterAnswer == IF HardCancel THEN {"ok", "cancel"} ELSE {"ok"}

(* Plausible bug: a fill that has not happened is reported. *)
AnsweredFilled(v) ==
  /\ attempt[v] = "sent" /\ order[v] \in {"open", "filled", "canceled"}
  /\ \E a \in AfterAnswer : attempt' = [attempt EXCEPT ![v] = a]
  /\ answer' = [answer EXCEPT ![v] = "filled"]
  /\ UNCHANGED <<call, at, lost, ledger, venueVars, sweepVars, ctxDone>>

(* The answer tells the state at the time the venue wrote it. A body that  *)
(* a lenient connector cannot read is an order without an id: no cancel.   *)
Answered(v) ==
  /\ attempt[v] = "sent" /\ order[v] \in {"open", "filled", "canceled"}
  /\ \E a \in AfterAnswer : attempt' = [attempt EXCEPT ![v] = a]
  /\ \E s \in {"open"} \cup (IF v \in Reporting THEN {order[v]} \ {"canceled"} ELSE {}) :
       answer' = [answer EXCEPT ![v] = s]
  /\ UNCHANGED <<call, at, lost, ledger, venueVars, sweepVars, ctxDone>>

Rejected(v) ==
  /\ attempt[v] = "sent" /\ order[v] = "rejected"
  /\ attempt' = [attempt EXCEPT ![v] = "failed"]
  /\ UNCHANGED <<call, at, answer, lost, ledger, venueVars, sweepVars, ctxDone>>

(* A lenient venue's connector makes of the rejection an open order without *)
(* an id: the router takes it as placed, and cancels nothing.              *)
RejectionPasses(v) ==
  /\ attempt[v] = "sent" /\ order[v] = "rejected" /\ v \in Lenient
  /\ attempt' = [attempt EXCEPT ![v] = "ok"]
  /\ answer' = [answer EXCEPT ![v] = "open"]
  /\ UNCHANGED <<call, at, lost, ledger, venueVars, sweepVars, ctxDone>>

(* Plausible bug: the attempt has no deadline and waits for the venue. *)
AnswerAwaited(v) ==
  /\ attempt[v] = "sent" /\ (order[v] # "requested" \/ ctxDone)
  /\ attempt' = [attempt EXCEPT ![v] = "failed"] /\ lost' = lost \cup {v}
  /\ UNCHANGED <<call, at, answer, ledger, venueVars, sweepVars, ctxDone>>

(* The deadline, the context, the connection or the parser turns the       *)
(* attempt into an error; the request may still reach the venue, or have.  *)
AnswerLost(v) ==
  /\ attempt[v] = "sent"
  /\ attempt' = [attempt EXCEPT ![v] = "failed"] /\ lost' = lost \cup {v}
  /\ UNCHANGED <<call, at, answer, ledger, venueVars, sweepVars, ctxDone>>

(* Plausible bug: an order cancelled for its latency counts as failed. *)
SlowCancelFails(v) ==
  /\ attempt[v] = "cancel"
  /\ attempt' = [attempt EXCEPT ![v] = "failed"]
  /\ order' \in {order, [order EXCEPT ![v] = IF @ = "open" THEN "canceled" ELSE @]}
  /\ UNCHANGED <<call, at, answer, lost, ledger, excused, sweepVars, ctxDone>>

(* The cancel for latency; its outcome is ignored and the order is         *)
(* returned as first answered.                                             *)
SlowCancel(v) ==
  /\ attempt[v] = "cancel"
  /\ attempt' = [attempt EXCEPT ![v] = "ok"]
  /\ order' \in {order, [order EXCEPT ![v] = IF @ = "open" THEN "canceled" ELSE @]}
  /\ UNCHANGED <<call, at, answer, lost, ledger, excused, sweepVars, ctxDone>>

PlaceOne(v) ==
  \/ NotSent(v) \/ Send(v) \/ AnswerLost(v)
  \/ Answered(v) \/ Rejected(v) \/ RejectionPasses(v) \/ SlowCancel(v)

----------------------------------------------------------------------------
(* placeOrder after the router returned: the fill the answer reports is    *)
(* logged and tracked for max_position_hold.  The insert may fail.         *)
Record ==
  /\ call = "returned" /\ call' = "done"
  /\ ledger' \in {{v \in Venues : answer[v] = "filled" /\ Succeeded(v)}, {}}
  /\ UNCHANGED <<at, attempt, answer, lost, venueVars, sweepVars, ctxDone>>

StopContext ==
  /\ ~ctxDone /\ ctxDone' = TRUE
  /\ UNCHANGED <<callVars, venueVars, sweepVars>>

----------------------------------------------------------------------------
(* The venues. *)

AcceptRequest(v) ==
  /\ order[v] = "requested"
  /\ \E s \in {"open", "filled", "rejected"} : order' = [order EXCEPT ![v] = s]
  /\ excused' = IF v \notin toSweep THEN excused \cup {v} ELSE excused
  /\ UNCHANGED <<callVars, sweepVars, ctxDone>>

FillOpen(v) ==
  /\ order[v] = "open" /\ order' = [order EXCEPT ![v] = "filled"]
  /\ UNCHANGED <<callVars, excused, sweepVars, ctxDone>>

----------------------------------------------------------------------------
(* CancelAllVenues, called by ConfirmNuke, which then cancels the loop.    *)

StartSweep ==
  /\ sweep = "idle" /\ sweep' = "running"
  /\ toSweep' = Venues /\ excused' = {}
  /\ UNCHANGED <<callVars, order, ctxDone>>

(* Plausible bug: the first error ends the loop. *)
SweepUntilError(v) ==
  /\ v \in toSweep
  /\ \/ /\ toSweep' = toSweep \ {v}
        /\ order' = [order EXCEPT ![v] = IF @ = "open" /\ v \in Canceling
                                         THEN "canceled" ELSE @]
        /\ UNCHANGED excused
     \/ toSweep' = {} /\ excused' = excused \cup {v} /\ UNCHANGED order
  /\ UNCHANGED <<callVars, sweep, ctxDone>>

SweepVenue(v) ==
  /\ v \in toSweep /\ toSweep' = toSweep \ {v}
  /\ \/ /\ order' = [order EXCEPT ![v] = IF @ = "open" /\ v \in Canceling
                                         THEN "canceled" ELSE @]
        /\ UNCHANGED excused
     \/ excused' = excused \cup {v} /\ UNCHANGED order
  /\ UNCHANGED <<callVars, sweep, ctxDone>>

EndSweep ==
  /\ sweep = "running" /\ toSweep = {}
  /\ sweep' = "done" /\ ctxDone' = TRUE
  /\ UNCHANGED <<callVars, venueVars, toSweep>>

----------------------------------------------------------------------------
RouterStep ==
  \/ TryNext \/ FallbackReturns \/ ParallelReturns \/ Record
  \/ \E v \in Venues : TakeSlot(v) \/ PlaceOne(v)

VenueStep == \E v \in Venues : AcceptRequest(v) \/ FillOpen(v)

SweepStep == StartSweep \/ EndSweep \/ \E v \in Venues : SweepVenue(v)

Settled == call = "done" /\ UNCHANGED routerVars

RouterNext ==
  StartFallback \/ StartParallel \/ RouterStep \/ VenueStep \/ SweepStep \/ StopContext \/ Settled

RouterSafety == RouterInit /\ [][RouterNext]_routerVars
(* Every wait of the router has a deadline; the venues owe nothing. *)
RouterSpec == RouterSafety /\ WF_routerVars(RouterStep)
----------------------------------------------------------------------------
(* Safety *)

AtVenue(v) == order[v] \in {"open", "filled"}
Fallback == at > 0

(* PlaceFallback has at most one order at the venues, those aside whose    *)
(* answer was lost: it goes on only after a venue that certainly took      *)
(* nothing, a slow order it cancelled counting as its result.              *)
OneKnownOrder ==
  Fallback => \A v, w \in Venues \ lost : AtVenue(v) /\ AtVenue(w) => v = w

(* Documented as "Use PlaceFallback to avoid duplicate live orders across  *)
(* venues" (router.go): it never has two.                                  *)
NoDuplicateLiveOrders ==
  Fallback => \A v, w \in Venues : AtVenue(v) /\ AtVenue(w) => v = w

(* What is logged as a fill and tracked for max_position_hold was filled,  *)
(* whatever cancels were sent after the answer.                            *)
LedgerIsReal == \A v \in ledger : order[v] = "filled"

(* After CancelAllVenues no order works at a venue that can cancel, unless *)
(* the call failed there or the order came after it: one venue's error     *)
(* does not spare the others.                                              *)
SweepReachesAll ==
  sweep = "done" => \A v \in Canceling \ excused : order[v] # "open"

----------------------------------------------------------------------------
(* Liveness *)

(* PlaceFallback and PlaceParallel return, whatever the venues do, nuke or *)
(* not, with more venues than slots.                                       *)
CallReturns == call \in {"fallback", "parallel"} ~> call = "done"
=============================================================================
