-------------------------- MODULE OrderRouterProofs --------------------------
(***************************************************************************)
(* Proofs about OrderRouter for any venues, fallback list, concurrency cap *)
(* and connector abilities.                                                *)
(***************************************************************************)
EXTENDS OrderRouter, SequenceTheorems, TLAPS

(* PlaceFallback has tried only venues it has reached in the route, one at *)
(* a time and none after a success; nothing was tried before it started;   *)
(* what is answered as filled is filled and only such fills are logged.    *)
Visited(v) == \E j \in DOMAIN Route : j <= at /\ Route[j] = v
TriedAreVisited ==
  Fallback \/ call = "fallback" => \A v \in Venues : attempt[v] = "none" \/ Visited(v)
OneAtATime ==
  Fallback => \A v, w \in Venues :
                (Active(v) \/ Succeeded(v)) /\ (Active(w) \/ Succeeded(w)) => v = w
NothingQueued == Fallback => \A v \in Venues : attempt[v] # "queued"
FallbackPhase ==
  /\ call = "ready" => at = 0 /\ \A v \in Venues : attempt[v] = "none"
  /\ call = "parallel" => at = 0
AnswersAreTrue == \A v \in Venues : answer[v] = "filled" => order[v] = "filled"

RouterIInv ==
  /\ RouterTypeOK /\ TriedAreVisited /\ OneAtATime /\ NothingQueued /\ FallbackPhase
  /\ AnswersAreTrue /\ LedgerIsReal

----------------------------------------------------------------------------
(* The route is a sequence of venues.                                      *)
LEMMA RouteIsSeq == Route \in Seq(Venues) /\ DOMAIN Route \subseteq Nat \ {0}
<1>1. <<Primary>> \in Seq(Venues)
  BY RouterAssumption
<1>2. Route \in Seq(Venues)
  BY <1>1, RouterAssumption, ConcatProperties DEF Route
<1>3. DOMAIN Route = 1..Len(Route) /\ Len(Route) \in Nat
  BY <1>2, LenProperties
<1> QED BY <1>2, <1>3

(* Nothing is tried, ordered or logged at the start.                       *)
LEMMA InitRouterIInv == RouterInit => RouterIInv
<1> SUFFICES ASSUME RouterInit PROVE RouterIInv
  OBVIOUS
<1> USE DEF RouterInit
<1>1. RouterTypeOK
  BY DEF RouterTypeOK, AttemptMatchesOrder
<1>2. TriedAreVisited /\ OneAtATime /\ NothingQueued /\ FallbackPhase
  BY DEF TriedAreVisited, Fallback, OneAtATime, NothingQueued, FallbackPhase
<1>3. AnswersAreTrue /\ LedgerIsReal
  BY DEF AnswersAreTrue, LedgerIsReal
<1> QED BY <1>1, <1>2, <1>3 DEF RouterIInv

(* A step of placeOne keeps the invariant: it moves its own attempt on,    *)
(* never to "none" or "queued" nor from an inactive state, and its order   *)
(* with it.                                                                *)
LEMMA PlaceOneKeeps ==
  ASSUME RouterIInv, NEW v \in Venues, PlaceOne(v)
  PROVE  RouterIInv'
<1> USE DEF RouterIInv, RouterTypeOK
<1>1. /\ UNCHANGED <<call, at, ledger, sweepVars, ctxDone, excused>>
      /\ Active(v)
      /\ \A w \in Venues \ {v} : attempt'[w] = attempt[w] /\ order'[w] = order[w]
                                  /\ answer'[w] = answer[w]
      /\ attempt'[v] \in {"sent", "cancel", "ok", "failed"}
  BY DEF PlaceOne, NotSent, Send, Answered, Rejected, RejectionPasses, AnswerLost, SlowCancel,
         AfterAnswer, Active, venueVars, sweepVars
<1>2. /\ attempt' \in [Venues -> {"none", "queued", "limiter", "sent", "cancel", "ok", "failed"}]
      /\ order' \in [Venues -> {"none", "requested", "open", "filled", "rejected", "canceled"}]
      /\ answer' \in [Venues -> {"none", "open", "filled"}]
      /\ lost' \in SUBSET Venues /\ lost \subseteq lost' /\ lost' \subseteq lost \cup {v}
  <2>1. CASE NotSent(v) \/ Rejected(v) \/ AnswerLost(v)
    BY <2>1 DEF NotSent, Rejected, AnswerLost, venueVars
  <2>2. CASE Send(v)
    BY <2>2 DEF Send
  <2>5. CASE RejectionPasses(v)
    BY <2>5 DEF RejectionPasses, venueVars
  <2>3. CASE Answered(v)
    BY <2>3 DEF Answered, AfterAnswer, venueVars
  <2>4. CASE SlowCancel(v)
    BY <2>4 DEF SlowCancel
  <2> QED BY <2>1, <2>2, <2>3, <2>4, <2>5 DEF PlaceOne
<1>3. AttemptMatchesOrder(v)'
  BY DEF PlaceOne, NotSent, Send, Answered, Rejected, RejectionPasses, AnswerLost, SlowCancel,
         AfterAnswer, AttemptMatchesOrder, venueVars
<1>4. \A w \in Venues \ {v} : AttemptMatchesOrder(w)'
  BY <1>1, <1>2 DEF AttemptMatchesOrder
<1>5. RouterTypeOK'
  BY <1>1, <1>2, <1>3, <1>4 DEF sweepVars
<1>6. TriedAreVisited'
  BY <1>1 DEF TriedAreVisited, Fallback, Visited, Active
<1>7. OneAtATime'
  BY <1>1 DEF OneAtATime, Fallback, Active, Succeeded
<1>8. NothingQueued' /\ FallbackPhase'
  BY <1>1 DEF NothingQueued, FallbackPhase, Fallback, Active
<1>9. order[v] = "filled" => order'[v] = "filled"
  BY DEF PlaceOne, NotSent, Send, Answered, Rejected, RejectionPasses, AnswerLost, SlowCancel,
         venueVars, AttemptMatchesOrder
<1>10. AnswersAreTrue' /\ LedgerIsReal'
  <2>1. answer'[v] = "filled" => order'[v] = "filled"
    BY <1>9 DEF PlaceOne, NotSent, Send, Answered, Rejected, RejectionPasses, AnswerLost,
                SlowCancel, venueVars, AnswersAreTrue
  <2> QED BY <1>1, <1>9, <2>1 DEF AnswersAreTrue, LedgerIsReal
<1> QED BY <1>5, <1>6, <1>7, <1>8, <1>10

(* The next venue of the route has not been tried: its first mention comes *)
(* after every position reached so far.                                    *)
LEMMA TryNextKeeps ==
  ASSUME RouterIInv, TryNext
  PROVE  RouterIInv'
<1> USE RouterAssumption, RouteIsSeq DEF RouterIInv
<1>1. PICK i \in StillToTry : at' = i /\ attempt' = [attempt EXCEPT ![Route[i]] = "limiter"]
  BY DEF TryNext
<1>2. i \in DOMAIN Route /\ i \in Nat \ {0} /\ i > at /\ Route[i] \in Venues
      /\ \A j \in 1..(i - 1) : Route[j] # Route[i]
  BY DEF StillToTry, FirstMentions
<1>3. attempt[Route[i]] = "none"
  BY <1>2 DEF TryNext, TriedAreVisited, Visited, RouterTypeOK
<1>4. RouterTypeOK'
  <2>1. \A v \in Venues : AttemptMatchesOrder(v)'
    BY <1>1, <1>2, <1>3 DEF TryNext, RouterTypeOK, AttemptMatchesOrder, venueVars
  <2> QED BY <1>1, <1>2, <2>1 DEF TryNext, RouterTypeOK, venueVars, sweepVars
<1>5. TriedAreVisited'
  BY <1>1, <1>2 DEF TryNext, TriedAreVisited, Visited, RouterTypeOK
<1>6. OneAtATime' /\ NothingQueued'
  <2>1. \A v \in Venues : attempt[v] # "queued"
    BY DEF TryNext, NothingQueued, TriedAreVisited, Visited, Fallback, RouterTypeOK
  <2>2. \A v \in Venues : Active(v)' \/ Succeeded(v)' => v = Route[i]
    BY <1>1, <1>2 DEF TryNext, Active, Succeeded, RouterTypeOK
  <2> QED BY <1>1, <1>2, <2>1, <2>2 DEF OneAtATime, NothingQueued, RouterTypeOK
<1>7. FallbackPhase' /\ AnswersAreTrue' /\ LedgerIsReal'
  BY DEF TryNext, FallbackPhase, AnswersAreTrue, LedgerIsReal, venueVars
<1> QED BY <1>4, <1>5, <1>6, <1>7

(* No step of the router, the venues or the nuke breaks the invariant.     *)
LEMMA NextRouterIInv == RouterIInv /\ [RouterNext]_routerVars => RouterIInv'
<1> SUFFICES ASSUME RouterIInv, [RouterNext]_routerVars PROVE RouterIInv'
  OBVIOUS
<1> USE DEF RouterIInv
<1>1. CASE StartFallback
  BY <1>1
  DEF StartFallback, venueVars, sweepVars, RouterTypeOK, AttemptMatchesOrder, TriedAreVisited,
      Fallback, Visited, OneAtATime, Active, Succeeded, NothingQueued, FallbackPhase,
      AnswersAreTrue, LedgerIsReal
<1>2. CASE StartParallel
  <2> USE <1>2 DEF StartParallel
  <2>1. at = 0 /\ at' = 0 /\ call' = "parallel"
    BY DEF FallbackPhase
  <2>2. \A v \in Venues : attempt[v] = "none" /\ attempt'[v] \in {"none", "queued"}
    BY DEF FallbackPhase
  <2>3. RouterTypeOK'
    BY <2>1, <2>2 DEF RouterTypeOK, AttemptMatchesOrder, venueVars, sweepVars
  <2>4. TriedAreVisited' /\ OneAtATime' /\ NothingQueued' /\ FallbackPhase'
    BY <2>1 DEF TriedAreVisited, OneAtATime, NothingQueued, FallbackPhase, Fallback
  <2>5. AnswersAreTrue' /\ LedgerIsReal'
    BY DEF AnswersAreTrue, LedgerIsReal, venueVars
  <2> QED BY <2>3, <2>4, <2>5
<1>3. CASE TryNext
  BY <1>3, TryNextKeeps
<1>4. CASE FallbackReturns \/ ParallelReturns
  BY <1>4
  DEF FallbackReturns, ParallelReturns, venueVars, sweepVars, RouterTypeOK,
      AttemptMatchesOrder, TriedAreVisited, Fallback, Visited, OneAtATime, Active, Succeeded,
      NothingQueued, FallbackPhase, AnswersAreTrue, LedgerIsReal
<1>5. CASE Record
  <2> USE <1>5 DEF Record
  <2>1. RouterTypeOK'
    BY DEF venueVars, sweepVars, RouterTypeOK, AttemptMatchesOrder
  <2>2. TriedAreVisited' /\ OneAtATime' /\ NothingQueued' /\ FallbackPhase'
    BY DEF venueVars, TriedAreVisited, Fallback, Visited, OneAtATime, Active, Succeeded,
           NothingQueued, FallbackPhase
  <2>3. AnswersAreTrue' /\ LedgerIsReal'
    BY DEF venueVars, AnswersAreTrue, LedgerIsReal
  <2> QED BY <2>1, <2>2, <2>3
<1>6. ASSUME NEW v \in Venues, TakeSlot(v) PROVE RouterIInv'
  <2> USE <1>6 DEF TakeSlot
  <2>1. ~Fallback /\ call # "ready" /\ call # "fallback"
    BY RouteIsSeq
    DEF NothingQueued, FallbackPhase, TriedAreVisited, Visited, Fallback, RouterTypeOK
  <2>2. RouterTypeOK'
    BY DEF venueVars, sweepVars, RouterTypeOK, AttemptMatchesOrder
  <2>3. TriedAreVisited' /\ OneAtATime' /\ NothingQueued' /\ FallbackPhase'
    BY <2>1 DEF TriedAreVisited, Fallback, OneAtATime, NothingQueued, FallbackPhase
  <2>4. AnswersAreTrue' /\ LedgerIsReal'
    BY DEF venueVars, AnswersAreTrue, LedgerIsReal
  <2> QED BY <2>2, <2>3, <2>4
<1>7. ASSUME NEW v \in Venues, PlaceOne(v) PROVE RouterIInv'
  BY <1>7, PlaceOneKeeps
<1>8. ASSUME NEW v \in Venues, AcceptRequest(v) \/ FillOpen(v) \/ SweepVenue(v)
      PROVE  RouterIInv'
  <2>1. UNCHANGED callVars /\ UNCHANGED ctxDone
    BY <1>8 DEF AcceptRequest, FillOpen, SweepVenue
  <2>2. \A w \in Venues \ {v} : order'[w] = order[w]
    BY <1>8 DEF AcceptRequest, FillOpen, SweepVenue, RouterTypeOK
  <2>3. \/ order'[v] = order[v]
        \/ order[v] = "requested" /\ order'[v] \in {"open", "filled", "rejected"}
        \/ order[v] = "open" /\ order'[v] \in {"filled", "canceled"}
    BY <1>8 DEF AcceptRequest, FillOpen, SweepVenue, RouterTypeOK
  <2>4. /\ order' \in [Venues -> {"none", "requested", "open", "filled", "rejected",
                                 "canceled"}]
        /\ sweep' \in {"idle", "running", "done"} /\ toSweep' \in SUBSET Venues
        /\ excused' \in SUBSET Venues
    BY <1>8 DEF AcceptRequest, FillOpen, SweepVenue, RouterTypeOK, sweepVars
  <2>5. RouterTypeOK'
    BY <2>1, <2>2, <2>3, <2>4 DEF callVars, RouterTypeOK, AttemptMatchesOrder
  <2>6. TriedAreVisited' /\ OneAtATime' /\ NothingQueued' /\ FallbackPhase'
    BY <2>1 DEF callVars, TriedAreVisited, Fallback, Visited, OneAtATime, Active, Succeeded,
                NothingQueued, FallbackPhase
  <2>7. AnswersAreTrue' /\ LedgerIsReal'
    BY <2>1, <2>2, <2>3 DEF callVars, RouterTypeOK, AnswersAreTrue, LedgerIsReal
  <2> QED BY <2>5, <2>6, <2>7
<1>9. CASE StartSweep \/ EndSweep \/ StopContext \/ Settled \/ UNCHANGED routerVars
  <2> USE <1>9 DEF StartSweep, EndSweep, StopContext, Settled, routerVars, callVars, venueVars,
                   sweepVars
  <2>1. RouterTypeOK'
    BY DEF RouterTypeOK, AttemptMatchesOrder
  <2>2. TriedAreVisited' /\ OneAtATime' /\ NothingQueued' /\ FallbackPhase'
    BY DEF TriedAreVisited, Fallback, Visited, OneAtATime, Active, Succeeded, NothingQueued,
           FallbackPhase
  <2>3. AnswersAreTrue' /\ LedgerIsReal'
    BY DEF AnswersAreTrue, LedgerIsReal
  <2> QED BY <2>1, <2>2, <2>3
<1> QED
  BY <1>1, <1>2, <1>3, <1>4, <1>5, <1>6, <1>7, <1>8, <1>9
  DEF RouterNext, RouterStep, VenueStep, SweepStep
----------------------------------------------------------------------------
(* The inductive invariant holds throughout every behaviour.               *)
LEMMA RouterInvariant == RouterSafety => []RouterIInv
  BY InitRouterIInv, NextRouterIInv, PTL DEF RouterSafety

(* Every variable keeps its type, and what the router knows of each venue  *)
(* fits what is there.                                                     *)
THEOREM RouterTypeCorrect == RouterSafety => []RouterTypeOK
<1>1. RouterIInv => RouterTypeOK
  BY DEF RouterIInv
<1> QED BY <1>1, RouterInvariant, PTL

(* PlaceFallback duplicates an order only over a lost answer.              *)
THEOREM FallbackPlacesOnce == RouterSafety => []OneKnownOrder
<1>1. RouterIInv => OneKnownOrder
  <2> SUFFICES ASSUME RouterIInv, Fallback, NEW v \in Venues \ lost, NEW w \in Venues \ lost,
                      AtVenue(v), AtVenue(w)
               PROVE  v = w
    BY DEF OneKnownOrder
  <2>1. (Active(v) \/ Succeeded(v)) /\ (Active(w) \/ Succeeded(w))
    BY DEF RouterIInv, RouterTypeOK, AttemptMatchesOrder, NothingQueued, AtVenue, Active,
           Succeeded
  <2> QED BY <2>1 DEF RouterIInv, OneAtATime
<1> QED BY <1>1, RouterInvariant, PTL

(* Only fills that happened are logged and tracked.                        *)
THEOREM OnlyFillsAreLogged == RouterSafety => []LedgerIsReal
<1>1. RouterIInv => LedgerIsReal
  BY DEF RouterIInv
<1> QED BY <1>1, RouterInvariant, PTL

----------------------------------------------------------------------------
(* CancelAllVenues.  Connectors are left to call only while it runs; one   *)
(* it has called has no order working, and an order that comes to work     *)
(* there later is excused.                                                 *)
SweepPhase == sweep # "running" => toSweep = {}
SweptAreClosed ==
  sweep # "idle" => \A v \in Canceling \ (excused \cup toSweep) : order[v] # "open"

(* No attempt, venue or connector that fails breaks it.                    *)
LEMMA NextKeepsSwept ==
  ASSUME RouterIInv, SweepPhase, SweptAreClosed, [RouterNext]_routerVars
  PROVE  SweepPhase' /\ SweptAreClosed'
<1> USE RouterAssumption DEF RouterIInv, RouterTypeOK, SweepPhase, SweptAreClosed
<1>1. ASSUME UNCHANGED <<sweep, toSweep, excused>>,
             \A v \in Venues : order'[v] = "open" => order[v] = "open"
      PROVE  SweepPhase' /\ SweptAreClosed'
  BY <1>1
<1>2. CASE StartFallback \/ StartParallel \/ TryNext \/ FallbackReturns \/ ParallelReturns \/ Record
  BY <1>1, <1>2 DEF StartFallback, StartParallel, TryNext, FallbackReturns, ParallelReturns, Record,
                    venueVars, sweepVars
<1>3. ASSUME NEW v \in Venues, TakeSlot(v) \/ PlaceOne(v) \/ FillOpen(v)
      PROVE  SweepPhase' /\ SweptAreClosed'
  BY <1>1, <1>3 DEF TakeSlot, PlaceOne, NotSent, Send, Answered, Rejected, RejectionPasses,
                    AnswerLost, SlowCancel, FillOpen, venueVars, sweepVars
<1>4. ASSUME NEW v \in Venues, AcceptRequest(v) PROVE SweepPhase' /\ SweptAreClosed'
  BY <1>4 DEF AcceptRequest, sweepVars
<1>5. ASSUME NEW v \in Venues, SweepVenue(v) PROVE SweepPhase' /\ SweptAreClosed'
  BY <1>5 DEF SweepVenue
<1>6. CASE StartSweep \/ EndSweep
  BY <1>6 DEF StartSweep, EndSweep, venueVars
<1>7. CASE StopContext \/ Settled \/ UNCHANGED routerVars
  BY <1>1, <1>7 DEF StopContext, Settled, routerVars, venueVars, sweepVars
<1> QED BY <1>2, <1>3, <1>4, <1>5, <1>6, <1>7 DEF RouterNext, RouterStep, VenueStep, SweepStep

(* CancelAllVenues leaves no order working at a venue that can cancel,     *)
(* whichever connectors fail and whatever is placed meanwhile, the failed  *)
(* connectors and the orders that came after them aside.                   *)
THEOREM SweepSparesNoVenue == RouterSafety => []SweepReachesAll
<1> DEFINE Inv == RouterIInv /\ SweepPhase /\ SweptAreClosed
<1>1. RouterInit => Inv
  BY InitRouterIInv DEF RouterInit, SweepPhase, SweptAreClosed
<1>2. Inv /\ [RouterNext]_routerVars => Inv'
  BY NextRouterIInv, NextKeepsSwept
<1>3. Inv => SweepReachesAll
  BY DEF SweepPhase, SweptAreClosed, SweepReachesAll
<1> QED BY <1>1, <1>2, <1>3, PTL DEF RouterSafety
=============================================================================
