----------------------------- MODULE VenuesProofs -----------------------------
(***************************************************************************)
(* Proofs about Venues, for any chain, connectors, sizes and cash: the     *)
(* types; that the ledger is off the primary account by no more than its   *)
(* orders without a row; that what the equity is short of the first cash   *)
(* was spent on stock or is held for orders; and that an exit reduces what *)
(* is held where the position is, a short at OANDA aside.                  *)
(***************************************************************************)
EXTENDS Venues, TLAPS

(* What is still working counts too: it may fill, and nobody will log it.  *)
Gap == Abs(held[Primary] + elsewhere - ledger) + Abs(work[Primary]) <= silent
VenuesIInv == VenuesTypeOK /\ Gap

(* An answer tells of nothing or of what was executed when it was given.   *)
LEMMA AnswersAreTrue ==
  ASSUME NEW c \in ConnectorNames, NEW a \in OrderAnswers, NEW n \in Nat
  PROVE  /\ PlaceOrder(c, a, n).filled \in {0, n}
         /\ PlaceOrder(c, a, n).err \in BOOLEAN
         /\ PlaceOrder(c, a, n).err => PlaceOrder(c, a, n).filled = 0
<1>1. BinanceOrder(a, n).filled \in {0, n} /\ BinanceOrder(a, n).err \in BOOLEAN
      /\ (BinanceOrder(a, n).err => BinanceOrder(a, n).filled = 0)
  BY DEF BinanceOrder, Answered, Failed
<1>2. BybitOrder(a, n).filled = 0 /\ BybitOrder(a, n).err \in BOOLEAN
  BY DEF BybitOrder, Answered, Failed
<1>3. OkxOrder(a, n).filled = 0 /\ OkxOrder(a, n).err \in BOOLEAN
  BY DEF OkxOrder, Answered, Failed
<1>4. DeribitOrder(a, n).filled \in {0, n} /\ DeribitOrder(a, n).err \in BOOLEAN
      /\ (DeribitOrder(a, n).err => DeribitOrder(a, n).filled = 0)
  BY DEF DeribitOrder, Answered, Failed
<1>5. KrakenOrder(a, n).filled = 0 /\ KrakenOrder(a, n).err \in BOOLEAN
  BY DEF KrakenOrder, Answered, Failed
<1>6. CoinbaseOrder(a, n).filled = 0 /\ CoinbaseOrder(a, n).err \in BOOLEAN
  BY DEF CoinbaseOrder, Answered, Failed
<1>7. AlpacaOrder(a, n).filled = 0 /\ AlpacaOrder(a, n).err \in BOOLEAN
  BY DEF AlpacaOrder, Answered, Failed
<1>8. OandaOrder(a, n).filled \in {0, n} /\ OandaOrder(a, n).err \in BOOLEAN
      /\ (OandaOrder(a, n).err => OandaOrder(a, n).filled = 0)
  <2>1. CASE a \in Faults
    BY <2>1 DEF OandaOrder, ParseOANDAOrderCreateResponse, Arrived, Failed, Answered, Faults
  <2>2. CASE a = "accepted"
    BY <2>2 DEF OandaOrder, ParseOANDAOrderCreateResponse, Arrived, Answered, Faults
  <2>3. CASE a \in {"partial", "filled"}
    BY <2>3 DEF OandaOrder, ParseOANDAOrderCreateResponse, Arrived, Answered, Faults
  <2> QED BY <2>1, <2>2, <2>3 DEF OrderAnswers
<1>9. CcxtOrder(a, n).filled = 0 /\ CcxtOrder(a, n).err \in BOOLEAN
  BY DEF CcxtOrder, Answered, Failed
<1>10. CASE c \notin Brokers
  <2>1. PlaceOrder(c, a, n) = Failed
    BY <1>10 DEF PlaceOrder, Brokers
  <2> QED BY <2>1 DEF Failed
<1>11. CASE c \in Brokers
  <2>1. PlaceOrder(c, a, n) \in
          {BinanceOrder(a, n), BybitOrder(a, n), OkxOrder(a, n), DeribitOrder(a, n),
           KrakenOrder(a, n), CoinbaseOrder(a, n), AlpacaOrder(a, n), OandaOrder(a, n),
           CcxtOrder(a, n)}
    BY <1>11 DEF PlaceOrder, Brokers
  <2> QED BY <2>1, <1>1, <1>2, <1>3, <1>4, <1>5, <1>6, <1>7, <1>8, <1>9
<1> QED BY <1>10, <1>11

(* What a connector asks for is a number of parts. *)
LEMMA RequestedIsNat ==
  ASSUME NEW c, NEW q \in Nat PROVE Requested(c, q, Parts) \in Nat
<1>1. Parts \in Nat \ {0}
  BY VenuesAssumption
<1>2. (2 * q + Parts) \div (2 * Parts) \in Nat
  BY <1>1
<1> QED BY <1>1, <1>2 DEF Requested, OandaUnits

(* No more is executed than was ordered. *)
LEMMA ExecutedInOrder ==
  ASSUME NEW c, NEW a, NEW n \in Nat, NEW k \in Executed(c, a, n) PROVE k \in 0..n
<1>1. CASE a \in {"refused", "error", "accepted"}
  BY <1>1 DEF Executed
<1>2. CASE a = "filled"
  BY <1>2 DEF Executed
<1>3. CASE a = "partial"
  BY <1>3 DEF Executed
<1>4. CASE a \notin {"refused", "error", "accepted", "filled", "partial"}
  BY <1>4 DEF Executed
<1> QED BY <1>1, <1>2, <1>3, <1>4

(* What a fetch hands on is a number. *)
LEMMA PositionsTyped ==
  ASSUME NEW c \in ConnectorNames, NEW a \in FetchAnswers, NEW h \in Int
  PROVE  FetchPositions(c, a, h).qty \in Int
<1>1. FetchPositions(c, a, h) \in
        {NoPositions, PositionsFailed, Listed(h), Listed(0), Listed(OandaUnitsHeld(h))}
  BY DEF FetchPositions, BinancePositions, KrakenPositions, CoinbasePositions, BybitPositions,
         OkxPositions, DeribitPositions, AlpacaPositions, CcxtPositions, OandaPositions
<1>2. OandaUnitsHeld(h) \in Int
  BY DEF OandaUnitsHeld
<1> QED BY <1>1, <1>2 DEF NoPositions, PositionsFailed, Listed

(* A balance told is a number. *)
LEMMA BalancesTyped ==
  ASSUME NEW c \in ConnectorNames, NEW a \in FetchAnswers, NEW m \in Int, NEW h \in Int
  PROVE  FetchBalances(c, a, m, h).usd \in Int
<1>1. FetchBalances(c, a, m, h) \in
        {BalancesFailed, Counted(a, m), Counted(a, (m - h) + h), Counted(a, 0),
         Counted(a, IF m = h THEN m ELSE m - h)}
  BY DEF FetchBalances, BinanceBalances, BybitBalances, OkxBalances, KrakenBalances,
         CoinbaseBalances, AlpacaBalances, OandaBalances, CcxtBalances, DeribitBalances
<1> QED BY <1>1 DEF BalancesFailed, Counted

(* An answer to an unsigned request is an answer. *)
LEMMA UnsignedTyped ==
  ASSUME NEW c, NEW k, NEW a \in FetchAnswers PROVE Unsigned(c, k, a) \in FetchAnswers
  BY DEF Unsigned, FetchAnswers, Faults

(* The chain is of venues. *)
LEMMA ChainTyped == ASSUME NEW i \in 1..Len(Chain) PROVE Chain[i] \in Venues
<1>1. Chain \in Seq(Venues)
  BY VenuesAssumption
<1> QED BY <1>1

(* It has a first one. *)
LEMMA PrimaryTyped == Primary \in Venues /\ Len(Chain) \in Nat \ {0}
<1>1. Chain \in Seq(Venues) /\ Chain # <<>>
  BY VenuesAssumption
<1>2. Len(Chain) \in Nat \ {0}
  BY <1>1
<1> QED BY <1>2, ChainTyped DEF Primary

(* Before any order. *)
LEMMA InitVenues == VenuesInit => VenuesIInv
<1> SUFFICES ASSUME VenuesInit PROVE VenuesIInv
  OBVIOUS
<1>1. conn \in [Venues -> ConnectorNames]
  BY VenuesAssumption DEF VenuesInit
<1>2. /\ token \in [Venues -> {"none", "good", "late"}] /\ held = [v \in Venues |-> 0]
      /\ cash \in [Venues -> Int] /\ work = [v \in Venues |-> 0]
      /\ ledger = 0 /\ elsewhere = 0 /\ silent = 0
  BY VenuesAssumption DEF VenuesInit
<1>3. /\ keyed \in [Venues -> BOOLEAN] /\ moved \in BOOLEAN /\ told \in {"none", "ok", "failed"}
      /\ at = 0 /\ intent = Idle /\ ~Placing
  BY DEF VenuesInit, Placing
<1>4. seen \in Int /\ equity \in Int /\ sent \in Nat
  BY VenuesAssumption DEF VenuesInit
<1>5. VenuesTypeOK
  BY <1>1, <1>2, <1>3, <1>4, PrimaryTyped DEF VenuesTypeOK, Idle
<1>6. Gap
  BY <1>2, PrimaryTyped DEF Gap, Abs
<1> QED BY <1>5, <1>6 DEF VenuesIInv

(* The places of a step that is not Place that the gap can see. *)
LEMMA GapKept ==
  ASSUME Gap, UNCHANGED <<held, ledger, elsewhere, work, silent>>
  PROVE  Gap'
  BY DEF Gap

(* The next venue of the chain, or none. *)
LEMMA NextVenueTyped ==
  ASSUME VenuesTypeOK, Placing, NextVenue
  PROVE  intent' \in [side : {-1, 0, 1}, qty : Nat, reduce : BOOLEAN]
         /\ at' \in 0..Len(Chain) /\ (Placing' <=> at' > 0)
<1>1. CASE at < Len(Chain)
  BY <1>1, PrimaryTyped DEF NextVenue, VenuesTypeOK, Placing
<1>2. CASE ~(at < Len(Chain))
  <2>1. at' = 0 /\ intent' = Idle
    BY <1>2 DEF NextVenue
  <2> QED BY <2>1, PrimaryTyped DEF Placing, Idle
<1> QED BY <1>1, <1>2

(* A new intent starts at the first venue. *)
LEMMA SubmitTyped ==
  ASSUME NEW s \in {-1, 0, 1}, NEW q \in Nat \ {0}, NEW r \in BOOLEAN, VenuesIInv, Submit(s, q, r)
  PROVE  VenuesIInv'
<1>1. intent' = [side |-> s, qty |-> q, reduce |-> r] /\ at' = 1 /\ sent' = sent + 1
  BY DEF Submit
<1>2. Placing'
  <2>1. intent'.qty # Idle.qty
    BY <1>1 DEF Idle
  <2> QED BY <2>1 DEF Placing, Idle
<1>3. VenuesTypeOK'
  BY <1>1, <1>2, PrimaryTyped DEF Submit, venueVars, histVars, VenuesIInv, VenuesTypeOK
<1>4. Gap'
  BY GapKept DEF Submit, venueVars, histVars, VenuesIInv
<1> QED BY <1>3, <1>4 DEF VenuesIInv

(* A placement widens the gap by no more than it keeps silent about. *)
LEMMA PlaceKeeps ==
  ASSUME NEW a \in OrderAnswers, NEW auth, VenuesIInv, Place(a, auth) PROVE VenuesIInv'
<1> DEFINE v == Chain[at]
           c == conn[v]
           n == Requested(c, intent.qty, Parts)
<1>1. v \in Venues /\ c \in ConnectorNames /\ n \in Nat /\ intent.side \in {-1, 0, 1}
  <2>1. at \in 1..Len(Chain) /\ intent \in [side : {-1, 0, 1}, qty : Nat, reduce : BOOLEAN]
    BY PrimaryTyped DEF Place, VenuesIInv, VenuesTypeOK
  <2>2. v \in Venues
    BY <2>1, ChainTyped
  <2> QED BY <2>1, <2>2, RequestedIsNat DEF VenuesIInv, VenuesTypeOK
<1>2. PICK taken \in Takes(a) : \E done \in Executed(c, a, n) : \E canceled \in BOOLEAN :
        LET k == IF taken THEN done ELSE 0
            r == PlaceOrder(c, a, k)
            rest == IF taken THEN n - k ELSE 0
        IN /\ Move(v, intent.side * k)
           /\ work' = [work EXCEPT ![v] = IF canceled THEN @ ELSE @ + intent.side * rest]
           /\ moved' = (moved \/ (v = Primary /\ taken))
           /\ \E row \in (IF r.err THEN {0} ELSE {0, r.filled}) :
                /\ Record(v, row)
                /\ silent' = IF v = Primary THEN silent + k + rest - row ELSE silent
           /\ IF r.err THEN NextVenue ELSE at' = 0 /\ intent' = Idle
  BY DEF Place
<1>3. PICK done \in Executed(c, a, n), canceled \in BOOLEAN :
        LET k == IF taken THEN done ELSE 0
            r == PlaceOrder(c, a, k)
            rest == IF taken THEN n - k ELSE 0
        IN /\ Move(v, intent.side * k)
           /\ work' = [work EXCEPT ![v] = IF canceled THEN @ ELSE @ + intent.side * rest]
           /\ moved' = (moved \/ (v = Primary /\ taken))
           /\ \E row \in (IF r.err THEN {0} ELSE {0, r.filled}) :
                /\ Record(v, row)
                /\ silent' = IF v = Primary THEN silent + k + rest - row ELSE silent
           /\ IF r.err THEN NextVenue ELSE at' = 0 /\ intent' = Idle
  BY <1>2
<1> DEFINE k == IF taken THEN done ELSE 0
           r == PlaceOrder(c, a, k)
           rest == IF taken THEN n - k ELSE 0
<1>4. k \in Nat /\ rest \in Nat
  BY <1>1, <1>3, ExecutedInOrder
<1>5. r.filled \in {0, k} /\ r.err \in BOOLEAN /\ (r.err => r.filled = 0)
  BY <1>1, <1>4, AnswersAreTrue
<1>6. /\ Move(v, intent.side * k)
      /\ work' = [work EXCEPT ![v] = IF canceled THEN @ ELSE @ + intent.side * rest]
      /\ moved' = (moved \/ (v = Primary /\ taken))
      /\ IF r.err THEN NextVenue ELSE at' = 0 /\ intent' = Idle
  BY <1>3
<1>7. moved' \in BOOLEAN
  BY <1>6 DEF VenuesIInv, VenuesTypeOK
<1>8. /\ intent' \in [side : {-1, 0, 1}, qty : Nat, reduce : BOOLEAN]
      /\ at' \in 0..Len(Chain) /\ (Placing' <=> at' > 0)
  <2>1. CASE r.err
    BY <1>6, <2>1, NextVenueTyped DEF Place, VenuesIInv
  <2>2. CASE ~r.err
    <3>1. at' = 0 /\ intent' = Idle
      BY <1>6, <2>2
    <3> QED BY <3>1, PrimaryTyped DEF Placing, Idle
  <2> QED BY <2>1, <2>2
<1>9. token' \in [Venues -> {"none", "good", "late"}]
  BY <1>1 DEF Place, EnsureToken, Reused, VenuesIInv, VenuesTypeOK
<1>10. conn' = conn /\ keyed' = keyed /\ seen' = seen /\ equity' = equity /\ sent' = sent
       /\ told' = told
  BY DEF Place
<1>11. PICK row \in (IF r.err THEN {0} ELSE {0, r.filled}) :
         /\ Record(v, row)
         /\ silent' = IF v = Primary THEN silent + k + rest - row ELSE silent
  BY <1>3
<1>12. /\ held' = [held EXCEPT ![v] = @ + intent.side * k]
       /\ cash' = [cash EXCEPT ![v] = IF CashAccount(c) THEN @ - intent.side * k ELSE @]
  BY <1>6 DEF Move
<1> DEFINE side == intent.side
<1>13. row \in {0, k} /\ side \in {-1, 0, 1}
  BY <1>1, <1>5, <1>11
<1>14. /\ held' = [held EXCEPT ![v] = @ + side * k]
       /\ work' = [work EXCEPT ![v] = IF canceled THEN @ ELSE @ + side * rest]
       /\ cash' = [cash EXCEPT ![v] = IF CashAccount(c) THEN @ - side * k ELSE @]
       /\ ledger' = ledger + side * row
       /\ elsewhere' = IF v = Primary THEN elsewhere ELSE elsewhere + side * row
       /\ silent' = IF v = Primary THEN silent + k + rest - row ELSE silent
  BY <1>6, <1>11, <1>12 DEF Record
<1> HIDE DEF v, c, n, k, r, rest, side
<1>15. side * k \in Int /\ side * rest \in Int /\ side * row \in Int
  BY <1>4, <1>13
<1>16. /\ held \in [Venues -> Int] /\ cash \in [Venues -> Int] /\ work \in [Venues -> Int]
       /\ ledger \in Int /\ elsewhere \in Int /\ silent \in Nat
  BY DEF VenuesIInv, VenuesTypeOK
<1>17. /\ held' \in [Venues -> Int] /\ cash' \in [Venues -> Int] /\ work' \in [Venues -> Int]
       /\ ledger' \in Int /\ elsewhere' \in Int
  BY <1>1, <1>14, <1>15, <1>16
<1>18. Gap' /\ silent' \in Nat
  <2> DEFINE h == held[Primary]
             w == work[Primary]
             h2 == held'[Primary]
             w2 == work'[Primary]
  <2>1. /\ h \in Int /\ w \in Int /\ h2 \in Int /\ w2 \in Int
        /\ Abs(h + elsewhere - ledger) + Abs(w) <= silent
    BY <1>16, <1>17, PrimaryTyped DEF VenuesIInv, Gap
  <2>2. CASE v = Primary
    <3>1. /\ h2 = h + side * k /\ w2 \in {w, w + side * rest}
          /\ elsewhere' = elsewhere /\ silent' = silent + k + rest - row
      BY <1>14, <1>16, <2>2, PrimaryTyped
    <3> HIDE DEF h, w, h2, w2
    <3>2. /\ Abs((h + side * k) + elsewhere - (ledger + side * row)) + Abs(w2)
               <= silent + k + rest - row
          /\ silent + k + rest - row \in Nat
      <4>1. CASE side = 1
        BY <1>4, <1>13, <1>16, <2>1, <3>1, <4>1 DEF Abs
      <4>2. CASE side = -1
        BY <1>4, <1>13, <1>16, <2>1, <3>1, <4>2 DEF Abs
      <4>3. CASE side = 0
        BY <1>4, <1>13, <1>16, <2>1, <3>1, <4>3 DEF Abs
      <4> QED BY <1>13, <4>1, <4>2, <4>3
    <3>3. Abs(h2 + elsewhere' - ledger') + Abs(w2) <= silent' /\ silent' \in Nat
      BY <1>14, <3>1, <3>2
    <3> QED BY <3>3 DEF Gap, h2, w2
  <2>3. CASE v # Primary
    <3>1. /\ h2 = h /\ w2 = w /\ silent' = silent
          /\ elsewhere' = elsewhere + side * row /\ ledger' = ledger + side * row
      BY <1>14, <1>16, <2>3, PrimaryTyped
    <3> DEFINE d == side * row
    <3>2. d \in Int /\ elsewhere' = elsewhere + d /\ ledger' = ledger + d
      BY <1>15, <3>1
    <3> HIDE DEF h, w, h2, w2, d
    <3>3. h2 + elsewhere' - ledger' = h + elsewhere - ledger
      BY <1>16, <2>1, <3>1, <3>2
    <3>4. Abs(h2 + elsewhere' - ledger') + Abs(w2) <= silent'
      BY <2>1, <3>1, <3>3
    <3> QED BY <1>16, <3>1, <3>4 DEF Gap, h2, w2
  <2> QED BY <2>2, <2>3
<1>19. VenuesTypeOK'
  BY <1>7, <1>8, <1>9, <1>10, <1>17, <1>18 DEF VenuesIInv, VenuesTypeOK
<1> QED BY <1>18, <1>19 DEF VenuesIInv

(* A reconcile reads, it moves nothing at a venue. *)
LEMMA ReconcileKeeps ==
  ASSUME NEW pa \in FetchAnswers, NEW ba \in FetchAnswers, NEW auth, VenuesIInv,
         Reconcile(pa, ba, auth)
  PROVE  VenuesIInv'
<1> DEFINE v == Primary
           c == conn[v]
<1>1. v \in Venues /\ c \in ConnectorNames /\ held[v] \in Int /\ cash[v] \in Int
      /\ Hold(v) \in Int
  BY PrimaryTyped DEF VenuesIInv, VenuesTypeOK, Hold
<1>2. PICK up \in BOOLEAN :
        LET p == FetchPositions(c, IF up THEN Unsigned(c, keyed[v], pa) ELSE "refused", held[v])
            b == FetchBalances(c, IF up THEN Unsigned(c, keyed[v], ba) ELSE "refused",
                               cash[v], Hold(v))
        IN /\ seen' = (IF p.err THEN 0 ELSE p.qty)
           /\ equity' = Total(b)
           /\ told' = IF p.err \/ b.err \/ ba # "ok" THEN "failed" ELSE "ok"
  <2>1. (c = "DERIBIT" => keyed[v] /\ Authorised(token[v], auth)) \in BOOLEAN
    OBVIOUS
  <2> QED BY <2>1 DEF Reconcile
<1> DEFINE qa == IF up THEN Unsigned(c, keyed[v], pa) ELSE "refused"
           qb == IF up THEN Unsigned(c, keyed[v], ba) ELSE "refused"
           p == FetchPositions(c, qa, held[v])
           b == FetchBalances(c, qb, cash[v], Hold(v))
<1>3. qa \in FetchAnswers /\ qb \in FetchAnswers
  <2>1. "refused" \in FetchAnswers
    BY DEF FetchAnswers, Faults
  <2> QED BY <2>1, UnsignedTyped
<1>4. p.qty \in Int /\ b.usd \in Int
  BY <1>1, <1>3, PositionsTyped, BalancesTyped
<1>5. /\ seen' = (IF p.err THEN 0 ELSE p.qty) /\ equity' = Total(b)
      /\ told' = IF p.err \/ b.err \/ ba # "ok" THEN "failed" ELSE "ok"
  BY <1>2
<1> HIDE DEF p, b
<1>6. seen' \in Int /\ equity' \in Int /\ told' \in {"none", "ok", "failed"}
  BY <1>4, <1>5 DEF Total, Sub, VenuesIInv, VenuesTypeOK
<1>7. token' \in [Venues -> {"none", "good", "late"}]
  BY <1>1 DEF Reconcile, EnsureToken, Reused, VenuesIInv, VenuesTypeOK
<1>8. /\ moved' = FALSE
      /\ UNCHANGED <<conn, keyed, held, cash, work, intent, at, ledger, sent, elsewhere,
                     silent>>
  BY DEF Reconcile, venueVars
<1>9. Placing' = Placing
  BY <1>8 DEF Placing
<1>10. VenuesTypeOK'
  BY <1>6, <1>7, <1>8, <1>9 DEF VenuesIInv, VenuesTypeOK
<1>11. Gap'
  BY <1>8, GapKept DEF VenuesIInv
<1> QED BY <1>10, <1>11 DEF VenuesIInv

(* What a venue does to working orders leaves the gap and what works       *)
(* together alike.                                                         *)
LEMMA AccountKeeps ==
  ASSUME NEW v \in Venues, VenuesIInv,
         VenueFills(v) \/ VenueWithdraws(v) \/ TokenAges(v) \/ Sweep(v)
  PROVE  VenuesIInv'
<1>1. Placing' = Placing
  BY DEF VenueFills, VenueWithdraws, TokenAges, Sweep, botVars, Placing
<1>2. CASE VenueFills(v)
  <2>1. /\ held' = [held EXCEPT ![v] = @ + work[v]] /\ work' = [work EXCEPT ![v] = 0]
        /\ cash' = [cash EXCEPT ![v] = IF CashAccount(conn[v]) THEN @ - work[v] ELSE @]
        /\ moved' \in BOOLEAN
        /\ UNCHANGED <<conn, keyed, token, intent, at, ledger, seen, equity, sent, elsewhere,
                       silent, told>>
    BY <1>2 DEF VenueFills, Move, botVars, VenuesIInv, VenuesTypeOK
  <2>2. VenuesTypeOK'
    BY <1>1, <2>1 DEF VenuesIInv, VenuesTypeOK
  <2>3. Gap'
    <3>1. /\ held'[Primary] + work'[Primary] = held[Primary] + work[Primary]
          /\ work'[Primary] \in {0, work[Primary]}
      BY <2>1, PrimaryTyped DEF VenuesIInv, VenuesTypeOK
    <3>2. /\ held[Primary] \in Int /\ ledger \in Int /\ work[Primary] \in Int
          /\ elsewhere \in Int /\ silent \in Nat /\ held'[Primary] \in Int
          /\ Abs(held[Primary] + elsewhere - ledger) + Abs(work[Primary]) <= silent
      BY <2>2, PrimaryTyped DEF VenuesIInv, VenuesTypeOK, Gap
    <3> QED BY <2>1, <3>1, <3>2 DEF Gap, Abs
  <2> QED BY <2>2, <2>3 DEF VenuesIInv
<1>3. CASE VenueWithdraws(v) \/ Sweep(v)
  <2>1. /\ work' = [work EXCEPT ![v] = 0] /\ moved' \in BOOLEAN
        /\ UNCHANGED <<conn, keyed, token, held, cash, intent, at, ledger, seen, equity, sent,
                       elsewhere, silent, told>>
    BY <1>3 DEF VenueWithdraws, Sweep, botVars, VenuesIInv, VenuesTypeOK
  <2>2. VenuesTypeOK'
    BY <1>1, <2>1 DEF VenuesIInv, VenuesTypeOK
  <2>3. Gap'
    <3>1. work'[Primary] \in {0, work[Primary]}
      BY <2>1, PrimaryTyped DEF VenuesIInv, VenuesTypeOK
    <3>2. /\ held[Primary] \in Int /\ ledger \in Int /\ work[Primary] \in Int
          /\ elsewhere \in Int /\ silent \in Nat
          /\ Abs(held[Primary] + elsewhere - ledger) + Abs(work[Primary]) <= silent
      BY PrimaryTyped DEF VenuesIInv, VenuesTypeOK, Gap
    <3> QED BY <2>1, <3>1, <3>2 DEF Gap, Abs
  <2> QED BY <2>2, <2>3 DEF VenuesIInv
<1>4. CASE TokenAges(v)
  <2>1. VenuesTypeOK'
    BY <1>1, <1>4 DEF TokenAges, venueVars, botVars, histVars, VenuesIInv, VenuesTypeOK
  <2>2. Gap'
    BY <1>4, GapKept DEF TokenAges, venueVars, botVars, histVars, VenuesIInv
  <2> QED BY <2>1, <2>2 DEF VenuesIInv
<1> QED BY <1>2, <1>3, <1>4

(* Every step keeps types and gaps. *)
LEMMA NextVenues == VenuesIInv /\ [VenuesNext]_vars => VenuesIInv'
<1> SUFFICES ASSUME VenuesIInv, [VenuesNext]_vars PROVE VenuesIInv'
  OBVIOUS
<1>1. ASSUME NEW v \in Venues, VenueFills(v) \/ VenueWithdraws(v) \/ TokenAges(v) \/ Sweep(v)
      PROVE  VenuesIInv'
  BY <1>1, AccountKeeps
<1>2. ASSUME NEW side \in {-1, 1}, NEW qty \in Sizes, Entry(side, qty) PROVE VenuesIInv'
  <2>1. qty \in Nat \ {0} /\ side \in {-1, 0, 1} /\ FALSE \in BOOLEAN
    BY VenuesAssumption
  <2>2. Submit(side, qty, FALSE)
    BY <1>2 DEF Entry
  <2> QED BY <2>1, <2>2, SubmitTyped
<1>3. ASSUME Exit PROVE VenuesIInv'
  <2>1. seen # 0 /\ seen \in Int /\ TRUE \in BOOLEAN
    BY <1>3 DEF Exit, VenuesIInv, VenuesTypeOK
  <2>2. Submit(Sign(-seen), Abs(seen), TRUE)
    BY <1>3 DEF Exit
  <2>3. Abs(seen) \in Nat \ {0} /\ Sign(-seen) \in {-1, 0, 1}
    BY <2>1 DEF Abs, Sign
  <2> QED BY <2>1, <2>2, <2>3, SubmitTyped
<1>4. ASSUME NotSent PROVE VenuesIInv'
  <2>1. /\ Placing /\ NextVenue
        /\ UNCHANGED <<conn, keyed, token, held, cash, work, ledger, seen, equity, sent, elsewhere,
                       silent, moved, told>>
    BY <1>4 DEF NotSent, venueVars, histVars
  <2>2. /\ intent' \in [side : {-1, 0, 1}, qty : Nat, reduce : BOOLEAN]
        /\ at' \in 0..Len(Chain) /\ (Placing' <=> at' > 0)
    BY <2>1, NextVenueTyped DEF VenuesIInv
  <2>3. VenuesTypeOK'
    BY <2>1, <2>2 DEF VenuesIInv, VenuesTypeOK
  <2>4. Gap'
    BY <2>1, GapKept DEF VenuesIInv
  <2> QED BY <2>3, <2>4 DEF VenuesIInv
<1>5. ASSUME NEW a \in OrderAnswers, NEW auth, Place(a, auth) PROVE VenuesIInv'
  BY <1>5, PlaceKeeps
<1>6. ASSUME NEW pa \in FetchAnswers, NEW ba \in FetchAnswers, NEW auth,
             Reconcile(pa, ba, auth)
      PROVE  VenuesIInv'
  BY <1>6, ReconcileKeeps
<1>7. ASSUME UNCHANGED vars PROVE VenuesIInv'
  BY <1>7 DEF vars, venueVars, botVars, histVars, VenuesIInv, VenuesTypeOK, Gap, Placing
<1> QED BY <1>1, <1>2, <1>3, <1>4, <1>5, <1>6, <1>7 DEF VenuesNext

(* Types and gaps hold throughout. *)
LEMMA VenuesInvariant == VenuesSpec => []VenuesIInv
  BY InitVenues, NextVenues, PTL DEF VenuesSpec

(* Whatever the connectors, the chain and the answers: types.              *)
THEOREM VenuesTypeCorrect == VenuesSpec => []VenuesTypeOK
  BY VenuesInvariant, PTL DEF VenuesIInv

(* The ledger is off the primary account by no more than the orders there  *)
(* that were not answered as filled, or whose row was not inserted.        *)
THEOREM LedgerGapIsExplained == VenuesSpec => []LedgerGapExplained
<1>1. VenuesIInv => LedgerGapExplained
  <2> SUFFICES ASSUME VenuesIInv PROVE LedgerGapExplained
    OBVIOUS
  <2>1. /\ held[Primary] \in Int /\ ledger \in Int /\ work[Primary] \in Int
        /\ elsewhere \in Int /\ silent \in Nat
        /\ Abs(held[Primary] + elsewhere - ledger) + Abs(work[Primary]) <= silent
    BY PrimaryTyped DEF VenuesIInv, VenuesTypeOK, Gap
  <2> QED BY <2>1 DEF LedgerGapExplained, Abs
<1> QED BY <1>1, VenuesInvariant, PTL

----------------------------------------------------------------------------
(* The accounts.  What ExitReducesHere and LossIsSpent rest on: OANDA      *)
(* trades whole units and nothing else, an exit on its way is of the       *)
(* position the snapshot still shows, a snapshot of an account that has    *)
(* not changed since is what its adapter lists (of a short at OANDA the    *)
(* amount), every dollar that left a cash account bought stock, and        *)
(* Deribit's dollars are nobody's equity.                                  *)
Whole(n) == \E m \in Int : n = m * Parts
WholeUnits == \A v \in Venues : conn[v] = "OANDA" => Whole(held[v]) /\ Whole(work[v])
ExitOfSnapshot ==
  intent.reduce = TRUE => seen # 0 /\ intent.side = Sign(-seen) /\ intent.qty = Abs(seen)
ListedAs(c, h) == IF c = "OANDA" THEN Abs(h) ELSE h
SnapshotTrue ==
  moved = FALSE /\ seen # 0 => seen = ListedAs(conn[Primary], held[Primary])
StockOf(v) == IF CashAccount(conn[v]) THEN held[v] ELSE 0
DollarsAddUp == \A v \in Venues : cash[v] = Cash - StockOf(v)
BitcoinIsNotCounted == conn[Primary] = "DERIBIT" => equity = Cash
AccountsIInv ==
  /\ VenuesIInv
  /\ WholeUnits /\ ExitOfSnapshot /\ SnapshotTrue
  /\ DollarsAddUp /\ BitcoinIsNotCounted /\ LossIsSpent

(* A unit has parts. *)
LEMMA PartsPositive == Parts \in Nat \ {0} /\ Cash \in Nat
  BY VenuesAssumption

(* Whole units stay whole. *)
LEMMA WholeSum ==
  ASSUME NEW m \in Int, NEW n \in Int, NEW side \in {-1, 0, 1}, Whole(m), Whole(n)
  PROVE  Whole(m + side * n)
<1>1. PICK x \in Int : m = x * Parts
  BY DEF Whole
<1>2. PICK y \in Int : n = y * Parts
  BY DEF Whole
<1>3. Parts \in Int
  BY PartsPositive
<1>4. CASE side = 1
  <2>1. x + y \in Int /\ m + side * n = (x + y) * Parts
    BY <1>1, <1>2, <1>3, <1>4
  <2> QED BY <2>1 DEF Whole
<1>5. CASE side = -1
  <2>1. x - y \in Int /\ m + side * n = (x - y) * Parts
    BY <1>1, <1>2, <1>3, <1>5
  <2> QED BY <2>1 DEF Whole
<1>6. CASE side = 0
  BY <1>6, m + side * n = m
<1> QED BY <1>4, <1>5, <1>6

(* Nothing is whole. *)
LEMMA WholeZero == Whole(0)
<1>1. 0 = 0 * Parts
  BY PartsPositive
<1> QED BY <1>1 DEF Whole

(* A number without a rest is whole. *)
LEMMA WholeWithoutRest == ASSUME NEW k \in Nat, k % Parts = 0 PROVE Whole(k)
<1>1. k = (Parts * (k \div Parts)) + (k % Parts) /\ k \div Parts \in Int
  BY PartsPositive
<1>2. k = (k \div Parts) * Parts
  BY <1>1, PartsPositive
<1> QED BY <1>1, <1>2 DEF Whole

(* What OANDA is asked for is whole, and is what was meant when that is.   *)
LEMMA RequestedIsWhole ==
  ASSUME NEW q \in Nat
  PROVE  Whole(Requested("OANDA", q, Parts)) /\ (Whole(q) => Requested("OANDA", q, Parts) = q)
<1> DEFINE d == (2 * q + Parts) \div (2 * Parts)
<1>1. d \in Int /\ Requested("OANDA", q, Parts) = d * Parts
  BY PartsPositive DEF Requested, OandaUnits
<1>2. ASSUME Whole(q) PROVE d * Parts = q
  <2>1. PICK m \in Int : q = m * Parts
    BY <1>2 DEF Whole
  <2>2. 2 * q + Parts = (2 * Parts) * m + Parts
    BY <2>1, PartsPositive
  <2>3. ((2 * Parts) * m + Parts) \div (2 * Parts) = m
    BY PartsPositive
  <2>4. d = m
    BY <2>2, <2>3
  <2> QED BY <2>1, <2>4
<1> QED BY <1>1, <1>2 DEF Whole

(* What an order does to the account it is placed with: some of it is      *)
(* executed and the rest works on or not; OANDA executes whole units, and  *)
(* an order that is not taken leaves everything as it was.                 *)
LEMMA PlaceMoves ==
  ASSUME VenuesIInv, NEW a \in OrderAnswers, NEW auth, Place(a, auth)
  PROVE  LET v == Chain[at]
             n == Requested(conn[v], intent.qty, Parts)
         IN /\ v \in Venues /\ n \in Nat /\ intent.side \in {-1, 0, 1} /\ intent.qty \in Nat
            /\ \E k \in 0..n : \E w \in {0, n - k} :
                 /\ held' = [held EXCEPT ![v] = @ + intent.side * k]
                 /\ cash' = [cash EXCEPT ![v] = IF CashAccount(conn[v]) THEN @ - intent.side * k
                                                ELSE @]
                 /\ work' = [work EXCEPT ![v] = @ + intent.side * w]
                 /\ v = Primary /\ moved' = FALSE => k = 0 /\ w = 0
                 /\ conn[v] = "OANDA" => k \in {0, n} \/ k % Parts = 0
            /\ (moved' = FALSE => moved = FALSE)
<1> DEFINE v == Chain[at]
           n == Requested(conn[v], intent.qty, Parts)
<1>1. /\ v \in Venues /\ conn[v] \in ConnectorNames /\ n \in Nat
      /\ intent.side \in {-1, 0, 1} /\ intent.qty \in Nat
  <2>1. at \in 1..Len(Chain) /\ intent \in [side : {-1, 0, 1}, qty : Nat, reduce : BOOLEAN]
    BY PrimaryTyped DEF Place, VenuesIInv, VenuesTypeOK
  <2>2. v \in Venues
    BY <2>1, ChainTyped
  <2> QED BY <2>1, <2>2, RequestedIsNat DEF VenuesIInv, VenuesTypeOK
<1>2. PICK taken \in Takes(a) : \E done \in Executed(conn[v], a, n) : \E canceled \in BOOLEAN :
        LET k == IF taken THEN done ELSE 0
            rest == IF taken THEN n - k ELSE 0
        IN /\ Move(v, intent.side * k)
           /\ work' = [work EXCEPT ![v] = IF canceled THEN @ ELSE @ + intent.side * rest]
           /\ moved' = (moved \/ (v = Primary /\ taken))
  BY DEF Place
<1>3. PICK done \in Executed(conn[v], a, n), canceled \in BOOLEAN :
        LET k == IF taken THEN done ELSE 0
            rest == IF taken THEN n - k ELSE 0
        IN /\ Move(v, intent.side * k)
           /\ work' = [work EXCEPT ![v] = IF canceled THEN @ ELSE @ + intent.side * rest]
           /\ moved' = (moved \/ (v = Primary /\ taken))
  BY <1>2
<1> DEFINE k == IF taken THEN done ELSE 0
           rest == IF taken THEN n - k ELSE 0
           w == IF canceled THEN 0 ELSE rest
<1>4. k \in 0..n /\ rest \in {0, n - k} /\ w \in {0, n - k}
  BY <1>1, <1>3, ExecutedInOrder
<1>5. /\ Move(v, intent.side * k)
      /\ work' = [work EXCEPT ![v] = IF canceled THEN @ ELSE @ + intent.side * rest]
      /\ moved' = (moved \/ (v = Primary /\ taken))
  BY <1>3
<1>6. ~taken => k = 0 /\ w = 0
  OBVIOUS
<1>7. conn[v] = "OANDA" => k \in {0, n} \/ k % Parts = 0
  <2>1. a \in {"refused", "error", "accepted", "filled"} => done \in {0, n}
    BY <1>3 DEF Executed
  <2>2. a = "partial" /\ conn[v] = "OANDA" => done % Parts = 0
    BY <1>3 DEF Executed
  <2>3. a \notin {"refused", "error", "accepted", "filled", "partial"} => done \in {0, n}
    BY <1>3 DEF Executed
  <2> QED BY <2>1, <2>2, <2>3
<1> HIDE DEF k, rest
<1>8. work' = [work EXCEPT ![v] = @ + intent.side * w]
  <2>1. CASE canceled
    <3>1. w = 0 /\ work' = [work EXCEPT ![v] = @]
      BY <1>5, <2>1
    <3>2. work \in [Venues -> Int] /\ intent.side * 0 = 0
      BY <1>1 DEF VenuesIInv, VenuesTypeOK
    <3>3. work[v] + intent.side * w = work[v]
      BY <1>1, <3>1, <3>2
    <3> QED BY <3>1, <3>3
  <2>2. CASE ~canceled
    BY <1>5, <2>2
  <2> QED BY <2>1, <2>2
<1> HIDE DEF w
<1>9. /\ held' = [held EXCEPT ![v] = @ + intent.side * k]
      /\ cash' = [cash EXCEPT ![v] = IF CashAccount(conn[v]) THEN @ - intent.side * k ELSE @]
  BY <1>5 DEF Move
<1>10. moved \in BOOLEAN /\ (moved' = FALSE => moved = FALSE)
       /\ (v = Primary /\ moved' = FALSE => ~taken)
  BY <1>5 DEF VenuesIInv, VenuesTypeOK
<1> QED BY <1>1, <1>4, <1>6, <1>7, <1>8, <1>9, <1>10

(* An adapter lists nothing or what it makes of the position. *)
LEMMA PositionsTold ==
  ASSUME NEW c \in ConnectorNames, NEW a \in FetchAnswers, NEW h \in Int
  PROVE  FetchPositions(c, a, h).qty \in {0, ListedAs(c, h)}
<1>1. FetchPositions(c, a, h) \in
        {NoPositions, PositionsFailed, Listed(0), Listed(ListedAs(c, h))}
  <2>1. CASE c = "OANDA"
    <3>1. OandaUnitsHeld(h) = ListedAs(c, h)
      BY <2>1 DEF OandaUnitsHeld, ListedAs, Abs
    <3>2. FetchPositions(c, a, h) \in {PositionsFailed, Listed(0), Listed(OandaUnitsHeld(h))}
      BY <2>1 DEF FetchPositions, OandaPositions
    <3> QED BY <3>1, <3>2
  <2>2. CASE c # "OANDA"
    <3>1. FetchPositions(c, a, h) \in {NoPositions, PositionsFailed, Listed(h)}
      BY <2>2 DEF FetchPositions, BinancePositions, KrakenPositions, CoinbasePositions,
                  BybitPositions, OkxPositions, DeribitPositions, AlpacaPositions, CcxtPositions
    <3>2. ListedAs(c, h) = h
      BY <2>2 DEF ListedAs
    <3> QED BY <3>1, <3>2
  <2> QED BY <2>1, <2>2
<1> QED BY <1>1 DEF NoPositions, PositionsFailed, Listed

(* Before any order the accounts add up. *)
LEMMA InitAccounts == VenuesInit => AccountsIInv
<1> SUFFICES ASSUME VenuesInit PROVE AccountsIInv
  OBVIOUS
<1>1. VenuesIInv
  BY InitVenues
<1>2. /\ held = [v \in Venues |-> 0] /\ cash = [v \in Venues |-> Cash]
      /\ work = [v \in Venues |-> 0] /\ intent = Idle /\ equity = Cash /\ told = "none"
      /\ seen = 0
  BY DEF VenuesInit
<1>3. WholeUnits
  BY <1>2, WholeZero DEF WholeUnits
<1>4. ExitOfSnapshot /\ SnapshotTrue
  BY <1>2 DEF ExitOfSnapshot, SnapshotTrue, Idle
<1>5. DollarsAddUp
  BY <1>2, PartsPositive DEF DollarsAddUp, StockOf
<1> QED
  BY <1>1, <1>2, <1>3, <1>4, <1>5 DEF AccountsIInv, BitcoinIsNotCounted, LossIsSpent

(* The parts of the invariant that compare the primary account with what   *)
(* was reconciled need only that neither changes.                          *)
LEMMA LossKept ==
  ASSUME AccountsIInv, VenuesIInv', conn' = conn, held'[Primary] = held[Primary],
         cash'[Primary] = cash[Primary], work'[Primary] = work[Primary],
         seen' = seen, equity' = equity, told' = told, moved' = FALSE => moved = FALSE
  PROVE  LossIsSpent' /\ SnapshotTrue'
<1>1. Spent' = Spent
  BY DEF Spent, Hold
<1>2. moved \in BOOLEAN /\ moved' \in BOOLEAN
  BY DEF AccountsIInv, VenuesIInv, VenuesTypeOK
<1> QED BY <1>1, <1>2 DEF AccountsIInv, LossIsSpent, SnapshotTrue

(* A step that touches neither venues nor what was told keeps the          *)
(* accounts.                                                               *)
LEMMA MoneyKept ==
  ASSUME AccountsIInv, VenuesIInv', UNCHANGED <<conn, held, cash, work, seen, equity, told>>,
         moved' = FALSE => moved = FALSE
  PROVE  WholeUnits' /\ DollarsAddUp' /\ BitcoinIsNotCounted' /\ LossIsSpent' /\ SnapshotTrue'
<1>1. WholeUnits' /\ DollarsAddUp' /\ BitcoinIsNotCounted'
  BY DEF AccountsIInv, WholeUnits, DollarsAddUp, BitcoinIsNotCounted, StockOf
<1> QED BY <1>1, LossKept

(* After an answer the next venue is asked, or the order is done with.     *)
LEMMA IntentAfterPlace ==
  ASSUME NEW a \in OrderAnswers, NEW auth, Place(a, auth)
  PROVE  intent' \in {intent, Idle}
<1>1. PICK taken \in Takes(a) : \E done \in Executed(conn[Chain[at]], a,
                                    Requested(conn[Chain[at]], intent.qty, Parts)) :
        IF PlaceOrder(conn[Chain[at]], a, IF taken THEN done ELSE 0).err
        THEN NextVenue ELSE intent' = Idle
  BY DEF Place
<1>2. NextVenue \/ intent' = Idle
  BY <1>1
<1> QED BY <1>2 DEF NextVenue

(* An order on its way is the one that was submitted, or done with.        *)
LEMMA IntentKept ==
  ASSUME AccountsIInv, intent' \in {intent, Idle}, seen' = seen
  PROVE  ExitOfSnapshot'
  BY DEF AccountsIInv, ExitOfSnapshot, Idle

(* A placement pays for what it executes. *)
LEMMA PlaceKeepsAccounts ==
  ASSUME AccountsIInv, NEW a \in OrderAnswers, NEW auth, Place(a, auth)
  PROVE  AccountsIInv'
<1> DEFINE v == Chain[at]
           n == Requested(conn[v], intent.qty, Parts)
           side == intent.side
<1>1. VenuesIInv /\ VenuesIInv'
  BY PlaceKeeps DEF AccountsIInv
<1>2. /\ v \in Venues /\ n \in Nat /\ side \in {-1, 0, 1} /\ intent.qty \in Nat
      /\ (moved' = FALSE => moved = FALSE)
      /\ \E k \in 0..n : \E w \in {0, n - k} :
           /\ held' = [held EXCEPT ![v] = @ + side * k]
           /\ cash' = [cash EXCEPT ![v] = IF CashAccount(conn[v]) THEN @ - side * k ELSE @]
           /\ work' = [work EXCEPT ![v] = @ + side * w]
           /\ v = Primary /\ moved' = FALSE => k = 0 /\ w = 0
           /\ conn[v] = "OANDA" => k \in {0, n} \/ k % Parts = 0
  BY <1>1, PlaceMoves
<1>3. PICK k \in 0..n : \E w \in {0, n - k} :
           /\ held' = [held EXCEPT ![v] = @ + side * k]
           /\ cash' = [cash EXCEPT ![v] = IF CashAccount(conn[v]) THEN @ - side * k ELSE @]
           /\ work' = [work EXCEPT ![v] = @ + side * w]
           /\ v = Primary /\ moved' = FALSE => k = 0 /\ w = 0
           /\ conn[v] = "OANDA" => k \in {0, n} \/ k % Parts = 0
  BY <1>2
<1>4. PICK w \in {0, n - k} :
           /\ held' = [held EXCEPT ![v] = @ + side * k]
           /\ cash' = [cash EXCEPT ![v] = IF CashAccount(conn[v]) THEN @ - side * k ELSE @]
           /\ work' = [work EXCEPT ![v] = @ + side * w]
           /\ v = Primary /\ moved' = FALSE => k = 0 /\ w = 0
           /\ conn[v] = "OANDA" => k \in {0, n} \/ k % Parts = 0
  BY <1>3
<1>5. /\ held \in [Venues -> Int] /\ cash \in [Venues -> Int] /\ work \in [Venues -> Int]
      /\ UNCHANGED <<conn, keyed, seen, equity, sent, told>>
  BY <1>1 DEF Place, VenuesIInv, VenuesTypeOK
<1>6. ASSUME conn[v] = "OANDA" PROVE Whole(k) /\ Whole(w)
  <2>1. Whole(n) /\ Whole(0)
    BY <1>2, <1>6, RequestedIsWhole, WholeZero
  <2>2. Whole(k)
    BY <1>2, <1>3, <1>4, <1>6, <2>1, WholeWithoutRest
  <2>3. Whole(n + -1 * k)
    BY <1>2, <2>1, <2>2, WholeSum
  <2>4. n + -1 * k = n - k
    BY <1>2
  <2> QED BY <1>4, <2>1, <2>2, <2>3, <2>4
<1> HIDE DEF v, n, side
<1>7. side * k \in Int /\ side * w \in Int /\ k \in Int /\ w \in Int
  BY <1>2
<1>8. WholeUnits'
  <2> SUFFICES ASSUME NEW u \in Venues, conn[u] = "OANDA" PROVE Whole(held'[u]) /\ Whole(work'[u])
    BY <1>5 DEF WholeUnits, Whole
  <2>1. Whole(held[u]) /\ Whole(work[u])
    BY DEF AccountsIInv, WholeUnits
  <2>2. CASE u = v
    <3>1. held'[u] = held[u] + side * k /\ work'[u] = work[u] + side * w
      BY <1>4, <1>5, <2>2
    <3>2. Whole(k) /\ Whole(w)
      BY <1>6, <2>2
    <3>3. held[u] \in Int /\ work[u] \in Int
      BY <1>5
    <3>4. Whole(held[u] + side * k) /\ Whole(work[u] + side * w)
      BY <1>2, <1>7, <2>1, <3>2, <3>3, WholeSum
    <3> QED BY <3>1, <3>4
  <2>3. CASE u # v
    BY <1>4, <1>5, <2>1, <2>3
  <2> QED BY <2>2, <2>3
<1>9. DollarsAddUp'
  <2> SUFFICES ASSUME NEW u \in Venues PROVE cash'[u] = Cash - StockOf(u)'
    BY DEF DollarsAddUp
  <2>1. cash[u] = Cash - StockOf(u)
    BY DEF AccountsIInv, DollarsAddUp
  <2>2. CASE u = v
    <3>1. /\ held'[u] = held[u] + side * k
          /\ cash'[u] = IF CashAccount(conn[u]) THEN cash[u] - side * k ELSE cash[u]
      BY <1>4, <1>5, <2>2
    <3>2. held[u] \in Int /\ cash[u] \in Int /\ side * k \in Int
      BY <1>5, <1>7
    <3>3. CASE CashAccount(conn[u])
      BY <1>5, <2>1, <3>1, <3>2, <3>3, PartsPositive DEF StockOf
    <3>4. CASE ~CashAccount(conn[u])
      BY <1>5, <2>1, <3>1, <3>4 DEF StockOf
    <3> QED BY <3>3, <3>4
  <2>3. CASE u # v
    BY <1>4, <1>5, <2>1, <2>3 DEF StockOf
  <2> QED BY <2>2, <2>3
<1>10. LossIsSpent' /\ SnapshotTrue'
  <2>1. CASE moved' = FALSE
    <3>1. /\ held'[Primary] = held[Primary] /\ cash'[Primary] = cash[Primary]
          /\ work'[Primary] = work[Primary]
      <4>1. CASE v = Primary
        <5>1. side * k = 0 /\ side * w = 0
          BY <1>2, <1>4, <2>1, <4>1
        <5>2. held[v] \in Int /\ cash[v] \in Int /\ work[v] \in Int
          BY <1>2, <1>5
        <5>3. held[v] + side * k = held[v] /\ cash[v] - side * k = cash[v]
              /\ work[v] + side * w = work[v]
          BY <5>1, <5>2
        <5>4. /\ held'[v] = held[v] + side * k /\ work'[v] = work[v] + side * w
              /\ cash'[v] \in {cash[v] - side * k, cash[v]}
          BY <1>2, <1>4, <1>5
        <5> QED BY <4>1, <5>3, <5>4
      <4>2. CASE v # Primary
        BY <1>4, <1>5, <4>2, PrimaryTyped
      <4> QED BY <4>1, <4>2
    <3> QED BY <1>1, <1>2, <1>5, <3>1, LossKept
  <2>2. CASE moved' # FALSE
    BY <1>1, <2>2 DEF LossIsSpent, SnapshotTrue, VenuesIInv, VenuesTypeOK
  <2> QED BY <2>1, <2>2
<1>11. ExitOfSnapshot'
  <2>1. intent' \in {intent, Idle}
    BY IntentAfterPlace
  <2> QED BY <1>5, <2>1, IntentKept
<1>12. BitcoinIsNotCounted'
  BY <1>5 DEF AccountsIInv, BitcoinIsNotCounted
<1> QED BY <1>1, <1>8, <1>9, <1>10, <1>11, <1>12 DEF AccountsIInv

(* What a fetch that succeeds tells of the dollars: all of them, except    *)
(* Coinbase (what is not held back) and Deribit (none).                    *)
LEMMA DollarsTold ==
  ASSUME NEW c \in ConnectorNames, NEW qb \in FetchAnswers, NEW m \in Int, NEW h \in Int,
         FetchBalances(c, qb, m, h) # BalancesFailed, qb = "ok"
  PROVE  FetchBalances(c, qb, m, h).usd =
           IF c = "DERIBIT" THEN 0
           ELSE IF c = "COINBASE" /\ h # m THEN m - h ELSE m
<1>1. c \in Brokers
  BY DEF FetchBalances, Brokers, BalancesFailed
<1>2. CASE c \in {"BINANCE", "BYBIT"}
  <2>1. (m - h) + h = m
    OBVIOUS
  <2> QED BY <1>2, <2>1 DEF FetchBalances, BinanceBalances, BybitBalances, Counted,
             BalancesFailed
<1>3. CASE c = "COINBASE"
  <2>1. FetchBalances(c, qb, m, h) \in {Counted("ok", IF m = h THEN m ELSE m - h), BalancesFailed}
    BY <1>3 DEF FetchBalances, CoinbaseBalances
  <2> QED BY <1>3, <2>1 DEF Counted, BalancesFailed
<1>4. CASE c = "DERIBIT"
  <2>1. FetchBalances(c, qb, m, h) \in {Counted("ok", 0), BalancesFailed}
    BY <1>4 DEF FetchBalances, DeribitBalances
  <2> QED BY <1>4, <2>1 DEF Counted, BalancesFailed
<1>5. CASE c \in {"OKX", "KRAKEN", "ALPACA", "OANDA", "CCXT"}
  <2>1. FetchBalances(c, qb, m, h) \in {Counted("ok", m), BalancesFailed}
    BY <1>5 DEF FetchBalances, OkxBalances, KrakenBalances, AlpacaBalances, OandaBalances,
                CcxtBalances
  <2> QED BY <1>5, <2>1 DEF Counted, BalancesFailed
<1> QED BY <1>1, <1>2, <1>3, <1>4, <1>5 DEF Brokers

(* A reconcile tells the equity of dollars only. *)
LEMMA ReconcileKeepsAccounts ==
  ASSUME AccountsIInv, NEW pa \in FetchAnswers, NEW ba \in FetchAnswers, NEW auth,
         Reconcile(pa, ba, auth)
  PROVE  AccountsIInv'
<1> DEFINE v == Primary
           c == conn[v]
<1>1. VenuesIInv /\ VenuesIInv'
  BY ReconcileKeeps DEF AccountsIInv
<1>2. /\ v \in Venues /\ c \in ConnectorNames /\ held[v] \in Int /\ cash[v] \in Int
      /\ Hold(v) \in Int /\ equity \in Int
  BY <1>1, PrimaryTyped DEF VenuesIInv, VenuesTypeOK, Hold
<1>3. PICK qb \in FetchAnswers :
        LET b == FetchBalances(c, qb, cash[v], Hold(v))
        IN /\ equity' = Total(b)
           /\ told' = "ok" => b.err # TRUE /\ ba = "ok"
           /\ qb \in {ba, "refused"}
  <2>1. "refused" \in FetchAnswers
    BY DEF FetchAnswers, Faults
  <2>2. PICK up \in BOOLEAN :
          LET b == FetchBalances(c, IF up THEN Unsigned(c, keyed[v], ba) ELSE "refused",
                                 cash[v], Hold(v))
              p == FetchPositions(c, IF up THEN Unsigned(c, keyed[v], pa) ELSE "refused",
                                  held[v])
          IN /\ equity' = Total(b)
             /\ told' = IF p.err \/ b.err \/ ba # "ok" THEN "failed" ELSE "ok"
    <3>1. (c = "DERIBIT" => keyed[v] /\ Authorised(token[v], auth)) \in BOOLEAN
      OBVIOUS
    <3> QED BY <3>1 DEF Reconcile
  <2> DEFINE q == IF up THEN Unsigned(c, keyed[v], ba) ELSE "refused"
             b == FetchBalances(c, q, cash[v], Hold(v))
  <2>3. q \in FetchAnswers /\ q \in {ba, "refused"}
    BY <2>1, UnsignedTyped DEF Unsigned
  <2>4. equity' = Total(b) /\ (told' = "ok" => b.err # TRUE /\ ba = "ok")
    BY <2>2
  <2> QED BY <2>3, <2>4
<1> DEFINE b == FetchBalances(c, qb, cash[v], Hold(v))
<1>4. b.err \in BOOLEAN /\ b.usd \in Int /\ (c = "DERIBIT" => b.usd = 0)
      /\ (qb = "refused" => b.err = TRUE)
  <2>1. b.usd \in Int
    BY <1>2, <1>3, BalancesTyped
  <2> DEFINE m == cash[v]
             h == Hold(v)
  <2>2. b \in {BalancesFailed, Counted(qb, m), Counted(qb, (m - h) + h), Counted(qb, 0),
               Counted(qb, IF m = h THEN m ELSE m - h)}
    BY DEF FetchBalances, BinanceBalances, BybitBalances, OkxBalances, KrakenBalances,
           CoinbaseBalances, AlpacaBalances, OandaBalances, CcxtBalances, DeribitBalances
  <2>3. b.err \in BOOLEAN
    <3> HIDE DEF b, m, h
    <3>1. PICK u : b \in {BalancesFailed, Counted(qb, u)}
      BY <2>2
    <3>2. BalancesFailed.err = TRUE /\ Counted(qb, u).err = FALSE
      BY DEF BalancesFailed, Counted
    <3> QED BY <3>1, <3>2
  <2>4. c = "DERIBIT" => b \in {BalancesFailed, Counted(qb, 0)}
    BY DEF FetchBalances, DeribitBalances
  <2>5. c = "DERIBIT" => b.usd = 0
    BY <2>4 DEF BalancesFailed, Counted
  <2>6. qb = "refused" => b = BalancesFailed
    BY DEF FetchBalances, BinanceBalances, BybitBalances, OkxBalances, KrakenBalances,
           CoinbaseBalances, AlpacaBalances, OandaBalances, CcxtBalances, DeribitBalances,
           BinanceSigned, BybitSignGet, OkxSign, CoinbaseSign, CcxtGet, KrakenPrivate,
           JsonGet, DeribitPrivate, Arrived, Faults
  <2> QED BY <2>1, <2>3, <2>5, <2>6 DEF BalancesFailed
<1>5. equity' = IF b.err THEN equity ELSE IF b.usd > 0 THEN b.usd ELSE equity
  BY <1>3, <1>4 DEF Total, Sub
<1>6. /\ moved' = FALSE
      /\ UNCHANGED <<conn, keyed, held, cash, work, intent, at, ledger, sent, elsewhere, silent>>
  BY DEF Reconcile, venueVars
<1>7. BitcoinIsNotCounted'
  BY <1>4, <1>5, <1>6 DEF AccountsIInv, BitcoinIsNotCounted
<1>8. WholeUnits' /\ DollarsAddUp'
  BY <1>6 DEF AccountsIInv, WholeUnits, DollarsAddUp, StockOf
<1>9. ExitOfSnapshot'
  <2>1. intent = Idle /\ intent' = Idle
    BY <1>6 DEF Reconcile, Placing
  <2> QED BY <2>1 DEF ExitOfSnapshot, Idle
<1>10. ASSUME told' = "ok" PROVE LossIsSpent'
  <2>1. b.err = FALSE /\ qb = "ok" /\ qb = ba
    BY <1>3, <1>4, <1>10
  <2>2. b.usd = IF c = "DERIBIT" THEN 0
                ELSE IF c = "COINBASE" /\ Hold(v) # cash[v] THEN cash[v] - Hold(v) ELSE cash[v]
    <3> DEFINE d == conn[v]
               m == cash[v]
               h == Hold(v)
    <3>1. d \in ConnectorNames /\ m \in Int /\ h \in Int
      BY <1>2
    <3>2. FetchBalances(d, qb, m, h) # BalancesFailed
      <4>1. BalancesFailed.err = TRUE
        BY DEF BalancesFailed
      <4> QED BY <2>1, <4>1
    <3> HIDE DEF d, m, h
    <3>3. FetchBalances(d, qb, m, h).usd =
            IF d = "DERIBIT" THEN 0 ELSE IF d = "COINBASE" /\ h # m THEN m - h ELSE m
      BY <2>1, <3>1, <3>2, DollarsTold
    <3> QED BY <3>3 DEF d, m, h
  <2>3. Spent' = Spent
    BY <1>6 DEF Spent, Hold
  <2>4. cash[v] = Cash - StockOf(v)
    BY <1>2 DEF AccountsIInv, DollarsAddUp
  <2>5. CASE c = "DERIBIT"
    BY <1>6, <1>7, <2>5 DEF LossIsSpent, BitcoinIsNotCounted
  <2>6. CASE c # "DERIBIT"
    <3>1. b.usd = Cash - Spent
      <4>1. CASE c = "COINBASE" /\ Hold(v) # cash[v]
        BY <1>2, <2>2, <2>4, <4>1, PartsPositive DEF Spent, StockOf
      <4>2. CASE ~(c = "COINBASE" /\ Hold(v) # cash[v])
        BY <1>2, <2>2, <2>4, <2>6, <4>2, PartsPositive DEF Spent, StockOf
      <4> QED BY <4>1, <4>2
    <3>2. Spent \in Int
      BY <1>2 DEF Spent
    <3>3. equity' = b.usd \/ Cash - Spent <= 0
      BY <1>4, <1>5, <2>1, <3>1
    <3>4. Cash - equity' = Spent \/ Cash - Spent <= 0
      BY <3>1, <3>2, <3>3, PartsPositive
    <3> QED BY <2>3, <3>4 DEF LossIsSpent
  <2> QED BY <2>5, <2>6
<1>11. LossIsSpent'
  BY <1>10 DEF LossIsSpent
<1>12. SnapshotTrue'
  <2>1. PICK up \in BOOLEAN :
          LET p == FetchPositions(c, IF up THEN Unsigned(c, keyed[v], pa) ELSE "refused",
                                  held[v])
          IN seen' = (IF p.err THEN 0 ELSE p.qty)
    <3>1. (c = "DERIBIT" => keyed[v] /\ Authorised(token[v], auth)) \in BOOLEAN
      OBVIOUS
    <3> QED BY <3>1 DEF Reconcile
  <2> DEFINE qa == IF up THEN Unsigned(c, keyed[v], pa) ELSE "refused"
  <2>2. qa \in FetchAnswers
    <3>1. "refused" \in FetchAnswers
      BY DEF FetchAnswers, Faults
    <3> QED BY <3>1, UnsignedTyped
  <2>3. FetchPositions(c, qa, held[v]).qty \in {0, ListedAs(c, held[v])}
    BY <1>2, <2>2, PositionsTold
  <2>4. seen' \in {0, ListedAs(c, held[v])}
    BY <2>1, <2>3
  <2> QED BY <1>6, <2>4 DEF SnapshotTrue
<1> QED BY <1>1, <1>7, <1>8, <1>9, <1>11, <1>12 DEF AccountsIInv

(* A working order that fills pays like one that was placed. *)
LEMMA FillKeepsAccounts ==
  ASSUME AccountsIInv, NEW v \in Venues, VenueFills(v)
  PROVE  AccountsIInv'
<1>1. VenuesIInv /\ VenuesIInv'
  BY AccountKeeps DEF AccountsIInv
<1>2. /\ held' = [held EXCEPT ![v] = @ + work[v]] /\ work' = [work EXCEPT ![v] = 0]
      /\ cash' = [cash EXCEPT ![v] = IF CashAccount(conn[v]) THEN @ - work[v] ELSE @]
      /\ moved' = (moved \/ v = Primary)
      /\ UNCHANGED <<conn, intent, seen, equity, told>>
  BY DEF VenueFills, Move, botVars
<1>3. /\ held \in [Venues -> Int] /\ cash \in [Venues -> Int] /\ work \in [Venues -> Int]
      /\ moved \in BOOLEAN
  BY <1>1 DEF VenuesIInv, VenuesTypeOK
<1>4. WholeUnits'
  <2> SUFFICES ASSUME NEW u \in Venues, conn[u] = "OANDA" PROVE Whole(held'[u]) /\ Whole(work'[u])
    BY <1>2 DEF WholeUnits, Whole
  <2>1. Whole(held[u]) /\ Whole(work[u]) /\ held[u] \in Int /\ work[u] \in Int
    BY <1>3 DEF AccountsIInv, WholeUnits
  <2>2. CASE u = v
    <3>1. held'[u] = held[u] + 1 * work[u] /\ work'[u] = 0
      BY <1>2, <1>3, <2>2
    <3>2. Whole(held[u] + 1 * work[u])
      BY <2>1, WholeSum
    <3> QED BY <3>1, <3>2, WholeZero
  <2>3. CASE u # v
    BY <1>2, <1>3, <2>1, <2>3
  <2> QED BY <2>2, <2>3
<1>5. DollarsAddUp'
  <2> SUFFICES ASSUME NEW u \in Venues PROVE cash'[u] = Cash - StockOf(u)'
    BY DEF DollarsAddUp
  <2>1. cash[u] = Cash - StockOf(u) /\ held[u] \in Int /\ cash[u] \in Int /\ work[u] \in Int
    BY <1>3 DEF AccountsIInv, DollarsAddUp
  <2>2. CASE u = v
    <3>1. /\ held'[u] = held[u] + work[u]
          /\ cash'[u] = IF CashAccount(conn[u]) THEN cash[u] - work[u] ELSE cash[u]
      BY <1>2, <1>3, <2>2
    <3>2. CASE CashAccount(conn[u])
      BY <1>2, <2>1, <3>1, <3>2, PartsPositive DEF StockOf
    <3>3. CASE ~CashAccount(conn[u])
      BY <1>2, <2>1, <3>1, <3>3 DEF StockOf
    <3> QED BY <3>2, <3>3
  <2>3. CASE u # v
    BY <1>2, <1>3, <2>1, <2>3 DEF StockOf
  <2> QED BY <2>2, <2>3
<1>6. LossIsSpent' /\ SnapshotTrue'
  <2>1. CASE v = Primary
    BY <1>2, <1>3, <2>1 DEF LossIsSpent, SnapshotTrue
  <2>2. CASE v # Primary
    <3>1. /\ held'[Primary] = held[Primary] /\ cash'[Primary] = cash[Primary]
          /\ work'[Primary] = work[Primary] /\ (moved' = FALSE => moved = FALSE)
      BY <1>2, <1>3, <2>2, PrimaryTyped
    <3> QED BY <1>1, <1>2, <3>1, LossKept
  <2> QED BY <2>1, <2>2
<1>7. ExitOfSnapshot' /\ BitcoinIsNotCounted'
  BY <1>2 DEF AccountsIInv, ExitOfSnapshot, BitcoinIsNotCounted
<1> QED BY <1>1, <1>4, <1>5, <1>6, <1>7 DEF AccountsIInv

(* A withdrawn order never paid. *)
LEMMA WithdrawKeepsAccounts ==
  ASSUME AccountsIInv, NEW v \in Venues, VenueWithdraws(v) \/ Sweep(v)
  PROVE  AccountsIInv'
<1>1. VenuesIInv /\ VenuesIInv'
  BY AccountKeeps DEF AccountsIInv
<1>2. /\ work' = [work EXCEPT ![v] = 0] /\ moved' = (moved \/ v = Primary)
      /\ UNCHANGED <<conn, held, cash, intent, seen, equity, told>>
  BY DEF VenueWithdraws, Sweep, botVars
<1>3. work \in [Venues -> Int] /\ moved \in BOOLEAN
  BY <1>1 DEF VenuesIInv, VenuesTypeOK
<1>4. WholeUnits'
  <2> SUFFICES ASSUME NEW u \in Venues, conn[u] = "OANDA" PROVE Whole(held'[u]) /\ Whole(work'[u])
    BY <1>2 DEF WholeUnits, Whole
  <2>1. Whole(held[u]) /\ Whole(work[u]) /\ work'[u] \in {0, work[u]}
    BY <1>2, <1>3 DEF AccountsIInv, WholeUnits
  <2> QED BY <1>2, <2>1, WholeZero
<1>5. DollarsAddUp'
  BY <1>2 DEF AccountsIInv, DollarsAddUp, StockOf
<1>6. LossIsSpent' /\ SnapshotTrue'
  <2>1. CASE v = Primary
    BY <1>2, <1>3, <2>1 DEF LossIsSpent, SnapshotTrue
  <2>2. CASE v # Primary
    <3>1. work'[Primary] = work[Primary] /\ (moved' = FALSE => moved = FALSE)
      BY <1>2, <1>3, <2>2, PrimaryTyped
    <3> QED BY <1>1, <1>2, <3>1, LossKept
  <2> QED BY <2>1, <2>2
<1>7. ExitOfSnapshot' /\ BitcoinIsNotCounted'
  BY <1>2 DEF AccountsIInv, ExitOfSnapshot, BitcoinIsNotCounted
<1> QED BY <1>1, <1>4, <1>5, <1>6, <1>7 DEF AccountsIInv

(* Submitting an order, and a request that is not sent, touch no account.  *)
LEMMA RequestKeepsAccounts ==
  ASSUME AccountsIInv, VenuesIInv',
         UNCHANGED <<conn, held, cash, work, seen, equity, moved, told>>, ExitOfSnapshot'
  PROVE  AccountsIInv'
<1>1. WholeUnits' /\ DollarsAddUp' /\ BitcoinIsNotCounted' /\ LossIsSpent' /\ SnapshotTrue'
  BY MoneyKept
<1> QED BY <1>1 DEF AccountsIInv

(* Every step keeps the accounts. *)
LEMMA NextAccounts == AccountsIInv /\ [VenuesNext]_vars => AccountsIInv'
<1> SUFFICES ASSUME AccountsIInv, [VenuesNext]_vars PROVE AccountsIInv'
  OBVIOUS
<1>0. VenuesIInv /\ VenuesIInv'
  BY NextVenues DEF AccountsIInv
<1>1. ASSUME NEW v \in Venues, VenueFills(v) PROVE AccountsIInv'
  BY <1>1, FillKeepsAccounts
<1>2. ASSUME NEW v \in Venues, VenueWithdraws(v) \/ Sweep(v) PROVE AccountsIInv'
  BY <1>2, WithdrawKeepsAccounts
<1>3. ASSUME NEW v \in Venues, TokenAges(v) PROVE AccountsIInv'
  <2>1. UNCHANGED <<conn, held, cash, work, seen, equity, moved, told, intent>>
    BY <1>3 DEF TokenAges, venueVars, botVars, histVars
  <2> QED BY <1>0, <2>1, IntentKept, RequestKeepsAccounts
<1>4. ASSUME NEW side \in {-1, 1}, NEW qty \in Sizes, Entry(side, qty) PROVE AccountsIInv'
  <2>1. Submit(side, qty, FALSE)
    BY <1>4 DEF Entry
  <2>2. /\ intent'.reduce = FALSE
        /\ UNCHANGED <<conn, held, cash, work, seen, equity, moved, told>>
    BY <2>1 DEF Submit, venueVars, histVars
  <2>3. ExitOfSnapshot'
    BY <2>2 DEF ExitOfSnapshot
  <2> QED BY <1>0, <2>2, <2>3, RequestKeepsAccounts
<1>5. ASSUME Exit PROVE AccountsIInv'
  <2>1. Submit(Sign(-seen), Abs(seen), TRUE)
    BY <1>5 DEF Exit
  <2>2. /\ seen # 0 /\ intent'.side = Sign(-seen) /\ intent'.qty = Abs(seen)
        /\ UNCHANGED <<conn, held, cash, work, seen, equity, moved, told>>
    BY <1>5, <2>1 DEF Exit, Submit, venueVars, histVars
  <2>3. ExitOfSnapshot'
    BY <2>2 DEF ExitOfSnapshot
  <2> QED BY <1>0, <2>2, <2>3, RequestKeepsAccounts
<1>6. ASSUME NotSent PROVE AccountsIInv'
  <2>1. /\ UNCHANGED <<conn, held, cash, work, seen, equity, moved, told>>
        /\ intent' \in {intent, Idle}
    BY <1>6 DEF NotSent, NextVenue, venueVars, histVars
  <2> QED BY <1>0, <2>1, IntentKept, RequestKeepsAccounts
<1>7. ASSUME NEW a \in OrderAnswers, NEW auth, Place(a, auth) PROVE AccountsIInv'
  BY <1>7, PlaceKeepsAccounts
<1>8. ASSUME NEW pa \in FetchAnswers, NEW ba \in FetchAnswers, NEW auth,
             Reconcile(pa, ba, auth)
      PROVE  AccountsIInv'
  BY <1>8, ReconcileKeepsAccounts
<1>9. ASSUME UNCHANGED vars PROVE AccountsIInv'
  <2>1. UNCHANGED <<conn, held, cash, work, seen, equity, moved, told, intent>>
    BY <1>9 DEF vars, venueVars, botVars, histVars
  <2> QED BY <1>0, <2>1, IntentKept, RequestKeepsAccounts
<1> QED
  BY <1>1, <1>2, <1>3, <1>4, <1>5, <1>6, <1>7, <1>8, <1>9 DEF VenuesNext

(* The accounts add up throughout. *)
LEMMA AccountsInvariant == VenuesSpec => []AccountsIInv
  BY InitAccounts, NextAccounts, PTL DEF VenuesSpec

(* What the equity lost is what was spent, for any chain, connectors and   *)
(* sizes: with no price moving, an honest reconcile hides nothing.         *)
THEOREM EquityLossIsSpent == VenuesSpec => []LossIsSpent
  BY AccountsInvariant, PTL DEF AccountsIInv

(* Some of an amount, taken off it, leaves less. *)
LEMMA TakingReduces ==
  ASSUME NEW h \in Int, NEW k \in 0..Abs(h), k # 0
  PROVE  Abs(h + Sign(-h) * k) < Abs(h)
<1>1. CASE h > 0
  BY <1>1 DEF Abs, Sign
<1>2. CASE h < 0
  BY <1>2 DEF Abs, Sign
<1>3. CASE h = 0
  BY <1>3 DEF Abs
<1> QED BY <1>1, <1>2, <1>3

(* A reduce-only order placed with the primary venue, whose account has    *)
(* not changed since the snapshot, reduces the position: whatever the      *)
(* connector, its rounding and the answer, and however much of the order   *)
(* is executed, unless the position is a short at OANDA.                   *)
THEOREM ExitsReduceHere == VenuesSpec => ExitReducesHere
<1>1. AccountsIInv /\ [VenuesNext]_vars =>
        [ExitStep => Reduces \/ (conn[Primary] = "OANDA" /\ held[Primary] < 0)]_vars
  <2> SUFFICES ASSUME AccountsIInv, VenuesNext, ExitStep,
                      ~(conn[Primary] = "OANDA" /\ held[Primary] < 0)
               PROVE  Reduces
    OBVIOUS
  <2>0. intent.reduce /\ ~moved /\ at = 1 /\ at' # at /\ held'[Primary] # held[Primary]
    BY DEF ExitStep
  <2>1. VenuesIInv /\ Placing /\ Primary \in Venues /\ held \in [Venues -> Int]
    BY <2>0, PrimaryTyped DEF AccountsIInv, VenuesIInv, VenuesTypeOK, Placing, Idle
  <2>2. PICK a \in OrderAnswers, auth \in {"lost", "ok"} : Place(a, auth)
    <3>0. Auths(Chain[at]) \subseteq {"lost", "ok"}
      BY DEF Auths
    <3>1. ASSUME NEW v \in Venues, VenueFills(v) \/ VenueWithdraws(v) \/ TokenAges(v) \/ Sweep(v)
          PROVE  at' = at
      BY <3>1 DEF VenueFills, VenueWithdraws, TokenAges, Sweep, botVars
    <3>2. ASSUME NEW side, NEW qty, Entry(side, qty) PROVE FALSE
      BY <2>0, <2>1, <3>2 DEF Entry, Submit
    <3>3. ASSUME Exit PROVE FALSE
      BY <2>0, <2>1, <3>3 DEF Exit, Submit
    <3>4. ASSUME NotSent PROVE held' = held
      BY <3>4 DEF NotSent, venueVars
    <3>5. ASSUME NEW pa, NEW ba, NEW auth, Reconcile(pa, ba, auth) PROVE FALSE
      BY <2>0, <2>1, <3>5 DEF Reconcile
    <3> QED BY <2>0, <3>0, <3>1, <3>2, <3>3, <3>4, <3>5 DEF VenuesNext
  <2> DEFINE h == held[Primary]
             n == Requested(conn[Primary], intent.qty, Parts)
  <2>3. Chain[at] = Primary /\ intent.side = Sign(-h) /\ intent.qty = Abs(h)
        /\ h \in Int /\ Abs(h) \in Nat
    <3>1. Chain[at] = Primary /\ h \in Int /\ Abs(h) \in Nat
      BY <2>0, <2>1 DEF Primary, Abs
    <3>2. /\ intent.side = Sign(-seen) /\ intent.qty = Abs(seen) /\ seen # 0
          /\ moved = FALSE
      BY <2>0, <2>1 DEF AccountsIInv, ExitOfSnapshot, VenuesIInv, VenuesTypeOK
    <3>3. seen = h
      BY <2>1, <3>1, <3>2 DEF AccountsIInv, SnapshotTrue, ListedAs, Abs
    <3> QED BY <3>1, <3>2, <3>3
  <2>4. PICK k \in 0..n : held' = [held EXCEPT ![Primary] = @ + intent.side * k]
    <3>1. \E k \in 0..Requested(conn[Chain[at]], intent.qty, Parts) :
             held' = [held EXCEPT ![Chain[at]] = @ + intent.side * k]
      BY <2>1, <2>2, PlaceMoves
    <3> QED BY <2>3, <3>1
  <2>5. n = Abs(h)
    <3>1. CASE conn[Primary] = "OANDA"
      <4>1. Whole(h)
        BY <2>1, <3>1 DEF AccountsIInv, WholeUnits
      <4>2. Whole(Abs(h))
        <5> HIDE DEF h
        <5>1. Whole(0 + 1 * h) /\ Whole(0 + -1 * h)
          BY <2>3, <4>1, WholeZero, WholeSum
        <5>2. Abs(h) = 0 + 1 * h \/ Abs(h) = 0 + -1 * h
          BY <2>3 DEF Abs
        <5> QED BY <5>1, <5>2
      <4> QED BY <2>3, <3>1, <4>2, RequestedIsWhole
    <3>2. CASE conn[Primary] # "OANDA"
      BY <2>3, <3>2 DEF Requested
    <3> QED BY <3>1, <3>2
  <2>6. held'[Primary] = h + Sign(-h) * k
    BY <2>1, <2>3, <2>4
  <2>7. k # 0
    <3>1. Sign(-h) * 0 = 0
      BY <2>3 DEF Sign
    <3>2. k = 0 => held'[Primary] = h
      BY <2>3, <2>6, <3>1
    <3> QED BY <2>0, <3>2
  <2> HIDE DEF h, n
  <2>8. Abs(h + Sign(-h) * k) < Abs(h)
    BY <2>3, <2>5, <2>7, TakingReduces
  <2> QED BY <2>6, <2>8 DEF h, Reduces
<1> QED BY <1>1, AccountsInvariant, PTL DEF VenuesSpec, ExitReducesHere
===============================================================================
