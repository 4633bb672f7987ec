-------------------------------- MODULE Venues --------------------------------
(***************************************************************************)
(* Runner.onTick, closeVenuePosition, placeOrder (live) and                *)
(* reconcilePortfolio of one instrument, over the adapters of Connectors:  *)
(* an order goes along a chain of venues, each behind a connector of its   *)
(* own, and the bot knows of the accounts there what the adapters tell.    *)
(*                                                                         *)
(* Quantities are signed and counted in parts of a unit; one part costs    *)
(* one dollar, always: what the equity does here no price has done.        *)
(* PlaceFallback's steps and PaperConnector are in modules of their own,   *)
(* as are the hold timers (Portfolio).                                     *)
(***************************************************************************)
EXTENDS Connectors, Sequences

CONSTANTS
  Venues,
  Chain,        \* executionVenueChain: the instrument's venue, then the fallbacks
  Conns,        \* the connectors the primary venue may have
  Fallbacks,    \* the connectors the other venues may have
  Keyless,      \* venues whose credentials may be missing
  Parts,        \* parts of a unit
  Sizes,        \* quantities the sizing of entries comes to
  Cash,         \* dollars in each account at the start, and the bot's equity
  MinDepth,     \* risk.min_book_depth_usd > 0
  MaxOrders     \* bound: orders sent

Primary == Chain[1]

ASSUME VenuesAssumption ==
  /\ Chain \in Seq(Venues) /\ Chain # <<>>
  /\ \A i, j \in DOMAIN Chain : Chain[i] = Chain[j] => i = j
  /\ Conns \cup Fallbacks \subseteq ConnectorNames /\ Keyless \subseteq Venues
  /\ Parts \in Nat \ {0} /\ Sizes \subseteq Nat \ {0}
  /\ Cash \in Nat /\ MinDepth \in BOOLEAN /\ MaxOrders \in Nat

VARIABLES
  conn, keyed,  \* per venue: its connector, and whether it has credentials
  token,        \* Deribit's token: "none", "good", "late" (30s before expiry)
  held, cash,   \* per venue: what the account holds and its dollars
  work,         \* per venue: signed quantity of working orders
  intent, at,   \* the order being placed and its place in Chain
  ledger,       \* net of the rows of LogFill, all under the intent's venue
  seen,         \* the snapshot's quantity of the instrument
  equity,       \* EquityUSD
  sent,         \* orders sent so far
  elsewhere,    \* history: net of the rows of orders a fallback venue took
  silent,       \* history: quantity of the primary's orders that has no row
  moved,        \* history: the primary account changed since the snapshot
  told          \* history: the last reconcile's fetches: "none", "ok", "failed"

venueVars == <<held, cash, work>>
botVars == <<intent, at, ledger, seen, equity, sent>>
histVars == <<elsewhere, silent, moved, told>>
vars == <<conn, keyed, token, venueVars, botVars, histVars>>

Abs(n) == IF n < 0 THEN -n ELSE n
Idle == [side |-> 0, qty |-> 0, reduce |-> FALSE]
Placing == intent # Idle

(* Bought for dollars; OANDA and Deribit are margin accounts. *)
CashAccount(c) == c \notin {"OANDA", "DERIBIT"}
Hold(v) == IF CashAccount(conn[v]) /\ work[v] > 0 THEN work[v] ELSE 0

VenuesTypeOK ==
  /\ conn \in [Venues -> ConnectorNames] /\ keyed \in [Venues -> BOOLEAN]
  /\ token \in [Venues -> {"none", "good", "late"}]
  /\ held \in [Venues -> Int] /\ cash \in [Venues -> Int] /\ work \in [Venues -> Int]
  /\ intent \in [side : {-1, 0, 1}, qty : Nat, reduce : BOOLEAN]
  /\ at \in 0..Len(Chain) /\ (Placing <=> at > 0)
  /\ ledger \in Int /\ seen \in Int /\ equity \in Int /\ sent \in Nat
  /\ elsewhere \in Int /\ silent \in Nat /\ moved \in BOOLEAN
  /\ told \in {"none", "ok", "failed"}

VenuesInit ==
  /\ conn \in [Venues -> Conns \cup Fallbacks] /\ keyed \in [Venues -> BOOLEAN]
  /\ \A v \in Venues : /\ conn[v] \in (IF v = Primary THEN Conns ELSE Fallbacks)
                       /\ keyed[v] \/ (v \in Keyless /\ NeedsKeys(conn[v]))
  /\ token = [v \in Venues |-> "none"]
  /\ held = [v \in Venues |-> 0] /\ cash = [v \in Venues |-> Cash]
  /\ work = [v \in Venues |-> 0]
  /\ intent = Idle /\ at = 0 /\ ledger = 0
  /\ seen = 0 /\ equity = Cash /\ sent = 0
  /\ elsewhere = 0 /\ silent = 0 /\ moved = FALSE /\ told = "none"

----------------------------------------------------------------------------
(* The venues on their own: a working order fills or is withdrawn, a token *)
(* comes close to its expiry.                                              *)
Move(v, n) ==
  /\ held' = [held EXCEPT ![v] = @ + n]
  /\ cash' = [cash EXCEPT ![v] = IF CashAccount(conn[v]) THEN @ - n ELSE @]

Sign(n) == IF n < 0 THEN -1 ELSE IF n > 0 THEN 1 ELSE 0

VenueFills(v) ==
  /\ work[v] # 0 /\ Move(v, work[v])
  /\ work' = [work EXCEPT ![v] = 0]
  /\ moved' = (moved \/ v = Primary)
  /\ UNCHANGED <<conn, keyed, token, botVars, elsewhere, silent, told>>

VenueWithdraws(v) ==
  /\ work[v] # 0 /\ work' = [work EXCEPT ![v] = 0]
  /\ moved' = (moved \/ v = Primary)
  /\ UNCHANGED <<conn, keyed, token, held, cash, botVars, elsewhere, silent, told>>

TokenAges(v) ==
  /\ token[v] = "good" /\ token' = [token EXCEPT ![v] = "late"]
  /\ UNCHANGED <<conn, keyed, venueVars, botVars, histVars>>

----------------------------------------------------------------------------
(* onTick and closeVenuePosition, up to their call of placeOrder.          *)
Mid(b) == b.bid \/ b.ask
Deep(b) == MinDepth => b.bid /\ b.ask
RefPrice(b, side) == IF side = 1 THEN b.ask ELSE b.bid

(* connectorFor and FetchBookTop of the primary venue.                     *)
Quoted(c, a) == IF QuoteNeedsKeys(c) THEN Unsigned(c, keyed[Primary], a) ELSE a
Books == {FetchBookTop(conn[Primary], Quoted(conn[Primary], a), second) :
            a \in BookAnswers, second \in {"lost", "both"}}

Submit(side, qty, reduce) ==
  /\ ~Placing /\ sent < MaxOrders
  /\ intent' = [side |-> side, qty |-> qty, reduce |-> reduce] /\ at' = 1
  /\ sent' = sent + 1
  /\ UNCHANGED <<conn, keyed, token, venueVars, ledger, seen, equity, histVars>>

Entry(side, qty) ==
  /\ equity > 0
  /\ \E b \in Books : b.ok /\ Mid(b) /\ RefPrice(b, side) /\ Deep(b)
  /\ Submit(side, qty, FALSE)

(* Plausible bug: exits are of long positions. *)
ExitSells ==
  /\ seen # 0
  /\ \E b \in Books : b.ok /\ Deep(b)
  /\ Submit(-1, Abs(seen), TRUE)

Exit ==
  /\ seen # 0
  /\ \E b \in Books : b.ok /\ Deep(b)
  /\ Submit(Sign(-seen), Abs(seen), TRUE)

----------------------------------------------------------------------------
(* placeOne at Chain[at]: the adapter refuses the order or sends it, the   *)
(* venue takes or refuses it and answers, the adapter reads the answer.    *)
Sends(c, auth, v, n) ==
  /\ c \in Brokers /\ (NeedsKeys(c) => keyed[v])
  /\ c = "DERIBIT" => Authorised(token[v], auth)
  /\ c = "OANDA" => n > 0

(* What a venue that answers a has executed of n, and whether it took it.  *)
Executed(c, a, n) ==
  CASE a \in {"refused", "error", "accepted"} -> {0}
    [] a = "filled" -> {n}
    [] a = "partial" -> {k \in 1..(n - 1) : c = "OANDA" => k % Parts = 0}
    [] OTHER -> {0, n}
Takes(a) == IF a \in {"refused", "error"} THEN {FALSE}
            ELSE IF a \in {"lost", "garbled"} THEN BOOLEAN ELSE {TRUE}

(* A cash account takes no order its dollars do not cover.                 *)
Funded(v, n) ==
  CashAccount(conn[v]) /\ intent.side = 1 => n + Hold(v) <= cash[v]

(* Plausible bug: the loop over the chain misses its end. *)
NextVenuePastEnd == at' = at + 1 /\ intent' = intent
NextVenue ==
  IF at < Len(Chain) THEN at' = at + 1 /\ intent' = intent
  ELSE at' = 0 /\ intent' = Idle

(* LogFill: a row under the intent's venue, whichever took the order, of   *)
(* what the answer says was filled; none when nothing was, without a store *)
(* and when the insert fails (n = 0).                                      *)
(* Plausible bug: the quantity asked for is logged whatever the answer is. *)
RecordIntent(v, n) ==
  /\ ledger' = ledger + intent.side * intent.qty
  /\ elsewhere' = IF v = Primary THEN elsewhere ELSE elsewhere + intent.side * intent.qty
Record(v, n) ==
  /\ ledger' = ledger + intent.side * n
  /\ elsewhere' = IF v = Primary THEN elsewhere ELSE elsewhere + intent.side * n

NotSent ==
  /\ Placing
  /\ LET v == Chain[at] IN
       /\ ~Sends(conn[v], "lost", v, Requested(conn[v], intent.qty, Parts))
       /\ NextVenue
  /\ UNCHANGED <<conn, keyed, token, venueVars, ledger, seen, equity, sent, histVars>>

(* The order is answered; a slow answer with an id is followed by a        *)
(* CancelOrder, whose outcome is ignored.                                  *)
Place(a, auth) ==
  /\ Placing
  /\ LET v == Chain[at]
         c == conn[v]
         n == Requested(c, intent.qty, Parts)
     IN /\ Sends(c, auth, v, n)
        /\ token' = [token EXCEPT ![v] = IF c = "DERIBIT" THEN EnsureToken(@, auth) ELSE @]
        /\ \E taken \in Takes(a) : \E done \in Executed(c, a, n) : \E canceled \in BOOLEAN :
             LET k == IF taken THEN done ELSE 0
                 r == PlaceOrder(c, a, k)
                 rest == IF taken THEN n - k ELSE 0
             IN /\ taken => Funded(v, n)
                /\ canceled => rest > 0 /\ r.id /\ SendsCancel(c)
                /\ Move(v, intent.side * k)
                /\ work' = [work EXCEPT ![v] = IF canceled THEN @ ELSE @ + intent.side * rest]
                /\ moved' = (moved \/ (v = Primary /\ taken))
                /\ \E row \in (IF r.err THEN {0} ELSE {0, r.filled}) :
                     /\ Record(v, row)
                     /\ silent' = IF v = Primary THEN silent + k + rest - row ELSE silent
                /\ IF r.err THEN NextVenue ELSE at' = 0 /\ intent' = Idle
  /\ UNCHANGED <<conn, keyed, seen, equity, sent, told>>

----------------------------------------------------------------------------
(* reconcilePortfolio: the positions and the dollars of the primary venue, *)
(* the only one traded; the fallbacks are never asked.                     *)
Sub(b) == IF b.err THEN 0 ELSE b.usd
Total(b) == IF Sub(b) > 0 THEN Sub(b) ELSE equity

Reconcile(pa, ba, auth) ==
  /\ ~Placing /\ conn[Primary] # Unregistered
  /\ LET v == Primary
         c == conn[v]
         up == c = "DERIBIT" => keyed[v] /\ Authorised(token[v], auth)
         p == FetchPositions(c, IF up THEN Unsigned(c, keyed[v], pa) ELSE "refused", held[v])
         b == FetchBalances(c, IF up THEN Unsigned(c, keyed[v], ba) ELSE "refused",
                            cash[v], Hold(v))
     IN /\ seen' = (IF p.err THEN 0 ELSE p.qty)
        /\ equity' = Total(b)
        /\ told' = IF p.err \/ b.err \/ ba # "ok" THEN "failed" ELSE "ok"
        /\ token' = [token EXCEPT ![v] = IF c = "DERIBIT" /\ keyed[v]
                                         THEN EnsureToken(@, auth) ELSE @]
  /\ moved' = FALSE
  /\ UNCHANGED <<conn, keyed, venueVars, intent, at, ledger, sent, elsewhere, silent>>

(* CancelAllVenues, of a nuke, at a venue whose adapter sends a request    *)
(* that arrives; the other adapters answer at once that all is well.       *)
Sweep(v) ==
  /\ SendsCancelAll(conn[v]) /\ (NeedsKeys(conn[v]) => keyed[v]) /\ work[v] # 0
  /\ work' = [work EXCEPT ![v] = 0]
  /\ moved' = (moved \/ v = Primary)
  /\ UNCHANGED <<conn, keyed, token, held, cash, botVars, elsewhere, silent, told>>

(* Deribit alone authenticates. *)
Auths(v) == IF conn[v] = "DERIBIT" THEN {"lost", "ok"} ELSE {"ok"}

VenuesNext ==
  \/ \E v \in Venues : VenueFills(v) \/ VenueWithdraws(v) \/ TokenAges(v) \/ Sweep(v)
  \/ \E side \in {-1, 1}, qty \in Sizes : Entry(side, qty)
  \/ Exit \/ NotSent
  \/ Placing /\ \E a \in OrderAnswers, auth \in Auths(Chain[at]) : Place(a, auth)
  \/ \E pa, ba \in FetchAnswers, auth \in Auths(Primary) : Reconcile(pa, ba, auth)

VenuesSpec == VenuesInit /\ [][VenuesNext]_vars

----------------------------------------------------------------------------
(* The comparison logPositionDriftVsLedger makes, rows of fallback venues   *)
(* set apart: the ledger differs from what the primary account did by no   *)
(* more than the orders there that were answered open, in part or not at   *)
(* all, and the rows that were not inserted (runner.go:704).               *)
LedgerGapExplained == Abs(held[Primary] + elsewhere - ledger) <= silent

(* A reduce-only order reaches the account of its position, which has not  *)
(* changed since the snapshot.                                             *)
ExitStep ==
  intent.reduce /\ ~moved /\ at = 1 /\ at' # at /\ held'[Primary] # held[Primary]
Reduces == Abs(held'[Primary]) < Abs(held[Primary])

(* Such an exit only reduces the position: no adapter passes ReduceOnly    *)
(* on, so this rests on what the adapter lists, and on the quantity, its   *)
(* rounding and its side. On a fallback venue it opens one                 *)
(* (runner.go:670), and of a short at OANDA it makes a larger one          *)
(* (oanda.go:132).                                                         *)
ExitReducesHere ==
  [][ExitStep => Reduces \/ (conn[Primary] = "OANDA" /\ held[Primary] < 0)]_vars

(* What configs/config.fx.yaml:49 says of the exit of an overdue position: *)
(* "this sends a flattening market order". At OANDA the code sells a short.*)
ExitFlattens == [][ExitStep => Reduces]_vars

(* With no price moving, what the equity lost since the start is the stock *)
(* bought for dollars - a purchase at a cash account counts as a loss -    *)
(* and at Coinbase what working orders hold; Deribit's account, and one    *)
(* without dollars, leave the equity as it was.                            *)
Spent == (IF CashAccount(conn[Primary]) THEN held[Primary] ELSE 0)
         + (IF conn[Primary] = "COINBASE" /\ Hold(Primary) # cash[Primary]
            THEN Hold(Primary) ELSE 0)
LossIsSpent ==
  told = "ok" /\ ~moved => \/ Cash - equity = Spent
                           \/ Cash - Spent <= 0
                           \/ conn[Primary] = "DERIBIT" /\ equity = Cash
=============================================================================
