--------------------------- MODULE OrderSimulator ---------------------------
(***************************************************************************)
(* The order simulator of a backtest (backtestStudio/gls/orderSimulator.js)*)
(* under the event loop of its runtime (runtime.js, mode compiled-soa, the *)
(* default): the position, the lots, the resting orders and the liquidity  *)
(* the strategy has used, and the hooks in which the strategy calls it.    *)
(*                                                                         *)
(* Everything runs in one thread.  The strategy is not modelled: in a hook *)
(* it may make any sequence of calls.  The loop of checkRestingOrders is   *)
(* one step per resting order, and nothing else can happen until it is     *)
(* over.  A call that is refused before it changes anything is no step.    *)
(*                                                                         *)
(* A missing lot is a lot of no shares.  Money is in whole units, and the  *)
(* cost of a partial sale is rounded down to one.  Left out: fees, the     *)
(* lists of orders but for their number, the peak bid and every view the   *)
(* strategy only reads.                                                    *)
(***************************************************************************)
EXTENDS OrderBook, FiniteSets

CONSTANTS
    Up, Down,       \* the two sides of a market
    Ticks,          \* rows of the column set: books and scalar best asks
    EntryOptions,   \* arguments a strategy may give enter and reverse
    ExitOptions,    \* ... exit, closeOpenPosition and reverse
    LimitOptions,   \* ... placeLimitBuy
    StopOptions,    \* ... placeBuyStop
    Epsilon,        \* makerFillEpsilon
    LevelCapped,    \* makerFillPolicy = 'level-capped'
    MaxOrders,      \* limits.maxOrdersPerEvent
    MaxResting,     \* limits.maxRestingOrders
    MaxPlaced,      \* bound: resting orders an event places
    MaxCalls,       \* bound: calls that change something, per event
    MaxRows         \* bound: ticks of an event

Sides == {Up, Down}
Other(s) == IF s = Up THEN Down ELSE Up

Tick == [ask : [Sides -> Book], bid : [Sides -> Book],
         top : [Sides -> Prices \cup {None}]]

EntryOption == [price : Prices, maxPrice : Prices, qty : Nat, budget : Nat,
                minShares : Nat, minLiquidityRatio : Nat,
                ignoreConsumed : BOOLEAN]
ExitOption  == [price : Prices, qty : Nat, pct : Nat, minShares : Nat]
LimitOption == [role : {"entry", "hedge"}, price : Prices, budget : Nat,
                qty : Nat]
StopOption  == [price : Prices, cap : Prices, budget : Nat, qty : Nat]

Position == [side : Sides, total : Nat, remaining : Nat \ {0}, openCost : Nat]
Lot      == [shares : Nat, cost : Nat]

ASSUME SimulatorAssumption ==
    /\ Up # Down /\ None \notin Sides /\ None \notin Position
    /\ Ticks \subseteq Tick /\ Ticks # {}
    /\ EntryOptions \subseteq EntryOption
    /\ ExitOptions \subseteq ExitOption
    /\ LimitOptions \subseteq LimitOption
    /\ StopOptions \subseteq StopOption
    /\ Epsilon \in Nat
    /\ LevelCapped \in BOOLEAN
    /\ MaxOrders \in Nat /\ MaxResting \in Nat
    /\ MaxPlaced \in Nat /\ MaxCalls \in Nat /\ MaxRows \in Nat \ {0}

VARIABLES
    at,           \* "idle": no event; "hook"; "check"; "wait": for a tick
    hook,         \* the hook that runs, or runs after the check
    tick,         \* what the cursor shows
    next,         \* the resting order checkRestingOrders looks at
    position,     \* None or the open position
    lots,         \* lots[s]: shares held of side s and their cost
    realizedPnl,
    entries,      \* orders of type entry
    resting,      \* restingOrders, in the order they were placed
    lastBestAsks,
    asksUsed,     \* consumedAsksBySide
    bidsUsed,     \* consumedBidsBySide
    outcome,      \* winner and finalPnl of the event that ended last
    rows,
    calls,
    cash,         \* history: money received less money paid
    held,         \* history: held[s]: shares bought less shares sold
    erased,       \* history: erased[s]: the lots an entry has overwritten
    bought,       \* history: asks taken from the book of this tick
    sold          \* history: bids taken from the book of this tick

control == <<at, hook, tick, next, rows, calls>>
holding == <<position, lots, realizedPnl>>
liquidity == <<asksUsed, bidsUsed>>
history == <<cash, held, erased, bought, sold>>
vars == <<control, holding, entries, resting, lastBestAsks, liquidity, outcome,
          history>>

NoLot     == [shares |-> 0, cost |-> 0]
NoOutcome == [winner |-> None, finalPnl |-> 0]
Zeroes    == [s \in Sides |-> NothingUsed]

BestAsk(s, t) == BestPrice(t.ask[s], t.top[s])

OpenResting == {i \in DOMAIN resting : resting[i].status = "open"}

-----------------------------------------------------------------------------
(* Buying and selling                                                      *)

(* planEntry: what an entry would buy, and what it leaves used even when a *)
(* last check refuses it.                                                  *)
Plan(s, o, used) ==
    LET target   == IF o.qty > 0 THEN o.qty ELSE o.budget \div o.maxPrice
        levels   == Levels(tick.ask[s], o.price)
        within   == {p \in Prices : p <= o.maxPrice}
        fills    == Fills(levels, IF o.ignoreConsumed THEN NothingUsed ELSE used,
                          within, target)
        shares   == Shares(fills)
        notional == Notional(levels, fills)
        tried    == entries < MaxOrders /\ target > 0 /\ target >= o.minShares
    IN  [tried    |-> tried,
         ok       |-> /\ tried
                      /\ 100 * shares >= target * o.minLiquidityRatio
                      /\ shares >= o.minShares
                      /\ shares > 0
                      /\ notional <= o.budget,
         shares   |-> shares,
         notional |-> notional,
         used     |-> IF o.ignoreConsumed THEN used
                      ELSE UsedAfter(levels, used, fills),
         dryUsed  |-> IF o.ignoreConsumed THEN used
                      ELSE UsedAfter(levels, used, <<0, 0>>),
         taken    |-> [p \in Prices |-> IF o.ignoreConsumed THEN 0
                                        ELSE FilledAt(levels, fills, p)]]

(* exit: what selling from the position would bring.                       *)
Sale(o) ==
    LET wanted == IF o.qty > 0 THEN o.qty
                  ELSE IF o.pct > 0
                  THEN (position.total * Least(100, o.pct)) \div 100
                  ELSE position.remaining
        shares == Least(position.remaining, wanted)
        levels == Levels(tick.bid[position.side], o.price)
        used   == bidsUsed[position.side]
        fills  == Fills(levels, used, {p \in Prices : p >= o.price}, shares)
        tried  == shares > 0 /\ shares >= o.minShares
    IN  [tried    |-> tried,
         ok       |-> tried /\ Shares(fills) > 0 /\ Shares(fills) >= o.minShares,
         shares   |-> Shares(fills),
         proceeds |-> Notional(levels, fills),
         cost     |-> (position.openCost * Shares(fills)) \div position.remaining,
         used     |-> UsedAfter(levels, used, fills),
         taken    |-> [p \in Prices |-> FilledAt(levels, fills, p)]]

(* Mutant: the cost of what was sold stays in the lot.                     *)
DebitedShares(lot, shares, cost) ==
    IF lot.shares <= shares THEN NoLot
    ELSE [lot EXCEPT !.shares = @ - shares]

(* debitLot                                                                *)
Debited(lot, shares, cost) ==
    IF lot.shares <= shares THEN NoLot
    ELSE [shares |-> lot.shares - shares,
          cost   |-> IF lot.cost <= cost THEN 0 ELSE lot.cost - cost]

(* Mutant: a position that was sold out is not given up.                   *)
PositionEmptied(sale) ==
    [position EXCEPT !.remaining = @ - sale.shares, !.openCost = @ - sale.cost]

(* Mutant: the position keeps the cost of what was sold.                   *)
PositionUncosted(sale) ==
    IF position.remaining = sale.shares THEN None
    ELSE [position EXCEPT !.remaining = @ - sale.shares]

PositionAfter(sale) ==
    IF position.remaining = sale.shares THEN None
    ELSE [position EXCEPT !.remaining = @ - sale.shares,
                          !.openCost  = @ - sale.cost]

LotsAfter(sale) ==
    [lots EXCEPT ![position.side] = Debited(@, sale.shares, sale.cost)]

Taken(tally, s, taken) ==
    [tally EXCEPT ![s] = [p \in Prices |-> @[p] + taken[p]]]

(* A new position becomes the lot of its side (syncPrimaryLotFromPosition),*)
(* whatever it finds there in `current`.                                   *)
OpenPosition(s, shares, cost, current) ==
    /\ position' = [side |-> s, total |-> shares, remaining |-> shares,
                    openCost |-> cost]
    /\ lots' = [current EXCEPT ![s] = [shares |-> shares, cost |-> cost]]
    /\ erased' = [erased EXCEPT ![s] = [shares |-> @.shares + current[s].shares,
                                        cost   |-> @.cost + current[s].cost]]

Called ==
    /\ at = "hook"
    /\ calls < MaxCalls
    /\ calls' = calls + 1
    /\ UNCHANGED <<at, hook, tick, next, rows>>

-----------------------------------------------------------------------------
(* The calls of the strategy                                               *)

Enter(s, o) ==
    LET plan == Plan(s, o, asksUsed[s])
    IN  /\ Called
        /\ position = None
        /\ plan.tried
        /\ asksUsed' = [asksUsed EXCEPT ![s] = plan.used]
        /\ IF plan.ok
           THEN /\ OpenPosition(s, plan.shares, plan.notional, lots)
                /\ entries' = entries + 1
                /\ cash' = cash - plan.notional
                /\ held' = [held EXCEPT ![s] = @ + plan.shares]
                /\ bought' = Taken(bought, s, plan.taken)
           ELSE UNCHANGED <<position, lots, erased, entries, cash, held, bought>>
        /\ UNCHANGED <<realizedPnl, resting, lastBestAsks, bidsUsed, outcome, sold>>

Exit(o) ==
    /\ Called
    /\ position # None
    /\ LET sale == Sale(o)
           s    == position.side
       IN  /\ sale.tried
           /\ bidsUsed' = [bidsUsed EXCEPT ![s] = sale.used]
           /\ IF sale.ok
              THEN /\ realizedPnl' = realizedPnl + sale.proceeds - sale.cost
                   /\ position' = PositionAfter(sale)
                   /\ lots' = LotsAfter(sale)
                   /\ cash' = cash + sale.proceeds
                   /\ held' = [held EXCEPT ![s] = @ - sale.shares]
                   /\ sold' = Taken(sold, s, sale.taken)
              ELSE UNCHANGED <<realizedPnl, position, lots, cash, held, sold>>
    /\ UNCHANGED <<entries, resting, lastBestAsks, asksUsed, outcome, erased, bought>>

(* Mutant: the dry plan of a reversal leaves the last checks to the entry. *)
DryPlanLenient(s, o) ==
    LET plan == Plan(s, o, asksUsed[s]) IN [plan EXCEPT !.ok = plan.tried]

DryPlan(s, o) == Plan(s, o, asksUsed[s])

(* reverse with a position: a dry plan of the entry, the sale of the whole *)
(* position, and when that closed it the plan again, this time consuming.  *)
(* A dry plan consumes nothing, but it too forgets prices that are gone.   *)
Reverse(s, o, exitPrice) ==
    /\ Called
    /\ position # None
    /\ LET dry    == DryPlan(s, o)
           sale   == Sale([price |-> exitPrice, qty |-> 0, pct |-> 0, minShares |-> 0])
           closed == sale.ok /\ sale.shares = position.remaining
           plan   == Plan(s, o, dry.dryUsed)
           p      == position.side
       IN  /\ dry.tried
           /\ asksUsed' = [asksUsed EXCEPT ![s] =
                  IF dry.ok /\ closed THEN plan.used ELSE dry.dryUsed]
           /\ IF dry.ok
              THEN bidsUsed' = [bidsUsed EXCEPT ![p] = sale.used]
              ELSE UNCHANGED bidsUsed
           /\ IF dry.ok /\ sale.ok
              THEN /\ realizedPnl' = realizedPnl + sale.proceeds - sale.cost
                   /\ sold' = Taken(sold, p, sale.taken)
              ELSE UNCHANGED <<realizedPnl, sold>>
           /\ \/ /\ dry.ok /\ closed /\ plan.ok
                 /\ OpenPosition(s, plan.shares, plan.notional, LotsAfter(sale))
                 /\ entries' = entries + 1
                 /\ cash' = cash + sale.proceeds - plan.notional
                 /\ held' = [z \in Sides |-> held[z]
                                 - (IF z = p THEN sale.shares ELSE 0)
                                 + (IF z = s THEN plan.shares ELSE 0)]
                 /\ bought' = Taken(bought, s, plan.taken)
              \/ /\ dry.ok /\ sale.ok /\ ~(closed /\ plan.ok)
                 /\ position' = PositionAfter(sale)
                 /\ lots' = LotsAfter(sale)
                 /\ cash' = cash + sale.proceeds
                 /\ held' = [held EXCEPT ![p] = @ - sale.shares]
                 /\ UNCHANGED <<erased, entries, bought>>
              \/ /\ ~(dry.ok /\ sale.ok)
                 /\ UNCHANGED <<position, lots, erased, entries, cash, held, bought>>
    /\ UNCHANGED <<resting, lastBestAsks, outcome>>

Place(o) ==
    /\ Called
    /\ Cardinality(OpenResting) < MaxResting
    /\ Len(resting) < MaxPlaced
    /\ o.shares > 0
    /\ resting' = Append(resting, o)
    /\ UNCHANGED <<holding, entries, lastBestAsks, liquidity, outcome, history>>

Resting(kind, role, s, price, cap, budget, qty) ==
    [kind |-> kind, role |-> role, side |-> s, price |-> price, cap |-> cap,
     budget |-> budget, shares |-> IF qty > 0 THEN qty ELSE budget \div price,
     placedRefAsk |-> BestAsk(s, tick), status |-> "open", stopTriggered |-> FALSE]

PlaceLimitBuy(s, o) ==
    /\ ~(o.role = "entry" /\ position # None)
    /\ o.budget > 0
    /\ BestAsk(s, tick) # None
    /\ o.price < BestAsk(s, tick)
    /\ Place(Resting("limit_buy", o.role, s, o.price, o.price, o.budget, o.qty))

PlaceBuyStop(s, o) ==
    /\ o.budget > 0
    /\ o.cap > o.price
    /\ BestAsk(s, tick) # None
    /\ o.price > BestAsk(s, tick)
    /\ Place(Resting("stop_buy", "hedge", s, o.price, o.cap, o.budget, o.qty))

(* cancelLimit with an id, or without one: all of them.                    *)
CancelLimit(chosen) ==
    /\ Called
    /\ chosen # {} /\ chosen \subseteq OpenResting
    /\ chosen = OpenResting \/ Cardinality(chosen) = 1
    /\ resting' = [i \in DOMAIN resting |->
           IF i \in chosen THEN [resting[i] EXCEPT !.status = "cancelled"]
           ELSE resting[i]]
    /\ UNCHANGED <<holding, entries, lastBestAsks, liquidity, outcome, history>>

-----------------------------------------------------------------------------
(* checkRestingOrders, one order per step                                  *)

PrevAsk(o) ==
    IF lastBestAsks[o.side] # None THEN lastBestAsks[o.side] ELSE o.placedRefAsk

(* The trigger of a stop is latched: once crossed it stays triggered.      *)
Triggered(o) ==
    \/ o.stopTriggered
    \/ /\ PrevAsk(o) < o.price
       /\ BestAsk(o.side, tick) >= o.price - Epsilon

Crossed(o) ==
    /\ PrevAsk(o) >= o.price
    /\ BestAsk(o.side, tick) <= o.price - Epsilon

Buyable(o) ==
    /\ Triggered(o)
    /\ BestAsk(o.side, tick) <= o.cap
    /\ BestAsk(o.side, tick) >= o.price - Epsilon

MakerShares(o) ==
    IF LevelCapped
    THEN Least(o.shares,
               VisibleAtOrAbove(Levels(tick.ask[o.side], tick.top[o.side]), o.price))
    ELSE o.shares

(* A stop buys up to its cap; when that costs more than its budget it buys *)
(* again, what the budget affords at the average price of the first try,   *)
(* from what the first try has left.                                       *)
StopFill(o) ==
    LET s      == o.side
        levels == Levels(tick.ask[s], BestAsk(s, tick))
        within == {p \in Prices : p <= o.cap}
        first  == Fills(levels, asksUsed[s], within, o.shares)
        used   == UsedAfter(levels, asksUsed[s], first)
        afford == IF Shares(first) = 0 THEN 0
                  ELSE (o.budget * Shares(first)) \div Notional(levels, first)
        again  == Notional(levels, first) > o.budget /\ afford > 0
        fills  == IF again THEN Fills(levels, used, within, Least(o.shares, afford))
                  ELSE first
    IN  [ok       |-> Shares(fills) > 0 /\ Notional(levels, fills) <= o.budget,
         shares   |-> Shares(fills),
         notional |-> Notional(levels, fills),
         used     |-> IF again THEN UsedAfter(levels, used, fills) ELSE used,
         taken    |-> [p \in Prices |-> FilledAt(levels, fills, p)]]

Checking ==
    /\ at = "check"
    /\ next <= Len(resting)
    /\ next' = next + 1
    /\ UNCHANGED <<at, hook, tick, rows, calls>>

Filled(o, shares, cost) ==
    /\ resting' = [resting EXCEPT ![next].status = "filled",
                                  ![next].stopTriggered = (o.kind = "stop_buy")]
    /\ IF o.role = "entry"
       THEN OpenPosition(o.side, shares, cost, lots)
       ELSE /\ lots' = [lots EXCEPT ![o.side] =
                   [shares |-> @.shares + shares, cost |-> @.cost + cost]]
            /\ UNCHANGED <<position, erased>>
    /\ entries' = entries + 1
    /\ cash' = cash - cost
    /\ held' = [held EXCEPT ![o.side] = @ + shares]
    /\ UNCHANGED <<realizedPnl, lastBestAsks, bidsUsed, outcome, sold>>

CheckLimit ==
    /\ Checking
    /\ LET o == resting[next]
       IN  /\ o.kind = "limit_buy" /\ o.status = "open"
           /\ BestAsk(o.side, tick) # None
           /\ Crossed(o)
           /\ ~(o.role = "entry" /\ position # None)
           /\ MakerShares(o) > 0
           /\ Filled(o, MakerShares(o), MakerShares(o) * o.price)
    /\ UNCHANGED <<asksUsed, bought>>

CheckStop ==
    /\ Checking
    /\ LET o    == resting[next]
           fill == StopFill(o)
       IN  /\ o.kind = "stop_buy" /\ o.status = "open"
           /\ BestAsk(o.side, tick) # None
           /\ Buyable(o)
           /\ asksUsed' = [asksUsed EXCEPT ![o.side] = fill.used]
           /\ IF fill.ok
              THEN /\ Filled(o, fill.shares, fill.notional)
                   /\ bought' = Taken(bought, o.side, fill.taken)
              ELSE /\ resting' = [resting EXCEPT ![next].stopTriggered = TRUE]
                   /\ UNCHANGED <<holding, entries, lastBestAsks, bidsUsed,
                                  outcome, history>>

(* The order is left as it is, but that a stop may have been triggered     *)
(* outside of the band in which it buys.                                   *)
PassOver ==
    /\ Checking
    /\ LET o == resting[next]
           quoted == o.status = "open" /\ BestAsk(o.side, tick) # None
       IN  /\ ~(quoted /\ o.kind = "stop_buy" /\ Buyable(o))
           /\ ~(/\ quoted /\ o.kind = "limit_buy" /\ Crossed(o)
                /\ ~(o.role = "entry" /\ position # None)
                /\ MakerShares(o) > 0)
           /\ resting' = [resting EXCEPT ![next].stopTriggered =
                  IF quoted /\ o.kind = "stop_buy" THEN Triggered(o) ELSE @]
    /\ UNCHANGED <<holding, entries, lastBestAsks, liquidity, outcome, history>>

CheckReturns ==
    /\ at = "check"
    /\ next > Len(resting)
    /\ at' = "hook"
    /\ next' = 1
    /\ lastBestAsks' = [s \in Sides |-> BestAsk(s, tick)]
    /\ UNCHANGED <<hook, tick, rows, calls, holding, entries, resting, liquidity,
                   outcome, history>>

-----------------------------------------------------------------------------
(* The event loop of the runtime                                           *)

(* The simulator is new, the cursor is not moved: the first hook of an     *)
(* event looks at, and trades on, the tick the previous event ended with.  *)
BeginEvent ==
    /\ at = "idle"
    /\ at' = "hook" /\ hook' = "start" /\ next' = 1 /\ rows' = 0 /\ calls' = 0
    /\ position' = None /\ lots' = [s \in Sides |-> NoLot] /\ realizedPnl' = 0
    /\ entries' = 0 /\ resting' = << >>
    /\ lastBestAsks' = [s \in Sides |-> BestAsk(s, tick)]
    /\ asksUsed' = Zeroes /\ bidsUsed' = Zeroes
    /\ outcome' = NoOutcome
    /\ cash' = 0 /\ held' = [s \in Sides |-> 0] /\ erased' = [s \in Sides |-> NoLot]
    /\ bought' = Zeroes /\ sold' = Zeroes
    /\ UNCHANGED tick

ProcessIndex(t) ==
    /\ at = "wait"
    /\ rows < MaxRows
    /\ at' = "check" /\ hook' = "tick" /\ tick' = t /\ rows' = rows + 1
    /\ bought' = Zeroes /\ sold' = Zeroes
    /\ UNCHANGED <<next, calls, holding, entries, resting, lastBestAsks, liquidity,
                   outcome, cash, held, erased>>

(* The last row once more: the resting orders are checked against a tick   *)
(* they were checked against already.                                      *)
EndEvent ==
    /\ at = "wait"
    /\ rows > 0
    /\ at' = "check" /\ hook' = "end"
    /\ UNCHANGED <<tick, next, rows, calls, holding, entries, resting, lastBestAsks,
                   liquidity, outcome, history>>

ShouldEarlyFinalize == entries > 0 /\ position = None /\ OpenResting = {}

HookReturns ==
    /\ at = "hook"
    /\ \/ /\ hook = "start" \/ (hook = "tick" /\ ~ShouldEarlyFinalize)
          /\ at' = "wait" /\ UNCHANGED hook
       \/ /\ hook = "tick" /\ ShouldEarlyFinalize
          /\ hook' = "end" /\ UNCHANGED at
    /\ UNCHANGED <<tick, next, rows, calls, holding, entries, resting, lastBestAsks,
                   liquidity, outcome, history>>

(* Mutant: the position is added to the lot it is part of.                 *)
EffectiveLotTwice(s) ==
    IF position # None /\ position.side = s
    THEN [shares |-> lots[s].shares + position.remaining,
          cost   |-> lots[s].cost + position.openCost]
    ELSE lots[s]

(* settleEventPnl.  A position without a lot of its side counts as one.    *)
EffectiveLot(s) ==
    IF lots[s].shares > 0 THEN lots[s]
    ELSE IF position # None /\ position.side = s
    THEN [shares |-> position.remaining, cost |-> position.openCost]
    ELSE NoLot

ExpiryPnl(s, winner) ==
    (IF s = winner THEN EffectiveLot(s).shares * One ELSE 0) - EffectiveLot(s).cost

FinalPnl(winner) ==
    IF winner = None \/ (entries = 0 /\ \A s \in Sides : lots[s].shares = 0)
    THEN realizedPnl
    ELSE realizedPnl + ExpiryPnl(Up, winner) + ExpiryPnl(Down, winner)

FinalizeEvent(winner) ==
    /\ at = "hook" /\ hook = "end"
    /\ at' = "idle"
    /\ resting' = [i \in DOMAIN resting |->
           IF i \in OpenResting THEN [resting[i] EXCEPT !.status = "expired"]
           ELSE resting[i]]
    /\ outcome' = [winner |-> winner, finalPnl |-> FinalPnl(winner)]
    /\ UNCHANGED <<hook, tick, next, rows, calls, holding, entries, lastBestAsks,
                   liquidity, history>>

-----------------------------------------------------------------------------
Init ==
    /\ at = "idle" /\ hook = "start" /\ next = 1 /\ rows = 0 /\ calls = 0
    /\ tick \in Ticks
    /\ position = None /\ lots = [s \in Sides |-> NoLot] /\ realizedPnl = 0
    /\ entries = 0 /\ resting = << >>
    /\ lastBestAsks = [s \in Sides |-> None]
    /\ asksUsed = Zeroes /\ bidsUsed = Zeroes
    /\ outcome = NoOutcome
    /\ cash = 0 /\ held = [s \in Sides |-> 0] /\ erased = [s \in Sides |-> NoLot]
    /\ bought = Zeroes /\ sold = Zeroes

StrategyCalls ==
    \/ \E s \in Sides, o \in EntryOptions : Enter(s, o)
    \/ \E o \in ExitOptions : Exit(o)
    \/ \E s \in Sides, o \in EntryOptions, e \in ExitOptions : Reverse(s, o, e.price)
    \/ \E s \in Sides, o \in LimitOptions : PlaceLimitBuy(s, o)
    \/ \E s \in Sides, o \in StopOptions : PlaceBuyStop(s, o)
    \/ \E chosen \in SUBSET OpenResting : CancelLimit(chosen)

Next ==
    \/ StrategyCalls
    \/ CheckLimit
    \/ CheckStop
    \/ PassOver
    \/ CheckReturns
    \/ BeginEvent
    \/ \E t \in Ticks : ProcessIndex(t)
    \/ EndEvent
    \/ HookReturns
    \/ \E winner \in Sides \cup {None} : FinalizeEvent(winner)

Spec == Init /\ [][Next]_vars

-----------------------------------------------------------------------------
(* Properties                                                              *)

RestingOrder ==
    [kind : {"limit_buy", "stop_buy"}, role : {"entry", "hedge"}, side : Sides,
     price : Prices, cap : Prices, budget : Nat, shares : Nat,
     placedRefAsk : Prices, status : {"open", "filled", "cancelled", "expired"},
     stopTriggered : BOOLEAN]

Tally == [Sides -> [Prices -> Nat]]

(* The type of the state.                                                  *)
TypeOK ==
    /\ at \in {"idle", "hook", "check", "wait"}
    /\ hook \in {"start", "tick", "end"}
    /\ tick \in Ticks
    /\ next \in Nat \ {0} /\ rows \in Nat /\ calls \in Nat
    /\ position \in Position \cup {None}
    /\ lots \in [Sides -> Lot]
    /\ realizedPnl \in Int
    /\ entries \in Nat
    /\ resting \in Seq(RestingOrder)
    /\ lastBestAsks \in [Sides -> Prices \cup {None}]
    /\ asksUsed \in Tally /\ bidsUsed \in Tally
    /\ outcome \in [winner : Sides \cup {None}, finalPnl : Int]
    /\ cash \in Int
    /\ held \in [Sides -> Int]
    /\ erased \in [Sides -> Lot]
    /\ bought \in Tally /\ sold \in Tally

(* The open position is part of the lot of its side, in shares and in      *)
(* cost, whatever hedges were credited to that lot and whatever was sold   *)
(* from it: exit debits both, and the clamps of debitLot never bite.       *)
PositionBacked ==
    position # None =>
        /\ lots[position.side].shares >= position.remaining
        /\ lots[position.side].cost >= position.openCost

(* What was paid and received is the realised result less the cost of the  *)
(* lots, and what was bought and not sold is in the lots, but for the lots *)
(* that an entry has overwritten (syncPrimaryLotFromPosition).             *)
MoneyConserved ==
    /\ cash = realizedPnl - lots[Up].cost - lots[Down].cost
                          - erased[Up].cost - erased[Down].cost
    /\ \A s \in Sides : held[s] = lots[s].shares + erased[s].shares

(* An event that ends with a known winner and has overwritten no lot is    *)
(* settled (settleEventPnl) at the money it took in less the money it paid *)
(* plus the payout of every winning share it still holds: none is lost and *)
(* none counted twice through fills, partial exits, reversals and hedges.  *)
SettlementIsCash ==
    (/\ at = "idle"
     /\ outcome.winner # None
     /\ erased[Up].shares = 0 /\ erased[Down].shares = 0) =>
        outcome.finalPnl = cash + One * held[outcome.winner]

(* However many orders of a strategy hit the book of a tick, in one hook   *)
(* or in two, together they take no more from a level than its size        *)
(* (consumedAsksBySide, consumedBidsBySide).  Outside this count are the   *)
(* fills that reserve nothing: those of a resting limit, at its own price, *)
(* and those of orders with ignoreConsumed.                                *)
NoPhantomLiquidity ==
    \A s \in Sides, p \in Prices :
        /\ tick.ask[s] # << >> => bought[s][p] <= VisibleAt(tick.ask[s], p)
        /\ tick.bid[s] # << >> => sold[s][p] <= VisibleAt(tick.bid[s], p)

(* A reversal that has sold the old position opens the new one in the same *)
(* call: the dry plan it makes first is as strict as the one it commits.   *)
ReverseNeverLeavesFlat ==
    [][(\E s \in Sides, o \in EntryOptions, e \in ExitOptions :
           Reverse(s, o, e.price)) => position' # None]_vars

(* What a side holds beside the position.                                  *)
HedgeShares(s) ==
    lots[s].shares - (IF position # None /\ position.side = s
                      THEN position.remaining ELSE 0)

(* A hedge dies at the settlement only (syncPrimaryLotFromPosition): while *)
(* a position is open, what the other side holds never shrinks, whatever   *)
(* becomes of the position, before the event has ended.                    *)
HedgeLotSurvives ==
    [][(position # None /\ at # "idle") =>
           \A s \in Sides : s # position.side => HedgeShares(s)' >= HedgeShares(s)]_vars

-----------------------------------------------------------------------------
(* The strengthenings that make the invariants inductive.                  *)

(* Shares and their cost leave a lot together, and a lot of as many shares *)
(* as the position is the position's: nothing is left for a clamp of       *)
(* debitLot to swallow when they are sold, nor for an expiry to forget.    *)
LotsInv ==
    /\ \A s \in Sides :
        /\ lots[s].shares = 0 => lots[s].cost = 0
        /\ erased[s].shares = 0 => erased[s].cost = 0
    /\ (position # None /\ lots[position.side].shares = position.remaining) =>
           lots[position.side].cost = position.openCost

(* What was taken from the book of this tick is still reserved in it: no   *)
(* later plan, dry or not, forgets a price that the book shows.            *)
UsedInv ==
    \A s \in Sides, p \in Prices :
        /\ tick.ask[s] # << >> => bought[s][p] <= asksUsed[s][p]
        /\ tick.bid[s] # << >> => sold[s][p] <= bidsUsed[s][p]
=============================================================================
