-------------------------- MODULE MCOrderSimulator --------------------------
(***************************************************************************)
(* Small instances of OrderSimulator: a few books a side may show, and one *)
(* or two options of each call.  Prices are multiples of 6 and One is 60,  *)
(* so that the cost of a share of a position is a whole number.            *)
(***************************************************************************)
EXTENDS OrderSimulator, TLC

At(price, size) == [price |-> price, size |-> size]

MCPrices == {12, 18, 24, 30, 36, 42}

(* What one side shows: dear, cheap, or nothing at all.                    *)
Dear  == [ask |-> <<At(36, 2), At(42, 2)>>, bid |-> <<At(30, 1), At(24, 2)>>, top |-> 36]
Cheap == [ask |-> <<At(18, 1), At(24, 2)>>, bid |-> <<At(12, 2)>>, top |-> 18]
Bare  == [ask |-> << >>, bid |-> << >>, top |-> None]

Both(up, down) ==
    [ask |-> (Up :> up.ask @@ Down :> down.ask),
     bid |-> (Up :> up.bid @@ Down :> down.bid),
     top |-> (Up :> up.top @@ Down :> down.top)]

MCTicks == {Both(Dear, Cheap), Both(Cheap, Dear), Both(Bare, Bare)}

EntryAt(price, qty, budget) ==
    [price |-> price, maxPrice |-> price, qty |-> qty, budget |-> budget,
     minShares |-> 1, minLiquidityRatio |-> 0, ignoreConsumed |-> FALSE]

(* The first fits in the best level; the second walks to the next one, and *)
(* on a dear book costs more than its budget.                              *)
MCEntryOptions == {EntryAt(36, 2, 90), EntryAt(42, 3, 110)}

MCExitOptions ==
    {[price |-> 12, qty |-> 0, pct |-> 0, minShares |-> 0],
     [price |-> 24, qty |-> 0, pct |-> 50, minShares |-> 1]}

MCLimitOptions ==
    {[role |-> "hedge", price |-> 24, budget |-> 60, qty |-> 0],
     [role |-> "entry", price |-> 24, budget |-> 60, qty |-> 0]}

(* Two shares of a dear book cost more than its budget: it buys twice.     *)
MCStopOptions == {[price |-> 30, cap |-> 42, budget |-> 60, qty |-> 2]}

Symmetry == Permutations({Up, Down})
=============================================================================
