------------------------------ MODULE OrderBook ------------------------------
(***************************************************************************)
(* How an order of a backtest is filled against the book of one tick       *)
(* (the helpers at the end of backtestStudio/gls/orderSimulator.js).       *)
(*                                                                         *)
(* A book side is a sequence of at most two levels, the best one first:    *)
(* two are what it takes for a fill to walk past a level, and a third      *)
(* would only repeat it.  Prices are whole numbers of a money unit, One is *)
(* what a winning share pays (the 1.00 of the code).  The text formats a   *)
(* book comes in and the cache of its parsed levels are left out.          *)
(***************************************************************************)
EXTENDS Integers, Sequences

CONSTANTS
    One,        \* the payout of a share
    Prices,     \* the prices in use, all of them below it
    Unlimited,  \* size of the level made up for a side without a book
    None        \* null

ASSUME BookAssumption ==
    /\ One \in Nat
    /\ Prices \subseteq 1 .. One - 1
    /\ Unlimited \in Nat \ {0}
    /\ None \notin Int

Level  == [price : Prices, size : Nat \ {0}]
Book   == {b \in Seq(Level) : Len(b) <= 2}

Least(a, b) == IF a <= b THEN a ELSE b

(* A side without levels is one level of endless size at a price the       *)
(* caller names, or nothing when it names none.                            *)
Levels(book, fallback) ==
    IF Len(book) > 0 THEN book
    ELSE IF fallback = None THEN << >>
    ELSE << [price |-> fallback, size |-> Unlimited] >>

BestPrice(book, scalar) ==
    LET levels == Levels(book, scalar)
    IN  IF Len(levels) > 0 THEN levels[1].price ELSE None

(* What earlier orders of the event took from a level is taken off its     *)
(* size, whatever the size has become since.                               *)
Reserved(level, used) == Least(used[level.price], level.size)

Available(levels, used, within, i) ==
    IF i <= Len(levels) /\ levels[i].price \in within
    THEN levels[i].size - Reserved(levels[i], used) ELSE 0

(* The quantities taken from the first and from the second level.          *)
Fills(levels, used, within, qty) ==
    LET first  == Least(Available(levels, used, within, 1), qty)
        second == Least(Available(levels, used, within, 2), qty - first)
    IN  <<first, second>>

Shares(fills) == fills[1] + fills[2]

PriceAt(levels, i) == IF i <= Len(levels) THEN levels[i].price ELSE 0

Notional(levels, fills) ==
    fills[1] * PriceAt(levels, 1) + fills[2] * PriceAt(levels, 2)

FilledAt(levels, fills, p) ==
      (IF PriceAt(levels, 1) = p THEN fills[1] ELSE 0)
    + (IF PriceAt(levels, 2) = p THEN fills[2] ELSE 0)

VisibleAt(levels, p) ==
      (IF PriceAt(levels, 1) = p THEN levels[1].size ELSE 0)
    + (IF PriceAt(levels, 2) = p THEN levels[2].size ELSE 0)

(* Mutant: a second fill of a level replaces what the first one used.      *)
UsedByLast(levels, used, fills) ==
    [p \in Prices |->
        IF VisibleAt(levels, p) = 0 THEN 0
        ELSE IF FilledAt(levels, fills, p) = 0 THEN used[p]
        ELSE FilledAt(levels, fills, p)]

(* A fill forgets the prices that are no longer in the book and adds what  *)
(* it took to what it found reserved.                                      *)
UsedAfter(levels, used, fills) ==
    [p \in Prices |->
        IF VisibleAt(levels, p) = 0 THEN 0
        ELSE IF FilledAt(levels, fills, p) = 0 THEN used[p]
        ELSE Least(used[p], VisibleAt(levels, p)) + FilledAt(levels, fills, p)]

NothingUsed == [p \in Prices |-> 0]

(* The size a maker fill under the policy level-capped may take.           *)
VisibleAtOrAbove(levels, minPrice) ==
      (IF PriceAt(levels, 1) >= minPrice THEN levels[1].size ELSE 0)
    + (IF PriceAt(levels, 2) >= minPrice THEN levels[2].size ELSE 0)
=============================================================================
