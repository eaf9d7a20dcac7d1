------------------------ MODULE OrderSimulatorProofs ------------------------
(***************************************************************************)
(* Proofs about OrderSimulator: its types, that the open position is       *)
(* backed by the lot of its side, that money and shares are conserved,     *)
(* that a settlement is the cash of its event, that no liquidity is sold   *)
(* twice, and that a reversal does not end flat.                           *)
(*                                                                         *)
(* First come facts about the book and about one fill; then what a plan, a *)
(* sale and a triggered stop return; then the accounts, which the three    *)
(* ways to trade leave balanced; then the steps.                           *)
(***************************************************************************)
EXTENDS OrderSimulator, SequenceTheorems, TLAPS

-----------------------------------------------------------------------------
(* Arithmetic                                                              *)

(* Least is the smaller one of its arguments.                              *)
LEMMA LeastIs ==
    ASSUME NEW a \in Int, NEW b \in Int
    PROVE  /\ Least(a, b) \in {a, b}
           /\ Least(a, b) <= a /\ Least(a, b) <= b
           /\ a <= b => Least(a, b) = a
           /\ b <= a => Least(a, b) = b
  BY DEF Least

(* A price times a quantity is a natural number.                           *)
LEMMA ProductIsNat ==
    ASSUME NEW a \in Nat, NEW b \in Nat
    PROVE  /\ a * b \in Nat
           /\ (a > 0 /\ b > 0) => a * b > 0
           /\ a = 0 => a * b = 0
  <1>1. a * b \in Int /\ a * b >= 0
    BY SMT
  <1> QED
    BY <1>1, SMT

(* A quotient of natural numbers is one.                                   *)
LEMMA QuotientIsNat ==
    ASSUME NEW a \in Nat, NEW c \in Nat \ {0}
    PROVE  a \div c \in Nat
  BY SMT

(* The part of a cost that goes with a part of the shares is at most that  *)
(* cost, and all of it when all shares go (exit of orderSimulator.js).     *)
LEMMA PartOfCost ==
    ASSUME NEW a \in Nat, NEW b \in Nat, NEW c \in Nat \ {0}, b <= c
    PROVE  /\ (a * b) \div c \in Nat
           /\ (a * b) \div c <= a
           /\ b = c => (a * b) \div c = a
  <1>1. a * b \in Nat /\ a * c \in Nat /\ a * b <= a * c
    <2>1. a * b \in Nat /\ a * c \in Nat
      BY ProductIsNat
    <2>2. a * c - a * b = a * (c - b)
      BY SMT
    <2>3. a * (c - b) \in Nat
      BY ProductIsNat
    <2> QED
      BY <2>1, <2>2, <2>3, SMT
  <1>2. (a * c) \div c = a
    BY SMT
  <1> DEFINE ab == a * b
  <1> DEFINE ac == a * c
  <1>3. ab \div c \in Nat /\ ab \div c <= ac \div c
    <2>1. ab \in Nat /\ ac \in Nat /\ ab <= ac
      BY <1>1
    <2> HIDE DEF ab, ac
    <2> QED
      BY <2>1, SMT
  <1> QED
    BY <1>2, <1>3

-----------------------------------------------------------------------------
(* The book                                                                *)

(* Prices are positive whole numbers and None is not one of them.          *)
LEMMA PricesAre ==
    /\ \A p \in Prices : p \in Nat \ {0}
    /\ None \notin Prices
    /\ Unlimited \in Nat \ {0}
    /\ One \in Nat
  <1>1. One \in Nat /\ Prices \subseteq 1 .. One - 1 /\ None \notin Int
    BY BookAssumption
  <1>2. ASSUME NEW p \in Prices PROVE p \in Nat \ {0}
    <2>1. p \in 1 .. One - 1
      BY <1>1
    <2> QED
      BY <1>1, <2>1
  <1>3. ASSUME None \in Prices PROVE FALSE
    <2>1. None \in Nat \ {0}
      BY <1>2, <1>3
    <2>2. None \in Int
      BY <2>1
    <2> QED
      BY <1>1, <2>2
  <1> QED
    BY <1>1, <1>2, <1>3, BookAssumption

(* What the levels of a book are, and the prices PriceAt reads off them: a *)
(* level that is not there has no price of the market.                     *)
LEMMA LevelFacts ==
    ASSUME NEW L \in Book
    PROVE  /\ Len(L) \in 0 .. 2
           /\ \A i \in 1 .. 2 : i <= Len(L) =>
                  /\ L[i].price \in Prices
                  /\ L[i].size \in Nat \ {0}
                  /\ PriceAt(L, i) = L[i].price
           /\ \A i \in 1 .. 2 : i > Len(L) => PriceAt(L, i) = 0
           /\ \A i \in 1 .. 2 : PriceAt(L, i) \in Nat
  <1>1. L \in Seq(Level) /\ Len(L) <= 2
    BY DEF Book
  <1>2. Len(L) \in Nat
    BY <1>1, LenProperties
  <1>3. ASSUME NEW i \in 1 .. 2, i <= Len(L)
        PROVE  L[i].price \in Prices /\ L[i].size \in Nat \ {0}
    <2>1. i \in 1 .. Len(L)
      BY <1>2, <1>3
    <2>2. L[i] \in Level
      BY <1>1, <2>1, ElementOfSeq
    <2> QED
      BY <2>2 DEF Level
  <1>4. ASSUME NEW i \in 1 .. 2
        PROVE  /\ i <= Len(L) => PriceAt(L, i) = L[i].price
               /\ i > Len(L) => PriceAt(L, i) = 0
               /\ PriceAt(L, i) \in Nat
    <2>1. CASE i <= Len(L)
      <3>1. L[i].price \in Prices
        BY <1>3, <2>1
      <3>2. L[i].price \in Nat
        BY <3>1, PricesAre
      <3> QED
        BY <1>2, <2>1, <3>2 DEF PriceAt
    <2>2. CASE ~(i <= Len(L))
      BY <1>2, <2>2 DEF PriceAt
    <2> QED
      BY <2>1, <2>2
  <1>5. Len(L) \in 0 .. 2
    <2> DEFINE n == Len(L)
    <2>1. n \in Nat /\ n <= 2
      BY <1>1, <1>2
    <2> HIDE DEF n
    <2>2. n \in 0 .. 2
      BY <2>1
    <2> QED
      BY <2>2 DEF n
  <1>6. \A i \in 1 .. 2 : i <= Len(L) =>
            /\ L[i].price \in Prices
            /\ L[i].size \in Nat \ {0}
            /\ PriceAt(L, i) = L[i].price
    BY <1>3, <1>4
  <1>7. \A i \in 1 .. 2 : PriceAt(L, i) \in Nat /\ (i > Len(L) => PriceAt(L, i) = 0)
    BY <1>4
  <1> QED
    BY <1>5, <1>6, <1>7

(* Levels returns a book, the one it was given if that is not empty, and   *)
(* its best price is a price of the market or None.                        *)
LEMMA LevelsFacts ==
    ASSUME NEW b \in Book, NEW f \in Prices \cup {None}
    PROVE  /\ Levels(b, f) \in Book
           /\ b # << >> => Levels(b, f) = b
           /\ BestPrice(b, f) \in Prices \cup {None}
  <1>1. b \in Seq(Level) /\ Len(b) <= 2 /\ Len(b) \in Nat
    BY LenProperties DEF Book
  <1>2. b # << >> => Len(b) > 0
    BY <1>1, EmptySeq
  <1>3. << >> \in Book
    BY EmptySeq, SMT DEF Book
  <1>4. ASSUME f # None
        PROVE  << [price |-> f, size |-> Unlimited] >> \in Book
    <2>1. [price |-> f, size |-> Unlimited] \in Level
      BY <1>4, PricesAre DEF Level
    <2> QED
      BY <2>1 DEF Book
  <1>5. Levels(b, f) \in Book
    BY <1>1, <1>3, <1>4 DEF Levels
  <1>6. BestPrice(b, f) \in Prices \cup {None}
    <2> DEFINE L == Levels(b, f)
    <2>1. Len(L) > 0 => L[1].price \in Prices
      BY <1>5, LevelFacts
    <2> QED
      BY <2>1 DEF BestPrice
  <1> QED
    BY <1>2, <1>5, <1>6 DEF Levels

(* What a fill takes from each of the two levels: no more in all than was  *)
(* asked for, no more of a level than what is left of its size, and only   *)
(* levels that are there.                                                  *)
LEMMA FillFacts ==
    ASSUME NEW L \in Book, NEW used \in [Prices -> Nat], NEW within,
           NEW qty \in Nat
    PROVE  LET F == Fills(L, used, within, qty)
           IN  /\ F[1] \in Nat /\ F[2] \in Nat
               /\ F = <<F[1], F[2]>>
               /\ F[1] + F[2] <= qty
               /\ \A i \in 1 .. 2 :
                      /\ i > Len(L) => F[i] = 0
                      /\ i <= Len(L) =>
                             F[i] <= L[i].size - Least(used[L[i].price], L[i].size)
  <1> DEFINE av(i) == Available(L, used, within, i)
  <1>1. ASSUME NEW i \in 1 .. 2
        PROVE  /\ av(i) \in Nat
               /\ i > Len(L) => av(i) = 0
               /\ i <= Len(L) =>
                      av(i) <= L[i].size - Least(used[L[i].price], L[i].size)
    <2>1. CASE i <= Len(L)
      <3>1. L[i].price \in Prices /\ L[i].size \in Nat \ {0}
        BY <2>1, LevelFacts
      <3>2. used[L[i].price] \in Nat
        BY <3>1
      <3> QED
        BY <2>1, <3>1, <3>2, LevelFacts DEF Available, Reserved, Least
    <2>2. CASE ~(i <= Len(L))
      BY <2>2 DEF Available
    <2> QED
      BY <2>1, <2>2, LevelFacts
  <1>2. av(1) \in Nat /\ av(2) \in Nat
    BY <1>1
  <1> DEFINE f == Least(av(1), qty)
  <1> DEFINE g == Least(av(2), qty - f)
  <1>3. Fills(L, used, within, qty) = <<f, g>>
    BY DEF Fills
  <1>4. f \in Nat /\ g \in Nat /\ f <= av(1) /\ g <= av(2) /\ f + g <= qty
    <2> HIDE DEF av
    <2> QED
      BY <1>2 DEF Least
  <1>5. \A i \in 1 .. 2 : (i = 1 /\ av(i) = av(1)) \/ (i = 2 /\ av(i) = av(2))
    OBVIOUS
  <1> HIDE DEF av, f, g
  <1>6. ASSUME NEW i \in 1 .. 2
        PROVE  <<f, g>>[i] \in Nat /\ <<f, g>>[i] <= av(i)
    <2>1. CASE i = 1
      BY <1>4, <2>1
    <2>2. CASE i = 2
      BY <1>4, <2>2
    <2> QED
      BY <2>1, <2>2
  <1>7. ASSUME NEW i \in 1 .. 2
        PROVE  /\ i > Len(L) => <<f, g>>[i] = 0
               /\ i <= Len(L) => <<f, g>>[i]
                      <= L[i].size - Least(used[L[i].price], L[i].size)
    <2>1. i <= Len(L) => L[i].price \in Prices /\ L[i].size \in Nat \ {0}
      BY LevelFacts
    <2>2. i <= Len(L) => used[L[i].price] \in Nat
      BY <2>1
    <2>3. i <= Len(L) => Least(used[L[i].price], L[i].size) \in Nat
      BY <2>1, <2>2 DEF Least
    <2>4. CASE i > Len(L)
      BY <1>1, <1>6, <2>4, LevelFacts
    <2>5. CASE i <= Len(L)
      <3> DEFINE left == L[i].size - Least(used[L[i].price], L[i].size)
      <3>1. left \in Int /\ av(i) <= left /\ av(i) \in Nat
        BY <1>1, <2>1, <2>3, <2>5
      <3>2. <<f, g>>[i] \in Nat /\ <<f, g>>[i] <= av(i)
        BY <1>6
      <3> HIDE DEF left
      <3>3. <<f, g>>[i] <= left
        BY <3>1, <3>2
      <3> QED
        BY <2>5, <3>3, LevelFacts DEF left
    <2> QED
      BY <2>4, <2>5, LevelFacts
  <1> QED
    BY <1>3, <1>4, <1>7

(* What a fill costs is a natural number, positive when shares are bought; *)
(* what it takes of a price is no more than the book shows of it.          *)
LEMMA NotionalFacts ==
    ASSUME NEW L \in Book, NEW used \in [Prices -> Nat], NEW within,
           NEW qty \in Nat
    PROVE  LET F == Fills(L, used, within, qty)
           IN  /\ Shares(F) \in Nat /\ Shares(F) <= qty
               /\ Notional(L, F) \in Nat
               /\ Shares(F) > 0 => Notional(L, F) > 0
               /\ [p \in Prices |-> FilledAt(L, F, p)] \in [Prices -> Nat]
  <1> DEFINE F == Fills(L, used, within, qty)
  <1> DEFINE f == F[1]
  <1> DEFINE g == F[2]
  <1> DEFINE p == PriceAt(L, 1)
  <1> DEFINE q == PriceAt(L, 2)
  <1>1. f \in Nat /\ g \in Nat /\ f + g <= qty
    BY FillFacts
  <1>2. p \in Nat /\ q \in Nat
    BY LevelFacts
  <1>3. (f > 0 => p > 0) /\ (g > 0 => q > 0)
    <2>1. \A i \in 1 .. 2 : F[i] > 0 => i <= Len(L)
      BY FillFacts, LevelFacts
    <2>2. \A i \in 1 .. 2 : i <= Len(L) => PriceAt(L, i) > 0
      BY LevelFacts, PricesAre
    <2> HIDE DEF F
    <2> QED
      BY <2>1, <2>2
  <1>4. /\ Shares(F) = f + g /\ Notional(L, F) = f * p + g * q
        /\ \A z : FilledAt(L, F, z) = (IF p = z THEN f ELSE 0) + (IF q = z THEN g ELSE 0)
    BY DEF Shares, Notional, FilledAt
  <1> HIDE DEF f, g, p, q, F
  <1>5. f * p \in Nat /\ g * q \in Nat
    BY <1>1, <1>2, ProductIsNat
  <1>6. f + g > 0 => f * p > 0 \/ g * q > 0
    BY <1>1, <1>2, <1>3, ProductIsNat
  <1>7. f + g > 0 => f * p + g * q > 0
    <2> DEFINE x == f * p
    <2> DEFINE y == g * q
    <2>1. x \in Nat /\ y \in Nat /\ (f + g > 0 => x > 0 \/ y > 0)
      BY <1>5, <1>6
    <2> HIDE DEF x, y
    <2>2. f + g > 0 => x + y > 0
      BY <1>1, <2>1
    <2> QED
      BY <2>2 DEF x, y
  <1>8. \A z \in Prices : FilledAt(L, F, z) \in Nat
    BY <1>1, <1>4
  <1> QED
    BY <1>1, <1>4, <1>5, <1>7, <1>8 DEF F

(* What a fill leaves used is a tally of natural numbers.                  *)
LEMMA UsedFacts ==
    ASSUME NEW L \in Book, NEW used \in [Prices -> Nat],
           NEW F, F[1] \in Nat, F[2] \in Nat
    PROVE  /\ UsedAfter(L, used, F) \in [Prices -> Nat]
           /\ \A p \in Prices : VisibleAt(L, p) \in Nat /\ FilledAt(L, F, p) \in Nat
  <1>1. ASSUME NEW p \in Prices
        PROVE  VisibleAt(L, p) \in Nat /\ FilledAt(L, F, p) \in Nat
    <2>1. p \in Nat \ {0}
      BY PricesAre
    <2>2. \A i \in 1 .. 2 : PriceAt(L, i) = p => L[i].size \in Nat
      BY <2>1, LevelFacts
    <2> QED
      BY <2>2 DEF VisibleAt, FilledAt
  <1>2. ASSUME NEW p \in Prices
        PROVE  Least(used[p], VisibleAt(L, p)) + FilledAt(L, F, p) \in Nat
    <2>1. used[p] \in Nat
      OBVIOUS
    <2> QED
      BY <1>1, <2>1 DEF Least
  <1> QED
    BY <1>1, <1>2 DEF UsedAfter

(* No liquidity is sold twice, for one fill.  If what was taken of a price *)
(* is reserved and is on show, then so it is after the fill, whether the   *)
(* fill counts or was only tried.                                          *)
LEMMA FillFits ==
    ASSUME NEW L \in Book, NEW used \in [Prices -> Nat], NEW within,
           NEW qty \in Nat, NEW p \in Prices, NEW b \in Nat,
           b <= used[p], b <= VisibleAt(L, p)
    PROVE  LET F == Fills(L, used, within, qty)
           IN  /\ b + FilledAt(L, F, p) <= VisibleAt(L, p)
               /\ b + FilledAt(L, F, p) <= UsedAfter(L, used, F)[p]
               /\ b <= UsedAfter(L, used, F)[p]
               /\ b <= UsedAfter(L, used, <<0, 0>>)[p]
  <1> DEFINE F == Fills(L, used, within, qty)
  <1> DEFINE u == used[p]
  <1> DEFINE f == F[1]
  <1> DEFINE g == F[2]
  <1> DEFINE vis == VisibleAt(L, p)
  <1> DEFINE fil == FilledAt(L, F, p)
  <1>1. u \in Nat /\ b <= u /\ b <= vis
    OBVIOUS
  <1>2. f \in Nat /\ g \in Nat
    BY FillFacts
  <1>3. vis \in Nat /\ fil \in Nat
    BY <1>2, UsedFacts
  <1>4. p \in Nat \ {0}
    BY PricesAre
  <1>5. ASSUME NEW i \in 1 .. 2, PriceAt(L, i) = p
        PROVE  L[i].size \in Nat /\ F[i] <= L[i].size - Least(u, L[i].size)
    <2>1. i <= Len(L)
      BY <1>4, <1>5, LevelFacts
    <2>2. L[i].price = p
      BY <1>5, <2>1, LevelFacts
    <2> QED
      BY <2>1, <2>2, LevelFacts, FillFacts
  <1> DEFINE s == L[1].size
  <1> DEFINE t == L[2].size
  <1>6. PriceAt(L, 1) = p => s \in Nat /\ f <= s - Least(u, s)
    BY <1>5
  <1>7. PriceAt(L, 2) = p => t \in Nat /\ g <= t - Least(u, t)
    BY <1>5
  <1>8. /\ vis = (IF PriceAt(L, 1) = p THEN s ELSE 0) + (IF PriceAt(L, 2) = p THEN t ELSE 0)
        /\ fil = (IF PriceAt(L, 1) = p THEN f ELSE 0) + (IF PriceAt(L, 2) = p THEN g ELSE 0)
    BY DEF VisibleAt, FilledAt
  <1>9. b + fil <= vis
    <2> HIDE DEF u, f, g, s, t, vis, fil
    <2> QED
      BY <1>1, <1>2, <1>3, <1>6, <1>7, <1>8 DEF Least
  <1>10. UsedAfter(L, used, F)[p] =
             IF vis = 0 THEN 0 ELSE IF fil = 0 THEN u ELSE Least(u, vis) + fil
    BY DEF UsedAfter
  <1>11. UsedAfter(L, used, <<0, 0>>)[p] = IF vis = 0 THEN 0 ELSE u
    <2>1. FilledAt(L, <<0, 0>>, p) = 0
      BY DEF FilledAt
    <2> QED
      BY <2>1 DEF UsedAfter
  <1> HIDE DEF F, u, vis, fil
  <1>12. /\ b + fil <= UsedAfter(L, used, F)[p]
         /\ b <= UsedAfter(L, used, F)[p]
         /\ b <= UsedAfter(L, used, <<0, 0>>)[p]
    BY <1>1, <1>3, <1>9, <1>10, <1>11 DEF Least
  <1> QED
    BY <1>9, <1>12 DEF F, vis, fil

(* A dry plan forgets prices that are gone, and no price of the book: the  *)
(* same fill follows from what it leaves.                                  *)
LEMMA SameFills ==
    ASSUME NEW L \in Book, NEW used \in [Prices -> Nat], NEW within,
           NEW qty \in Nat
    PROVE  Fills(L, UsedAfter(L, used, <<0, 0>>), within, qty)
               = Fills(L, used, within, qty)
  <1> DEFINE dry == UsedAfter(L, used, <<0, 0>>)
  <1>1. ASSUME NEW i \in 1 .. 2, i <= Len(L)
        PROVE  dry[L[i].price] = used[L[i].price]
    <2> DEFINE p == L[i].price
    <2>1. p \in Prices /\ L[i].size \in Nat \ {0} /\ PriceAt(L, i) = p
      BY <1>1, LevelFacts
    <2>2. p \in Nat \ {0}
      BY <2>1, PricesAre
    <2>3. \A j \in 1 .. 2 : PriceAt(L, j) = p => L[j].size \in Nat \ {0}
      BY <2>2, LevelFacts
    <2> HIDE DEF p
    <2>4. VisibleAt(L, p) # 0
      BY <2>1, <2>3 DEF VisibleAt
    <2>5. FilledAt(L, <<0, 0>>, p) = 0
      BY DEF FilledAt
    <2>6. dry[p] = used[p]
      BY <2>1, <2>4, <2>5 DEF UsedAfter
    <2> QED
      BY <2>6 DEF p
  <1>2. ASSUME NEW i \in 1 .. 2
        PROVE  Available(L, dry, within, i) = Available(L, used, within, i)
    BY <1>1, <1>2 DEF Available, Reserved
  <1> HIDE DEF dry
  <1>3. Fills(L, dry, within, qty) = Fills(L, used, within, qty)
    BY <1>2 DEF Fills
  <1> QED
    BY <1>3 DEF dry

-----------------------------------------------------------------------------
(* Plans, sales and stops                                                  *)

(* What was taken of a book and is reserved stays so: after, a fill of     *)
(* `taken` included, it is reserved and on show.                           *)
Keeps(book, used, after, taken) ==
    \A p \in Prices, b \in Nat :
        (book # << >> /\ b <= used[p] /\ b <= VisibleAt(book, p)) =>
            /\ b + taken[p] <= VisibleAt(book, p)
            /\ b + taken[p] <= after[p]

(* What a tick of the column set shows of a side.                          *)
LEMMA TickFacts ==
    ASSUME TypeOK, NEW s \in Sides
    PROVE  /\ tick.ask[s] \in Book /\ tick.bid[s] \in Book
           /\ tick.top[s] \in Prices \cup {None}
           /\ BestAsk(s, tick) \in Prices \cup {None}
  <1>1. tick \in Tick
    BY SimulatorAssumption DEF TypeOK
  <1>2. /\ tick.ask[s] \in Book /\ tick.bid[s] \in Book
        /\ tick.top[s] \in Prices \cup {None}
    BY <1>1 DEF Tick
  <1> QED
    BY <1>2, LevelsFacts DEF BestAsk

(* What a plan returns: quantities and tallies, a plan that is accepted    *)
(* was tried and buys something, nothing of the book is promised twice,    *)
(* and the plan made again after a dry one is accepted exactly if the dry  *)
(* one was (planEntry).                                                    *)
LEMMA PlanFacts ==
    ASSUME TypeOK, NEW s \in Sides, NEW o \in EntryOption,
           NEW used \in [Prices -> Nat]
    PROVE  LET plan == Plan(s, o, used)
           IN  /\ plan.shares \in Nat /\ plan.notional \in Nat
               /\ plan.used \in [Prices -> Nat]
               /\ plan.dryUsed \in [Prices -> Nat]
               /\ plan.taken \in [Prices -> Nat]
               /\ plan.ok => plan.tried /\ plan.shares > 0
               /\ Keeps(tick.ask[s], used, plan.used, plan.taken)
               /\ Keeps(tick.ask[s], used, plan.used, NothingUsed)
               /\ Keeps(tick.ask[s], used, plan.dryUsed, NothingUsed)
               /\ Plan(s, o, plan.dryUsed).ok = plan.ok
  <1>1. /\ o.price \in Prices /\ o.maxPrice \in Prices /\ o.qty \in Nat
        /\ o.budget \in Nat /\ o.minShares \in Nat /\ o.minLiquidityRatio \in Nat
        /\ o.ignoreConsumed \in BOOLEAN
    BY DEF EntryOption
  <1> DEFINE target == IF o.qty > 0 THEN o.qty ELSE o.budget \div o.maxPrice
  <1> DEFINE L == Levels(tick.ask[s], o.price)
  <1> DEFINE within == {p \in Prices : p <= o.maxPrice}
  <1> DEFINE fills(w) == Fills(L, IF o.ignoreConsumed THEN NothingUsed ELSE w,
                               within, target)
  <1>2. target \in Nat
    BY <1>1, PricesAre, QuotientIsNat
  <1>3. L \in Book /\ (tick.ask[s] # << >> => L = tick.ask[s])
    BY <1>1, TickFacts, LevelsFacts
  <1>4. NothingUsed \in [Prices -> Nat] /\ \A p \in Prices : NothingUsed[p] = 0
    BY DEF NothingUsed
  <1> DEFINE plan == Plan(s, o, used)
  <1> DEFINE F == fills(used)
  <1>5. /\ plan.shares = Shares(F) /\ plan.notional = Notional(L, F)
        /\ plan.used = IF o.ignoreConsumed THEN used ELSE UsedAfter(L, used, F)
        /\ plan.dryUsed = IF o.ignoreConsumed THEN used
                          ELSE UsedAfter(L, used, <<0, 0>>)
        /\ plan.taken = [p \in Prices |-> IF o.ignoreConsumed THEN 0
                                          ELSE FilledAt(L, F, p)]
        /\ plan.tried = (entries < MaxOrders /\ target > 0 /\ target >= o.minShares)
    BY DEF Plan
  <1>6. ASSUME NEW w
        PROVE  Plan(s, o, w).ok =
                   /\ entries < MaxOrders /\ target > 0 /\ target >= o.minShares
                   /\ 100 * Shares(fills(w)) >= target * o.minLiquidityRatio
                   /\ Shares(fills(w)) >= o.minShares
                   /\ Shares(fills(w)) > 0
                   /\ Notional(L, fills(w)) <= o.budget
    BY DEF Plan
  <1>7. plan.ok => plan.tried /\ plan.shares > 0
    BY <1>5, <1>6
  <1>8. UsedAfter(L, used, <<0, 0>>) \in [Prices -> Nat]
    BY <1>3, UsedFacts
  <1> HIDE DEF target, L, within
  <1>9. CASE o.ignoreConsumed
    <2>1. F = Fills(L, NothingUsed, within, target)
      BY <1>9
    <2> HIDE DEF fills, F, plan
    <2>2. plan.shares \in Nat /\ plan.notional \in Nat
      BY <1>2, <1>3, <1>4, <1>5, <2>1, NotionalFacts
    <2>3. plan.used = used /\ plan.dryUsed = used /\ plan.taken = NothingUsed
      BY <1>5, <1>9 DEF NothingUsed
    <2>4. Keeps(tick.ask[s], used, used, NothingUsed)
      <3> SUFFICES ASSUME NEW p \in Prices, NEW b \in Nat, b <= used[p],
                          b <= VisibleAt(tick.ask[s], p)
                   PROVE  /\ b + NothingUsed[p] <= VisibleAt(tick.ask[s], p)
                          /\ b + NothingUsed[p] <= used[p]
        BY DEF Keeps
      <3> QED
        BY <1>4
    <2>5. Plan(s, o, plan.dryUsed).ok = plan.ok
      BY <2>3 DEF plan
    <2> QED
      BY <1>4, <1>7, <2>2, <2>3, <2>4, <2>5 DEF plan
  <1>10. CASE ~o.ignoreConsumed
    <2>1. F = Fills(L, used, within, target)
      BY <1>10
    <2>2. F[1] \in Nat /\ F[2] \in Nat
      BY <1>2, <1>3, <2>1, FillFacts
    <2>3. plan.dryUsed = UsedAfter(L, used, <<0, 0>>)
      BY <1>5, <1>10
    <2>4. fills(plan.dryUsed) = F
      BY <1>2, <1>3, <1>10, <2>1, <2>3, SameFills
    <2>5. Plan(s, o, plan.dryUsed).ok = plan.ok
      BY <1>6, <2>4
    <2> HIDE DEF fills, F, plan
    <2>6. plan.shares \in Nat /\ plan.notional \in Nat
      BY <1>2, <1>3, <1>5, <2>1, NotionalFacts
    <2>7. plan.used = UsedAfter(L, used, F)
      BY <1>5, <1>10
    <2>8. plan.taken = [p \in Prices |-> FilledAt(L, F, p)]
      BY <1>5, <1>10
    <2>9. /\ plan.used \in [Prices -> Nat] /\ plan.dryUsed \in [Prices -> Nat]
          /\ plan.taken \in [Prices -> Nat]
      <3>1. plan.used \in [Prices -> Nat]
        BY <1>3, <2>2, <2>7, UsedFacts
      <3>2. plan.dryUsed \in [Prices -> Nat]
        BY <1>8, <2>3
      <3>3. \A p \in Prices : FilledAt(L, F, p) \in Nat
        BY <1>3, <2>2, UsedFacts
      <3>4. plan.taken \in [Prices -> Nat]
        BY <2>8, <3>3
      <3> QED
        BY <3>1, <3>2, <3>4
    <2>10. ASSUME NEW p \in Prices, NEW b \in Nat, tick.ask[s] # << >>,
                  b <= used[p], b <= VisibleAt(tick.ask[s], p)
           PROVE  /\ b + plan.taken[p] <= VisibleAt(tick.ask[s], p)
                  /\ b + plan.taken[p] <= plan.used[p]
                  /\ b <= plan.used[p] /\ b <= plan.dryUsed[p]
      <3>1. L = tick.ask[s]
        BY <1>3, <2>10
      <3>2. plan.taken[p] = FilledAt(L, F, p)
        BY <2>8
      <3> QED
        BY <1>2, <1>3, <2>1, <2>3, <2>7, <2>10, <3>1, <3>2, FillFits
    <2>11. /\ Keeps(tick.ask[s], used, plan.used, plan.taken)
           /\ Keeps(tick.ask[s], used, plan.used, NothingUsed)
           /\ Keeps(tick.ask[s], used, plan.dryUsed, NothingUsed)
      <3>1. Keeps(tick.ask[s], used, plan.used, plan.taken)
        BY <2>10 DEF Keeps
      <3>2. \A p \in Prices, b \in Nat : b + NothingUsed[p] = b
        BY <1>4
      <3>3. Keeps(tick.ask[s], used, plan.used, NothingUsed)
        BY <2>10, <3>2 DEF Keeps
      <3>4. Keeps(tick.ask[s], used, plan.dryUsed, NothingUsed)
        BY <2>10, <3>2 DEF Keeps
      <3> QED
        BY <3>1, <3>3, <3>4
    <2> QED
      BY <1>7, <2>5, <2>6, <2>9, <2>11 DEF plan
  <1> QED
    BY <1>1, <1>9, <1>10

(* What a sale returns: it sells no more than the position has, the cost   *)
(* that goes with it is at most that of the position and all of it when    *)
(* all is sold, and no bid is promised twice (exit).                       *)
LEMMA SaleFacts ==
    ASSUME TypeOK, position # None, NEW o \in ExitOption
    PROVE  LET sale == Sale(o)
           IN  /\ sale.shares \in Nat /\ sale.shares <= position.remaining
               /\ sale.proceeds \in Nat
               /\ sale.cost \in Nat /\ sale.cost <= position.openCost
               /\ sale.shares = position.remaining => sale.cost = position.openCost
               /\ sale.used \in [Prices -> Nat]
               /\ sale.taken \in [Prices -> Nat]
               /\ sale.ok => sale.tried /\ sale.shares > 0
               /\ Keeps(tick.bid[position.side], bidsUsed[position.side],
                        sale.used, sale.taken)
               /\ Keeps(tick.bid[position.side], bidsUsed[position.side],
                        sale.used, NothingUsed)
  <1>1. o.price \in Prices /\ o.qty \in Nat /\ o.pct \in Nat /\ o.minShares \in Nat
    BY DEF ExitOption
  <1>2. position \in Position
    BY DEF TypeOK
  <1>3. /\ position.side \in Sides /\ position.total \in Nat
        /\ position.remaining \in Nat \ {0} /\ position.openCost \in Nat
    BY <1>2 DEF Position
  <1> DEFINE rem == position.remaining
  <1> DEFINE s == position.side
  <1> DEFINE wanted == IF o.qty > 0 THEN o.qty
                       ELSE IF o.pct > 0
                       THEN (position.total * Least(100, o.pct)) \div 100
                       ELSE rem
  <1> DEFINE qty == Least(rem, wanted)
  <1> DEFINE L == Levels(tick.bid[s], o.price)
  <1> DEFINE used == bidsUsed[s]
  <1> DEFINE within == {p \in Prices : p >= o.price}
  <1> DEFINE F == Fills(L, used, within, qty)
  <1> DEFINE sale == Sale(o)
  <1>4. wanted \in Nat
    <2>1. Least(100, o.pct) \in Nat
      BY <1>1 DEF Least
    <2>2. position.total * Least(100, o.pct) \in Nat
      BY <1>3, <2>1, ProductIsNat
    <2>3. (position.total * Least(100, o.pct)) \div 100 \in Nat
      BY <2>2, QuotientIsNat
    <2> QED
      BY <1>1, <1>3, <2>3
  <1>5. qty \in Nat /\ qty <= rem
    <2> HIDE DEF wanted
    <2> QED
      BY <1>3, <1>4 DEF Least
  <1>6. L \in Book /\ (tick.bid[s] # << >> => L = tick.bid[s])
    BY <1>1, <1>3, TickFacts, LevelsFacts
  <1>7. used \in [Prices -> Nat]
    BY <1>3 DEF TypeOK, Tally
  <1>8. /\ sale.shares = Shares(F) /\ sale.proceeds = Notional(L, F)
        /\ sale.cost = (position.openCost * Shares(F)) \div position.remaining
        /\ sale.used = UsedAfter(L, used, F)
        /\ sale.taken = [p \in Prices |-> FilledAt(L, F, p)]
        /\ sale.ok = (sale.tried /\ Shares(F) > 0 /\ Shares(F) >= o.minShares)
    BY DEF Sale
  <1> HIDE DEF qty, wanted, L, used, within, sale
  <1>9. F[1] \in Nat /\ F[2] \in Nat
    BY <1>5, <1>6, <1>7, FillFacts
  <1>10. Shares(F) \in Nat /\ Shares(F) <= qty /\ Notional(L, F) \in Nat
    BY <1>5, <1>6, <1>7, NotionalFacts
  <1>11. sale.used \in [Prices -> Nat] /\ sale.taken \in [Prices -> Nat]
    BY <1>6, <1>7, <1>8, <1>9, UsedFacts
  <1>12. ASSUME NEW p \in Prices, NEW b \in Nat, tick.bid[s] # << >>,
                b <= used[p], b <= VisibleAt(tick.bid[s], p)
         PROVE  /\ b + sale.taken[p] <= VisibleAt(tick.bid[s], p)
                /\ b + sale.taken[p] <= sale.used[p]
                /\ b <= sale.used[p]
    <2>1. sale.taken[p] = FilledAt(L, F, p)
      BY <1>8
    <2>2. L = tick.bid[s]
      BY <1>6, <1>12
    <2> QED
      BY <1>5, <1>6, <1>7, <1>8, <1>12, <2>1, <2>2, FillFits
  <1> HIDE DEF F
  <1>13. /\ sale.cost \in Nat /\ sale.cost <= position.openCost
         /\ sale.shares = position.remaining => sale.cost = position.openCost
    BY <1>3, <1>5, <1>8, <1>10, PartOfCost
  <1>14. \A p \in Prices, b \in Nat : b + NothingUsed[p] = b
    BY DEF NothingUsed
  <1>15. Keeps(tick.bid[s], used, sale.used, sale.taken)
    BY <1>12 DEF Keeps
  <1>16. Keeps(tick.bid[s], used, sale.used, NothingUsed)
    BY <1>12, <1>14 DEF Keeps
  <1>17. sale.shares \in Nat /\ sale.shares <= rem /\ sale.proceeds \in Nat
    BY <1>3, <1>5, <1>8, <1>10
  <1>18. sale.ok => sale.tried /\ sale.shares > 0
    BY <1>8
  <1> QED
    BY <1>11, <1>13, <1>15, <1>16, <1>17, <1>18 DEF sale, used

(* What a triggered stop returns, which may have tried twice: what it buys *)
(* the second time follows from what the first try has left reserved.      *)
LEMMA StopFacts ==
    ASSUME TypeOK, NEW o \in RestingOrder, BestAsk(o.side, tick) # None
    PROVE  LET fill == StopFill(o)
           IN  /\ fill.shares \in Nat /\ fill.notional \in Nat
               /\ fill.used \in [Prices -> Nat]
               /\ fill.taken \in [Prices -> Nat]
               /\ fill.ok => fill.shares > 0
               /\ Keeps(tick.ask[o.side], asksUsed[o.side], fill.used, fill.taken)
               /\ Keeps(tick.ask[o.side], asksUsed[o.side], fill.used, NothingUsed)
  <1> DEFINE s == o.side
  <1>1. /\ s \in Sides /\ o.shares \in Nat /\ o.budget \in Nat
    BY DEF RestingOrder
  <1> DEFINE L == Levels(tick.ask[s], BestAsk(s, tick))
  <1> DEFINE start == asksUsed[s]
  <1> DEFINE within == {p \in Prices : p <= o.cap}
  <1> DEFINE first == Fills(L, start, within, o.shares)
  <1> DEFINE mid == UsedAfter(L, start, first)
  <1> DEFINE afford == IF Shares(first) = 0 THEN 0
                       ELSE (o.budget * Shares(first)) \div Notional(L, first)
  <1> DEFINE again == Notional(L, first) > o.budget /\ afford > 0
  <1> DEFINE qty == Least(o.shares, afford)
  <1> DEFINE second == Fills(L, mid, within, qty)
  <1> DEFINE F == IF again THEN second ELSE first
  <1> DEFINE fill == StopFill(o)
  <1>2. L \in Book /\ (tick.ask[s] # << >> => L = tick.ask[s])
    BY <1>1, TickFacts, LevelsFacts
  <1>3. start \in [Prices -> Nat]
    BY <1>1 DEF TypeOK, Tally
  <1>4. /\ fill.ok = (Shares(F) > 0 /\ Notional(L, F) <= o.budget)
        /\ fill.shares = Shares(F) /\ fill.notional = Notional(L, F)
        /\ fill.used = IF again THEN UsedAfter(L, mid, second) ELSE mid
        /\ fill.taken = [p \in Prices |-> FilledAt(L, F, p)]
    BY DEF StopFill
  <1> HIDE DEF L, start, within, fill, s
  <1>5. /\ Shares(first) \in Nat /\ Notional(L, first) \in Nat
        /\ Shares(first) > 0 => Notional(L, first) > 0
    BY <1>1, <1>2, <1>3, NotionalFacts
  <1>6. first[1] \in Nat /\ first[2] \in Nat
    BY <1>1, <1>2, <1>3, FillFacts
  <1>7. mid \in [Prices -> Nat]
    BY <1>2, <1>3, <1>6, UsedFacts
  <1>8. afford \in Nat
    <2> DEFINE n == Shares(first)
    <2> DEFINE m == Notional(L, first)
    <2>1. CASE n = 0
      BY <2>1
    <2>2. CASE n # 0
      <3>1. n \in Nat /\ m \in Nat \ {0}
        BY <1>5, <2>2
      <3> HIDE DEF n, m
      <3>2. o.budget * n \in Nat
        BY <1>1, <3>1, ProductIsNat
      <3>3. (o.budget * n) \div m \in Nat
        BY <3>1, <3>2, QuotientIsNat
      <3> QED
        BY <2>2, <3>3 DEF n, m
    <2> QED
      BY <2>1, <2>2
  <1>9. qty \in Nat
    <2> HIDE DEF afford
    <2> QED
      BY <1>1, <1>8 DEF Least
  <1> DEFINE vis(p) == VisibleAt(tick.ask[s], p)
  <1>10. ASSUME NEW p \in Prices, NEW b \in Nat, tick.ask[s] # << >>,
                b <= start[p], b <= vis(p)
         PROVE  /\ b + FilledAt(L, first, p) <= vis(p)
                /\ b + FilledAt(L, first, p) <= mid[p]
                /\ b <= mid[p]
    BY <1>1, <1>2, <1>3, <1>10, FillFits
  <1> HIDE DEF first, mid, afford, qty
  <1>11. second[1] \in Nat /\ second[2] \in Nat
    BY <1>2, <1>7, <1>9, FillFacts
  <1>12. Shares(second) \in Nat /\ Notional(L, second) \in Nat
    BY <1>2, <1>7, <1>9, NotionalFacts
  <1>13. ASSUME NEW p \in Prices, NEW b \in Nat, tick.ask[s] # << >>,
                b <= mid[p], b <= vis(p)
         PROVE  /\ b + FilledAt(L, second, p) <= vis(p)
                /\ b + FilledAt(L, second, p) <= UsedAfter(L, mid, second)[p]
                /\ b <= UsedAfter(L, mid, second)[p]
    BY <1>2, <1>7, <1>9, <1>13, FillFits
  <1>14. UsedAfter(L, mid, second) \in [Prices -> Nat]
    BY <1>2, <1>7, <1>11, UsedFacts
  <1> HIDE DEF second, again, vis
  <1>15. fill.used \in [Prices -> Nat]
    BY <1>4, <1>7, <1>14
  <1>16. fill.shares \in Nat /\ fill.notional \in Nat /\ (fill.ok => fill.shares > 0)
    BY <1>4, <1>5, <1>12
  <1>17. F[1] \in Nat /\ F[2] \in Nat
    BY <1>6, <1>11
  <1>18. \A p \in Prices : FilledAt(L, F, p) \in Nat /\ fill.taken[p] = FilledAt(L, F, p)
    BY <1>2, <1>3, <1>4, <1>17, UsedFacts
  <1>19. fill.taken \in [Prices -> Nat]
    BY <1>4, <1>18
  <1>20. ASSUME NEW p \in Prices, NEW b \in Nat, tick.ask[s] # << >>,
                b <= start[p], b <= vis(p)
         PROVE  /\ b + fill.taken[p] <= vis(p)
                /\ b + fill.taken[p] <= fill.used[p]
                /\ b <= fill.used[p]
    <2>1. CASE again
      <3>1. b <= mid[p]
        BY <1>10, <1>20
      <3>2. fill.taken[p] = FilledAt(L, second, p)
        BY <1>18, <2>1
      <3>3. fill.used = UsedAfter(L, mid, second)
        BY <1>4, <2>1
      <3> QED
        BY <1>13, <1>20, <3>1, <3>2, <3>3
    <2>2. CASE ~again
      <3>1. fill.taken[p] = FilledAt(L, first, p)
        BY <1>18, <2>2
      <3>2. fill.used = mid
        BY <1>4, <2>2
      <3> QED
        BY <1>10, <1>20, <3>1, <3>2
    <2> QED
      BY <2>1, <2>2
  <1>21. \A p \in Prices, b \in Nat : b + NothingUsed[p] = b
    BY DEF NothingUsed
  <1>22. Keeps(tick.ask[s], start, fill.used, fill.taken)
    BY <1>20 DEF Keeps, vis
  <1>23. Keeps(tick.ask[s], start, fill.used, NothingUsed)
    BY <1>20, <1>21 DEF Keeps, vis
  <1> QED
    BY <1>15, <1>16, <1>19, <1>22, <1>23 DEF fill, s, start

-----------------------------------------------------------------------------
(* The accounts                                                            *)

(* Money c with realised result r, lots l, overwritten lots e and shares h *)
(* balance.                                                                *)
Balance(c, r, l, e, h) ==
    /\ c = r - l[Up].cost - l[Down].cost - e[Up].cost - e[Down].cost
    /\ \A s \in Sides : h[s] = l[s].shares + e[s].shares

(* A lot without shares has no cost.                                       *)
Costed(l) == \A s \in Sides : l[s].shares = 0 => l[s].cost = 0

(* Position p is backed by the lot of its side, and is that lot when there *)
(* are no other shares in it.                                              *)
Backed(p, l) ==
    p # None => /\ l[p.side].shares >= p.remaining
                /\ l[p.side].cost >= p.openCost
                /\ l[p.side].shares = p.remaining => l[p.side].cost = p.openCost

(* What a trade makes of a position, of the lots and of the shares held.   *)
Opened(s, n, k) ==
    [side |-> s, total |-> n, remaining |-> n, openCost |-> k]
LotOpened(l, s, n, k)  == [l EXCEPT ![s] = [shares |-> n, cost |-> k]]
LotErased(e, l, s) ==
    [e EXCEPT ![s] = [shares |-> @.shares + l[s].shares,
                      cost   |-> @.cost + l[s].cost]]
LotSold(l, s, n, k) == [l EXCEPT ![s] = Debited(@, n, k)]
LotCredited(l, s, n, k) ==
    [l EXCEPT ![s] = [shares |-> @.shares + n, cost |-> @.cost + k]]
Remaining(p, n, k) ==
    IF p.remaining = n THEN None
    ELSE [p EXCEPT !.remaining = @ - n, !.openCost = @ - k]
More(h, s, n) == [h EXCEPT ![s] = @ + n]
Less(h, s, n) == [h EXCEPT ![s] = @ - n]
Swapped(h, p, n, s, m) ==
    [z \in Sides |-> h[z] - (IF z = p THEN n ELSE 0) + (IF z = s THEN m ELSE 0)]

(* The properties of the simulator in terms of the accounts.               *)
LEMMA AccountsAre ==
    /\ MoneyConserved <=> Balance(cash, realizedPnl, lots, erased, held)
    /\ (PositionBacked /\ LotsInv) <=>
           Backed(position, lots) /\ Costed(lots) /\ Costed(erased)
  <1>1. MoneyConserved <=> Balance(cash, realizedPnl, lots, erased, held)
    BY DEF MoneyConserved, Balance
  <1>2. (PositionBacked /\ LotsInv) <=>
            Backed(position, lots) /\ Costed(lots) /\ Costed(erased)
    BY DEF PositionBacked, LotsInv, Backed, Costed
  <1> QED
    BY <1>1, <1>2

(* Opening a position of n shares for k money: what its lot held goes to   *)
(* the overwritten lots.                                                   *)
LEMMA OpenBalances ==
    ASSUME NEW c \in Int, NEW r \in Int, NEW l \in [Sides -> Lot],
           NEW e \in [Sides -> Lot], NEW h \in [Sides -> Int],
           Balance(c, r, l, e, h), Costed(l), Costed(e),
           NEW s \in Sides, NEW n \in Nat \ {0}, NEW k \in Nat
    PROVE  /\ LotOpened(l, s, n, k) \in [Sides -> Lot]
           /\ LotErased(e, l, s) \in [Sides -> Lot]
           /\ More(h, s, n) \in [Sides -> Int]
           /\ Balance(c - k, r, LotOpened(l, s, n, k), LotErased(e, l, s), More(h, s, n))
           /\ Costed(LotOpened(l, s, n, k)) /\ Costed(LotErased(e, l, s))
           /\ Opened(s, n, k) \in Position
           /\ Backed(Opened(s, n, k), LotOpened(l, s, n, k))
  <1> DEFINE l2 == LotOpened(l, s, n, k)
  <1> DEFINE e2 == LotErased(e, l, s)
  <1> DEFINE h2 == More(h, s, n)
  <1> USE DEF LotOpened, LotErased, More
  <1>1. \A z \in Sides : /\ l[z].shares \in Nat /\ l[z].cost \in Nat
                         /\ e[z].shares \in Nat /\ e[z].cost \in Nat
    BY DEF Lot
  <1>2. /\ l2[s].shares = n /\ l2[s].cost = k
        /\ e2[s].shares = e[s].shares + l[s].shares
        /\ e2[s].cost = e[s].cost + l[s].cost
    OBVIOUS
  <1>3. \A z \in Sides : z # s => l2[z] = l[z] /\ e2[z] = e[z]
    OBVIOUS
  <1>4. l2 \in [Sides -> Lot]
    BY DEF Lot
  <1>5. e2 \in [Sides -> Lot]
    <2>1. [shares |-> e[s].shares + l[s].shares, cost |-> e[s].cost + l[s].cost] \in Lot
      BY <1>1 DEF Lot
    <2> QED
      BY <2>1
  <1>6. Costed(l2) /\ Costed(e2)
    <2>1. ASSUME NEW z \in Sides
          PROVE  /\ l2[z].shares = 0 => l2[z].cost = 0
                 /\ e2[z].shares = 0 => e2[z].cost = 0
      <3>1. CASE z = s
        BY <1>1, <1>2, <3>1 DEF Costed
      <3>2. CASE z # s
        BY <1>3, <3>2 DEF Costed
      <3> QED
        BY <3>1, <3>2
    <2> QED
      BY <2>1 DEF Costed
  <1>7. Up \in Sides /\ Down \in Sides /\ Up # Down /\ (s = Up \/ s = Down)
    BY SimulatorAssumption DEF Sides
  <1>8. c - k = r - l2[Up].cost - l2[Down].cost - e2[Up].cost - e2[Down].cost
    <2>1. c = r - l[Up].cost - l[Down].cost - e[Up].cost - e[Down].cost
      BY DEF Balance
    <2>2. CASE s = Up
      <3>1. l2[Down] = l[Down] /\ e2[Down] = e[Down]
        BY <1>3, <1>7, <2>2
      <3>2. l2[Up].cost = k /\ e2[Up].cost = e[Up].cost + l[Up].cost
        BY <1>2, <2>2
      <3> QED
        BY <1>1, <1>7, <2>1, <3>1, <3>2
    <2>3. CASE s = Down
      <3>1. l2[Up] = l[Up] /\ e2[Up] = e[Up]
        BY <1>3, <1>7, <2>3
      <3>2. l2[Down].cost = k /\ e2[Down].cost = e[Down].cost + l[Down].cost
        BY <1>2, <2>3
      <3> QED
        BY <1>1, <1>7, <2>1, <3>1, <3>2
    <2> QED
      BY <1>7, <2>2, <2>3
  <1>9. ASSUME NEW z \in Sides
        PROVE  h2[z] = l2[z].shares + e2[z].shares
    <2>1. h[z] = l[z].shares + e[z].shares
      BY DEF Balance
    <2>2. CASE z = s
      <3>1. h2[z] = h[z] + n
        BY <2>2
      <3> QED
        BY <1>1, <1>2, <2>1, <2>2, <3>1
    <2>3. CASE z # s
      <3>1. h2[z] = h[z]
        BY <2>3
      <3> QED
        BY <1>1, <1>3, <2>1, <2>3, <3>1
    <2> QED
      BY <2>2, <2>3
  <1>10. Balance(c - k, r, l2, e2, h2)
    BY <1>8, <1>9 DEF Balance
  <1>11. Backed(Opened(s, n, k), l2)
    BY <1>2 DEF Backed, Opened
  <1>12. h2 \in [Sides -> Int] /\ Opened(s, n, k) \in Position
    BY DEF Opened, Position
  <1> QED
    BY <1>4, <1>5, <1>6, <1>10, <1>11, <1>12

(* Selling n shares of the position, of cost k, for q: the clamps of       *)
(* debitLot do not bite, and what is left of the position stays backed.    *)
LEMMA SaleBalances ==
    ASSUME NEW c \in Int, NEW r \in Int, NEW l \in [Sides -> Lot],
           NEW e \in [Sides -> Lot], NEW h \in [Sides -> Int],
           Balance(c, r, l, e, h), Costed(l),
           NEW pos \in Position, Backed(pos, l),
           NEW n \in Nat \ {0}, n <= pos.remaining,
           NEW k \in Nat, k <= pos.openCost,
           n = pos.remaining => k = pos.openCost,
           NEW q \in Nat
    PROVE  /\ LotSold(l, pos.side, n, k) \in [Sides -> Lot]
           /\ Less(h, pos.side, n) \in [Sides -> Int]
           /\ Balance(c + q, r + q - k, LotSold(l, pos.side, n, k), e,
                      Less(h, pos.side, n))
           /\ Costed(LotSold(l, pos.side, n, k))
           /\ Remaining(pos, n, k) \in Position \cup {None}
           /\ pos.remaining # n => Remaining(pos, n, k) \in Position
           /\ Backed(Remaining(pos, n, k), LotSold(l, pos.side, n, k))
  <1> DEFINE l2 == LotSold(l, pos.side, n, k)
  <1> DEFINE h2 == Less(h, pos.side, n)
  <1> DEFINE pos2 == Remaining(pos, n, k)
  <1> USE DEF LotSold, Less, Remaining
  <1> DEFINE s == pos.side
  <1> DEFINE rem == pos.remaining
  <1> DEFINE oc == pos.openCost
  <1>1. /\ s \in Sides /\ pos.total \in Nat /\ rem \in Nat \ {0} /\ oc \in Nat
        /\ pos # None
    BY SimulatorAssumption DEF Position
  <1>2. \A z \in Sides : /\ l[z].shares \in Nat /\ l[z].cost \in Nat
                         /\ e[z].shares \in Nat /\ e[z].cost \in Nat
    BY DEF Lot
  <1> DEFINE ls == l[s].shares
  <1> DEFINE lc == l[s].cost
  <1>3. ls \in Nat /\ lc \in Nat
    BY <1>1, <1>2
  <1>4. ls >= rem /\ lc >= oc /\ (ls = rem => lc = oc)
    BY <1>1 DEF Backed
  <1>5. l[s] = [shares |-> ls, cost |-> lc]
    <2>1. l[s] \in Lot
      BY <1>1
    <2> QED
      BY <2>1 DEF Lot
  <1> DEFINE new == Debited(l[s], n, k)
  <1>6. new = IF ls <= n THEN [shares |-> 0, cost |-> 0]
              ELSE [shares |-> ls - n, cost |-> IF lc <= k THEN 0 ELSE lc - k]
    BY DEF Debited, NoLot
  <1>7. l2[s] = new /\ \A z \in Sides : z # s => l2[z] = l[z]
    BY <1>1
  <1>8. h2[s] = h[s] - n /\ \A z \in Sides : z # s => h2[z] = h[z]
    BY <1>1
  <1> DEFINE ns == new.shares
  <1> DEFINE nc == new.cost
  <1>9. /\ n <= rem /\ k <= oc /\ (n = rem => k = oc)
    OBVIOUS
  <1> HIDE DEF s, rem, oc, ls, lc, new
  <1>10. ns = ls - n
    <2>1. CASE ls <= n
      <3>1. ns = 0
        BY <1>6, <2>1
      <3> QED
        BY <1>1, <1>3, <1>4, <1>9, <2>1, <3>1
    <2>2. CASE ~(ls <= n)
      BY <1>6, <2>2
    <2> QED
      BY <2>1, <2>2
  <1>11. nc = lc - k
    <2>1. CASE ls <= n
      <3>1. nc = 0
        BY <1>6, <2>1
      <3>2. ls = rem /\ n = rem
        BY <1>1, <1>3, <1>4, <1>9, <2>1
      <3>3. lc = oc /\ k = oc
        BY <1>4, <1>9, <3>2
      <3> QED
        BY <1>1, <3>1, <3>3
    <2>2. CASE ~(ls <= n)
      <3>1. nc = IF lc <= k THEN 0 ELSE lc - k
        BY <1>6, <2>2
      <3> QED
        BY <1>1, <1>3, <1>4, <1>9, <3>1
    <2> QED
      BY <2>1, <2>2
  <1>12. new = [shares |-> ns, cost |-> nc]
    BY <1>6
  <1>13. ns \in Nat /\ nc \in Nat
    BY <1>1, <1>3, <1>4, <1>9, <1>10, <1>11
  <1>14. new \in Lot
    <2> HIDE DEF ns, nc
    <2> QED
      BY <1>12, <1>13 DEF Lot
  <1>15. l2 \in [Sides -> Lot]
    BY <1>1, <1>14 DEF s, new
  <1>16. h2 \in [Sides -> Int]
    BY <1>1 DEF s
  <1>17. l2[s].shares = ls - n /\ l2[s].cost = lc - k
    BY <1>7, <1>10, <1>11
  <1>18. ls = n => lc = k
    BY <1>1, <1>3, <1>4, <1>9
  <1>19. Costed(l2)
    <2> SUFFICES ASSUME NEW z \in Sides, l2[z].shares = 0
                 PROVE  l2[z].cost = 0
      BY DEF Costed
    <2>1. CASE z = s
      BY <1>3, <1>17, <1>18, <2>1
    <2>2. CASE z # s
      BY <1>7, <2>2 DEF Costed
    <2> QED
      BY <2>1, <2>2
  <1>20. Up \in Sides /\ Down \in Sides /\ Up # Down /\ (s = Up \/ s = Down)
    BY <1>1, SimulatorAssumption DEF Sides
  <1> DEFINE c2 == c + q
  <1> DEFINE r2 == r + q - k
  <1>21. c2 = r2 - l2[Up].cost - l2[Down].cost - e[Up].cost - e[Down].cost
    <2>1. c = r - l[Up].cost - l[Down].cost - e[Up].cost - e[Down].cost
      BY DEF Balance
    <2>2. CASE s = Up
      <3>1. l2[Down].cost = l[Down].cost /\ l2[Up].cost = l[Up].cost - k
        BY <1>7, <1>17, <1>20, <2>2 DEF lc
      <3> QED
        BY <1>2, <1>20, <2>1, <3>1
    <2>3. CASE s = Down
      <3>1. l2[Up].cost = l[Up].cost /\ l2[Down].cost = l[Down].cost - k
        BY <1>7, <1>17, <1>20, <2>3 DEF lc
      <3> QED
        BY <1>2, <1>20, <2>1, <3>1
    <2> QED
      BY <1>20, <2>2, <2>3
  <1>22. ASSUME NEW z \in Sides
         PROVE  h2[z] = l2[z].shares + e[z].shares
    <2>1. h[z] = l[z].shares + e[z].shares
      BY DEF Balance
    <2>2. CASE z = s
      BY <1>2, <1>8, <1>17, <2>1, <2>2 DEF ls
    <2>3. CASE z # s
      BY <1>7, <1>8, <2>1, <2>3
    <2> QED
      BY <2>2, <2>3
  <1>23. Balance(c + q, r + q - k, l2, e, h2)
    <2> HIDE DEF c2, r2
    <2>1. Balance(c2, r2, l2, e, h2)
      BY <1>21, <1>22 DEF Balance
    <2> QED
      BY <2>1 DEF c2, r2
  <1>24. CASE rem = n
    <2>1. pos2 = None
      BY <1>24 DEF rem
    <2> QED
      BY <1>15, <1>16, <1>19, <1>23, <1>24, <2>1 DEF Backed, rem
  <1>25. CASE rem # n
    <2>1. pos2 = [pos EXCEPT !.remaining = @ - n, !.openCost = @ - k]
      BY <1>25 DEF rem
    <2>2. rem - n \in Nat \ {0} /\ oc - k \in Nat
      BY <1>1, <1>9, <1>25
    <2>3. /\ pos2.side = s /\ pos2.total = pos.total
          /\ pos2.remaining = rem - n /\ pos2.openCost = oc - k
      BY <2>1 DEF Position, s, rem, oc
    <2>4. pos2 = [side |-> s, total |-> pos.total, remaining |-> rem - n,
                  openCost |-> oc - k]
      BY <2>1 DEF Position, s, rem, oc
    <2>5. pos2 \in Position
      BY <1>1, <2>2, <2>4 DEF Position
    <2>6. pos2 # None
      BY <2>5, SimulatorAssumption
    <2>7. Backed(pos2, l2)
      <3>1. ls - n >= rem - n /\ lc - k >= oc - k /\ (ls - n = rem - n => lc - k = oc - k)
        BY <1>1, <1>3, <1>4
      <3> QED
        BY <1>17, <2>3, <3>1 DEF Backed
    <2> QED
      BY <1>15, <1>16, <1>19, <1>23, <1>25, <2>5, <2>6, <2>7 DEF rem
  <1> QED
    BY <1>24, <1>25

(* A hedge of n shares for k money is credited to the lot of its side,     *)
(* that of the position perhaps.                                           *)
LEMMA CreditBalances ==
    ASSUME NEW c \in Int, NEW r \in Int, NEW l \in [Sides -> Lot],
           NEW e \in [Sides -> Lot], NEW h \in [Sides -> Int],
           Balance(c, r, l, e, h), Costed(l),
           NEW pos \in Position \cup {None}, Backed(pos, l),
           NEW s \in Sides, NEW n \in Nat \ {0}, NEW k \in Nat
    PROVE  /\ LotCredited(l, s, n, k) \in [Sides -> Lot]
           /\ More(h, s, n) \in [Sides -> Int]
           /\ Balance(c - k, r, LotCredited(l, s, n, k), e, More(h, s, n))
           /\ Costed(LotCredited(l, s, n, k))
           /\ Backed(pos, LotCredited(l, s, n, k))
  <1> DEFINE l2 == LotCredited(l, s, n, k)
  <1> DEFINE h2 == More(h, s, n)
  <1> USE DEF LotCredited, More
  <1>1. \A z \in Sides : /\ l[z].shares \in Nat /\ l[z].cost \in Nat
                         /\ e[z].shares \in Nat /\ e[z].cost \in Nat
    BY DEF Lot
  <1>2. /\ l2[s].shares = l[s].shares + n /\ l2[s].cost = l[s].cost + k
        /\ h2[s] = h[s] + n
        /\ \A z \in Sides : z # s => l2[z] = l[z] /\ h2[z] = h[z]
    OBVIOUS
  <1>3. l2 \in [Sides -> Lot]
    <2>1. [shares |-> l[s].shares + n, cost |-> l[s].cost + k] \in Lot
      BY <1>1 DEF Lot
    <2> QED
      BY <2>1
  <1>4. h2 \in [Sides -> Int]
    OBVIOUS
  <1>5. Costed(l2)
    <2> SUFFICES ASSUME NEW z \in Sides, l2[z].shares = 0
                 PROVE  l2[z].cost = 0
      BY DEF Costed
    <2>1. CASE z = s
      BY <1>1, <1>2, <2>1
    <2>2. CASE z # s
      BY <1>2, <2>2 DEF Costed
    <2> QED
      BY <2>1, <2>2
  <1>6. Up \in Sides /\ Down \in Sides /\ Up # Down /\ (s = Up \/ s = Down)
    BY SimulatorAssumption DEF Sides
  <1>7. c - k = r - l2[Up].cost - l2[Down].cost - e[Up].cost - e[Down].cost
    <2>1. c = r - l[Up].cost - l[Down].cost - e[Up].cost - e[Down].cost
      BY DEF Balance
    <2>2. CASE s = Up
      <3>1. l2[Down].cost = l[Down].cost /\ l2[Up].cost = l[Up].cost + k
        BY <1>2, <1>6, <2>2
      <3> QED
        BY <1>1, <1>6, <2>1, <3>1
    <2>3. CASE s = Down
      <3>1. l2[Up].cost = l[Up].cost /\ l2[Down].cost = l[Down].cost + k
        BY <1>2, <1>6, <2>3
      <3> QED
        <4> DEFINE a == l[Up].cost
        <4> DEFINE b == l[Down].cost
        <4> DEFINE x == e[Up].cost
        <4> DEFINE y == e[Down].cost
        <4>1. a \in Nat /\ b \in Nat /\ x \in Nat /\ y \in Nat
          BY <1>1, <1>6
        <4>2. c = r - a - b - x - y
          BY <2>1
        <4>3. l2[Up].cost = a /\ l2[Down].cost = b + k
          BY <3>1
        <4> HIDE DEF a, b, x, y
        <4>4. c - k = r - a - (b + k) - x - y
          BY <4>1, <4>2
        <4> QED
          BY <4>3, <4>4 DEF x, y
    <2> QED
      BY <1>6, <2>2, <2>3
  <1>8. ASSUME NEW z \in Sides
        PROVE  h2[z] = l2[z].shares + e[z].shares
    <2>1. h[z] = l[z].shares + e[z].shares
      BY DEF Balance
    <2>2. CASE z = s
      BY <1>1, <1>2, <2>1, <2>2
    <2>3. CASE z # s
      BY <1>2, <2>1, <2>3
    <2> QED
      BY <2>2, <2>3
  <1>9. Balance(c - k, r, l2, e, h2)
    BY <1>7, <1>8 DEF Balance
  <1>10. Backed(pos, l2)
    <2> SUFFICES ASSUME pos # None
                 PROVE  /\ l2[pos.side].shares >= pos.remaining
                        /\ l2[pos.side].cost >= pos.openCost
                        /\ l2[pos.side].shares = pos.remaining
                               => l2[pos.side].cost = pos.openCost
      BY DEF Backed
    <2>1. pos.side \in Sides /\ pos.remaining \in Nat /\ pos.openCost \in Nat
      BY DEF Position
    <2>2. /\ l[pos.side].shares >= pos.remaining
          /\ l[pos.side].cost >= pos.openCost
          /\ l[pos.side].shares = pos.remaining => l[pos.side].cost = pos.openCost
      BY DEF Backed
    <2>3. CASE pos.side = s
      <3>1. /\ l2[pos.side].shares = l[s].shares + n
            /\ l2[pos.side].cost = l[s].cost + k
        BY <1>2, <2>3
      <3> QED
        BY <1>1, <2>1, <2>2, <2>3, <3>1
    <2>4. CASE pos.side # s
      BY <1>2, <2>1, <2>2, <2>4
    <2> QED
      BY <2>3, <2>4
  <1> QED
    BY <1>3, <1>4, <1>5, <1>9, <1>10

-----------------------------------------------------------------------------
(* The inductive invariant: where the runtime is, the accounts, and the    *)
(* liquidity.                                                              *)

LoopOK ==
    /\ at \in {"idle", "hook", "check", "wait"}
    /\ hook \in {"start", "tick", "end"}
    /\ tick \in Ticks
    /\ next \in Nat \ {0} /\ rows \in Nat /\ calls \in Nat
    /\ entries \in Nat
    /\ resting \in Seq(RestingOrder)
    /\ lastBestAsks \in [Sides -> Prices \cup {None}]
    /\ outcome \in [winner : Sides \cup {None}, finalPnl : Int]

HoldingOK ==
    /\ position \in Position \cup {None}
    /\ lots \in [Sides -> Lot] /\ erased \in [Sides -> Lot]
    /\ realizedPnl \in Int /\ cash \in Int /\ held \in [Sides -> Int]
    /\ Balance(cash, realizedPnl, lots, erased, held)
    /\ Costed(lots) /\ Costed(erased)
    /\ Backed(position, lots)

LiquidityOK ==
    /\ asksUsed \in Tally /\ bidsUsed \in Tally
    /\ bought \in Tally /\ sold \in Tally
    /\ UsedInv
    /\ NoPhantomLiquidity

SimInv == LoopOK /\ HoldingOK /\ LiquidityOK

(* The invariant is the type of the state and the properties of the        *)
(* accounts and of the liquidity, with their strengthenings.               *)
LEMMA SimInvIs ==
    SimInv <=> /\ TypeOK
               /\ PositionBacked /\ MoneyConserved /\ LotsInv
               /\ UsedInv /\ NoPhantomLiquidity
  BY AccountsAre DEF SimInv, LoopOK, HoldingOK, LiquidityOK, TypeOK

(* An order that is filled, be it entry or hedge, leaves the accounts      *)
(* balanced.                                                               *)
LEMMA FilledHolding ==
    ASSUME SimInv, NEW o \in RestingOrder, NEW n \in Nat \ {0}, NEW k \in Nat,
           Filled(o, n, k)
    PROVE  HoldingOK'
  <1> DEFINE s == o.side
  <1>1. s \in Sides
    BY DEF RestingOrder
  <1>2. /\ position \in Position \cup {None}
        /\ lots \in [Sides -> Lot] /\ erased \in [Sides -> Lot]
        /\ realizedPnl \in Int /\ cash \in Int /\ held \in [Sides -> Int]
        /\ Balance(cash, realizedPnl, lots, erased, held)
        /\ Costed(lots) /\ Costed(erased)
        /\ Backed(position, lots)
    BY DEF SimInv, HoldingOK
  <1>3. cash' = cash - k /\ held' = More(held, s, n) /\ realizedPnl' = realizedPnl
    BY DEF Filled, More
  <1>4. cash' \in Int /\ realizedPnl' \in Int
    BY <1>2, <1>3
  <1>5. CASE o.role = "entry"
    <2>1. /\ position' = Opened(s, n, k)
          /\ lots' = LotOpened(lots, s, n, k)
          /\ erased' = LotErased(erased, lots, s)
      BY <1>5 DEF Filled, OpenPosition, Opened, LotOpened, LotErased
    <2> HIDE DEF s
    <2>2. /\ lots' \in [Sides -> Lot] /\ erased' \in [Sides -> Lot]
          /\ held' \in [Sides -> Int]
          /\ Balance(cash - k, realizedPnl, lots', erased', held')
          /\ Costed(lots') /\ Costed(erased')
          /\ position' \in Position /\ Backed(position', lots')
      BY <1>1, <1>2, <1>3, <2>1, OpenBalances
    <2> QED
      BY <1>3, <1>4, <2>2 DEF HoldingOK
  <1>6. CASE o.role # "entry"
    <2>1. /\ lots' = LotCredited(lots, s, n, k)
          /\ position' = position /\ erased' = erased
      BY <1>6 DEF Filled, LotCredited
    <2> HIDE DEF s
    <2>2. /\ lots' \in [Sides -> Lot] /\ held' \in [Sides -> Int]
          /\ Balance(cash - k, realizedPnl, lots', erased, held') /\ Costed(lots')
          /\ Backed(position, lots')
      BY <1>1, <1>2, <1>3, <2>1, CreditBalances
    <2> QED
      BY <1>2, <1>3, <1>4, <2>1, <2>2 DEF HoldingOK
  <1> QED
    BY <1>5, <1>6

(* An entry leaves the accounts balanced.                                  *)
LEMMA EnterHolding ==
    ASSUME SimInv, NEW s \in Sides, NEW o \in EntryOptions, Enter(s, o)
    PROVE  HoldingOK'
  <1>1. TypeOK /\ o \in EntryOption
    BY SimInvIs, SimulatorAssumption
  <1>2. /\ position \in Position \cup {None}
        /\ lots \in [Sides -> Lot] /\ erased \in [Sides -> Lot]
        /\ realizedPnl \in Int /\ cash \in Int /\ held \in [Sides -> Int]
        /\ Balance(cash, realizedPnl, lots, erased, held)
        /\ Costed(lots) /\ Costed(erased)
        /\ Backed(position, lots)
    BY DEF SimInv, HoldingOK
  <1> DEFINE plan == Plan(s, o, asksUsed[s])
  <1> DEFINE n == plan.shares
  <1> DEFINE k == plan.notional
  <1>3. asksUsed[s] \in [Prices -> Nat]
    BY <1>1 DEF TypeOK, Tally
  <1>4. n \in Nat /\ k \in Nat /\ (plan.ok => n > 0)
    BY <1>1, <1>3, PlanFacts
  <1>5. realizedPnl' = realizedPnl
    BY DEF Enter
  <1>6. CASE plan.ok
    <2>1. /\ position' = Opened(s, n, k)
          /\ lots' = LotOpened(lots, s, n, k)
          /\ erased' = LotErased(erased, lots, s)
          /\ cash' = cash - k /\ held' = More(held, s, n)
      BY <1>6 DEF Enter, OpenPosition, Opened, LotOpened, LotErased, More
    <2>2. n \in Nat \ {0}
      BY <1>4, <1>6
    <2> HIDE DEF plan, n, k
    <2>3. cash' \in Int
      BY <1>2, <1>4, <2>1
    <2>4. /\ lots' \in [Sides -> Lot] /\ erased' \in [Sides -> Lot]
          /\ held' \in [Sides -> Int]
          /\ Balance(cash - k, realizedPnl, lots', erased', held')
          /\ Costed(lots') /\ Costed(erased')
          /\ position' \in Position /\ Backed(position', lots')
      BY <1>2, <1>4, <2>1, <2>2, OpenBalances
    <2> QED
      BY <1>2, <1>5, <2>1, <2>3, <2>4 DEF HoldingOK
  <1>7. CASE ~plan.ok
    BY <1>2, <1>5, <1>7 DEF Enter, HoldingOK
  <1> QED
    BY <1>6, <1>7

(* A sale leaves the accounts balanced.                                    *)
LEMMA ExitHolding ==
    ASSUME SimInv, NEW o \in ExitOptions, Exit(o)
    PROVE  HoldingOK'
  <1>1. TypeOK /\ o \in ExitOption
    BY SimInvIs, SimulatorAssumption
  <1>2. /\ position \in Position \cup {None}
        /\ lots \in [Sides -> Lot] /\ erased \in [Sides -> Lot]
        /\ realizedPnl \in Int /\ cash \in Int /\ held \in [Sides -> Int]
        /\ Balance(cash, realizedPnl, lots, erased, held)
        /\ Costed(lots) /\ Costed(erased)
        /\ Backed(position, lots)
    BY DEF SimInv, HoldingOK
  <1>3. position # None /\ position \in Position
    BY <1>2 DEF Exit
  <1> DEFINE sale == Sale(o)
  <1> DEFINE n == sale.shares
  <1> DEFINE k == sale.cost
  <1> DEFINE q == sale.proceeds
  <1>4. /\ n \in Nat /\ n <= position.remaining /\ q \in Nat
        /\ k \in Nat /\ k <= position.openCost
        /\ n = position.remaining => k = position.openCost
        /\ sale.ok => n > 0
    BY <1>1, <1>3, SaleFacts
  <1>5. erased' = erased
    BY DEF Exit
  <1>6. CASE sale.ok
    <2>1. /\ realizedPnl' = realizedPnl + q - k
          /\ position' = Remaining(position, n, k)
          /\ lots' = LotSold(lots, position.side, n, k)
          /\ cash' = cash + q
          /\ held' = Less(held, position.side, n)
      BY <1>6 DEF Exit, PositionAfter, LotsAfter, Remaining, LotSold, Less
    <2>2. n \in Nat \ {0}
      BY <1>4, <1>6
    <2> HIDE DEF sale, n, k, q
    <2>3. /\ lots' \in [Sides -> Lot] /\ held' \in [Sides -> Int]
          /\ Balance(cash + q, realizedPnl + q - k, lots', erased, held')
          /\ Costed(lots')
          /\ position' \in Position \cup {None}
          /\ Backed(position', lots')
      BY <1>2, <1>3, <1>4, <2>1, <2>2, SaleBalances
    <2>4. cash' \in Int /\ realizedPnl' \in Int
      BY <1>2, <1>4, <2>1
    <2> QED
      BY <1>2, <1>5, <2>1, <2>3, <2>4 DEF HoldingOK
  <1>7. CASE ~sale.ok
    BY <1>2, <1>5, <1>7 DEF Exit, HoldingOK
  <1> QED
    BY <1>6, <1>7

(* What a reversal finds: the dry plan, the sale of the whole position,    *)
(* and the plan that is committed, which is accepted if the dry one was.   *)
LEMMA ReverseFacts ==
    ASSUME SimInv, NEW s \in Sides, NEW o \in EntryOptions, NEW e \in ExitOptions,
           position # None
    PROVE  LET dry  == DryPlan(s, o)
               plan == Plan(s, o, dry.dryUsed)
               sale == Sale([price |-> e.price, qty |-> 0, pct |-> 0, minShares |-> 0])
               p    == position.side
           IN  /\ position \in Position /\ p \in Sides
               /\ dry.used \in [Prices -> Nat] /\ dry.dryUsed \in [Prices -> Nat]
               /\ Keeps(tick.ask[s], asksUsed[s], dry.dryUsed, NothingUsed)
               /\ plan.shares \in Nat /\ plan.notional \in Nat
               /\ plan.used \in [Prices -> Nat] /\ plan.taken \in [Prices -> Nat]
               /\ plan.ok => plan.shares > 0
               /\ plan.ok = dry.ok
               /\ Keeps(tick.ask[s], dry.dryUsed, plan.used, plan.taken)
               /\ Keeps(tick.ask[s], dry.dryUsed, plan.used, NothingUsed)
               /\ sale.shares \in Nat /\ sale.shares <= position.remaining
               /\ sale.proceeds \in Nat
               /\ sale.cost \in Nat /\ sale.cost <= position.openCost
               /\ sale.shares = position.remaining => sale.cost = position.openCost
               /\ sale.used \in [Prices -> Nat] /\ sale.taken \in [Prices -> Nat]
               /\ sale.ok => sale.shares > 0
               /\ Keeps(tick.bid[p], bidsUsed[p], sale.used, sale.taken)
               /\ Keeps(tick.bid[p], bidsUsed[p], sale.used, NothingUsed)
  <1>1. TypeOK /\ o \in EntryOption /\ e \in ExitOption
    BY SimInvIs, SimulatorAssumption
  <1>2. position \in Position /\ position.side \in Sides
    <2>1. position \in Position
      BY <1>1 DEF TypeOK
    <2> QED
      BY <2>1 DEF Position
  <1> DEFINE x == [price |-> e.price, qty |-> 0, pct |-> 0, minShares |-> 0]
  <1>3. x \in ExitOption
    BY <1>1 DEF ExitOption
  <1>4. asksUsed[s] \in [Prices -> Nat]
    BY <1>1 DEF TypeOK, Tally
  <1> DEFINE dry == Plan(s, o, asksUsed[s])
  <1>5. /\ dry.used \in [Prices -> Nat] /\ dry.dryUsed \in [Prices -> Nat]
        /\ Keeps(tick.ask[s], asksUsed[s], dry.dryUsed, NothingUsed)
        /\ Plan(s, o, dry.dryUsed).ok = dry.ok
    BY <1>1, <1>4, PlanFacts
  <1> DEFINE used == dry.dryUsed
  <1> DEFINE plan == Plan(s, o, used)
  <1>6. used \in [Prices -> Nat]
    BY <1>5
  <1>7. DryPlan(s, o) = dry
    BY DEF DryPlan
  <1> HIDE DEF dry, x
  <1>8. /\ plan.shares \in Nat /\ plan.notional \in Nat
        /\ plan.used \in [Prices -> Nat] /\ plan.taken \in [Prices -> Nat]
        /\ plan.ok => plan.shares > 0
        /\ Keeps(tick.ask[s], used, plan.used, plan.taken)
        /\ Keeps(tick.ask[s], used, plan.used, NothingUsed)
    <2> HIDE DEF used
    <2> QED
      BY <1>1, <1>6, PlanFacts
  <1> DEFINE sale == Sale(x)
  <1>9. /\ sale.shares \in Nat /\ sale.shares <= position.remaining
        /\ sale.proceeds \in Nat
        /\ sale.cost \in Nat /\ sale.cost <= position.openCost
        /\ sale.shares = position.remaining => sale.cost = position.openCost
        /\ sale.used \in [Prices -> Nat] /\ sale.taken \in [Prices -> Nat]
        /\ sale.ok => sale.shares > 0
        /\ Keeps(tick.bid[position.side], bidsUsed[position.side], sale.used, sale.taken)
        /\ Keeps(tick.bid[position.side], bidsUsed[position.side], sale.used, NothingUsed)
    BY <1>1, <1>3, SaleFacts
  <1> QED
    BY <1>2, <1>5, <1>7, <1>8, <1>9 DEF x

(* A reversal leaves the accounts balanced, whether it sells nothing, a    *)
(* part or all, and opens the new position or not.                         *)
LEMMA ReverseHolding ==
    ASSUME SimInv, NEW s \in Sides, NEW o \in EntryOptions, NEW e \in ExitOptions,
           Reverse(s, o, e.price)
    PROVE  HoldingOK' /\ position' # None
  <1>1. /\ position \in Position \cup {None}
        /\ lots \in [Sides -> Lot] /\ erased \in [Sides -> Lot]
        /\ realizedPnl \in Int /\ cash \in Int /\ held \in [Sides -> Int]
        /\ Balance(cash, realizedPnl, lots, erased, held)
        /\ Costed(lots) /\ Costed(erased)
        /\ Backed(position, lots)
    BY DEF SimInv, HoldingOK
  <1>2. position # None
    BY DEF Reverse
  <1> DEFINE dry == DryPlan(s, o)
  <1> DEFINE plan == Plan(s, o, dry.dryUsed)
  <1> DEFINE sale == Sale([price |-> e.price, qty |-> 0, pct |-> 0, minShares |-> 0])
  <1> DEFINE p == position.side
  <1> DEFINE n == sale.shares
  <1> DEFINE k == sale.cost
  <1> DEFINE q == sale.proceeds
  <1> DEFINE m == plan.shares
  <1> DEFINE j == plan.notional
  <1>3. /\ position \in Position /\ p \in Sides
        /\ m \in Nat /\ j \in Nat /\ (plan.ok => m > 0)
        /\ plan.ok = dry.ok
        /\ n \in Nat /\ n <= position.remaining /\ q \in Nat
        /\ k \in Nat /\ k <= position.openCost
        /\ n = position.remaining => k = position.openCost
        /\ sale.ok => n > 0
    BY <1>2, ReverseFacts
  <1> DEFINE closed == sale.ok /\ n = position.remaining
  <1> DEFINE l1 == LotSold(lots, p, n, k)
  <1> DEFINE h1 == Less(held, p, n)
  <1> DEFINE c1 == cash + q
  <1> DEFINE r1 == realizedPnl + q - k
  <1> DEFINE swapped ==
        /\ dry.ok /\ closed /\ plan.ok
        /\ realizedPnl' = r1
        /\ position' = Opened(s, m, j)
        /\ lots' = LotOpened(l1, s, m, j)
        /\ erased' = LotErased(erased, l1, s)
        /\ cash' = c1 - j
        /\ held' = Swapped(held, p, n, s, m)
  <1> DEFINE left ==
        /\ dry.ok /\ sale.ok /\ ~(closed /\ plan.ok)
        /\ realizedPnl' = r1
        /\ position' = Remaining(position, n, k)
        /\ lots' = l1
        /\ cash' = c1
        /\ held' = h1
        /\ erased' = erased
  <1>4. swapped \/ left \/ UNCHANGED <<position, lots, erased, realizedPnl, cash, held>>
    <2>1. IF dry.ok /\ sale.ok THEN realizedPnl' = realizedPnl + q - k
          ELSE UNCHANGED realizedPnl
      BY DEF Reverse
    <2>2. CASE /\ dry.ok /\ closed /\ plan.ok
               /\ OpenPosition(s, m, j, LotsAfter(sale))
               /\ cash' = cash + q - j
               /\ held' = [z \in Sides |-> held[z] - (IF z = p THEN n ELSE 0)
                                                   + (IF z = s THEN m ELSE 0)]
      <3>1. /\ position' = Opened(s, m, j)
            /\ lots' = LotOpened(l1, s, m, j)
            /\ erased' = LotErased(erased, l1, s)
        BY <2>2 DEF OpenPosition, LotsAfter, Opened, LotOpened, LotErased, LotSold
      <3>2. held' = Swapped(held, p, n, s, m) /\ cash' = c1 - j
        <4> HIDE DEF dry, plan, sale, p, n, m, j, q, closed
        <4>1. held' = Swapped(held, p, n, s, m)
          BY <2>2, Zenon DEF Swapped
        <4>2. cash' = cash + q - j
          BY <2>2, Zenon
        <4>3. cash' = c1 - j
          BY <1>1, <1>3, <4>2
        <4> QED
          BY <4>1, <4>3
      <3>3. dry.ok /\ closed /\ plan.ok /\ realizedPnl' = r1
        BY <2>1, <2>2
      <3> QED
        BY <3>1, <3>2, <3>3
    <2>3. CASE /\ dry.ok /\ sale.ok /\ ~(closed /\ plan.ok)
               /\ position' = PositionAfter(sale)
               /\ lots' = LotsAfter(sale)
               /\ cash' = cash + q
               /\ held' = [held EXCEPT ![p] = @ - n]
               /\ erased' = erased
      <3>1. position' = Remaining(position, n, k)
        BY <2>3 DEF PositionAfter, Remaining
      <3>2. lots' = l1 /\ held' = h1 /\ cash' = c1 /\ realizedPnl' = r1
        BY <2>1, <2>3 DEF LotsAfter, LotSold, Less
      <3> QED
        BY <2>3, <3>1, <3>2
    <2>4. CASE /\ ~(dry.ok /\ sale.ok)
               /\ UNCHANGED <<position, lots, erased, cash, held>>
      BY <2>1, <2>4
    <2> QED
      BY <2>2, <2>3, <2>4 DEF Reverse
  <1>5. ASSUME sale.ok
        PROVE  /\ l1 \in [Sides -> Lot] /\ h1 \in [Sides -> Int]
               /\ Balance(c1, r1, l1, erased, h1) /\ Costed(l1)
               /\ Remaining(position, n, k) \in Position \cup {None}
               /\ position.remaining # n => Remaining(position, n, k) \in Position
               /\ Backed(Remaining(position, n, k), l1)
    <2>1. n \in Nat \ {0}
      BY <1>3, <1>5
    <2> HIDE DEF dry, plan, sale, n, k, q, m, j
    <2>2. Backed(position, lots) /\ position \in Position
      BY <1>1, <1>3
    <2> HIDE DEF p, l1, h1, c1, r1
    <2>3. /\ LotSold(lots, position.side, n, k) \in [Sides -> Lot]
          /\ Less(held, position.side, n) \in [Sides -> Int]
          /\ Balance(cash + q, realizedPnl + q - k,
                     LotSold(lots, position.side, n, k), erased,
                     Less(held, position.side, n))
          /\ Costed(LotSold(lots, position.side, n, k))
          /\ Remaining(position, n, k) \in Position \cup {None}
          /\ Backed(Remaining(position, n, k), LotSold(lots, position.side, n, k))
      BY <1>1, <1>3, <2>1, <2>2, SaleBalances
    <2>4. position.remaining # n => Remaining(position, n, k) \in Position
      BY <1>1, <1>3, <2>1, <2>2, SaleBalances
    <2> QED
      BY <2>3, <2>4 DEF p, l1, h1, c1, r1
  <1>6. c1 \in Int /\ r1 \in Int
    BY <1>1, <1>3
  <1>7. CASE swapped
    <2>1. m \in Nat \ {0}
      BY <1>3, <1>7
    <2>2. held' = More(h1, s, m)
      <3>1. More(h1, s, m) = Swapped(held, p, n, s, m)
        <4> HIDE DEF n, m, p
        <4>1. h1 = [z \in Sides |-> IF z = p THEN held[z] - n ELSE held[z]]
          BY <1>1, <1>3 DEF Less
        <4> HIDE DEF h1
        <4>2. More(h1, s, m) = [z \in Sides |-> IF z = s THEN h1[z] + m ELSE h1[z]]
          BY <1>3, <4>1 DEF More
        <4>3. \A z \in Sides : More(h1, s, m)[z]
                  = held[z] - (IF z = p THEN n ELSE 0) + (IF z = s THEN m ELSE 0)
          BY <1>1, <1>3, <4>1, <4>2
        <4> QED
          BY <4>2, <4>3 DEF Swapped
      <3> QED
        BY <1>7, <3>1
    <2>3. /\ l1 \in [Sides -> Lot] /\ h1 \in [Sides -> Int]
          /\ Balance(c1, r1, l1, erased, h1) /\ Costed(l1)
      BY <1>5, <1>7
    <2>4. /\ realizedPnl' = r1 /\ cash' = c1 - j
          /\ position' = Opened(s, m, j)
          /\ lots' = LotOpened(l1, s, m, j)
          /\ erased' = LotErased(erased, l1, s)
      BY <1>7
    <2> HIDE DEF l1, h1, c1, r1, m, j
    <2>5. /\ lots' \in [Sides -> Lot] /\ erased' \in [Sides -> Lot]
          /\ held' \in [Sides -> Int]
          /\ Balance(c1 - j, r1, lots', erased', held')
          /\ Costed(lots') /\ Costed(erased')
          /\ position' \in Position /\ Backed(position', lots')
      BY <1>1, <1>3, <1>6, <2>1, <2>2, <2>3, <2>4, OpenBalances
    <2>6. realizedPnl' \in Int /\ cash' \in Int
      BY <1>3, <1>6, <2>4
    <2>7. position' # None
      BY <2>5, SimulatorAssumption
    <2> QED
      BY <2>4, <2>5, <2>6, <2>7 DEF HoldingOK
  <1>8. CASE left
    <2>1. plan.ok
      BY <1>3, <1>8
    <2>2. n # position.remaining
      BY <1>8, <2>1
    <2>3. position' # None
      BY <1>5, <1>8, <2>2, SimulatorAssumption
    <2> HIDE DEF l1, h1, c1, r1, n, k, dry, plan, sale, p
    <2> QED
      BY <1>1, <1>5, <1>6, <1>8, <2>3 DEF HoldingOK
  <1>9. CASE UNCHANGED <<position, lots, erased, realizedPnl, cash, held>>
    BY <1>1, <1>2, <1>9 DEF HoldingOK
  <1> HIDE DEF swapped, left
  <1> QED
    BY <1>4, <1>7, <1>8, <1>9

(* The resting order the check looks at.                                   *)
LEMMA RestingAt ==
    ASSUME SimInv, next <= Len(resting)
    PROVE  /\ next \in 1 .. Len(resting) /\ next \in DOMAIN resting
           /\ resting[next] \in RestingOrder
  <1>1. resting \in Seq(RestingOrder) /\ next \in Nat \ {0}
    BY DEF SimInv, LoopOK
  <1>2. Len(resting) \in Nat /\ DOMAIN resting = 1 .. Len(resting)
    BY <1>1, LenProperties
  <1>3. next \in 1 .. Len(resting)
    BY <1>1, <1>2
  <1> QED
    BY <1>1, <1>2, <1>3, ElementOfSeq

(* A limit is filled with a number of shares.                              *)
LEMMA MakerFacts ==
    ASSUME TypeOK, NEW o \in RestingOrder
    PROVE  MakerShares(o) \in Nat /\ MakerShares(o) * o.price \in Nat
  <1>1. o.side \in Sides /\ o.price \in Nat \ {0} /\ o.shares \in Nat
    BY PricesAre DEF RestingOrder
  <1> DEFINE L == Levels(tick.ask[o.side], tick.top[o.side])
  <1>2. L \in Book
    BY <1>1, TickFacts, LevelsFacts
  <1>3. \A i \in 1 .. 2 : PriceAt(L, i) >= o.price => L[i].size \in Nat
    BY <1>1, <1>2, LevelFacts
  <1>4. VisibleAtOrAbove(L, o.price) \in Nat
    <2> HIDE DEF L
    <2> QED
      BY <1>3 DEF VisibleAtOrAbove
  <1>5. MakerShares(o) \in Nat
    <2> HIDE DEF L
    <2>1. Least(o.shares, VisibleAtOrAbove(L, o.price)) \in Nat
      BY <1>1, <1>4 DEF Least
    <2> QED
      BY <1>1, <2>1 DEF MakerShares, L
  <1> QED
    BY <1>1, <1>5, ProductIsNat

(* A limit that fills hands shares and cash over at its own price.         *)
LEMMA CheckLimitHolding ==
    ASSUME SimInv, CheckLimit
    PROVE  HoldingOK'
  <1> DEFINE o == resting[next]
  <1>1. o \in RestingOrder
    BY RestingAt DEF CheckLimit, Checking
  <1>2. TypeOK
    BY SimInvIs
  <1>3. MakerShares(o) \in Nat /\ MakerShares(o) * o.price \in Nat
    BY <1>1, <1>2, MakerFacts
  <1>4. /\ MakerShares(o) > 0
        /\ Filled(o, MakerShares(o), MakerShares(o) * o.price)
    BY DEF CheckLimit
  <1> HIDE DEF o
  <1>5. MakerShares(o) \in Nat \ {0}
    BY <1>3, <1>4
  <1> QED
    BY <1>1, <1>3, <1>4, <1>5, FilledHolding

(* A stop that triggers fills at the market, or is dropped.                *)
LEMMA CheckStopHolding ==
    ASSUME SimInv, CheckStop
    PROVE  HoldingOK'
  <1> DEFINE o == resting[next]
  <1> DEFINE fill == StopFill(o)
  <1>1. o \in RestingOrder
    BY RestingAt DEF CheckStop, Checking
  <1>2. TypeOK /\ BestAsk(o.side, tick) # None
    BY SimInvIs DEF CheckStop
  <1>3. /\ fill.shares \in Nat /\ fill.notional \in Nat
        /\ fill.ok => fill.shares > 0
    BY <1>1, <1>2, StopFacts
  <1>4. IF fill.ok THEN Filled(o, fill.shares, fill.notional)
        ELSE UNCHANGED <<holding, history>>
    BY DEF CheckStop
  <1> HIDE DEF o, fill
  <1>5. CASE fill.ok
    <2>1. fill.shares \in Nat \ {0}
      BY <1>3, <1>5
    <2> QED
      BY <1>1, <1>3, <1>4, <1>5, <2>1, FilledHolding
  <1>6. CASE ~fill.ok
    BY <1>4, <1>6 DEF SimInv, HoldingOK, holding, history
  <1> QED
    BY <1>5, <1>6

(* A new event begins with empty accounts.                                 *)
LEMMA EmptyAccounts ==
    /\ [s \in Sides |-> NoLot] \in [Sides -> Lot]
    /\ [s \in Sides |-> 0] \in [Sides -> Int]
    /\ Balance(0, 0, [s \in Sides |-> NoLot], [s \in Sides |-> NoLot], [s \in Sides |-> 0])
    /\ Costed([s \in Sides |-> NoLot])
    /\ Backed(None, [s \in Sides |-> NoLot])
  <1> DEFINE empty == [s \in Sides |-> NoLot]
  <1> DEFINE zero == [s \in Sides |-> 0]
  <1>1. Up \in Sides /\ Down \in Sides
    BY DEF Sides
  <1>2. NoLot \in Lot /\ NoLot.shares = 0 /\ NoLot.cost = 0
    BY DEF NoLot, Lot
  <1>3. empty \in [Sides -> Lot] /\ zero \in [Sides -> Int]
    BY <1>2
  <1>4. \A s \in Sides : empty[s].shares = 0 /\ empty[s].cost = 0 /\ zero[s] = 0
    BY <1>2
  <1> HIDE DEF empty, zero
  <1>5. Balance(0, 0, empty, empty, zero)
    BY <1>1, <1>4 DEF Balance
  <1>6. Costed(empty) /\ Backed(None, empty)
    BY <1>4 DEF Costed, Backed
  <1> QED
    BY <1>3, <1>5, <1>6 DEF empty, zero

(* The accounts are balanced and the position is backed in every state.    *)
LEMMA HoldingStep ==
    ASSUME SimInv, [Next]_vars
    PROVE  HoldingOK'
  <1> USE DEF holding, history, liquidity, control
  <1>0. HoldingOK
    BY DEF SimInv
  <1>1. ASSUME NEW s \in Sides, NEW o \in EntryOptions, Enter(s, o) PROVE HoldingOK'
    BY <1>1, EnterHolding
  <1>2. ASSUME NEW o \in ExitOptions, Exit(o) PROVE HoldingOK'
    BY <1>2, ExitHolding
  <1>3. ASSUME NEW s \in Sides, NEW o \in EntryOptions, NEW e \in ExitOptions,
               Reverse(s, o, e.price)
        PROVE  HoldingOK'
    BY <1>3, ReverseHolding
  <1>4. ASSUME UNCHANGED <<holding, cash, held, erased>> PROVE HoldingOK'
    BY <1>0, <1>4 DEF HoldingOK
  <1>5. ASSUME NEW s \in Sides, NEW o \in LimitOptions, PlaceLimitBuy(s, o)
        PROVE  HoldingOK'
    BY <1>4, <1>5 DEF PlaceLimitBuy, Place
  <1>6. ASSUME NEW s \in Sides, NEW o \in StopOptions, PlaceBuyStop(s, o)
        PROVE  HoldingOK'
    BY <1>4, <1>6 DEF PlaceBuyStop, Place
  <1>7. ASSUME NEW chosen \in SUBSET OpenResting, CancelLimit(chosen)
        PROVE  HoldingOK'
    BY <1>4, <1>7 DEF CancelLimit
  <1>8. CASE CheckLimit
    BY <1>8, CheckLimitHolding
  <1>9. CASE CheckStop
    BY <1>9, CheckStopHolding
  <1>10. CASE PassOver
    BY <1>4, <1>10 DEF PassOver
  <1>11. CASE CheckReturns
    BY <1>4, <1>11 DEF CheckReturns
  <1>12. CASE BeginEvent
    <2>1. /\ position' = None /\ lots' = [s \in Sides |-> NoLot] /\ realizedPnl' = 0
          /\ cash' = 0 /\ held' = [s \in Sides |-> 0]
          /\ erased' = [s \in Sides |-> NoLot]
      BY <1>12 DEF BeginEvent
    <2> QED
      BY <2>1, EmptyAccounts DEF HoldingOK
  <1>13. ASSUME NEW t \in Ticks, ProcessIndex(t) PROVE HoldingOK'
    BY <1>4, <1>13 DEF ProcessIndex
  <1>14. CASE EndEvent
    BY <1>4, <1>14 DEF EndEvent
  <1>15. CASE HookReturns
    BY <1>4, <1>15 DEF HookReturns
  <1>16. ASSUME NEW winner \in Sides \cup {None}, FinalizeEvent(winner)
         PROVE  HoldingOK'
    BY <1>4, <1>16 DEF FinalizeEvent
  <1>17. CASE UNCHANGED vars
    BY <1>4, <1>17 DEF vars
  <1> QED
    BY <1>1, <1>2, <1>3, <1>5, <1>6, <1>7, <1>8, <1>9, <1>10, <1>11, <1>12,
       <1>13, <1>14, <1>15, <1>16, <1>17 DEF Next, StrategyCalls

-----------------------------------------------------------------------------
(* Liquidity                                                               *)

(* What was taken from each side's book is on show and reserved.           *)
Conserved(book, taken, used) ==
    book # << >> => \A p \in Prices : taken[p] <= VisibleAt(book, p) /\ taken[p] <= used[p]

AllConserved(books, tally, used) ==
    \A s \in Sides : Conserved(books[s], tally[s], used[s])

Replaced(used, s, after) == [used EXCEPT ![s] = after]

(* The invariants about liquidity, side by side.                           *)
LEMMA LiquidityIs ==
    UsedInv /\ NoPhantomLiquidity <=>
        /\ AllConserved(tick.ask, bought, asksUsed)
        /\ AllConserved(tick.bid, sold, bidsUsed)
  BY DEF UsedInv, NoPhantomLiquidity, AllConserved, Conserved

(* A plan that follows a dry one keeps what was kept before both.          *)
LEMMA KeepsOn ==
    ASSUME NEW book, NEW used, NEW mid, NEW after, NEW taken,
           Keeps(book, used, mid, NothingUsed), Keeps(book, mid, after, taken)
    PROVE  Keeps(book, used, after, taken)
  <1> SUFFICES ASSUME NEW p \in Prices, NEW b \in Nat, book # << >>,
                      b <= used[p], b <= VisibleAt(book, p)
               PROVE  /\ b + taken[p] <= VisibleAt(book, p)
                      /\ b + taken[p] <= after[p]
    BY DEF Keeps
  <1>1. b + NothingUsed[p] = b
    BY DEF NothingUsed
  <1>2. b <= mid[p]
    <2>1. b + NothingUsed[p] <= mid[p]
      BY DEF Keeps
    <2> QED
      BY <1>1, <2>1
  <1> QED
    BY <1>2 DEF Keeps

(* A fill that keeps what was taken of its book, counted or only tried,    *)
(* leaves all sides conserved.                                             *)
LEMMA TallyStep ==
    ASSUME NEW books, NEW tally \in Tally, NEW used \in Tally,
           AllConserved(books, tally, used), NEW s \in Sides,
           NEW after \in [Prices -> Nat], NEW taken \in [Prices -> Nat],
           Keeps(books[s], used[s], after, taken)
    PROVE  /\ Taken(tally, s, taken) \in Tally
           /\ Replaced(used, s, after) \in Tally
           /\ AllConserved(books, Taken(tally, s, taken), Replaced(used, s, after))
  <1> DEFINE t2 == Taken(tally, s, taken)
  <1> DEFINE u2 == Replaced(used, s, after)
  <1>1. /\ \A z \in Sides : tally[z] \in [Prices -> Nat]
        /\ \A z \in Sides, p \in Prices : tally[z][p] \in Nat
    BY DEF Tally
  <1>2. /\ t2[s] = [p \in Prices |-> tally[s][p] + taken[p]]
        /\ \A z \in Sides : z # s => t2[z] = tally[z]
    BY DEF Taken, Tally
  <1>3. u2[s] = after /\ \A z \in Sides : z # s => u2[z] = used[z]
    BY DEF Replaced, Tally
  <1>4. \A p \in Prices : tally[s][p] + taken[p] \in Nat
    BY <1>1
  <1>5. t2[s] \in [Prices -> Nat]
    BY <1>2, <1>4
  <1>6. t2 \in Tally
    <2>1. t2 = [tally EXCEPT ![s] = t2[s]]
      BY <1>2 DEF Taken
    <2> QED
      BY <1>5, <2>1 DEF Tally
  <1>7. u2 \in Tally
    BY DEF Replaced, Tally
  <1>8. \A p \in Prices : t2[s][p] = tally[s][p] + taken[p]
    BY <1>2
  <1> HIDE DEF t2, u2
  <1>9. Conserved(books[s], t2[s], u2[s])
    <2> SUFFICES ASSUME NEW p \in Prices, books[s] # << >>
                 PROVE  /\ t2[s][p] <= VisibleAt(books[s], p)
                        /\ t2[s][p] <= u2[s][p]
      BY DEF Conserved
    <2>1. tally[s][p] <= VisibleAt(books[s], p) /\ tally[s][p] <= used[s][p]
      BY DEF AllConserved, Conserved
    <2>2. tally[s][p] \in Nat
      BY <1>1
    <2>3. /\ tally[s][p] + taken[p] <= VisibleAt(books[s], p)
          /\ tally[s][p] + taken[p] <= after[p]
      BY <2>1, <2>2 DEF Keeps
    <2> QED
      BY <1>3, <1>8, <2>3
  <1>10. ASSUME NEW z \in Sides PROVE Conserved(books[z], t2[z], u2[z])
    <2>1. CASE z = s
      BY <1>9, <2>1
    <2>2. CASE z # s
      BY <1>2, <1>3, <2>2 DEF AllConserved
    <2> QED
      BY <2>1, <2>2
  <1>11. AllConserved(books, t2, u2)
    BY <1>10 DEF AllConserved
  <1> QED
    BY <1>6, <1>7, <1>11 DEF t2, u2

(* A fill that was only tried leaves all sides conserved.                  *)
LEMMA TallyKept ==
    ASSUME NEW books, NEW tally \in Tally, NEW used \in Tally,
           AllConserved(books, tally, used), NEW s \in Sides,
           NEW after \in [Prices -> Nat],
           Keeps(books[s], used[s], after, NothingUsed)
    PROVE  /\ Replaced(used, s, after) \in Tally
           /\ AllConserved(books, tally, Replaced(used, s, after))
  <1>1. NothingUsed \in [Prices -> Nat] /\ \A p \in Prices : NothingUsed[p] = 0
    BY DEF NothingUsed
  <1>2. Taken(tally, s, NothingUsed) = tally
    <2>1. tally \in [Sides -> [Prices -> Nat]]
      BY DEF Tally
    <2>2. tally[s] \in [Prices -> Nat]
      BY <2>1
    <2>3. \A p \in Prices : tally[s][p] + NothingUsed[p] = tally[s][p]
      BY <1>1, <2>2
    <2>4. [p \in Prices |-> tally[s][p] + NothingUsed[p]] = tally[s]
      BY <2>2, <2>3
    <2>5. Taken(tally, s, NothingUsed) = [tally EXCEPT ![s] = tally[s]]
      BY <2>4 DEF Taken
    <2> QED
      BY <2>1, <2>5
  <1> QED
    BY <1>1, <1>2, TallyStep

(* Nothing taken of a book is conserved.                                   *)
LEMMA NothingTaken ==
    ASSUME NEW t \in Tick, NEW used \in Tally
    PROVE  /\ Zeroes \in Tally
           /\ AllConserved(t.ask, Zeroes, used) /\ AllConserved(t.bid, Zeroes, used)
  <1>1. Zeroes \in Tally /\ \A s \in Sides, p \in Prices : Zeroes[s][p] = 0
    BY DEF Zeroes, NothingUsed, Tally
  <1>2. t.ask \in [Sides -> Book] /\ t.bid \in [Sides -> Book]
    BY DEF Tick
  <1>3. ASSUME NEW b \in Book, NEW p \in Prices PROVE VisibleAt(b, p) \in Nat
    <2> DEFINE F == <<0, 0>>
    <2>1. F[1] \in Nat /\ F[2] \in Nat
      OBVIOUS
    <2>2. NothingUsed \in [Prices -> Nat]
      BY DEF NothingUsed
    <2> HIDE DEF F
    <2> QED
      BY <2>1, <2>2, UsedFacts
  <1>4. \A s \in Sides, p \in Prices : used[s][p] \in Nat
    BY DEF Tally
  <1>5. \A b \in Book, s \in Sides : Conserved(b, Zeroes[s], used[s])
    BY <1>1, <1>3, <1>4 DEF Conserved
  <1> QED
    BY <1>1, <1>2, <1>5 DEF AllConserved

(* The liquidity part of the invariant, unfolded.                          *)
LEMMA LiquidityParts ==
    LiquidityOK <=>
        /\ asksUsed \in Tally /\ bidsUsed \in Tally
        /\ bought \in Tally /\ sold \in Tally
        /\ AllConserved(tick.ask, bought, asksUsed)
        /\ AllConserved(tick.bid, sold, bidsUsed)
  BY LiquidityIs DEF LiquidityOK

(* ... and of the next state, when the tick is the same.                   *)
LEMMA LiquidityNext ==
    ASSUME tick' = tick,
           asksUsed' \in Tally, bidsUsed' \in Tally,
           bought' \in Tally, sold' \in Tally,
           AllConserved(tick.ask, bought', asksUsed'),
           AllConserved(tick.bid, sold', bidsUsed')
    PROVE  LiquidityOK'
  <1>1. tick'.ask = tick.ask /\ tick'.bid = tick.bid
    OBVIOUS
  <1>2. /\ AllConserved(tick'.ask, bought', asksUsed')
        /\ AllConserved(tick'.bid, sold', bidsUsed')
    BY <1>1
  <1>3. UsedInv' /\ NoPhantomLiquidity'
    BY <1>2 DEF UsedInv, NoPhantomLiquidity, AllConserved, Conserved
  <1> QED
    BY <1>3 DEF LiquidityOK

(* A step that touches neither the tick nor a tally.                       *)
LEMMA LiquiditySame ==
    ASSUME LiquidityOK, UNCHANGED <<tick, asksUsed, bidsUsed, bought, sold>>
    PROVE  LiquidityOK'
  BY LiquidityParts, LiquidityNext

(* An entry marks as used, level by level, just what it bought.            *)
LEMMA EnterLiquidity ==
    ASSUME SimInv, NEW s \in Sides, NEW o \in EntryOptions, Enter(s, o)
    PROVE  LiquidityOK'
  <1>1. TypeOK /\ o \in EntryOption
    BY SimInvIs, SimulatorAssumption
  <1>2. /\ asksUsed \in Tally /\ bidsUsed \in Tally
        /\ bought \in Tally /\ sold \in Tally
        /\ AllConserved(tick.ask, bought, asksUsed)
        /\ AllConserved(tick.bid, sold, bidsUsed)
    BY LiquidityParts DEF SimInv
  <1> DEFINE plan == Plan(s, o, asksUsed[s])
  <1>3. asksUsed[s] \in [Prices -> Nat]
    BY <1>2 DEF Tally
  <1>4. /\ plan.used \in [Prices -> Nat] /\ plan.taken \in [Prices -> Nat]
        /\ Keeps(tick.ask[s], asksUsed[s], plan.used, plan.taken)
        /\ Keeps(tick.ask[s], asksUsed[s], plan.used, NothingUsed)
    BY <1>1, <1>3, PlanFacts
  <1>5. /\ tick' = tick /\ bidsUsed' = bidsUsed /\ sold' = sold
        /\ asksUsed' = Replaced(asksUsed, s, plan.used)
        /\ bought' = IF plan.ok THEN Taken(bought, s, plan.taken) ELSE bought
    BY DEF Enter, Called, Replaced
  <1> HIDE DEF plan
  <1>6. CASE plan.ok
    <2>1. /\ bought' \in Tally /\ asksUsed' \in Tally
          /\ AllConserved(tick.ask, bought', asksUsed')
      BY <1>2, <1>4, <1>5, <1>6, TallyStep
    <2> QED
      BY <1>2, <1>5, <2>1, LiquidityNext
  <1>7. CASE ~plan.ok
    <2>1. asksUsed' \in Tally /\ AllConserved(tick.ask, bought, asksUsed')
      BY <1>2, <1>4, <1>5, TallyKept
    <2> QED
      BY <1>2, <1>5, <1>7, <2>1, LiquidityNext
  <1> QED
    BY <1>6, <1>7

(* So does an exit on the bid side, refused or not.                        *)
LEMMA ExitLiquidity ==
    ASSUME SimInv, NEW o \in ExitOptions, Exit(o)
    PROVE  LiquidityOK'
  <1>1. TypeOK /\ o \in ExitOption /\ position # None
    BY SimInvIs, SimulatorAssumption DEF Exit
  <1>2. /\ asksUsed \in Tally /\ bidsUsed \in Tally
        /\ bought \in Tally /\ sold \in Tally
        /\ AllConserved(tick.ask, bought, asksUsed)
        /\ AllConserved(tick.bid, sold, bidsUsed)
    BY LiquidityParts DEF SimInv
  <1> DEFINE s == position.side
  <1> DEFINE sale == Sale(o)
  <1>3. s \in Sides
    <2>1. position \in Position
      BY <1>1 DEF TypeOK
    <2> QED
      BY <2>1 DEF Position
  <1>4. /\ sale.used \in [Prices -> Nat] /\ sale.taken \in [Prices -> Nat]
        /\ Keeps(tick.bid[s], bidsUsed[s], sale.used, sale.taken)
        /\ Keeps(tick.bid[s], bidsUsed[s], sale.used, NothingUsed)
    BY <1>1, SaleFacts
  <1>5. /\ tick' = tick /\ asksUsed' = asksUsed /\ bought' = bought
        /\ bidsUsed' = Replaced(bidsUsed, s, sale.used)
        /\ sold' = IF sale.ok THEN Taken(sold, s, sale.taken) ELSE sold
    BY DEF Exit, Called, Replaced
  <1> HIDE DEF sale, s
  <1>6. CASE sale.ok
    <2>1. /\ sold' \in Tally /\ bidsUsed' \in Tally
          /\ AllConserved(tick.bid, sold', bidsUsed')
      BY <1>2, <1>3, <1>4, <1>5, <1>6, TallyStep
    <2> QED
      BY <1>2, <1>5, <2>1, LiquidityNext
  <1>7. CASE ~sale.ok
    <2>1. bidsUsed' \in Tally /\ AllConserved(tick.bid, sold, bidsUsed')
      BY <1>2, <1>3, <1>4, <1>5, TallyKept
    <2> QED
      BY <1>2, <1>5, <1>7, <2>1, LiquidityNext
  <1> QED
    BY <1>6, <1>7

(* A reversal is a sale on the bids, then a purchase on the asks of the    *)
(* other side: each tally is disturbed once.                               *)
LEMMA ReverseLiquidity ==
    ASSUME SimInv, NEW s \in Sides, NEW o \in EntryOptions, NEW e \in ExitOptions,
           Reverse(s, o, e.price)
    PROVE  LiquidityOK'
  <1>1. /\ asksUsed \in Tally /\ bidsUsed \in Tally
        /\ bought \in Tally /\ sold \in Tally
        /\ AllConserved(tick.ask, bought, asksUsed)
        /\ AllConserved(tick.bid, sold, bidsUsed)
    BY LiquidityParts DEF SimInv
  <1>2. position # None
    BY DEF Reverse
  <1> DEFINE dry == DryPlan(s, o)
  <1> DEFINE plan == Plan(s, o, dry.dryUsed)
  <1> DEFINE sale == Sale([price |-> e.price, qty |-> 0, pct |-> 0, minShares |-> 0])
  <1> DEFINE p == position.side
  <1>3. /\ p \in Sides
        /\ dry.dryUsed \in [Prices -> Nat]
        /\ Keeps(tick.ask[s], asksUsed[s], dry.dryUsed, NothingUsed)
        /\ plan.used \in [Prices -> Nat] /\ plan.taken \in [Prices -> Nat]
        /\ plan.ok = dry.ok
        /\ Keeps(tick.ask[s], dry.dryUsed, plan.used, plan.taken)
        /\ sale.used \in [Prices -> Nat] /\ sale.taken \in [Prices -> Nat]
        /\ Keeps(tick.bid[p], bidsUsed[p], sale.used, sale.taken)
        /\ Keeps(tick.bid[p], bidsUsed[p], sale.used, NothingUsed)
    BY <1>2, ReverseFacts
  <1>4. Keeps(tick.ask[s], asksUsed[s], plan.used, plan.taken)
    BY <1>3, KeepsOn
  <1> DEFINE closed == sale.ok /\ sale.shares = position.remaining
  <1>5. /\ tick' = tick
        /\ asksUsed' = Replaced(asksUsed, s,
               IF dry.ok /\ closed THEN plan.used ELSE dry.dryUsed)
        /\ bidsUsed' = IF dry.ok THEN Replaced(bidsUsed, p, sale.used) ELSE bidsUsed
        /\ sold' = IF dry.ok /\ sale.ok THEN Taken(sold, p, sale.taken) ELSE sold
    BY DEF Reverse, Called, Replaced
  <1>6. \/ /\ dry.ok /\ closed /\ plan.ok /\ bought' = Taken(bought, s, plan.taken)
        \/ /\ dry.ok /\ sale.ok /\ ~(closed /\ plan.ok) /\ bought' = bought
        \/ /\ ~(dry.ok /\ sale.ok) /\ bought' = bought
    BY DEF Reverse
  <1>7. closed => sale.ok
    OBVIOUS
  <1> HIDE DEF dry, plan, sale, p, closed
  <1>8. /\ bought' \in Tally /\ asksUsed' \in Tally
        /\ AllConserved(tick.ask, bought', asksUsed')
    <2>1. CASE dry.ok /\ closed
      <3>1. asksUsed' = Replaced(asksUsed, s, plan.used)
        BY <1>5, <2>1
      <3>2. bought' = Taken(bought, s, plan.taken)
        BY <1>3, <1>6, <1>7, <2>1
      <3> QED
        BY <1>1, <1>3, <1>4, <3>1, <3>2, TallyStep
    <2>2. CASE ~(dry.ok /\ closed)
      <3>1. asksUsed' = Replaced(asksUsed, s, dry.dryUsed)
        BY <1>5, <2>2
      <3>2. bought' = bought
        BY <1>6, <2>2
      <3> QED
        BY <1>1, <1>3, <3>1, <3>2, TallyKept
    <2> QED
      BY <2>1, <2>2
  <1>9. /\ sold' \in Tally /\ bidsUsed' \in Tally
        /\ AllConserved(tick.bid, sold', bidsUsed')
    <2>1. CASE dry.ok /\ sale.ok
      BY <1>1, <1>3, <1>5, <2>1, TallyStep
    <2>2. CASE dry.ok /\ ~sale.ok
      BY <1>1, <1>3, <1>5, <2>2, TallyKept
    <2>3. CASE ~dry.ok
      BY <1>1, <1>5, <2>3
    <2> QED
      BY <2>1, <2>2, <2>3
  <1> QED
    BY <1>5, <1>8, <1>9, LiquidityNext

(* A stop that fills takes what its dry plan found.                        *)
LEMMA CheckStopLiquidity ==
    ASSUME SimInv, CheckStop
    PROVE  LiquidityOK'
  <1>1. /\ asksUsed \in Tally /\ bidsUsed \in Tally
        /\ bought \in Tally /\ sold \in Tally
        /\ AllConserved(tick.ask, bought, asksUsed)
        /\ AllConserved(tick.bid, sold, bidsUsed)
    BY LiquidityParts DEF SimInv
  <1> DEFINE o == resting[next]
  <1> DEFINE s == o.side
  <1> DEFINE fill == StopFill(o)
  <1>2. o \in RestingOrder
    BY RestingAt DEF CheckStop, Checking
  <1>3. TypeOK /\ BestAsk(o.side, tick) # None
    BY SimInvIs DEF CheckStop
  <1>4. s \in Sides
    BY <1>2 DEF RestingOrder
  <1>5. /\ fill.used \in [Prices -> Nat] /\ fill.taken \in [Prices -> Nat]
        /\ Keeps(tick.ask[s], asksUsed[s], fill.used, fill.taken)
        /\ Keeps(tick.ask[s], asksUsed[s], fill.used, NothingUsed)
    BY <1>2, <1>3, StopFacts
  <1>6. /\ tick' = tick /\ asksUsed' = Replaced(asksUsed, s, fill.used)
        /\ bought' = IF fill.ok THEN Taken(bought, s, fill.taken) ELSE bought
        /\ bidsUsed' = bidsUsed /\ sold' = sold
    BY DEF CheckStop, Checking, Filled, Replaced, history
  <1> HIDE DEF o, s, fill
  <1>7. CASE fill.ok
    <2>1. /\ bought' \in Tally /\ asksUsed' \in Tally
          /\ AllConserved(tick.ask, bought', asksUsed')
      BY <1>1, <1>4, <1>5, <1>6, <1>7, TallyStep
    <2> QED
      BY <1>1, <1>6, <2>1, LiquidityNext
  <1>8. CASE ~fill.ok
    <2>1. asksUsed' \in Tally /\ AllConserved(tick.ask, bought, asksUsed')
      BY <1>1, <1>4, <1>5, <1>6, TallyKept
    <2> QED
      BY <1>1, <1>6, <1>8, <2>1, LiquidityNext
  <1> QED
    BY <1>7, <1>8

(* No step takes more of a book than it shows.                             *)
LEMMA LiquidityStep ==
    ASSUME SimInv, [Next]_vars
    PROVE  LiquidityOK'
  <1> USE DEF holding, history, liquidity, control, Called, Checking
  <1>0. LiquidityOK /\ tick \in Tick
    BY SimulatorAssumption DEF SimInv, LoopOK
  <1>1. ASSUME NEW s \in Sides, NEW o \in EntryOptions, Enter(s, o) PROVE LiquidityOK'
    BY <1>1, EnterLiquidity
  <1>2. ASSUME NEW o \in ExitOptions, Exit(o) PROVE LiquidityOK'
    BY <1>2, ExitLiquidity
  <1>3. ASSUME NEW s \in Sides, NEW o \in EntryOptions, NEW e \in ExitOptions,
               Reverse(s, o, e.price)
        PROVE  LiquidityOK'
    BY <1>3, ReverseLiquidity
  <1>4. ASSUME UNCHANGED <<tick, asksUsed, bidsUsed, bought, sold>> PROVE LiquidityOK'
    BY <1>0, <1>4, LiquiditySame
  <1>5. ASSUME NEW s \in Sides, NEW o \in LimitOptions, PlaceLimitBuy(s, o)
        PROVE  LiquidityOK'
    BY <1>4, <1>5 DEF PlaceLimitBuy, Place
  <1>6. ASSUME NEW s \in Sides, NEW o \in StopOptions, PlaceBuyStop(s, o)
        PROVE  LiquidityOK'
    BY <1>4, <1>6 DEF PlaceBuyStop, Place
  <1>7. ASSUME NEW chosen \in SUBSET OpenResting, CancelLimit(chosen)
        PROVE  LiquidityOK'
    BY <1>4, <1>7 DEF CancelLimit
  <1>8. CASE CheckLimit
    BY <1>4, <1>8 DEF CheckLimit, Filled
  <1>9. CASE CheckStop
    BY <1>9, CheckStopLiquidity
  <1>10. CASE PassOver
    BY <1>4, <1>10 DEF PassOver
  <1>11. CASE CheckReturns
    BY <1>4, <1>11 DEF CheckReturns
  <1>12. CASE BeginEvent
    <2>1. /\ tick' = tick /\ asksUsed' = Zeroes /\ bidsUsed' = Zeroes
          /\ bought' = Zeroes /\ sold' = Zeroes
      BY <1>12 DEF BeginEvent
    <2>2. Zeroes \in Tally
      BY DEF Zeroes, NothingUsed, Tally
    <2> QED
      BY <1>0, <2>1, <2>2, NothingTaken, LiquidityNext
  <1>13. ASSUME NEW t \in Ticks, ProcessIndex(t) PROVE LiquidityOK'
    <2>1. /\ tick' = t /\ asksUsed' = asksUsed /\ bidsUsed' = bidsUsed
          /\ bought' = Zeroes /\ sold' = Zeroes
      BY <1>13 DEF ProcessIndex
    <2>2. t \in Tick /\ asksUsed \in Tally /\ bidsUsed \in Tally
      BY <1>0, SimulatorAssumption, LiquidityParts
    <2>3. /\ Zeroes \in Tally
          /\ AllConserved(t.ask, Zeroes, asksUsed) /\ AllConserved(t.bid, Zeroes, bidsUsed)
      BY <2>2, NothingTaken
    <2>4. UsedInv' /\ NoPhantomLiquidity'
      BY <2>1, <2>3 DEF UsedInv, NoPhantomLiquidity, AllConserved, Conserved
    <2> QED
      BY <2>1, <2>2, <2>3, <2>4 DEF LiquidityOK
  <1>14. CASE EndEvent
    BY <1>4, <1>14 DEF EndEvent
  <1>15. CASE HookReturns
    BY <1>4, <1>15 DEF HookReturns
  <1>16. ASSUME NEW winner \in Sides \cup {None}, FinalizeEvent(winner)
         PROVE  LiquidityOK'
    BY <1>4, <1>16 DEF FinalizeEvent
  <1>17. CASE UNCHANGED vars
    BY <1>4, <1>17 DEF vars
  <1> QED
    BY <1>1, <1>2, <1>3, <1>5, <1>6, <1>7, <1>8, <1>9, <1>10, <1>11, <1>12,
       <1>13, <1>14, <1>15, <1>16, <1>17 DEF Next, StrategyCalls

-----------------------------------------------------------------------------
(* The loop: resting orders, hooks and the settlement.                     *)

(* A sequence whose elements are replaced one by one stays a sequence.     *)
LEMMA ReplacedSeq ==
    ASSUME NEW S, NEW q \in Seq(S), NEW r,
           r = [i \in DOMAIN q |-> r[i]], \A i \in DOMAIN q : r[i] \in S
    PROVE  r \in Seq(S)
  <1>1. DOMAIN q = 1 .. Len(q) /\ Len(q) \in Nat
    BY LenProperties
  <1>2. r \in [1 .. Len(q) -> S]
    BY <1>1
  <1> QED
    BY <1>1, <1>2, SeqDef

(* The elements of the sequence of resting orders are resting orders.      *)
LEMMA RestingAre ==
    ASSUME SimInv
    PROVE  /\ resting \in Seq(RestingOrder)
           /\ DOMAIN resting = 1 .. Len(resting) /\ Len(resting) \in Nat
           /\ \A i \in DOMAIN resting : resting[i] \in RestingOrder
  <1>1. resting \in Seq(RestingOrder)
    BY DEF SimInv, LoopOK
  <1>2. DOMAIN resting = 1 .. Len(resting) /\ Len(resting) \in Nat
    BY <1>1, LenProperties
  <1> QED
    BY <1>1, <1>2, ElementOfSeq

(* An order whose status or trigger is set is a resting order.             *)
LEMMA OrderFacts ==
    ASSUME NEW o \in RestingOrder,
           NEW x \in {"open", "filled", "cancelled", "expired"}, NEW b \in BOOLEAN
    PROVE  /\ [o EXCEPT !.status = x] \in RestingOrder
           /\ [o EXCEPT !.stopTriggered = b] \in RestingOrder
           /\ [o EXCEPT !.status = x, !.stopTriggered = b] \in RestingOrder
  BY DEF RestingOrder

(* Some orders get another status: all of them are still resting orders.   *)
LEMMA StatusSeq ==
    ASSUME SimInv, NEW chosen, NEW x \in {"cancelled", "expired"}
    PROVE  [i \in DOMAIN resting |-> IF i \in chosen THEN [resting[i] EXCEPT !.status = x]
                                     ELSE resting[i]] \in Seq(RestingOrder)
  <1> DEFINE r == [i \in DOMAIN resting |->
                     IF i \in chosen THEN [resting[i] EXCEPT !.status = x]
                     ELSE resting[i]]
  <1>1. \A i \in DOMAIN resting : r[i] \in RestingOrder
    BY RestingAre, OrderFacts
  <1>2. r = [i \in DOMAIN resting |-> r[i]]
    OBVIOUS
  <1> HIDE DEF r
  <1>3. r \in Seq(RestingOrder)
    BY <1>1, <1>2, RestingAre, ReplacedSeq
  <1> QED
    BY <1>3 DEF r

(* The order the check looks at is filled, or triggered.                   *)
LEMMA CheckedSeq ==
    ASSUME SimInv, next <= Len(resting), NEW b \in BOOLEAN
    PROVE  /\ [resting EXCEPT ![next].status = "filled",
                              ![next].stopTriggered = b] \in Seq(RestingOrder)
           /\ [resting EXCEPT ![next].stopTriggered = b] \in Seq(RestingOrder)
  <1>1. /\ next \in 1 .. Len(resting) /\ resting[next] \in RestingOrder
        /\ resting \in Seq(RestingOrder) /\ next \in DOMAIN resting
    BY RestingAt, RestingAre
  <1> DEFINE x == [resting[next] EXCEPT !.status = "filled", !.stopTriggered = b]
  <1> DEFINE y == [resting[next] EXCEPT !.stopTriggered = b]
  <1>2. x \in RestingOrder /\ y \in RestingOrder
    BY <1>1, OrderFacts
  <1>3. [resting EXCEPT ![next].status = "filled", ![next].stopTriggered = b]
            = [resting EXCEPT ![next] = x]
    BY <1>1
  <1>4. [resting EXCEPT ![next].stopTriggered = b] = [resting EXCEPT ![next] = y]
    BY <1>1
  <1> HIDE DEF x, y
  <1>5. /\ [resting EXCEPT ![next] = x] \in Seq(RestingOrder)
        /\ [resting EXCEPT ![next] = y] \in Seq(RestingOrder)
    BY <1>1, <1>2, ExceptSeq
  <1> QED
    BY <1>3, <1>4, <1>5

(* The settlement of an event is an amount of money, and with no lot       *)
(* overwritten it is the cash of the event plus what the winning shares    *)
(* pay (settleEventPnl).                                                   *)
LEMMA Settled ==
    ASSUME SimInv, NEW winner \in Sides \cup {None}
    PROVE  /\ FinalPnl(winner) \in Int
           /\ (winner # None /\ erased[Up].shares = 0 /\ erased[Down].shares = 0) =>
                  FinalPnl(winner) = cash + One * held[winner]
  <1>1. /\ position \in Position \cup {None}
        /\ lots \in [Sides -> Lot] /\ erased \in [Sides -> Lot]
        /\ realizedPnl \in Int /\ cash \in Int /\ held \in [Sides -> Int]
        /\ Balance(cash, realizedPnl, lots, erased, held)
        /\ Costed(lots) /\ Costed(erased)
        /\ Backed(position, lots)
    BY DEF SimInv, HoldingOK
  <1>2. Up \in Sides /\ Down \in Sides /\ Up # Down /\ \A s \in Sides : s = Up \/ s = Down
    BY SimulatorAssumption DEF Sides
  <1>3. \A s \in Sides : /\ lots[s] \in Lot
                         /\ lots[s].shares \in Nat /\ lots[s].cost \in Nat
                         /\ erased[s].shares \in Nat /\ erased[s].cost \in Nat
    BY <1>1 DEF Lot
  <1>4. ASSUME NEW s \in Sides
        PROVE  EffectiveLot(s).shares = lots[s].shares /\ EffectiveLot(s).cost = lots[s].cost
    <2>1. CASE lots[s].shares > 0
      BY <2>1 DEF EffectiveLot
    <2>2. CASE ~(lots[s].shares > 0)
      <3>1. lots[s].shares = 0
        BY <1>3, <2>2
      <3>2. lots[s].cost = 0
        BY <1>1, <3>1 DEF Costed
      <3>3. ~(position # None /\ position.side = s)
        <4>1. position # None => position.remaining \in Nat \ {0}
          BY <1>1 DEF Position
        <4> QED
          BY <1>1, <3>1, <4>1 DEF Backed
      <3>4. EffectiveLot(s) = NoLot
        BY <2>2, <3>3 DEF EffectiveLot
      <3> QED
        BY <3>1, <3>2, <3>4 DEF NoLot
    <2> QED
      BY <2>1, <2>2
  <1> DEFINE pay(s) == IF s = winner THEN lots[s].shares * One ELSE 0
  <1>5. ASSUME NEW s \in Sides
        PROVE  /\ pay(s) \in Nat
               /\ ExpiryPnl(s, winner) = pay(s) - lots[s].cost
               /\ s = winner => pay(s) = One * lots[s].shares
    <2>1. lots[s].shares * One \in Nat /\ lots[s].shares * One = One * lots[s].shares
      BY <1>3, PricesAre, ProductIsNat
    <2> QED
      BY <1>4, <2>1 DEF ExpiryPnl
  <1> DEFINE total == realizedPnl + (pay(Up) - lots[Up].cost) + (pay(Down) - lots[Down].cost)
  <1>6. FinalPnl(winner) = realizedPnl
            \/ (FinalPnl(winner) = total /\ winner # None)
    BY <1>2, <1>5 DEF FinalPnl
  <1>7. pay(Up) \in Nat /\ pay(Down) \in Nat
    BY <1>2, <1>5
  <1>8. FinalPnl(winner) = realizedPnl =>
            \/ winner = None
            \/ FinalPnl(winner) = total
            \/ \A s \in Sides : lots[s].shares = 0
    BY <1>2, <1>5 DEF FinalPnl
  <1>9. ASSUME winner # None, erased[Up].shares = 0, erased[Down].shares = 0
        PROVE  FinalPnl(winner) = cash + One * held[winner]
    <2>1. winner \in Sides
      BY <1>9
    <2>2. erased[Up].cost = 0 /\ erased[Down].cost = 0
      BY <1>1, <1>2, <1>9 DEF Costed
    <2>3. cash = realizedPnl - lots[Up].cost - lots[Down].cost
      <3>1. cash = realizedPnl - lots[Up].cost - lots[Down].cost
                               - erased[Up].cost - erased[Down].cost
        BY <1>1 DEF Balance
      <3> QED
        BY <1>1, <1>2, <1>3, <2>2, <3>1
    <2>4. held[winner] = lots[winner].shares
      <3>1. held[winner] = lots[winner].shares + erased[winner].shares
        BY <1>1, <2>1 DEF Balance
      <3>2. erased[winner].shares = 0
        BY <1>2, <1>9, <2>1
      <3> QED
        BY <1>3, <2>1, <3>1, <3>2
    <2>5. pay(Up) + pay(Down) = One * lots[winner].shares
      <3>1. One * lots[winner].shares \in Nat
        BY <1>3, <2>1, PricesAre, ProductIsNat
      <3>2. CASE winner = Up
        <4>1. pay(Up) = One * lots[winner].shares /\ pay(Down) = 0
          BY <1>2, <1>5, <3>2
        <4> QED
          BY <3>1, <4>1
      <3>3. CASE winner = Down
        <4>1. pay(Down) = One * lots[winner].shares /\ pay(Up) = 0
          BY <1>2, <1>5, <3>3
        <4> QED
          BY <3>1, <4>1
      <3> QED
        BY <1>2, <2>1, <3>2, <3>3
    <2>6. CASE FinalPnl(winner) = total
      <3> HIDE DEF pay
      <3>1. total = cash + (pay(Up) + pay(Down))
        BY <1>1, <1>2, <1>3, <1>7, <2>3
      <3> QED
        BY <2>4, <2>5, <2>6, <3>1
    <2>7. CASE FinalPnl(winner) = realizedPnl /\ \A s \in Sides : lots[s].shares = 0
      <3>1. lots[Up].cost = 0 /\ lots[Down].cost = 0
        BY <1>1, <1>2, <2>7 DEF Costed
      <3>2. held[winner] = 0
        BY <2>1, <2>4, <2>7
      <3>3. One * 0 = 0
        BY PricesAre
      <3> QED
        BY <1>1, <2>3, <2>7, <3>1, <3>2, <3>3
    <2> QED
      BY <1>6, <1>8, <1>9, <2>6, <2>7
  <1>10. FinalPnl(winner) \in Int
    <2> HIDE DEF pay
    <2>1. total \in Int
      BY <1>1, <1>2, <1>3, <1>7
    <2> QED
      BY <1>1, <1>6, <2>1
  <1> QED
    BY <1>9, <1>10

(* What a strategy places is a resting order.                              *)
LEMMA PlacedOrder ==
    ASSUME SimInv, NEW kind \in {"limit_buy", "stop_buy"},
           NEW role \in {"entry", "hedge"}, NEW s \in Sides,
           NEW price \in Prices, NEW cap \in Prices, NEW budget \in Nat,
           NEW qty \in Nat, BestAsk(s, tick) # None
    PROVE  Resting(kind, role, s, price, cap, budget, qty) \in RestingOrder
  <1>1. BestAsk(s, tick) \in Prices
    BY SimInvIs, TickFacts
  <1>2. (IF qty > 0 THEN qty ELSE budget \div price) \in Nat
    BY PricesAre, QuotientIsNat
  <1> QED
    BY <1>1, <1>2 DEF Resting, RestingOrder

(* The control state, the tick, the orders and the outcome keep their      *)
(* types.                                                                  *)
LEMMA LoopStep ==
    ASSUME SimInv, [Next]_vars
    PROVE  LoopOK'
  <1> USE DEF holding, history, liquidity, control
  <1>0. LoopOK
    BY DEF SimInv
  <1> DEFINE same == UNCHANGED <<at, hook, tick, next, rows, lastBestAsks, outcome>>
  <1>a. ASSUME same, calls' \in Nat, entries' \in Nat, resting' \in Seq(RestingOrder)
        PROVE  LoopOK'
    BY <1>0, <1>a DEF LoopOK
  <1>b. calls + 1 \in Nat /\ entries + 1 \in Nat /\ calls \in Nat /\ entries \in Nat
        /\ next + 1 \in Nat \ {0} /\ rows + 1 \in Nat
        /\ resting \in Seq(RestingOrder)
    BY <1>0 DEF LoopOK
  <1>1. ASSUME NEW s \in Sides, NEW o \in EntryOptions, Enter(s, o) PROVE LoopOK'
    <2>1. same /\ calls' = calls + 1 /\ resting' = resting
          /\ (entries' = entries + 1 \/ entries' = entries)
      BY <1>1 DEF Enter, Called
    <2> QED
      BY <1>a, <1>b, <2>1
  <1>2. ASSUME NEW o \in ExitOptions, Exit(o) PROVE LoopOK'
    <2>1. same /\ calls' = calls + 1 /\ resting' = resting /\ entries' = entries
      BY <1>2 DEF Exit, Called
    <2> QED
      BY <1>a, <1>b, <2>1
  <1>3. ASSUME NEW s \in Sides, NEW o \in EntryOptions, NEW e \in ExitOptions,
               Reverse(s, o, e.price)
        PROVE  LoopOK'
    <2>1. same /\ calls' = calls + 1 /\ resting' = resting
      BY <1>3 DEF Reverse, Called
    <2>2. entries' = entries + 1 \/ entries' = entries
      BY <1>3 DEF Reverse
    <2> QED
      BY <1>a, <1>b, <2>1, <2>2
  <1>4. ASSUME NEW x \in RestingOrder, Place(x) PROVE LoopOK'
    <2>1. same /\ calls' = calls + 1 /\ entries' = entries
          /\ resting' = Append(resting, x)
      BY <1>4 DEF Place, Called
    <2>2. resting' \in Seq(RestingOrder)
      BY <1>b, <2>1, AppendProperties
    <2> QED
      BY <1>a, <1>b, <2>1, <2>2
  <1>5. ASSUME NEW s \in Sides, NEW o \in LimitOptions, PlaceLimitBuy(s, o)
        PROVE  LoopOK'
    <2>1. o \in LimitOption
      BY SimulatorAssumption
    <2>2. /\ o.role \in {"entry", "hedge"} /\ o.price \in Prices
          /\ o.budget \in Nat /\ o.qty \in Nat
      BY <2>1 DEF LimitOption
    <2> DEFINE x == Resting("limit_buy", o.role, s, o.price, o.price, o.budget, o.qty)
    <2>3. Place(x) /\ BestAsk(s, tick) # None
      BY <1>5 DEF PlaceLimitBuy
    <2>4. x \in RestingOrder
      BY <2>2, <2>3, PlacedOrder
    <2> HIDE DEF x
    <2> QED
      BY <1>4, <2>3, <2>4
  <1>6. ASSUME NEW s \in Sides, NEW o \in StopOptions, PlaceBuyStop(s, o)
        PROVE  LoopOK'
    <2>1. o \in StopOption
      BY SimulatorAssumption
    <2>2. o.price \in Prices /\ o.cap \in Prices /\ o.budget \in Nat /\ o.qty \in Nat
      BY <2>1 DEF StopOption
    <2> DEFINE x == Resting("stop_buy", "hedge", s, o.price, o.cap, o.budget, o.qty)
    <2>3. Place(x) /\ BestAsk(s, tick) # None
      BY <1>6 DEF PlaceBuyStop
    <2>4. x \in RestingOrder
      BY <2>2, <2>3, PlacedOrder
    <2> HIDE DEF x
    <2> QED
      BY <1>4, <2>3, <2>4
  <1>7. ASSUME NEW chosen \in SUBSET OpenResting, CancelLimit(chosen)
        PROVE  LoopOK'
    <2>1. same /\ calls' = calls + 1 /\ entries' = entries
      BY <1>7 DEF CancelLimit, Called
    <2>2. resting' \in Seq(RestingOrder)
      BY <1>7, StatusSeq DEF CancelLimit
    <2> QED
      BY <1>a, <1>b, <2>1, <2>2
  <1>c. ASSUME Checking, entries' \in Nat, resting' \in Seq(RestingOrder),
               UNCHANGED <<lastBestAsks, outcome>>
        PROVE  LoopOK'
    BY <1>0, <1>b, <1>c DEF LoopOK, Checking
  <1>d. ASSUME NEW o, NEW n, NEW k, next <= Len(resting), Filled(o, n, k)
        PROVE  /\ entries' \in Nat /\ resting' \in Seq(RestingOrder)
               /\ UNCHANGED <<lastBestAsks, outcome>>
    <2>1. (o.kind = "stop_buy") \in BOOLEAN
      OBVIOUS
    <2>2. resting' \in Seq(RestingOrder)
      BY <1>d, <2>1, CheckedSeq DEF Filled
    <2> QED
      BY <1>b, <1>d, <2>2 DEF Filled
  <1>8. CASE CheckLimit
    <2> DEFINE o == resting[next]
    <2>1. Checking /\ next <= Len(resting)
          /\ Filled(o, MakerShares(o), MakerShares(o) * o.price)
      BY <1>8 DEF CheckLimit, Checking
    <2> HIDE DEF o
    <2> QED
      BY <1>c, <1>d, <2>1
  <1>9. CASE CheckStop
    <2> DEFINE o == resting[next]
    <2> DEFINE fill == StopFill(o)
    <2>1. Checking /\ next <= Len(resting)
      BY <1>9 DEF CheckStop, Checking
    <2>2. CASE fill.ok
      <3>1. Filled(o, fill.shares, fill.notional)
        BY <1>9, <2>2 DEF CheckStop
      <3> HIDE DEF o, fill
      <3> QED
        BY <1>c, <1>d, <2>1, <3>1
    <2>3. CASE ~fill.ok
      <3>1. /\ resting' = [resting EXCEPT ![next].stopTriggered = TRUE]
            /\ entries' = entries /\ UNCHANGED <<lastBestAsks, outcome>>
        BY <1>9, <2>3 DEF CheckStop
      <3>2. resting' \in Seq(RestingOrder)
        BY <2>1, <3>1, CheckedSeq
      <3> QED
        BY <1>b, <1>c, <2>1, <3>1, <3>2
    <2> QED
      BY <2>2, <2>3
  <1>10. CASE PassOver
    <2>1. Checking /\ next <= Len(resting) /\ entries' = entries
          /\ UNCHANGED <<lastBestAsks, outcome>>
      BY <1>10 DEF PassOver, Checking
    <2> DEFINE o == resting[next]
    <2> DEFINE b == IF (o.status = "open" /\ BestAsk(o.side, tick) # None)
                       /\ o.kind = "stop_buy" THEN Triggered(o) ELSE o.stopTriggered
    <2>2. resting' = [resting EXCEPT ![next].stopTriggered = b]
      BY <1>10 DEF PassOver
    <2>3. b \in BOOLEAN
      <3>1. o \in RestingOrder
        BY <2>1, RestingAt
      <3>2. o.stopTriggered \in BOOLEAN
        BY <3>1 DEF RestingOrder
      <3>3. Triggered(o) \in BOOLEAN
        BY <3>2 DEF Triggered
      <3> QED
        BY <3>2, <3>3
    <2> HIDE DEF b
    <2>4. resting' \in Seq(RestingOrder)
      BY <2>1, <2>2, <2>3, CheckedSeq
    <2> QED
      BY <1>b, <1>c, <2>1, <2>4
  <1>e. [s \in Sides |-> BestAsk(s, tick)] \in [Sides -> Prices \cup {None}]
    BY SimInvIs, TickFacts
  <1>11. CASE CheckReturns
    <2>1. /\ at' = "hook" /\ next' = 1
          /\ lastBestAsks' = [s \in Sides |-> BestAsk(s, tick)]
          /\ UNCHANGED <<hook, tick, rows, calls, entries, resting, outcome>>
      BY <1>11 DEF CheckReturns
    <2> QED
      BY <1>0, <1>e, <2>1 DEF LoopOK
  <1>12. CASE BeginEvent
    <2>1. /\ at' = "hook" /\ hook' = "start" /\ next' = 1 /\ rows' = 0 /\ calls' = 0
          /\ entries' = 0 /\ resting' = << >>
          /\ lastBestAsks' = [s \in Sides |-> BestAsk(s, tick)]
          /\ outcome' = NoOutcome /\ tick' = tick
      BY <1>12 DEF BeginEvent
    <2>2. << >> \in Seq(RestingOrder)
      BY EmptySeq
    <2>3. NoOutcome \in [winner : Sides \cup {None}, finalPnl : Int]
      BY DEF NoOutcome
    <2> QED
      BY <1>0, <1>e, <2>1, <2>2, <2>3 DEF LoopOK
  <1>13. ASSUME NEW t \in Ticks, ProcessIndex(t) PROVE LoopOK'
    <2>1. /\ at' = "check" /\ hook' = "tick" /\ tick' = t /\ rows' = rows + 1
          /\ UNCHANGED <<next, calls, entries, resting, lastBestAsks, outcome>>
      BY <1>13 DEF ProcessIndex
    <2> QED
      BY <1>0, <1>b, <2>1 DEF LoopOK
  <1>14. CASE EndEvent
    BY <1>0, <1>14 DEF EndEvent, LoopOK
  <1>15. CASE HookReturns
    BY <1>0, <1>15 DEF HookReturns, LoopOK
  <1>16. ASSUME NEW winner \in Sides \cup {None}, FinalizeEvent(winner)
         PROVE  LoopOK'
    <2>1. /\ at' = "idle"
          /\ outcome' = [winner |-> winner, finalPnl |-> FinalPnl(winner)]
          /\ UNCHANGED <<hook, tick, next, rows, calls, entries, lastBestAsks>>
      BY <1>16 DEF FinalizeEvent
    <2>2. resting' \in Seq(RestingOrder)
      BY <1>16, StatusSeq DEF FinalizeEvent
    <2>3. outcome' \in [winner : Sides \cup {None}, finalPnl : Int]
      BY <2>1, Settled
    <2> QED
      BY <1>0, <2>1, <2>2, <2>3 DEF LoopOK
  <1>17. CASE UNCHANGED vars
    BY <1>0, <1>17 DEF vars, LoopOK
  <1> QED
    BY <1>1, <1>2, <1>3, <1>5, <1>6, <1>7, <1>8, <1>9, <1>10, <1>11, <1>12,
       <1>13, <1>14, <1>15, <1>16, <1>17 DEF Next, StrategyCalls

-----------------------------------------------------------------------------
(* The theorems                                                            *)

(* SimInv is inductive.                                                    *)
LEMMA SimInvInit == Init => SimInv
  <1> SUFFICES ASSUME Init PROVE SimInv
    OBVIOUS
  <1>1. LoopOK
    <2>1. << >> \in Seq(RestingOrder)
      BY EmptySeq
    <2>2. NoOutcome \in [winner : Sides \cup {None}, finalPnl : Int]
      BY DEF NoOutcome
    <2> QED
      BY <2>1, <2>2 DEF Init, LoopOK
  <1>2. HoldingOK
    <2>1. /\ position = None /\ lots = [s \in Sides |-> NoLot] /\ realizedPnl = 0
          /\ cash = 0 /\ held = [s \in Sides |-> 0] /\ erased = [s \in Sides |-> NoLot]
      BY DEF Init
    <2> QED
      BY <2>1, EmptyAccounts DEF HoldingOK
  <1>3. LiquidityOK
    <2>1. /\ asksUsed = Zeroes /\ bidsUsed = Zeroes /\ bought = Zeroes /\ sold = Zeroes
          /\ tick \in Tick
      BY SimulatorAssumption DEF Init
    <2>2. Zeroes \in Tally
      BY DEF Zeroes, NothingUsed, Tally
    <2> QED
      BY <2>1, <2>2, NothingTaken, LiquidityParts
  <1> QED
    BY <1>1, <1>2, <1>3 DEF SimInv

LEMMA SimInvStep == SimInv /\ [Next]_vars => SimInv'
  <1> SUFFICES ASSUME SimInv, [Next]_vars PROVE SimInv'
    OBVIOUS
  <1>1. LoopOK' /\ HoldingOK' /\ LiquidityOK'
    BY LoopStep, HoldingStep, LiquidityStep
  <1> QED
    BY <1>1 DEF SimInv

LEMMA SimInvHolds == Spec => []SimInv
  BY SimInvInit, SimInvStep, PTL DEF Spec

(* Every reachable state is of its type: in particular no lot, no position *)
(* and no tally is ever negative (TypeOK).                                 *)
THEOREM SimulatorTyping == Spec => []TypeOK
  <1>1. SimInv => TypeOK
    BY SimInvIs
  <1> QED
    BY <1>1, SimInvHolds, PTL

(* The open position is part of the lot of its side in every state, so the *)
(* clamps of debitLot never bite (PositionBacked).                         *)
THEOREM PositionIsBacked == Spec => []PositionBacked
  <1>1. SimInv => PositionBacked
    BY SimInvIs
  <1> QED
    BY <1>1, SimInvHolds, PTL

(* Money and shares are conserved in every state, whatever the strategy    *)
(* does and whatever the books show (MoneyConserved).                      *)
THEOREM MoneyIsConserved == Spec => []MoneyConserved
  <1>1. SimInv => MoneyConserved
    BY SimInvIs
  <1> QED
    BY <1>1, SimInvHolds, PTL

(* However many orders hit the book of a tick, together they take no more  *)
(* of a level than it shows (NoPhantomLiquidity).                          *)
THEOREM NoLiquidityTwice == Spec => []NoPhantomLiquidity
  <1>1. SimInv => NoPhantomLiquidity
    BY SimInvIs
  <1> QED
    BY <1>1, SimInvHolds, PTL

(* A step to the end of an event is its settlement: no other step leaves   *)
(* the runtime idle.                                                       *)
LEMMA SettlementStep ==
    ASSUME SimInv, SettlementIsCash, [Next]_vars
    PROVE  SettlementIsCash'
  <1> USE DEF holding, history, liquidity, control
  <1>a. ASSUME at' # "idle" PROVE SettlementIsCash'
    BY <1>a DEF SettlementIsCash
  <1>1. ASSUME NEW s \in Sides, NEW o \in EntryOptions, Enter(s, o) PROVE at' # "idle"
    BY <1>1 DEF Enter, Called
  <1>2. ASSUME NEW o \in ExitOptions, Exit(o) PROVE at' # "idle"
    BY <1>2 DEF Exit, Called
  <1>3. ASSUME NEW s \in Sides, NEW o \in EntryOptions, NEW e \in ExitOptions,
               Reverse(s, o, e.price)
        PROVE  at' # "idle"
    BY <1>3 DEF Reverse, Called
  <1>4. ASSUME NEW s \in Sides, NEW o \in LimitOptions, PlaceLimitBuy(s, o)
        PROVE  at' # "idle"
    BY <1>4 DEF PlaceLimitBuy, Place, Called
  <1>5. ASSUME NEW s \in Sides, NEW o \in StopOptions, PlaceBuyStop(s, o)
        PROVE  at' # "idle"
    BY <1>5 DEF PlaceBuyStop, Place, Called
  <1>6. ASSUME NEW chosen \in SUBSET OpenResting, CancelLimit(chosen)
        PROVE  at' # "idle"
    BY <1>6 DEF CancelLimit, Called
  <1>7. CASE CheckLimit \/ CheckStop \/ PassOver
    <2>1. at' = at /\ at = "check"
      BY <1>7 DEF CheckLimit, CheckStop, PassOver, Checking
    <2> QED
      BY <1>a, <2>1
  <1>8. CASE CheckReturns
    BY <1>a, <1>8 DEF CheckReturns
  <1>9. CASE BeginEvent
    BY <1>a, <1>9 DEF BeginEvent
  <1>10. ASSUME NEW t \in Ticks, ProcessIndex(t) PROVE at' # "idle"
    BY <1>10 DEF ProcessIndex
  <1>11. CASE EndEvent
    BY <1>a, <1>11 DEF EndEvent
  <1>12. CASE HookReturns
    BY <1>a, <1>12 DEF HookReturns
  <1>13. ASSUME NEW winner \in Sides \cup {None}, FinalizeEvent(winner)
         PROVE  SettlementIsCash'
    <2>1. /\ outcome' = [winner |-> winner, finalPnl |-> FinalPnl(winner)]
          /\ cash' = cash /\ held' = held /\ erased' = erased
      BY <1>13 DEF FinalizeEvent
    <2>2. outcome'.winner = winner /\ outcome'.finalPnl = FinalPnl(winner)
      BY <2>1
    <2>3. (winner # None /\ erased[Up].shares = 0 /\ erased[Down].shares = 0) =>
              FinalPnl(winner) = cash + One * held[winner]
      BY Settled
    <2> QED
      BY <2>1, <2>2, <2>3 DEF SettlementIsCash
  <1>14. CASE UNCHANGED vars
    BY <1>14 DEF vars, SettlementIsCash
  <1> QED
    BY <1>a, <1>1, <1>2, <1>3, <1>4, <1>5, <1>6, <1>7, <1>8, <1>9, <1>10,
       <1>11, <1>12, <1>13, <1>14 DEF Next, StrategyCalls

(* An event with a known winner and no overwritten lot is settled at the   *)
(* money it took in less the money it paid plus the payout of the winning  *)
(* shares it holds (SettlementIsCash).                                     *)
THEOREM SettlementIsTrue == Spec => []SettlementIsCash
  <1>1. Init => SettlementIsCash
    BY DEF Init, SettlementIsCash, NoOutcome
  <1>2. SimInv /\ SettlementIsCash /\ [Next]_vars => SettlementIsCash'
    BY SettlementStep
  <1> QED
    BY <1>1, <1>2, SimInvHolds, PTL DEF Spec

(* A reversal that gives up the old position has the new one when it       *)
(* returns: the plan it commits is accepted if the dry one was, as the dry *)
(* one forgets no price of the book (ReverseNeverLeavesFlat).              *)
THEOREM ReverseEndsInPosition == Spec => ReverseNeverLeavesFlat
  <1>1. SimInv /\ [Next]_vars =>
            [(\E s \in Sides, o \in EntryOptions, e \in ExitOptions :
                 Reverse(s, o, e.price)) => position' # None]_vars
    BY ReverseHolding
  <1> QED
    BY <1>1, SimInvHolds, PTL DEF Spec, ReverseNeverLeavesFlat

=============================================================================
