------------------------ MODULE MarketMakerDeskProofs ------------------------
(***************************************************************************)
(* Theorems about the desk, for any limits, feed, spread, sizes and skew:  *)
(* its profit is what its fills say, a stop is for good, and the limiter   *)
(* of its orders, alone and in the desk, admits exactly what it may.       *)
(***************************************************************************)
EXTENDS MarketMakerDesk, Lemmas

-----------------------------------------------------------------------------
(* Sums *)

\* The sums of the risk engine are those of Sums.
LEMMA RiskSums ==
  ASSUME NEW numbers
  PROVE  Risk!Running(numbers) = Running(numbers) /\ Risk!Total(numbers) = Total(numbers)
BY DEF Risk!Running, Running, Risk!Total, Total

\* Running adds one number after the other.
LEMMA RiskRunning ==
  ASSUME NEW numbers \in Seq(Int)
  PROVE  /\ Risk!Running(numbers) \in [0..Len(numbers) -> Int]
         /\ Risk!Running(numbers)[0] = 0
         /\ \A i \in 1..Len(numbers) :
              Risk!Running(numbers)[i] = Risk!Running(numbers)[i - 1] + numbers[i]
BY RiskSums, RunningIs

\* One more number adds to the total.
LEMMA RiskTotal ==
  ASSUME NEW numbers \in Seq(Int), NEW number \in Int
  PROVE  /\ Risk!Total(Append(numbers, number)) = Risk!Total(numbers) + number
         /\ Risk!Total(numbers) \in Int
BY RiskSums, TotalAppend

-----------------------------------------------------------------------------
(* Lots *)

Lot == [size : Int, price : Int]

\* What a new lot adds to what is held and to what it cost.
LEMMA LotAdds ==
  ASSUME NEW lots \in Seq(Lot), NEW lot \in Lot
  PROVE  /\ Risk!Held(Append(lots, lot)) = Risk!Held(lots) + lot.size
         /\ Risk!Cost(Append(lots, lot)) = Risk!Cost(lots) + lot.size * lot.price
         /\ Risk!Held(lots) \in Int /\ Risk!Cost(lots) \in Int
<1> DEFINE more == Append(lots, lot)
           n == Len(lots)
<1>1. /\ n \in Nat /\ more \in Seq(Lot) /\ Len(more) = n + 1 /\ more[n + 1] = lot
      /\ \A i \in 1..n : more[i] = lots[i]
  OBVIOUS
<1>2. lot.size \in Int /\ lot.size * lot.price \in Int  BY DEF Lot
<1>3. \A i \in 1..n : lots[i].size \in Int /\ lots[i].size * lots[i].price \in Int
  <2> SUFFICES ASSUME NEW i \in 1..n
               PROVE  lots[i].size \in Int /\ lots[i].size * lots[i].price \in Int
    OBVIOUS
  <2>1. lots[i] \in Lot  OBVIOUS
  <2>2. lots[i].size \in Int /\ lots[i].price \in Int  BY <2>1 DEF Lot
  <2>3. QED  BY <2>2
<1> HIDE DEF more, n
<1>4. Risk!Sizes(lots) \in Seq(Int) /\ Risk!Costs(lots) \in Seq(Int)
  BY <1>1, <1>3 DEF Risk!Sizes, Risk!Costs, n
<1>5. /\ Len(Risk!Sizes(lots)) = n /\ Len(Risk!Costs(lots)) = n
      /\ \A i \in 1..n : /\ Risk!Sizes(lots)[i] = lots[i].size
                         /\ Risk!Costs(lots)[i] = lots[i].size * lots[i].price
  BY <1>1 DEF Risk!Sizes, Risk!Costs, n
<1>6. /\ Risk!Sizes(more) = Append(Risk!Sizes(lots), lot.size)
      /\ Risk!Costs(more) = Append(Risk!Costs(lots), lot.size * lot.price)
  <2>1. /\ Risk!Sizes(more) = [i \in 1..(n + 1) |-> more[i].size]
        /\ Risk!Costs(more) = [i \in 1..(n + 1) |-> more[i].size * more[i].price]
    BY <1>1 DEF Risk!Sizes, Risk!Costs
  <2>2. \A i \in 1..(n + 1) : i = n + 1 \/ i \in 1..n  BY <1>1
  <2> DEFINE moreSizes == Append(Risk!Sizes(lots), lot.size)
             moreCosts == Append(Risk!Costs(lots), lot.size * lot.price)
  <2>3. /\ moreSizes \in Seq(Int) /\ Len(moreSizes) = n + 1 /\ moreSizes[n + 1] = lot.size
        /\ \A i \in 1..n : moreSizes[i] = lots[i].size
    BY <1>2, <1>4, <1>5
  <2>4. /\ moreCosts \in Seq(Int) /\ Len(moreCosts) = n + 1
        /\ moreCosts[n + 1] = lot.size * lot.price
        /\ \A i \in 1..n : moreCosts[i] = lots[i].size * lots[i].price
    BY <1>2, <1>4, <1>5
  <2> HIDE DEF moreSizes, moreCosts
  <2>5. DOMAIN moreSizes = 1..(n + 1) /\ DOMAIN moreCosts = 1..(n + 1)  BY <2>3, <2>4
  <2>6. \A i \in 1..(n + 1) : moreSizes[i] = more[i].size  BY <1>1, <2>2, <2>3
  <2>7. \A i \in 1..(n + 1) : moreCosts[i] = more[i].size * more[i].price
    BY <1>1, <2>2, <2>4
  <2>8. moreSizes = [i \in 1..(n + 1) |-> more[i].size]  BY <2>3, <2>5, <2>6
  <2>9. moreCosts = [i \in 1..(n + 1) |-> more[i].size * more[i].price]  BY <2>4, <2>5, <2>7
  <2>10. QED  BY <2>1, <2>8, <2>9 DEF moreSizes, moreCosts
<1>7. QED  BY <1>2, <1>4, <1>6, RiskTotal DEF Risk!Held, Risk!Cost, more

\* No lots hold nothing and cost nothing.
LEMMA NoLots ==
  /\ <<>> \in Seq(Lot)
  /\ Risk!Held(<<>>) = 0 /\ Risk!Cost(<<>>) = 0
<1> DEFINE sizes == Risk!Sizes(<<>>)
           costs == Risk!Costs(<<>>)
<1>1. sizes \in Seq(Int) /\ costs \in Seq(Int) /\ Len(sizes) = 0 /\ Len(costs) = 0
  <2>1. sizes = <<>> /\ costs = <<>>  BY DEF Risk!Sizes, Risk!Costs
  <2> HIDE DEF sizes, costs
  <2>2. QED  BY <2>1
<1> HIDE DEF sizes, costs
<1>2. Risk!Running(sizes)[0] = 0 /\ Risk!Running(costs)[0] = 0  BY <1>1, RiskRunning
<1>3. QED  BY <1>1, <1>2 DEF Risk!Held, Risk!Cost, Risk!Total, sizes, costs

\* All lots lie on the side of s.
OneSided(lots, s) == \A i \in DOMAIN lots : lots[i].size # 0 /\ Risk!Sign(lots[i].size) = s

\* Lots of one side cannot cancel out: nothing is held only without lots.
LEMMA FlatHasNoLots ==
  ASSUME NEW lots \in Seq(Lot), NEW s \in {1, -1}, OneSided(lots, s), Risk!Held(lots) = 0
  PROVE  lots = <<>>
<1> DEFINE n == Len(lots)
           sizes == Risk!Sizes(lots)
           sum == Risk!Running(sizes)
           T == {i \in 0..n : sum[i] * s >= i}
<1>1. n \in Nat /\ DOMAIN lots = 1..n  OBVIOUS
<1>2. \A i \in 1..n : lots[i].size \in Int /\ lots[i].size * s >= 1
  <2> SUFFICES ASSUME NEW i \in 1..n PROVE lots[i].size \in Int /\ lots[i].size * s >= 1
    OBVIOUS
  <2>1. lots[i] \in Lot  BY <1>1
  <2>2. lots[i].size \in Int  BY <2>1 DEF Lot
  <2>3. lots[i].size # 0 /\ Risk!Sign(lots[i].size) = s  BY <1>1 DEF OneSided
  <2> DEFINE x == lots[i].size
  <2> HIDE DEF x
  <2>4. x \in Int /\ x # 0 /\ Risk!Sign(x) = s  BY <2>2, <2>3 DEF x
  <2>5. x * s >= 1
    <3>1. CASE s = 1  BY <2>4, <3>1 DEF Risk!Sign
    <3>2. CASE s = -1  BY <2>4, <3>2 DEF Risk!Sign
    <3>3. QED  BY <3>1, <3>2
  <2>6. QED  BY <2>4, <2>5 DEF x
<1> HIDE DEF n
<1>3. sizes \in Seq(Int) /\ Len(sizes) = n /\ \A i \in 1..n : sizes[i] = lots[i].size
  BY <1>1, <1>2 DEF Risk!Sizes, n
<1> HIDE DEF sizes
<1>4. /\ sum \in [0..n -> Int] /\ sum[0] = 0
      /\ \A i \in 1..n : sum[i] = sum[i - 1] + lots[i].size
  BY <1>3, RiskRunning
<1> HIDE DEF sum
<1>5. 0 \in T  BY <1>1, <1>4
<1>6. ASSUME NEW i \in 0..n, i < n, i \in T PROVE i + 1 \in T
  <2>1. i + 1 \in 1..n /\ i + 1 \in 0..n /\ (i + 1) - 1 = i  BY <1>1, <1>6
  <2>2. sum[i + 1] = sum[i] + lots[i + 1].size  BY <1>4, <2>1
  <2>3. lots[i + 1].size \in Int /\ lots[i + 1].size * s >= 1  BY <1>2, <2>1
  <2>4. sum[i] \in Int /\ sum[i] * s >= i  BY <1>4, <1>6
  <2>5. (sum[i] + lots[i + 1].size) * s >= i + 1
    <3>1. CASE s = 1  BY <2>3, <2>4, <3>1
    <3>2. CASE s = -1  BY <2>3, <2>4, <3>2
    <3>3. QED  BY <3>1, <3>2
  <2>6. QED  BY <2>1, <2>2, <2>5
<1> HIDE DEF T
<1>7. n \in T  BY <1>1, <1>5, <1>6, UpTo
<1>8. sum[n] = 0  BY <1>3 DEF Risk!Held, Risk!Total, sum, sizes
<1>9. n = 0  BY <1>1, <1>7, <1>8 DEF T
<1>10. QED  BY <1>9, EmptySeq DEF n

-----------------------------------------------------------------------------
(* What a fill does to the lots *)

\* The values of the matching loop (risk.py:66-80) at a price.
Loop(price) == [price : {price}, remaining : Int, pnl : Int, lots : Seq(Lot)]

\* A round of the loop, on lots of the side s: what it keeps and gains is
\* what there was, and the lots that it keeps stay on their side.
LEMMA RoundBalances ==
  ASSUME NEW price \in Int, NEW m \in Loop(price), NEW lot \in Lot
  PROVE  LET next == Risk!MatchLot(m, lot)
         IN /\ next \in Loop(price)
            /\ Risk!Held(next.lots) + next.remaining
                 = Risk!Held(m.lots) + m.remaining + lot.size
            /\ Risk!Cost(next.lots) + next.remaining * price
                 = Risk!Cost(m.lots) + m.remaining * price + lot.size * lot.price
                     + next.pnl - m.pnl
<1> DEFINE rem  == m.remaining
           size == lot.size
           paid == lot.price
           matched == Risk!Smaller(Risk!Magnitude(rem), Risk!Magnitude(size))
           moved == matched * Risk!Sign(size)
           next == Risk!MatchLot(m, lot)
           lotsHeld == Risk!Held(m.lots)
           lotsCost == Risk!Cost(m.lots)
<1> SUFFICES /\ next \in Loop(price)
             /\ Risk!Held(next.lots) + next.remaining = lotsHeld + rem + size
             /\ Risk!Cost(next.lots) + next.remaining * price
                  = lotsCost + rem * price + size * paid + next.pnl - m.pnl
  OBVIOUS
<1>1. /\ m.price = price /\ rem \in Int /\ m.pnl \in Int /\ m.lots \in Seq(Lot)
      /\ size \in Int /\ paid \in Int
  BY DEF Loop, Lot
<1>2. lotsHeld \in Int /\ lotsCost \in Int  BY <1>1, LotAdds
<1>3. matched \in Int /\ moved \in Int /\ Risk!Sign(size) \in {1, -1}
  <2>1. matched \in Int  BY <1>1 DEF Risk!Smaller, Risk!Magnitude
  <2>2. Risk!Sign(size) \in {1, -1}  BY <1>1 DEF Risk!Sign
  <2> HIDE DEF matched
  <2>3. QED  BY <2>1, <2>2
<1>4. CASE ~Risk!Opposite(rem, size)
  <2>1. next = [m EXCEPT !.lots = Append(m.lots, lot)]  BY <1>4 DEF Risk!MatchLot
  <2>2. /\ next = [price |-> price, remaining |-> rem, pnl |-> m.pnl,
                   lots |-> Append(m.lots, lot)]
        /\ Append(m.lots, lot) \in Seq(Lot)
    <3>1. m = [price |-> price, remaining |-> m.remaining, pnl |-> m.pnl, lots |-> m.lots]
      BY DEF Loop
    <3>2. [m EXCEPT !.lots = Append(m.lots, lot)]
            = [price |-> price, remaining |-> rem, pnl |-> m.pnl, lots |-> Append(m.lots, lot)]
      BY <3>1
    <3>3. QED  BY <1>1, <2>1, <3>2
  <2> HIDE DEF next
  <2>6. next \in Loop(price) /\ next.remaining = rem /\ next.pnl = m.pnl
        /\ next.lots = Append(m.lots, lot)
    BY <1>1, <2>2 DEF Loop
  <2>3. /\ Risk!Held(next.lots) = lotsHeld + size
        /\ Risk!Cost(next.lots) = lotsCost + size * paid
    BY <1>1, <2>6, LotAdds
  <2>4. size * paid \in Int /\ rem * price \in Int  BY <1>1
  <2> HIDE DEF lotsHeld, lotsCost, rem, size, paid
  <2>7. /\ Risk!Held(next.lots) + next.remaining = lotsHeld + rem + size
        /\ Risk!Cost(next.lots) + next.remaining * price
             = lotsCost + rem * price + size * paid + next.pnl - m.pnl
    BY <1>1, <1>2, <2>3, <2>4, <2>6
  <2>5. QED  BY <2>6, <2>7
<1>5. CASE Risk!Opposite(rem, size)
  <2> DEFINE left == [lot EXCEPT !.size = size - moved]
             gain == Risk!Gain(matched, m.price, lot)
  <2>1. next = [price |-> m.price, remaining |-> rem + moved, pnl |-> m.pnl + gain,
                lots |-> IF size - moved = 0 THEN m.lots ELSE Append(m.lots, left)]
    BY <1>5 DEF Risk!MatchLot, Risk!LeftAfter
  <2>2. left \in Lot /\ left.size = size - moved /\ left.price = paid
    <3> HIDE DEF moved
    <3>1. QED  BY <1>1, <1>3 DEF Lot
  <2>3. gain = moved * price - moved * paid /\ gain \in Int
    <3>1. gain = matched * (price - paid) * Risk!Sign(size)  BY <1>1 DEF Risk!Gain
    <3> HIDE DEF matched, gain, paid, size
    <3>2. CASE Risk!Sign(size) = 1  BY <1>1, <1>3, <3>1, <3>2 DEF moved
    <3>3. CASE Risk!Sign(size) = -1  BY <1>1, <1>3, <3>1, <3>3 DEF moved
    <3>4. QED  BY <1>3, <3>2, <3>3
  <2>4. next.remaining = rem + moved /\ next.pnl = m.pnl + gain /\ next.price = price
    BY <1>1, <2>1
  <2>5. next.lots = IF size - moved = 0 THEN m.lots ELSE Append(m.lots, left)  BY <2>1
  <2>6. /\ next.lots \in Seq(Lot)
        /\ Risk!Held(next.lots) = lotsHeld + (size - moved)
        /\ Risk!Cost(next.lots) = lotsCost + (size - moved) * paid
    <3>1. CASE size - moved = 0
      <4>1. next.lots = m.lots  BY <2>5, <3>1
      <4>2. (size - moved) * paid = 0  BY <1>1, <3>1
      <4> HIDE DEF moved, size, paid, next
      <4>3. QED  BY <1>1, <1>2, <3>1, <4>1, <4>2
    <3>2. CASE size - moved # 0
      <4>1. next.lots = Append(m.lots, left)  BY <2>5, <3>2
      <4>2. Append(m.lots, left) \in Seq(Lot)  BY <1>1, <2>2
      <4>3. /\ Risk!Held(Append(m.lots, left)) = lotsHeld + left.size
            /\ Risk!Cost(Append(m.lots, left)) = lotsCost + left.size * left.price
        BY <1>1, <2>2, LotAdds
      <4>4. QED  BY <2>2, <4>1, <4>2, <4>3
    <3>3. QED  BY <3>1, <3>2
  <2>7. next \in Loop(price)
    <3> HIDE DEF moved, gain, rem, left
    <3>1. rem + moved \in Int /\ m.pnl + gain \in Int  BY <1>1, <1>3, <2>3
    <3>2. QED  BY <1>1, <2>1, <2>4, <2>5, <2>6, <3>1 DEF Loop
  <2> HIDE DEF moved, gain, next, lotsHeld, lotsCost, rem, size, paid, matched
  <2>8. Risk!Held(next.lots) + next.remaining = lotsHeld + rem + size
    BY <1>1, <1>2, <1>3, <2>4, <2>6
  <2>9. /\ (size - moved) * paid = size * paid - moved * paid
        /\ (rem + moved) * price = rem * price + moved * price
        /\ size * paid \in Int /\ moved * paid \in Int /\ rem * price \in Int
        /\ moved * price \in Int
    BY <1>1, <1>3
  <2>10. Risk!Cost(next.lots) + next.remaining * price
           = lotsCost + rem * price + size * paid + next.pnl - m.pnl
    <3> DEFINE sp == size * paid
               mp == moved * paid
               rp == rem * price
               mm == moved * price
    <3>1. sp \in Int /\ mp \in Int /\ rp \in Int /\ mm \in Int  BY <2>9
    <3>2. Risk!Cost(next.lots) = lotsCost + (sp - mp) /\ next.remaining * price = rp + mm
      BY <2>4, <2>6, <2>9
    <3>3. next.pnl = m.pnl + (mm - mp)  BY <2>3, <2>4
    <3> HIDE DEF sp, mp, rp, mm
    <3>4. lotsCost + (sp - mp) + (rp + mm) = lotsCost + rp + sp + (m.pnl + (mm - mp)) - m.pnl
      BY <1>1, <1>2, <3>1
    <3>5. QED  BY <3>2, <3>3, <3>4 DEF sp, rp
  <2>11. QED  BY <2>7, <2>8, <2>10
<1>6. QED  BY <1>4, <1>5

\* A lot of their side may join the lots of one side.
LEMMA JoinsItsSide ==
  ASSUME NEW lots \in Seq(Lot), NEW lot \in Lot, NEW s \in {1, -1}, OneSided(lots, s),
         lot.size # 0, Risk!Sign(lot.size) = s
  PROVE  OneSided(Append(lots, lot), s)
<1> DEFINE more == Append(lots, lot)
           n == Len(lots)
<1>1. /\ n \in Nat /\ DOMAIN more = 1..(n + 1) /\ more[n + 1] = lot
      /\ \A i \in 1..n : more[i] = lots[i]
  OBVIOUS
<1>2. \A i \in 1..n : lots[i].size # 0 /\ Risk!Sign(lots[i].size) = s  BY DEF OneSided
<1> HIDE DEF more, n
<1>3. \A i \in 1..(n + 1) : i = n + 1 \/ i \in 1..n  BY <1>1
<1>4. OneSided(more, s)  BY <1>1, <1>2, <1>3 DEF OneSided
<1>5. QED  BY <1>4 DEF more

\* A fill against the lots consumes them before anything of it is left, so
\* that what is left never faces a lot.
LEMMA RoundKeepsSide ==
  ASSUME NEW price \in Int, NEW m \in Loop(price), NEW lot \in Lot, NEW s \in {1, -1},
         OneSided(m.lots, s), lot.size # 0, Risk!Sign(lot.size) = s,
         Risk!Opposite(m.remaining, s) => m.lots = <<>>
  PROVE  LET next == Risk!MatchLot(m, lot)
         IN /\ OneSided(next.lots, s)
            /\ Risk!Opposite(next.remaining, s) => next.lots = <<>>
<1> DEFINE rem  == m.remaining
           size == lot.size
           moved == Risk!Smaller(Risk!Magnitude(rem), Risk!Magnitude(size)) * Risk!Sign(size)
           next == Risk!MatchLot(m, lot)
<1> SUFFICES OneSided(next.lots, s) /\ (Risk!Opposite(next.remaining, s) => next.lots = <<>>)
  OBVIOUS
<1>1. /\ m.price = price /\ rem \in Int /\ m.pnl \in Int /\ m.lots \in Seq(Lot) /\ size \in Int
  BY DEF Loop, Lot
<1>2. Risk!Opposite(rem, size) <=> Risk!Opposite(rem, s)
  <2> HIDE DEF rem, size
  <2>1. size # 0 /\ Risk!Sign(size) = s  BY DEF size
  <2>2. QED  BY <1>1, <2>1 DEF Risk!Sign, Risk!Opposite
<1>3. CASE ~Risk!Opposite(rem, size)
  <2>1. next = [m EXCEPT !.lots = Append(m.lots, lot)]  BY <1>3 DEF Risk!MatchLot
  <2>2. next.lots = Append(m.lots, lot) /\ next.remaining = rem  BY <2>1 DEF Loop
  <2>3. OneSided(Append(m.lots, lot), s)  BY <1>1, JoinsItsSide
  <2>4. ~Risk!Opposite(next.remaining, s)  BY <1>2, <1>3, <2>2
  <2>5. QED  BY <2>2, <2>3, <2>4
<1>4. CASE Risk!Opposite(rem, size)
  <2> DEFINE left == [lot EXCEPT !.size = size - moved]
  <2>1. m.lots = <<>>  BY <1>2, <1>4
  <2>2. /\ next.remaining = rem + moved
        /\ next.lots = IF size - moved = 0 THEN m.lots ELSE Append(m.lots, left)
    BY <1>4 DEF Risk!MatchLot, Risk!LeftAfter
  <2>3. /\ moved \in Int
        /\ size - moved # 0 => rem + moved = 0 /\ Risk!Sign(size - moved) = s
    <3> HIDE DEF rem, size, moved
    <3>1. size # 0 /\ Risk!Sign(size) = s  BY DEF size
    <3> DEFINE matched == Risk!Smaller(Risk!Magnitude(rem), Risk!Magnitude(size))
    <3>2. matched \in Int  BY <1>1 DEF Risk!Smaller, Risk!Magnitude
    <3>3. moved = matched * s  BY <3>1 DEF moved
    <3>4. CASE s = 1
      <4>1. moved = matched /\ size > 0 /\ rem < 0
        BY <1>1, <1>4, <3>1, <3>2, <3>3, <3>4 DEF Risk!Sign, Risk!Opposite
      <4>2. matched = IF -rem < size THEN -rem ELSE size
        BY <1>1, <4>1 DEF Risk!Smaller, Risk!Magnitude
      <4> HIDE DEF matched
      <4>3. QED  BY <1>1, <3>4, <4>1, <4>2 DEF Risk!Sign
    <3>5. CASE s = -1
      <4>1. moved = -matched /\ size < 0 /\ rem > 0
        BY <1>1, <1>4, <3>1, <3>2, <3>3, <3>5 DEF Risk!Sign, Risk!Opposite
      <4>2. matched = IF rem < -size THEN rem ELSE -size
        BY <1>1, <4>1 DEF Risk!Smaller, Risk!Magnitude
      <4> HIDE DEF matched
      <4>3. QED  BY <1>1, <3>5, <4>1, <4>2 DEF Risk!Sign
    <3>6. QED  BY <3>4, <3>5
  <2> HIDE DEF moved, size, rem, next
  <2>4. CASE size - moved = 0
    <3>1. next.lots = <<>>  BY <2>1, <2>2, <2>4
    <3>2. OneSided(<<>>, s)  BY DEF OneSided
    <3>3. QED  BY <3>1, <3>2
  <2>5. CASE size - moved # 0
    <3>1. next.lots = Append(m.lots, left) /\ next.remaining = 0  BY <2>2, <2>3, <2>5
    <3>2. left \in Lot /\ left.size = size - moved  BY <1>1, <2>3 DEF Lot
    <3>3. Risk!Sign(size - moved) = s  BY <2>3, <2>5
    <3> HIDE DEF left
    <3>4. OneSided(Append(m.lots, left), s)  BY <1>1, <2>5, <3>2, <3>3, JoinsItsSide
    <3>5. ~Risk!Opposite(next.remaining, s)  BY <3>1 DEF Risk!Opposite
    <3>6. QED  BY <3>1, <3>4, <3>5
  <2>6. QED  BY <2>4, <2>5
<1>5. QED  BY <1>3, <1>4

\* The loop over all lots (risk.py:66-80): no size and no money gets lost.
LEMMA MatchingBalances ==
  ASSUME NEW lots \in Seq(Lot), NEW qty \in Int, NEW price \in Int, NEW s \in {1, -1},
         OneSided(lots, s)
  PROVE  LET m == Risk!Matching(lots, qty, price)[Len(lots)]
         IN /\ m \in Loop(price)
            /\ Risk!Held(m.lots) + m.remaining = Risk!Held(lots) + qty
            /\ Risk!Cost(m.lots) + m.remaining * price
                 = Risk!Cost(lots) + m.pnl + qty * price
            /\ OneSided(m.lots, s)
            /\ Risk!Opposite(m.remaining, s) => m.lots = <<>>
<1> DEFINE n    == Len(lots)
           base == [price |-> price, remaining |-> qty, pnl |-> 0, lots |-> <<>>]
           turn == [i \in 1..n |-> [acc \in Loop(price) |-> Risk!MatchLot(acc, lots[i])]]
           Body(g) == [i \in 0..n |-> IF i = 0 THEN base ELSE Risk!MatchLot(g[i - 1], lots[i])]
           m    == Risk!Matching(lots, qty, price)
           held == Risk!Running(Risk!Sizes(lots))
           cost == Risk!Running(Risk!Costs(lots))
           T    == {i \in 0..n :
                      /\ m[i] \in Loop(price)
                      /\ Risk!Held(m[i].lots) + m[i].remaining = held[i] + qty
                      /\ Risk!Cost(m[i].lots) + m[i].remaining * price
                           = cost[i] + m[i].pnl + qty * price
                      /\ OneSided(m[i].lots, s)
                      /\ Risk!Opposite(m[i].remaining, s) => m[i].lots = <<>>}
<1>1. n \in Nat /\ DOMAIN lots = 1..n /\ \A i \in 1..n : lots[i] \in Lot  OBVIOUS
<1>2. base \in Loop(price)  BY NoLots DEF Loop
<1>3. turn \in [1..n -> [Loop(price) -> Loop(price)]]
  <2>1. ASSUME NEW i \in 1..n, NEW acc \in Loop(price)
        PROVE  Risk!MatchLot(acc, lots[i]) \in Loop(price)
    BY <1>1, RoundBalances
  <2>2. QED  BY <2>1
<1> HIDE DEF n, base, turn
<1>4. PICK f \in [0..n -> Loop(price)] : IsRun(f, n, base, turn)
  BY <1>1, <1>2, <1>3, LoopRuns
<1>5. f = Body(f)
  <2>1. ASSUME NEW i \in 1..n PROVE f[i] = Risk!MatchLot(f[i - 1], lots[i])
    <3>1. i - 1 \in 0..n  BY <1>1
    <3>2. f[i - 1] \in Loop(price)  BY <3>1
    <3>3. QED  BY <1>4, <3>2 DEF turn, IsRun
  <2>2. \A i \in 0..n : i # 0 => i \in 1..n  BY <1>1
  <2>3. \A i \in 0..n : f[i] = Body(f)[i]  BY <1>4, <2>1, <2>2 DEF IsRun
  <2>4. QED  BY <2>3
<1>6. m = CHOOSE g : g = Body(g)  BY DEF Risk!Matching, n, base
<1>7. m = Body(m)
  <2> HIDE DEF Body, m
  <2>1. (CHOOSE g : g = Body(g)) = Body(CHOOSE g : g = Body(g))  BY <1>5
  <2>2. QED  BY <1>6, <2>1
<1> HIDE DEF m
<1>8. /\ held \in [0..n -> Int] /\ held[0] = 0 /\ held[n] = Risk!Held(lots)
      /\ \A i \in 1..n : held[i] = held[i - 1] + lots[i].size
  <2> DEFINE sizes == Risk!Sizes(lots)
  <2>1. sizes \in Seq(Int) /\ Len(sizes) = n /\ \A i \in 1..n : sizes[i] = lots[i].size
    BY <1>1 DEF Risk!Sizes, Lot, n
  <2>2. Risk!Held(lots) = held[Len(sizes)]  BY DEF Risk!Held, Risk!Total
  <2> HIDE DEF sizes
  <2>3. /\ Risk!Running(sizes) \in [0..n -> Int] /\ Risk!Running(sizes)[0] = 0
        /\ \A i \in 1..n : Risk!Running(sizes)[i] = Risk!Running(sizes)[i - 1] + lots[i].size
    BY <2>1, RiskRunning
  <2>4. QED  BY <2>1, <2>2, <2>3 DEF sizes
<1>9. /\ cost \in [0..n -> Int] /\ cost[0] = 0 /\ cost[n] = Risk!Cost(lots)
      /\ \A i \in 1..n : cost[i] = cost[i - 1] + lots[i].size * lots[i].price
  <2> DEFINE costs == Risk!Costs(lots)
  <2>1. costs \in Seq(Int) /\ Len(costs) = n
        /\ \A i \in 1..n : costs[i] = lots[i].size * lots[i].price
    BY <1>1 DEF Risk!Costs, Lot, n
  <2>2. Risk!Cost(lots) = cost[Len(costs)]  BY DEF Risk!Cost, Risk!Total
  <2> HIDE DEF costs
  <2>3. /\ Risk!Running(costs) \in [0..n -> Int] /\ Risk!Running(costs)[0] = 0
        /\ \A i \in 1..n : Risk!Running(costs)[i]
                             = Risk!Running(costs)[i - 1] + lots[i].size * lots[i].price
    BY <2>1, RiskRunning
  <2>4. QED  BY <2>1, <2>2, <2>3 DEF costs
<1> HIDE DEF held, cost
<1>10. 0 \in T
  <2>1. m[0] = base  BY <1>1, <1>7
  <2>2. /\ base.price = price /\ base.remaining = qty /\ base.pnl = 0 /\ base.lots = <<>>
    BY DEF base
  <2>3. Risk!Held(base.lots) + base.remaining = held[0] + qty  BY <1>8, <2>2, NoLots
  <2>4. Risk!Cost(base.lots) + base.remaining * price = cost[0] + base.pnl + qty * price
    <3>1. qty * price \in Int  OBVIOUS
    <3>2. QED  BY <1>9, <2>2, <3>1, NoLots
  <2>5. OneSided(base.lots, s)  BY <2>2 DEF OneSided
  <2>6. QED  BY <1>1, <1>2, <2>1, <2>2, <2>3, <2>4, <2>5
<1>11. ASSUME NEW i \in 0..n, i < n, i \in T PROVE i + 1 \in T
  <2> DEFINE this == m[i]
             next == Risk!MatchLot(this, lots[i + 1])
             lot == lots[i + 1]
  <2>1. i + 1 \in 1..n /\ i + 1 \in 0..n /\ i + 1 # 0 /\ (i + 1) - 1 = i  BY <1>1, <1>11
  <2>2. m[i + 1] = next  BY <1>7, <2>1
  <2>3. lot \in Lot /\ lot.size # 0 /\ Risk!Sign(lot.size) = s  BY <1>1, <2>1 DEF OneSided
  <2>4. this \in Loop(price)  BY <1>11
  <2>5. /\ Risk!Held(this.lots) + this.remaining = held[i] + qty
        /\ Risk!Cost(this.lots) + this.remaining * price = cost[i] + this.pnl + qty * price
        /\ OneSided(this.lots, s)
        /\ Risk!Opposite(this.remaining, s) => this.lots = <<>>
    BY <1>11
  <2>6. held[i + 1] = held[i] + lot.size /\ cost[i + 1] = cost[i] + lot.size * lot.price
    BY <1>8, <1>9, <2>1
  <2> HIDE DEF this, lot, T
  <2>7. /\ next \in Loop(price)
        /\ Risk!Held(next.lots) + next.remaining = Risk!Held(this.lots) + this.remaining + lot.size
        /\ Risk!Cost(next.lots) + next.remaining * price
             = Risk!Cost(this.lots) + this.remaining * price + lot.size * lot.price
                 + next.pnl - this.pnl
    BY <2>3, <2>4, RoundBalances DEF lot
  <2>8. OneSided(next.lots, s) /\ (Risk!Opposite(next.remaining, s) => next.lots = <<>>)
    BY <2>3, <2>4, <2>5, RoundKeepsSide DEF lot
  <2> HIDE DEF next
  <2>9. /\ held[i] \in Int /\ cost[i] \in Int /\ this.pnl \in Int /\ next.pnl \in Int
        /\ lot.size \in Int /\ lot.size * lot.price \in Int /\ qty * price \in Int
    <3>1. this.pnl \in Int /\ next.pnl \in Int  BY <2>4, <2>7 DEF Loop
    <3>2. lot.size \in Int /\ lot.price \in Int  BY <2>3 DEF Lot
    <3>3. lot.size * lot.price \in Int /\ qty * price \in Int  BY <3>2
    <3>4. held[i] \in Int /\ cost[i] \in Int  BY <1>8, <1>9
    <3>5. QED  BY <3>1, <3>2, <3>3, <3>4
  <2>10. Risk!Held(next.lots) + next.remaining = held[i + 1] + qty
    BY <2>5, <2>6, <2>7, <2>9
  <2>11. Risk!Cost(next.lots) + next.remaining * price = cost[i + 1] + next.pnl + qty * price
    <3> DEFINE paid == lot.size * lot.price
               fill == qty * price
               was == Risk!Cost(this.lots) + this.remaining * price
               old == this.pnl
               new == next.pnl
               before == cost[i]
    <3>1. /\ paid \in Int /\ fill \in Int /\ old \in Int /\ new \in Int /\ before \in Int
          /\ was = before + old + fill /\ cost[i + 1] = before + paid
          /\ Risk!Cost(next.lots) + next.remaining * price = was + paid + new - old
      BY <2>5, <2>6, <2>7, <2>9
    <3> HIDE DEF paid, fill, was, old, new, before
    <3>2. was + paid + new - old = before + paid + new + fill  BY <3>1
    <3>3. QED  BY <3>1, <3>2 DEF fill, new
  <2>12. QED  BY <2>1, <2>2, <2>7, <2>8, <2>10, <2>11 DEF T
<1> HIDE DEF T
<1>12. n \in T  BY <1>1, <1>10, <1>11, UpTo
<1>13. QED  BY <1>8, <1>9, <1>12 DEF T, m, n

-----------------------------------------------------------------------------
(* What a fill and a tick do to the risk engine *)

RiskState == [lots : Seq(Lot), inventory : Int, realized : Int, unrealized : Int,
              mid : SUBSET Int, halted : BOOLEAN]

\* The books are right, if the fills so far have brought in `paid`.
Balanced(r, paid) ==
  /\ Risk!Held(r.lots) = r.inventory
  /\ r.realized = paid + Risk!Cost(r.lots)
  /\ \E s \in {1, -1} : OneSided(r.lots, s)

\* The same books, and no halt lifted.
SameBooks(r, next) ==
  /\ next.lots = r.lots /\ next.inventory = r.inventory /\ next.realized = r.realized
  /\ next.unrealized = r.unrealized /\ next.mid = r.mid
  /\ r.halted => next.halted

\* _check_limits can only halt (risk.py:115-202).
LEMMA ChecksOnlyHalt ==
  ASSUME NEW r \in RiskState
  PROVE  Risk!CheckLimits(r) \in RiskState /\ SameBooks(r, Risk!CheckLimits(r))
<1> DEFINE halts == r.halted \/ (Risk!Breached(r) /\ HaltOnBreach)
<1>1. halts \in BOOLEAN /\ (r.halted => halts)  OBVIOUS
<1>2. Risk!CheckLimits(r) = [r EXCEPT !.halted = halts]  BY DEF Risk!CheckLimits
<1> HIDE DEF halts
<1>3. QED  BY <1>1, <1>2 DEF RiskState, SameBooks

\* A fill keeps the books right (risk.py:58-88).
LEMMA FillBalances ==
  ASSUME NEW r \in RiskState, NEW paid \in Int, NEW qty \in Int, NEW price \in Int,
         Balanced(r, paid)
  PROVE  LET next == Risk!OnFill(r, qty, price)
         IN /\ next \in RiskState /\ Balanced(next, paid - qty * price)
            /\ r.halted => next.halted
<1> DEFINE m    == Risk!Matching(r.lots, qty, price)[Len(r.lots)]
           rest == [size |-> m.remaining, price |-> price]
           lots == IF m.remaining = 0 THEN m.lots ELSE Append(m.lots, rest)
           filled == [r EXCEPT !.lots = lots, !.realized = @ + m.pnl, !.inventory = @ + qty]
           next == Risk!OnFill(r, qty, price)
<1> SUFFICES /\ next \in RiskState /\ Balanced(next, paid - qty * price)
             /\ r.halted => next.halted
  OBVIOUS
<1>1. /\ r.lots \in Seq(Lot) /\ r.inventory \in Int /\ r.realized \in Int
      /\ r.unrealized \in Int /\ r.mid \in SUBSET Int /\ r.halted \in BOOLEAN
  BY DEF RiskState
<1>2. PICK s \in {1, -1} : OneSided(r.lots, s)  BY DEF Balanced
<1>3. /\ m \in Loop(price)
      /\ Risk!Held(m.lots) + m.remaining = Risk!Held(r.lots) + qty
      /\ Risk!Cost(m.lots) + m.remaining * price = Risk!Cost(r.lots) + m.pnl + qty * price
      /\ OneSided(m.lots, s)
      /\ Risk!Opposite(m.remaining, s) => m.lots = <<>>
  BY <1>1, <1>2, MatchingBalances
<1>4. next = Risk!CheckLimits(filled)  BY DEF Risk!OnFill
<1> HIDE DEF m, next
<1>5. m.remaining \in Int /\ m.pnl \in Int /\ m.lots \in Seq(Lot)  BY <1>3 DEF Loop
<1>6. rest \in Lot /\ rest.size = m.remaining /\ rest.price = price  BY <1>5 DEF Lot
<1> HIDE DEF rest
<1>7. Risk!Held(m.lots) \in Int /\ Risk!Cost(m.lots) \in Int /\ Risk!Cost(r.lots) \in Int
  BY <1>1, <1>5, <1>6, LotAdds
<1>8. /\ lots \in Seq(Lot)
      /\ Risk!Held(lots) = Risk!Held(m.lots) + m.remaining
      /\ Risk!Cost(lots) = Risk!Cost(m.lots) + m.remaining * price
  <2>1. CASE m.remaining = 0
    <3>1. lots = m.lots  BY <2>1
    <3>2. m.remaining * price = 0  BY <2>1
    <3> HIDE DEF lots
    <3>3. QED  BY <1>5, <1>7, <2>1, <3>1, <3>2
  <2>2. CASE m.remaining # 0
    <3>1. lots = Append(m.lots, rest)  BY <2>2
    <3>2. Append(m.lots, rest) \in Seq(Lot)  BY <1>5, <1>6
    <3>3. /\ Risk!Held(Append(m.lots, rest)) = Risk!Held(m.lots) + rest.size
          /\ Risk!Cost(Append(m.lots, rest)) = Risk!Cost(m.lots) + rest.size * rest.price
      BY <1>5, <1>6, LotAdds
    <3> HIDE DEF lots
    <3>4. QED  BY <1>6, <3>1, <3>2, <3>3
  <2>3. QED  BY <2>1, <2>2
<1>9. \E t \in {1, -1} : OneSided(lots, t)
  <2>1. CASE m.remaining = 0  BY <1>3, <2>1
  <2>2. CASE m.remaining # 0 /\ Risk!Opposite(m.remaining, s)
    <3>1. Risk!Sign(m.remaining) \in {1, -1}  BY DEF Risk!Sign
    <3>2. m.lots = <<>> /\ lots = Append(m.lots, rest)  BY <1>3, <2>2
    <3>3. OneSided(m.lots, Risk!Sign(m.remaining))  BY <3>2 DEF OneSided
    <3>4. OneSided(Append(m.lots, rest), Risk!Sign(m.remaining))
      BY <1>5, <1>6, <2>2, <3>1, <3>3, JoinsItsSide
    <3>5. QED  BY <3>1, <3>2, <3>4
  <2>3. CASE m.remaining # 0 /\ ~Risk!Opposite(m.remaining, s)
    <3>1. Risk!Sign(m.remaining) = s  BY <1>5, <2>3 DEF Risk!Sign, Risk!Opposite
    <3>2. OneSided(Append(m.lots, rest), s)
      BY <1>3, <1>5, <1>6, <2>3, <3>1, JoinsItsSide
    <3>3. lots = Append(m.lots, rest)  BY <2>3
    <3>4. QED  BY <3>2, <3>3
  <2>4. QED  BY <2>1, <2>2, <2>3
<1> HIDE DEF lots
<1>10. /\ filled \in RiskState /\ filled.lots = lots /\ filled.realized = r.realized + m.pnl
       /\ filled.inventory = r.inventory + qty /\ filled.halted = r.halted
  <2>1. r.realized + m.pnl \in Int /\ r.inventory + qty \in Int  BY <1>1, <1>5
  <2>2. QED  BY <1>1, <1>8, <2>1 DEF RiskState
<1> HIDE DEF filled
<1>11. next \in RiskState /\ SameBooks(filled, next)  BY <1>4, <1>10, ChecksOnlyHalt
<1>12. Risk!Held(lots) = r.inventory + qty  BY <1>3, <1>8 DEF Balanced
<1>13. r.realized + m.pnl = paid - qty * price + Risk!Cost(lots)
  <2> DEFINE fill == qty * price
  <2>1. fill \in Int  OBVIOUS
  <2>2. r.realized = paid + Risk!Cost(r.lots)  BY DEF Balanced
  <2>3. Risk!Cost(lots) = Risk!Cost(r.lots) + m.pnl + fill  BY <1>3, <1>8
  <2> HIDE DEF fill
  <2>4. r.realized + m.pnl = paid - fill + Risk!Cost(lots)  BY <1>5, <1>7, <2>1, <2>2, <2>3
  <2>5. QED  BY <2>4 DEF fill
<1>14. Balanced(next, paid - qty * price)
  BY <1>9, <1>10, <1>11, <1>12, <1>13 DEF Balanced, SameBooks
<1>15. QED  BY <1>10, <1>11, <1>14 DEF SameBooks

\* A multiple divides without a remainder.
LEMMA Divides ==
  ASSUME NEW d \in Nat \ {0}, NEW a \in Int
  PROVE  (d * a) \div d = a
OBVIOUS

\* A mid price, if there is any.
IsMid(mid) == mid = {} \/ \E m \in mid : mid = {m} /\ m \in Int

\* A tick marks the position to the mid (risk.py:90-113).
LEMMA TickMarks ==
  ASSUME NEW r \in RiskState, NEW paid \in Int, Balanced(r, paid), NEW mid, IsMid(mid)
  PROVE  LET next == Risk!OnTick(r, mid)
         IN /\ next \in RiskState /\ Balanced(next, paid)
            /\ r.halted => next.halted
            /\ \A m \in next.mid :
                 next.realized + next.unrealized = paid + next.inventory * m
<1> DEFINE value == IF mid = {} THEN 0 ELSE Risk!Unrealized(r, CHOOSE m \in mid : TRUE)
           marked == [r EXCEPT !.mid = mid, !.unrealized = value]
           next == Risk!OnTick(r, mid)
<1> SUFFICES /\ next \in RiskState /\ Balanced(next, paid)
             /\ r.halted => next.halted
             /\ \A m \in next.mid : next.realized + next.unrealized = paid + next.inventory * m
  OBVIOUS
<1>1. /\ r.lots \in Seq(Lot) /\ r.inventory \in Int /\ r.realized \in Int
      /\ r.unrealized \in Int /\ r.mid \in SUBSET Int /\ r.halted \in BOOLEAN
  BY DEF RiskState
<1>2. next = Risk!CheckLimits(marked)  BY DEF Risk!OnTick
<1>3. mid \in SUBSET Int  BY DEF IsMid
<1>4. /\ value \in Int
      /\ \A m \in mid : r.realized + value = paid + r.inventory * m
  <2>1. CASE mid = {}  BY <2>1
  <2>2. ASSUME NEW m \in mid, mid = {m}, m \in Int
        PROVE  value \in Int /\ r.realized + value = paid + r.inventory * m
    <3> DEFINE held == Risk!Held(r.lots)
               cost == Risk!Cost(r.lots)
    <3>1. (CHOOSE x \in mid : TRUE) = m  BY <2>2
    <3>2. value = Risk!Unrealized(r, m)  BY <2>2, <3>1
    <3>3. held = r.inventory /\ r.realized = paid + cost  BY DEF Balanced
    <3>4. cost \in Int
      <4>1. [size |-> 0, price |-> 0] \in Lot  BY DEF Lot
      <4>2. QED  BY <1>1, <4>1, LotAdds
    <3>5. Risk!Unrealized(r, m)
            = IF held = 0 THEN 0
              ELSE (r.inventory * Risk!Sign(held) * (m * held - cost)) \div Risk!Magnitude(held)
      BY DEF Risk!Unrealized
    <3>6. held = 0 => cost = 0
      <4>1. SUFFICES ASSUME held = 0 PROVE cost = 0  OBVIOUS
      <4>2. PICK s \in {1, -1} : OneSided(r.lots, s)  BY DEF Balanced
      <4>3. r.lots = <<>>  BY <1>1, <4>1, <4>2, FlatHasNoLots
      <4>4. QED  BY <4>3, NoLots
    <3> HIDE DEF held, cost, value
    <3>7. CASE held = 0
      <4>1. value = 0 /\ r.realized = paid /\ r.inventory * m = 0
        BY <1>1, <2>2, <3>2, <3>3, <3>5, <3>6, <3>7
      <4>2. QED  BY <4>1
    <3>8. CASE held # 0
      <4> DEFINE d == Risk!Magnitude(held)
                 gain == m * held - cost
      <4>1. held \in Int /\ gain \in Int  BY <1>1, <2>2, <3>3, <3>4
      <4>2. d \in Nat \ {0} /\ held * Risk!Sign(held) = d
        BY <3>8, <4>1 DEF Risk!Magnitude, Risk!Sign
      <4>3. value = (held * Risk!Sign(held) * gain) \div d  BY <3>2, <3>3, <3>5, <3>8
      <4> HIDE DEF d
      <4>4. value = (d * gain) \div d  BY <4>2, <4>3
      <4> HIDE DEF gain
      <4>5. value = gain  BY <4>1, <4>2, <4>4, Divides
      <4>6. gain = r.inventory * m - cost  BY <1>1, <2>2, <3>3 DEF gain
      <4>7. r.inventory * m \in Int  BY <1>1, <2>2
      <4>8. QED  BY <3>3, <3>4, <4>1, <4>5, <4>6, <4>7
    <3>9. QED  BY <3>7, <3>8
  <2>3. QED  BY <2>1, <2>2 DEF IsMid
<1> HIDE DEF value, next
<1>5. /\ marked \in RiskState /\ marked.lots = r.lots /\ marked.inventory = r.inventory
      /\ marked.realized = r.realized /\ marked.unrealized = value /\ marked.mid = mid
      /\ marked.halted = r.halted
  BY <1>1, <1>3, <1>4 DEF RiskState
<1> HIDE DEF marked
<1>6. next \in RiskState /\ SameBooks(marked, next)  BY <1>2, <1>5, ChecksOnlyHalt
<1>7. Balanced(next, paid)  BY <1>5, <1>6 DEF Balanced, SameBooks
<1>8. QED  BY <1>4, <1>5, <1>6, <1>7 DEF SameBooks

-----------------------------------------------------------------------------
(* What a round of quoting reads and does *)

\* The snapshots have a mid or none, and the desk quotes around a number.
LEMMA MidsAreNumbers ==
  ASSUME NEW snapshot \in Snapshots
  PROVE  /\ IsMid(Mid(snapshot.bid, snapshot.ask))
         /\ \A m \in Mid(Bid(snapshot), Ask(snapshot)) : m \in Int
<1> DEFINE b == snapshot.bid
           a == snapshot.ask
<1>1. /\ b = {} \/ \E x \in b : b = {x} /\ x \in Int
      /\ a = {} \/ \E x \in a : a = {x} /\ x \in Int
      /\ Spread \in Int
  BY MarketMakerDeskAssumption DEF MarketMakerDeskAssumption
<1>2. b \subseteq Int /\ a \subseteq Int  BY <1>1
<1>3. ASSUME NEW bids \in SUBSET Int, NEW asks \in SUBSET Int
      PROVE  Mid(bids, asks) \subseteq Int
  <2>1. ASSUME NEW x \in bids, NEW y \in asks PROVE (x + y) \div 2 \in Int
    <3>1. x + y \in Int /\ 2 \in Nat \ {0}  OBVIOUS
    <3>2. QED  BY <3>1
  <2>2. QED  BY <2>1 DEF Mid
<1>4. IsMid(Mid(b, a))
  <2>1. CASE b = {} \/ a = {}  BY <2>1 DEF IsMid, Mid
  <2>2. CASE b # {} /\ a # {}
    <3>1. PICK x \in b : b = {x} /\ x \in Int  BY <1>1, <2>2
    <3>2. PICK y \in a : a = {y} /\ y \in Int  BY <1>1, <2>2
    <3>3. Mid(b, a) = {(x + y) \div 2}  BY <3>1, <3>2 DEF Mid
    <3>4. Mid(b, a) \subseteq Int  BY <1>2, <1>3
    <3>5. QED  BY <3>3, <3>4 DEF IsMid
  <2>3. QED  BY <2>1, <2>2
<1>5. Bid(snapshot) \subseteq Int /\ Ask(snapshot) \subseteq Int
  BY <1>1, <1>2 DEF Bid, Ask
<1>6. QED  BY <1>3, <1>4, <1>5

\* What a cancel that starts with these orders leaves behind.
Removes(live, deque, stopped, id, kept, left, stops) ==
  /\ CancelOne([resting |-> live, window |-> deque, halted |-> stopped], id)
       = [resting |-> kept, window |-> left, halted |-> stops]
  /\ DOMAIN kept \subseteq DOMAIN live
  /\ \A i \in DOMAIN kept : kept[i] = live[i]
  /\ stopped => stops
  /\ HaltOnRefusal => stops \/ id \notin DOMAIN kept

\* cancel_order (backtester.py:317-361) removes the order, or is refused.
LEMMA CancelRemoves ==
  ASSUME NEW live, NEW deque, NEW stopped, NEW id
  PROVE  \E kept, left, stops : Removes(live, deque, stopped, id, kept, left, stops)
<1> DEFINE acc == [resting |-> live, window |-> deque, halted |-> stopped]
           left == Cancels!After(deque, clock)
           kept == [i \in DOMAIN live \ {id} |-> live[i]]
<1>1. CASE id \notin DOMAIN live
  <2>1. CancelOne(acc, id) = acc  BY <1>1 DEF CancelOne
  <2>2. Removes(live, deque, stopped, id, live, deque, stopped)
    BY <1>1, <2>1 DEF Removes
  <2>3. QED  BY <2>2
<1>2. CASE id \in DOMAIN live /\ Cancels!Admits(deque, clock)
  <2>1. CancelOne(acc, id) = [resting |-> kept, window |-> left, halted |-> stopped]
    BY <1>2 DEF CancelOne
  <2>2. /\ DOMAIN kept \subseteq DOMAIN live /\ id \notin DOMAIN kept
        /\ \A i \in DOMAIN kept : kept[i] = live[i]
    OBVIOUS
  <2> HIDE DEF kept, left
  <2>3. Removes(live, deque, stopped, id, kept, left, stopped)
    BY <2>1, <2>2 DEF Removes
  <2>4. QED  BY <2>3
<1>3. CASE id \in DOMAIN live /\ ~Cancels!Admits(deque, clock)
  <2> DEFINE stops == stopped \/ HaltOnRefusal
  <2>1. CancelOne(acc, id) = [resting |-> live, window |-> left, halted |-> stops]
    BY <1>3 DEF CancelOne, Refused
  <2>2. (stopped => stops) /\ (HaltOnRefusal => stops)  OBVIOUS
  <2> HIDE DEF stops, left
  <2>3. Removes(live, deque, stopped, id, live, left, stops)
    BY <2>1, <2>2 DEF Removes
  <2>4. QED  BY <2>3
<1>4. QED  BY <1>1, <1>2, <1>3

\* So the cancels of a round remove both working orders, or stop the desk.
LEMMA RoundCancels ==
  ASSUME CancelWorking
  PROVE  /\ DOMAIN resting' \subseteq DOMAIN resting
         /\ \A i \in DOMAIN resting' : resting'[i] = resting[i]
         /\ halted => halted'
         /\ risk' = [risk EXCEPT !.halted = @ \/ halted']
         /\ HaltOnRefusal /\ ~halted' /\ working # <<>> =>
              working.bid \notin DOMAIN resting' /\ working.ask \notin DOMAIN resting'
<1> DEFINE start == [resting |-> resting, window |-> cancelWindow, halted |-> halted]
<1>1. CASE working = <<>>
  <2>1. resting' = resting /\ halted' = halted /\ risk' = [risk EXCEPT !.halted = @ \/ halted]
    BY <1>1 DEF CancelWorking
  <2>2. QED  BY <1>1, <2>1
<1>2. CASE working # <<>>
  <2>1. PICK kept1, left1, stops1 :
          Removes(resting, cancelWindow, halted, working.bid, kept1, left1, stops1)
    BY CancelRemoves
  <2>2. PICK kept2, left2, stops2 :
          Removes(kept1, left1, stops1, working.ask, kept2, left2, stops2)
    BY CancelRemoves
  <2>4. CancelOne(CancelOne(start, working.bid), working.ask)
          = [resting |-> kept2, window |-> left2, halted |-> stops2]
    BY <2>1, <2>2 DEF Removes
  <2>5. resting' = kept2 /\ halted' = stops2 /\ risk' = [risk EXCEPT !.halted = @ \/ stops2]
    <3> DEFINE acc == CancelOne(CancelOne(start, working.bid), working.ask)
    <3>1. /\ resting' = acc.resting /\ halted' = acc.halted
          /\ risk' = [risk EXCEPT !.halted = @ \/ acc.halted]
      BY <1>2 DEF CancelWorking
    <3>2. acc.resting = kept2 /\ acc.halted = stops2  BY <2>4
    <3> HIDE DEF acc
    <3>3. QED  BY <3>1, <3>2
  <2>6. QED  BY <2>1, <2>2, <2>5 DEF Removes
<1>3. QED  BY <1>1, <1>2

-----------------------------------------------------------------------------
(* The desk's invariants *)

Quoted == [side : {"bid", "ask"}, price : Int, size : Int]

DeskTyped ==
  /\ risk \in RiskState /\ cash \in Int /\ fillCount \in Nat
  /\ quote.bid \in Int /\ quote.ask \in Int /\ nextId \in Int
  /\ step \in {"idle", "cancel", "bid", "ask"}
  /\ \A id \in DOMAIN resting : resting[id] \in Quoted

\* The books are those of the fills so far.
BooksInv == DeskTyped /\ Balanced(risk, cash)

Known == IF working = <<>> THEN {} ELSE {working.bid, working.ask}

\* Which orders may rest at each place of a round, while the desk is driven.
OrdersKnown ==
  ~halted =>
    /\ step \in {"idle", "cancel"} => DOMAIN resting \subseteq Known
    /\ step = "bid" => DOMAIN resting = {}
    /\ step = "ask" => DOMAIN resting \subseteq {nextId - 1}

\* What the proofs use of the constants.
LEMMA DeskTypes ==
  /\ MarketMakerDeskAssumption
  /\ QuoteSize \in Int /\ Skew \in Int /\ Spread \in Int /\ Spread \div 2 \in Int
<1>1. MarketMakerDeskAssumption  BY MarketMakerDeskAssumption
<1>2. Spread \in Int /\ Skew \in Int /\ QuoteSize \in Int
  BY <1>1 DEF MarketMakerDeskAssumption
<1>3. Spread \div 2 \in Int  BY <1>2
<1>4. QED  BY <1>1, <1>2, <1>3

\* The books start empty and right.
LEMMA BooksInit == DeskInit => BooksInv
<1> SUFFICES ASSUME DeskInit PROVE BooksInv  OBVIOUS
<1>1. risk = [lots |-> <<>>, inventory |-> 0, realized |-> 0, unrealized |-> 0, mid |-> {},
              halted |-> FALSE]
  BY DEF DeskInit, Risk!Fresh
<1>2. risk \in RiskState /\ risk.lots = <<>> /\ risk.inventory = 0 /\ risk.realized = 0
  BY <1>1, NoLots DEF RiskState
<1>3. DeskTyped
  <2>1. /\ cash = 0 /\ fillCount = 0 /\ quote = [bid |-> 0, ask |-> 0] /\ nextId = 1
        /\ step = "idle" /\ resting = <<>>
    BY DEF DeskInit
  <2>2. DOMAIN resting = {}  BY <2>1
  <2>3. QED  BY <1>2, <2>1, <2>2 DEF DeskTyped
<1>4. Balanced(risk, cash)
  <2>1. cash = 0  BY DEF DeskInit
  <2>2. OneSided(<<>>, 1)  BY DEF OneSided
  <2>3. QED  BY <1>2, <2>1, <2>2, NoLots DEF Balanced
<1>5. QED  BY <1>3, <1>4 DEF BooksInv

\* on_market_data marks the books and may start a round.
LEMMA BooksTick ==
  ASSUME BooksInv, NEW delay \in Steps, NEW snapshot \in Snapshots, Tick(delay, snapshot)
  PROVE  /\ BooksInv'
         /\ \A m \in risk'.mid : risk'.realized + risk'.unrealized = cash' + risk'.inventory * m
         /\ risk.halted => risk'.halted
<1>1. risk \in RiskState /\ cash \in Int /\ Balanced(risk, cash)
  BY DEF BooksInv, DeskTyped
<1> DEFINE mid == Mid(snapshot.bid, snapshot.ask)
<1>2. IsMid(mid)  BY MidsAreNumbers
<1>3. risk' = Risk!OnTick(risk, mid) /\ cash' = cash  BY DEF Tick
<1> HIDE DEF mid
<1>4. /\ risk' \in RiskState /\ Balanced(risk', cash')
      /\ risk.halted => risk'.halted
      /\ \A m \in risk'.mid : risk'.realized + risk'.unrealized = cash' + risk'.inventory * m
  BY <1>1, <1>2, <1>3, TickMarks
<1>5. quote'.bid \in Int /\ quote'.ask \in Int
  <2>1. CASE quote' = quote  BY <2>1 DEF BooksInv, DeskTyped
  <2>2. ASSUME NEW m \in Mid(Bid(snapshot), Ask(snapshot)), quote' = Quotes(m, risk.inventory)
        PROVE  quote'.bid \in Int /\ quote'.ask \in Int
    <3>1. m \in Int /\ risk.inventory \in Int  BY <1>1, MidsAreNumbers DEF RiskState
    <3>2. Skew * risk.inventory \in Int  BY <3>1, DeskTypes
    <3>3. /\ quote'.bid = m - Spread \div 2 - Skew * risk.inventory
          /\ quote'.ask = m + Spread \div 2 - Skew * risk.inventory
      BY <2>2 DEF Quotes
    <3>4. QED  BY <3>1, <3>2, <3>3, DeskTypes
  <2>3. QED  BY <2>1, <2>2 DEF Tick
<1>6. DeskTyped'
  <2>1. step' \in {"cancel", step} /\ UNCHANGED <<cash, fillCount, nextId, resting>>
    BY DEF Tick
  <2>2. QED  BY <1>4, <1>5, <2>1 DEF BooksInv, DeskTyped
<1>7. QED  BY <1>4, <1>6 DEF BooksInv

\* A fill reaches the books, whoever's it is.
LEMMA BooksFilled ==
  ASSUME BooksInv, NEW qty \in Int, NEW price \in Int, Filled(qty, price),
         \A id \in DOMAIN resting' : resting'[id] \in Quoted
  PROVE  BooksInv' /\ fillCount' # fillCount /\ (risk.halted => risk'.halted)
<1>1. risk \in RiskState /\ cash \in Int /\ Balanced(risk, cash) /\ fillCount \in Nat
  BY DEF BooksInv, DeskTyped
<1>2. /\ risk' = Risk!OnFill(risk, qty, price) /\ cash' = cash - qty * price
      /\ fillCount' = fillCount + 1 /\ UNCHANGED <<quote, nextId, step>>
  BY DEF Filled, quoteVars
<1>3. risk' \in RiskState /\ Balanced(risk', cash') /\ (risk.halted => risk'.halted)
  BY <1>1, <1>2, FillBalances
<1>4. cash' \in Int  
  <2>1. qty * price \in Int  OBVIOUS
  <2>2. QED  BY <1>1, <1>2, <2>1
<1>5. QED  BY <1>1, <1>2, <1>3, <1>4 DEF BooksInv, DeskTyped

\* Only the halt of the risk engine changes.
LEMMA BooksHalted ==
  ASSUME BooksInv, NEW stops, risk' = [risk EXCEPT !.halted = @ \/ stops]
  PROVE  risk' \in RiskState /\ Balanced(risk', cash) /\ (risk.halted => risk'.halted)
         /\ (risk'.halted => risk.halted \/ stops)
<1>1. risk \in RiskState  BY DEF BooksInv, DeskTyped
<1> DEFINE halts == risk.halted \/ stops
<1>2. /\ halts \in BOOLEAN /\ (risk.halted => halts) /\ (halts => risk.halted \/ stops)
      /\ risk' = [risk EXCEPT !.halted = halts]
  OBVIOUS
<1> HIDE DEF halts
<1>3. /\ risk' \in RiskState /\ risk'.halted = halts /\ risk'.lots = risk.lots
      /\ risk'.inventory = risk.inventory /\ risk'.realized = risk.realized
  BY <1>1, <1>2 DEF RiskState
<1>4. Balanced(risk', cash)  BY <1>3 DEF BooksInv, Balanced
<1>5. QED  BY <1>2, <1>3, <1>4

\* Cancels touch of the books only the risk engine's halt.
LEMMA BooksCancel ==
  ASSUME BooksInv, CancelWorking
  PROVE  BooksInv' /\ (risk.halted => risk'.halted) /\ (risk'.halted => risk.halted \/ halted')
<1>1. /\ DOMAIN resting' \subseteq DOMAIN resting
      /\ \A i \in DOMAIN resting' : resting'[i] = resting[i]
      /\ risk' = [risk EXCEPT !.halted = @ \/ halted']
  BY RoundCancels
<1>2. step' = "bid" /\ UNCHANGED <<quote, nextId, cash, fillCount>>  BY DEF CancelWorking
<1>3. /\ risk' \in RiskState /\ Balanced(risk', cash)
      /\ (risk.halted => risk'.halted) /\ (risk'.halted => risk.halted \/ halted')
  BY <1>1, BooksHalted
<1>4. DeskTyped'  BY <1>1, <1>2, <1>3 DEF BooksInv, DeskTyped
<1>5. QED  BY <1>2, <1>3, <1>4 DEF BooksInv

\* submit_order does not touch the books.
LEMMA BooksSubmit ==
  ASSUME BooksInv, NEW side \in {"bid", "ask"}, SubmitQuote(side)
  PROVE  BooksInv' /\ (risk.halted => risk'.halted)
<1>1. UNCHANGED <<quote, cash, fillCount>>  BY DEF SubmitQuote
<1>2. risk' \in RiskState /\ Balanced(risk', cash) /\ (risk.halted => risk'.halted)
  <2>1. CASE risk' = risk  BY <2>1 DEF BooksInv, DeskTyped
  <2>2. CASE risk' = [risk EXCEPT !.halted = @ \/ HaltOnRefusal]  BY <2>2, BooksHalted
  <2>3. QED  BY <2>1, <2>2 DEF SubmitQuote, Fault
<1>3. step' \in {"idle", "ask"} /\ nextId' \in {nextId, nextId + 1}  BY DEF SubmitQuote
<1>4. \A id \in DOMAIN resting' : resting'[id] \in Quoted
  <2>1. CASE resting' = resting  BY <2>1 DEF BooksInv, DeskTyped
  <2> DEFINE new == [side |-> side, price |-> quote[side], size |-> QuoteSize]
  <2>2. CASE resting' = [i \in DOMAIN resting \cup {nextId} |->
                           IF i = nextId THEN new ELSE resting[i]]
    <3>1. quote[side] \in Int  BY DEF BooksInv, DeskTyped
    <3>2. new \in Quoted  BY <3>1, DeskTypes DEF Quoted
    <3> HIDE DEF new
    <3>3. \A id \in DOMAIN resting : resting[id] \in Quoted  BY DEF BooksInv, DeskTyped
    <3>4. QED  BY <2>2, <3>2, <3>3
  <2>3. QED  BY <2>1, <2>2 DEF SubmitQuote
<1>5. QED  BY <1>1, <1>2, <1>3, <1>4 DEF BooksInv, DeskTyped

\* process_fill of an order of the desk.
LEMMA BooksOwnFill ==
  ASSUME BooksInv, NEW id \in DOMAIN resting, NEW size \in 1..QuoteSize, OwnFill(id, size)
  PROVE  /\ BooksInv' /\ fillCount' # fillCount /\ (risk.halted => risk'.halted)
         /\ DOMAIN resting' \subseteq DOMAIN resting
<1>1. resting[id] \in Quoted /\ size \in Int  
  BY DeskTypes DEF BooksInv, DeskTyped
<1>2. resting[id].price \in Int /\ resting[id].size \in Int  BY <1>1 DEF Quoted
<1> DEFINE qty == IF resting[id].side = "bid" THEN size ELSE -size
           rest == [resting[id] EXCEPT !.size = @ - size]
<1>3. qty \in Int /\ Filled(qty, resting[id].price)  BY <1>1 DEF OwnFill
<1>4. /\ \A i \in DOMAIN resting' : resting'[i] \in Quoted
      /\ DOMAIN resting' \subseteq DOMAIN resting
  <2>1. \A i \in DOMAIN resting : resting[i] \in Quoted  BY DEF BooksInv, DeskTyped
  <2>2. rest \in Quoted  BY <1>1, <1>2 DEF Quoted
  <2>3. CASE resting' = [i \in DOMAIN resting \ {id} |-> resting[i]]  BY <2>1, <2>3
  <2>4. CASE resting' = [resting EXCEPT ![id] = rest]
    <3> HIDE DEF rest
    <3>1. QED  BY <2>1, <2>2, <2>4
  <2>5. QED  BY <2>3, <2>4 DEF OwnFill
<1> HIDE DEF qty
<1>5. QED  BY <1>2, <1>3, <1>4, BooksFilled

\* process_fill of an order of the feed.
LEMMA BooksFeedFill ==
  ASSUME BooksInv, NEW fill \in FeedFills, FeedFill(fill)
  PROVE  BooksInv' /\ fillCount' # fillCount /\ (risk.halted => risk'.halted)
<1>1. fill.qty \in Int /\ fill.price \in Int  BY DeskTypes DEF MarketMakerDeskAssumption
<1>2. Filled(fill.qty, fill.price) /\ resting' = resting  BY DEF FeedFill
<1>3. \A id \in DOMAIN resting' : resting'[id] \in Quoted  BY <1>2 DEF BooksInv, DeskTyped
<1>4. QED  BY <1>1, <1>2, <1>3, BooksFilled

\* Every step of the desk keeps the books right.
LEMMA BooksStep == BooksInv /\ [DeskNext]_deskVars => BooksInv'
<1> SUFFICES ASSUME BooksInv, [DeskNext]_deskVars PROVE BooksInv'  OBVIOUS
<1>1. CASE UNCHANGED deskVars
  BY <1>1 DEF deskVars, quoteVars, BooksInv, DeskTyped, Balanced
<1>2. CASE \E delay \in Steps, snapshot \in Snapshots : Tick(delay, snapshot)
  BY <1>2, BooksTick
<1>3. CASE CancelWorking  BY <1>3, BooksCancel
<1>4. CASE \E side \in {"bid", "ask"} : SubmitQuote(side)  BY <1>4, BooksSubmit
<1>5. CASE \E id \in DOMAIN resting, size \in 1..QuoteSize : OwnFill(id, size)
  BY <1>5, BooksOwnFill
<1>6. CASE \E fill \in FeedFills : FeedFill(fill)  BY <1>6, BooksFeedFill
<1>7. QED  BY <1>1, <1>2, <1>3, <1>4, <1>5, <1>6 DEF DeskNext

\* The books are right in every reachable state.
LEMMA BooksHold == DeskSpec => []BooksInv
BY BooksInit, BooksStep, PTL DEF DeskSpec

\* Right books are the position and the money of the fills.
LEMMA BooksImply == BooksInv => LotsAreThePosition /\ RealizedBalances
<1> SUFFICES ASSUME BooksInv PROVE LotsAreThePosition /\ RealizedBalances  OBVIOUS
<1>1. risk.lots \in Seq(Lot) /\ Balanced(risk, cash)  BY DEF BooksInv, DeskTyped, RiskState
<1>2. PICK s \in {1, -1} : OneSided(risk.lots, s)  BY <1>1 DEF Balanced
<1>3. ASSUME NEW i \in DOMAIN risk.lots, NEW j \in DOMAIN risk.lots
      PROVE  ~Risk!Opposite(risk.lots[i].size, risk.lots[j].size)
  <2> DEFINE x == risk.lots[i].size
             y == risk.lots[j].size
  <2>1. risk.lots[i] \in Lot /\ risk.lots[j] \in Lot  BY <1>1
  <2>2. x \in Int /\ y \in Int  BY <2>1 DEF Lot
  <2>3. Risk!Sign(x) = s /\ Risk!Sign(y) = s  BY <1>2 DEF OneSided
  <2> HIDE DEF x, y
  <2>4. ~Risk!Opposite(x, y)  BY <2>2, <2>3 DEF Risk!Sign, Risk!Opposite
  <2>5. QED  BY <2>4 DEF x, y
<1>4. \A i \in DOMAIN risk.lots : risk.lots[i].size # 0  BY <1>2 DEF OneSided
<1>5. QED  BY <1>1, <1>3, <1>4 DEF LotsAreThePosition, RealizedBalances, Balanced

\* Between rounds only a tick leaves the number of fills alone.
LEMMA MarkedStep ==
  ASSUME BooksInv, [DeskNext]_deskVars, deskVars' # deskVars
  PROVE  step = "idle" /\ fillCount' = fillCount =>
           \A m \in risk'.mid :
             risk'.realized + risk'.unrealized = cash' + risk'.inventory * m
<1>1. CASE \E delay \in Steps, snapshot \in Snapshots : Tick(delay, snapshot)
  BY <1>1, BooksTick
<1>2. CASE CancelWorking \/ \E side \in {"bid", "ask"} : SubmitQuote(side)
  BY <1>2 DEF CancelWorking, SubmitQuote
<1>3. CASE \/ \E id \in DOMAIN resting, size \in 1..QuoteSize : OwnFill(id, size)
           \/ \E fill \in FeedFills : FeedFill(fill)
  BY <1>3, BooksOwnFill, BooksFeedFill
<1>4. QED  BY <1>1, <1>2, <1>3 DEF DeskNext

-----------------------------------------------------------------------------
(* Stopping *)

\* One step of the desk, as HaltIsFinal sees it, and the halt that it hands on.
LEMMA HaltStep ==
  ASSUME BooksInv, HaltReachesDriver, [DeskNext]_deskVars
  PROVE  /\ halted => halted' /\ (step = "idle" => step' = "idle")
         /\ risk.halted => risk'.halted
         /\ HaltReachesDriver'
<1>1. CASE UNCHANGED deskVars
  BY <1>1 DEF deskVars, quoteVars, HaltReachesDriver
<1>2. ASSUME NEW delay \in Steps, NEW snapshot \in Snapshots, Tick(delay, snapshot)
      PROVE  /\ halted => halted' /\ (step = "idle" => step' = "idle")
             /\ risk.halted => risk'.halted
             /\ HaltReachesDriver'
  <2>1. halted' = HaltedAfter(risk') /\ (risk.halted => risk'.halted)
    BY <1>2, BooksTick DEF Tick
  <2>2. Driven(halted') \/ step' = step  BY <1>2 DEF Tick
  <2>3. QED  BY <2>1, <2>2 DEF HaltedAfter, Driven, HaltReachesDriver
<1>3. CASE CancelWorking
  <2>1. (halted => halted') /\ (risk.halted => risk'.halted)
        /\ (risk'.halted => risk.halted \/ halted')
    BY <1>3, RoundCancels, BooksCancel
  <2>2. step # "idle"  BY <1>3 DEF CancelWorking
  <2>3. QED  BY <2>1, <2>2 DEF HaltReachesDriver
<1>4. ASSUME NEW side \in {"bid", "ask"}, SubmitQuote(side)
      PROVE  /\ halted => halted' /\ (step = "idle" => step' = "idle")
             /\ risk.halted => risk'.halted
             /\ HaltReachesDriver'
  <2>1. risk.halted => risk'.halted  BY <1>4, BooksSubmit
  <2>2. step # "idle"  BY <1>4 DEF SubmitQuote
  <2>3. halted' = TRUE \/ UNCHANGED <<halted, risk>>  BY <1>4 DEF SubmitQuote, Fault
  <2>4. QED  BY <2>1, <2>2, <2>3 DEF HaltReachesDriver
<1>5. CASE \/ \E id \in DOMAIN resting, size \in 1..QuoteSize : OwnFill(id, size)
           \/ \E fill \in FeedFills : FeedFill(fill)
  <2>1. risk.halted => risk'.halted  BY <1>5, BooksOwnFill, BooksFeedFill
  <2>2. halted' = HaltedAfter(risk') /\ step' = step
    BY <1>5 DEF OwnFill, FeedFill, Filled, quoteVars
  <2>3. QED  BY <2>1, <2>2 DEF HaltedAfter, HaltReachesDriver
<1>6. QED  BY <1>1, <1>2, <1>3, <1>4, <1>5 DEF DeskNext

\* Where a refusal halts, a desk that is still driven knows its orders.
LEMMA KnownStep ==
  ASSUME HaltOnRefusal, BooksInv, HaltReachesDriver, OrdersKnown, [DeskNext]_deskVars
  PROVE  OrdersKnown'
<1> SUFFICES ASSUME ~halted' PROVE OrdersKnown'  BY DEF OrdersKnown
<1>1. ~halted  BY HaltStep
<1>2. CASE UNCHANGED deskVars
  BY <1>2 DEF deskVars, quoteVars, OrdersKnown, Known
<1>3. ASSUME NEW delay \in Steps, NEW snapshot \in Snapshots, Tick(delay, snapshot)
      PROVE  OrdersKnown'
  <2>1. step = "idle" /\ step' \in {"idle", "cancel"} /\ UNCHANGED <<resting, working, nextId>>
    BY <1>3 DEF Tick
  <2>2. QED  BY <1>1, <2>1 DEF OrdersKnown, Known
<1>4. CASE CancelWorking
  <2>1. step = "cancel" /\ step' = "bid"  BY <1>4 DEF CancelWorking
  <2>2. DOMAIN resting \subseteq Known  BY <1>1, <2>1 DEF OrdersKnown
  <2>3. DOMAIN resting' = {}
    <3>1. CASE working = <<>>  BY <1>4, <2>2, <3>1, RoundCancels DEF Known
    <3>2. CASE working # <<>>  BY <1>4, <2>2, <3>2, RoundCancels DEF Known
    <3>3. QED  BY <3>1, <3>2
  <2>4. QED  BY <2>1, <2>3 DEF OrdersKnown
<1>5. CASE SubmitQuote("bid")
  <2>1. /\ step = "bid" /\ step' = "ask" /\ nextId' = nextId + 1
        /\ DOMAIN resting' = DOMAIN resting \cup {nextId}
    BY <1>5 DEF SubmitQuote, Fault
  <2>2. DOMAIN resting = {}  BY <1>1, <2>1 DEF OrdersKnown
  <2>3. nextId' - 1 = nextId  BY <2>1 DEF BooksInv, DeskTyped
  <2>4. QED  BY <2>1, <2>2, <2>3 DEF OrdersKnown
<1>6. CASE SubmitQuote("ask")
  <2>1. /\ step = "ask" /\ step' = "idle" /\ working' = [bid |-> nextId - 1, ask |-> nextId]
        /\ DOMAIN resting' = DOMAIN resting \cup {nextId}
    BY <1>6 DEF SubmitQuote, Fault
  <2>2. DOMAIN resting \subseteq {nextId - 1}  BY <1>1, <2>1 DEF OrdersKnown
  <2>3. working' # <<>> /\ working'.bid = nextId - 1 /\ working'.ask = nextId
    <3>1. DOMAIN working' = {"bid", "ask"}  BY <2>1
    <3>2. DOMAIN <<>> = {}  OBVIOUS
    <3>3. QED  BY <2>1, <3>1, <3>2
  <2>4. Known' = {nextId - 1, nextId}  BY <2>3 DEF Known
  <2>5. QED  BY <2>1, <2>2, <2>4 DEF OrdersKnown
<1>7. CASE \/ \E id \in DOMAIN resting, size \in 1..QuoteSize : OwnFill(id, size)
           \/ \E fill \in FeedFills : FeedFill(fill)
  <2>1. step = "idle" /\ UNCHANGED <<step, working, nextId>>
    BY <1>7 DEF OwnFill, FeedFill, Filled, quoteVars
  <2>2. DOMAIN resting' \subseteq DOMAIN resting
    BY <1>7, BooksOwnFill DEF FeedFill
  <2>3. QED  BY <1>1, <2>1, <2>2 DEF OrdersKnown, Known
<1>8. QED  BY <1>2, <1>3, <1>4, <1>5, <1>6, <1>7 DEF DeskNext

-----------------------------------------------------------------------------
(* The deque is what is left of the history: what it forgot can no longer    *)
(* matter, because the clock does not go back.                               *)

\* The deque holds the latest admitted times.
WindowIsSuffix ==
  /\ Len(window) <= Len(admitted)
  /\ \A i \in 1..Len(window) : window[i] = admitted[Len(admitted) - Len(window) + i]

\* Admitted times never decrease and are not ahead of the clock.
AdmittedInOrder ==
  /\ \A i, j \in DOMAIN admitted : i <= j => admitted[i] <= admitted[j]
  /\ \A i \in DOMAIN admitted : admitted[i] <= now

\* What the deque has forgotten has left the window.
ForgottenOutlived ==
  \A i \in 1..(Len(admitted) - Len(window)) : Outlived(admitted[i], now)

RateInv ==
  /\ TypeOK /\ WindowIsSuffix /\ AdmittedInOrder /\ ForgottenOutlived
  /\ NeverTooMany /\ RefusedOnlyAtLimit

\* An empty deque is within the limit.
LEMMA EmptyDeque == <<>> \in Seq(Nat) /\ Len(<<>>) <= MaxActions
<1>1. MaxActions \in Nat  BY SlidingWindowAssumption DEF SlidingWindowAssumption
<1>2. <<>> \in Seq(Nat) /\ Len(<<>>) = 0  OBVIOUS
<1>3. QED  BY <1>1, <1>2

\* The limiter starts with nothing admitted.
LEMMA RateInit == Init => RateInv
<1> SUFFICES ASSUME Init PROVE RateInv  OBVIOUS
<1>1. TypeOK  BY EmptyDeque DEF Init, TypeOK
<1>2. WindowIsSuffix /\ AdmittedInOrder /\ ForgottenOutlived  
  BY DEF Init, WindowIsSuffix, AdmittedInOrder, ForgottenOutlived
<1>3. NeverTooMany /\ RefusedOnlyAtLimit
  BY DEF Init, NeverTooMany, RefusedOnlyAtLimit
<1>4. QED  BY <1>1, <1>2, <1>3 DEF RateInv

\* reset forgets the deque together with the history.
LEMMA ResetStep ==
  ASSUME RateInv, Reset
  PROVE  RateInv'
<1>1. window' = <<>> /\ admitted' = <<>> /\ refused' = FALSE /\ now' \in Nat
  BY DEF Reset, RateInv, TypeOK
<1>2. TypeOK'  BY <1>1, EmptyDeque DEF TypeOK
<1>3. WindowIsSuffix' /\ AdmittedInOrder' /\ ForgottenOutlived'
  BY <1>1 DEF WindowIsSuffix, AdmittedInOrder, ForgottenOutlived
<1>4. NeverTooMany' /\ RefusedOnlyAtLimit'
  BY <1>1 DEF NeverTooMany, RefusedOnlyAtLimit
<1>5. QED  BY <1>2, <1>3, <1>4 DEF RateInv

\* Expired is the length of the leading run of outlived entries.
LEMMA ExpiredRun ==
  ASSUME NEW w \in Seq(Nat), NEW t \in Nat
  PROVE  /\ Expired(w, t) \in 0..Len(w)
         /\ \A j \in 1..Expired(w, t) : Outlived(w[j], t)
         /\ Expired(w, t) < Len(w) => ~Outlived(w[Expired(w, t) + 1], t)
<1> DEFINE T == {j \in 1..Len(w) : Outlived(w[j], t)}
           P(k) == /\ \A j \in 1..k : Outlived(w[j], t)
                   /\ k < Len(w) => ~Outlived(w[k + 1], t)
<1>1. Len(w) \in Nat  OBVIOUS
<1>2. PICK k \in 0..Len(w) : (\A j \in 1..k : j \in T) /\ (k < Len(w) => k + 1 \notin T)
  <2> HIDE DEF T
  <2>1. QED  BY <1>1, LongestRun
<1>3. P(k)  BY <1>1, <1>2
<1>4. Expired(w, t) = CHOOSE i \in 0..Len(w) : P(i)  BY DEF Expired
<1>5. QED  BY <1>3, <1>4

\* What is left of the deque is its tail after that run.
LEMMA PrunedTail ==
  ASSUME NEW w \in Seq(Nat), NEW t \in Nat
  PROVE  LET k == Expired(w, t) IN
         /\ Pruned(w, t) \in Seq(Nat)
         /\ Len(Pruned(w, t)) = Len(w) - k
         /\ \A i \in 1..Len(Pruned(w, t)) : Pruned(w, t)[i] = w[k + i]
<1> DEFINE k == Expired(w, t)
<1>1. k \in 0..Len(w) /\ Len(w) \in Nat  BY ExpiredRun
<1> HIDE DEF k
<1>2. k + 1 \in 1..(Len(w) + 1) /\ Len(w) - (k + 1) + 1 = Len(w) - k  BY <1>1
<1>3. \A i \in 1..(Len(w) - k) : k + 1 + i - 1 = k + i  BY <1>1
<1>4. Pruned(w, t) = SubSeq(w, k + 1, Len(w))  BY DEF Pruned, k
<1>5. QED  BY <1>2, <1>3, <1>4, TailFrom DEF k

\* After pruning at the new time, the deque is still a suffix of the history
\* and all it has forgotten has left the window.
LEMMA PruneKeepsSuffix ==
  ASSUME RateInv, NEW t \in Nat, now <= t
  PROVE  LET w == Pruned(window, t)
             d == Len(admitted) - Len(w)
         IN /\ w \in Seq(Nat) /\ Len(w) <= Len(window) /\ d \in Nat
            /\ \A i \in 1..Len(w) : w[i] = admitted[d + i]
            /\ \A i \in 1..d : Outlived(admitted[i], t)
            /\ \A i \in 1..Len(w) : ~Outlived(w[i], t)
<1> DEFINE w == Pruned(window, t)
           k == Expired(window, t)
           n == Len(admitted)
           d == n - Len(w)
           old == n - Len(window)
<1>1. window \in Seq(Nat) /\ admitted \in Seq(Nat) /\ now \in Nat
  BY DEF RateInv, TypeOK
<1>2. /\ k \in 0..Len(window)
      /\ \A j \in 1..k : Outlived(window[j], t)
      /\ k < Len(window) => ~Outlived(window[k + 1], t)
  BY <1>1, ExpiredRun
<1>3. /\ w \in Seq(Nat) /\ Len(w) = Len(window) - k
      /\ \A i \in 1..Len(w) : w[i] = window[k + i]
  BY <1>1, PrunedTail
<1>4. n \in Nat /\ Len(window) \in Nat /\ Len(w) \in Nat  BY <1>1, <1>3
<1>5. /\ Len(window) <= n
      /\ \A i \in 1..Len(window) : window[i] = admitted[old + i]
  BY DEF RateInv, WindowIsSuffix
<1> HIDE DEF w, k
<1>6. d = old + k /\ d \in Nat /\ Len(w) <= Len(window)  BY <1>2, <1>3, <1>4, <1>5
<1>7. \A i \in 1..Len(w) : w[i] = admitted[d + i]
  <2> SUFFICES ASSUME NEW i \in 1..Len(w) PROVE w[i] = admitted[d + i]  OBVIOUS
  <2>1. k + i \in 1..Len(window) /\ old + (k + i) = d + i  BY <1>2, <1>3, <1>4, <1>6
  <2>2. w[i] = window[k + i] /\ window[k + i] = admitted[old + (k + i)]
    BY <1>3, <1>5, <2>1
  <2>3. QED  BY <2>1, <2>2
<1>8. \A i \in 1..d : Outlived(admitted[i], t)
  <2> SUFFICES ASSUME NEW i \in 1..d PROVE Outlived(admitted[i], t)  OBVIOUS
  <2>1. CASE i <= old
    <3>1. i \in 1..old  BY <2>1, <1>4, <1>5, <1>6
    <3>2. Outlived(admitted[i], now)  BY <3>1 DEF RateInv, ForgottenOutlived
    <3>3. admitted[i] \in Nat  BY <1>1, <1>4, <1>6, <3>1
    <3>4. QED  BY <1>1, <3>2, <3>3, SlidingWindowAssumption DEF Outlived, SlidingWindowAssumption
  <2>2. CASE i > old
    <3>1. i - old \in 1..k /\ i - old \in 1..Len(window) /\ old + (i - old) = i
      BY <2>2, <1>2, <1>4, <1>5, <1>6
    <3>2. admitted[i] = window[i - old]  BY <1>5, <3>1
    <3>3. QED  BY <1>2, <3>1, <3>2
  <2>3. QED  BY <2>1, <2>2, <1>4, <1>6
<1>9. \A i \in 1..Len(w) : ~Outlived(w[i], t)
  <2> SUFFICES ASSUME NEW i \in 1..Len(w) PROVE ~Outlived(w[i], t)  OBVIOUS
  <2>1. k < Len(window) /\ 1 \in 1..Len(w)  BY <1>2, <1>3, <1>4
  <2>2. ~Outlived(w[1], t)  BY <1>2, <1>3, <2>1
  <2>3. d + 1 \in 1..n /\ d + i \in 1..n /\ d + 1 <= d + i  BY <1>4, <1>6
  <2>4. admitted[d + 1] <= admitted[d + i]
    BY <1>1, <2>3 DEF RateInv, AdmittedInOrder
  <2>5. w[1] <= w[i]  BY <1>7, <2>1, <2>4
  <2>6. w[1] \in Nat /\ w[i] \in Nat  BY <1>3, <2>1
  <2>7. QED  BY <2>2, <2>5, <2>6, SlidingWindowAssumption DEF Outlived, SlidingWindowAssumption
<1>10. QED  BY <1>3, <1>6, <1>7, <1>8, <1>9 DEF w

\* A refused call leaves the pruned deque, which is full of actions less
\* than an interval old.
LEMMA RefusedStep ==
  ASSUME RateInv, NEW after \in Nat, Allow(after), ~Admits(window, now')
  PROVE  RateInv'
<1> DEFINE w == Pruned(window, now')
           n == Len(admitted)
           d == n - Len(w)
<1>1. /\ admitted \in Seq(Nat) /\ window \in Seq(Nat) /\ Len(window) <= MaxActions
      /\ MaxActions \in Nat \ {0} /\ Interval \in Nat \ {0} /\ now \in Nat
      /\ now' \in Nat /\ now <= now'
  BY SlidingWindowAssumption DEF RateInv, TypeOK, Allow, SlidingWindowAssumption
<1>2. window' = w /\ admitted' = admitted /\ refused' = TRUE
  BY DEF Allow, After
<1>3. /\ w \in Seq(Nat) /\ Len(w) <= Len(window) /\ d \in Nat
      /\ \A i \in 1..Len(w) : w[i] = admitted[d + i]
      /\ \A i \in 1..d : Outlived(admitted[i], now')
      /\ \A i \in 1..Len(w) : ~Outlived(w[i], now')
  BY <1>1, PruneKeepsSuffix
<1>4. ~(Len(w) < MaxActions)  BY DEF Admits
<1> HIDE DEF w
<1>5. Len(w) = MaxActions /\ n \in Nat /\ Len(w) \in Nat  BY <1>1, <1>3, <1>4
<1>6. TypeOK'  BY <1>1, <1>2, <1>3, <1>5 DEF TypeOK
<1>7. WindowIsSuffix'  BY <1>2, <1>3, <1>5 DEF WindowIsSuffix
<1>8. AdmittedInOrder'
  <2>1. \A i \in DOMAIN admitted : admitted[i] <= now /\ admitted[i] \in Nat
    BY <1>1 DEF RateInv, AdmittedInOrder
  <2>2. QED  BY <1>1, <1>2, <2>1 DEF RateInv, AdmittedInOrder
<1>9. ForgottenOutlived'  BY <1>2, <1>3 DEF ForgottenOutlived
<1>10. NeverTooMany'  BY <1>2 DEF RateInv, NeverTooMany
<1>11. RefusedOnlyAtLimit'
  <2>1. 1 \in 1..Len(w) /\ n - MaxActions + 1 = d + 1 /\ d + 1 \in DOMAIN admitted
    BY <1>1, <1>3, <1>5
  <2>2. ~Outlived(admitted[d + 1], now')  BY <1>3, <2>1
  <2>3. admitted[d + 1] \in Nat  BY <1>1, <2>1
  <2>4. now' - admitted[n - MaxActions + 1] < Interval
    BY <1>1, <2>1, <2>2, <2>3 DEF Outlived
  <2>5. Len(admitted) >= MaxActions  BY <1>1, <1>3, <1>5
  <2>6. QED  BY <1>2, <2>4, <2>5 DEF RefusedOnlyAtLimit
<1>12. QED  BY <1>6, <1>7, <1>8, <1>9, <1>10, <1>11 DEF RateInv

\* An admitted call joins fewer than max_actions others: the one max_actions
\* before it has been forgotten, so it has left the window.
LEMMA AdmittedStep ==
  ASSUME RateInv, NEW after \in Nat, Allow(after), Admits(window, now')
  PROVE  RateInv'
<1> DEFINE w == Pruned(window, now')
           n == Len(admitted)
           d == n - Len(w)
<1>1. /\ admitted \in Seq(Nat) /\ window \in Seq(Nat) /\ Len(window) <= MaxActions
      /\ MaxActions \in Nat \ {0} /\ Interval \in Nat \ {0} /\ now \in Nat
      /\ now' \in Nat /\ now <= now'
  BY SlidingWindowAssumption DEF RateInv, TypeOK, Allow, SlidingWindowAssumption
<1>2. window' = Append(w, now') /\ admitted' = Append(admitted, now') /\ refused' = FALSE
  BY DEF Allow, After
<1>3. /\ w \in Seq(Nat) /\ Len(w) <= Len(window) /\ d \in Nat
      /\ \A i \in 1..Len(w) : w[i] = admitted[d + i]
      /\ \A i \in 1..d : Outlived(admitted[i], now')
  BY <1>1, PruneKeepsSuffix
<1>4. Len(w) < MaxActions  BY DEF Admits
<1> HIDE DEF w
<1>5. n \in Nat /\ Len(w) \in Nat  BY <1>1, <1>3
<1>6. /\ window' \in Seq(Nat) /\ Len(window') = Len(w) + 1
      /\ window'[Len(w) + 1] = now'
      /\ \A i \in 1..Len(w) : window'[i] = w[i]
  BY <1>1, <1>2, <1>3
<1>7. /\ admitted' \in Seq(Nat) /\ Len(admitted') = n + 1
      /\ admitted'[n + 1] = now'
      /\ \A i \in 1..n : admitted'[i] = admitted[i]
  BY <1>1, <1>2
<1>8. TypeOK'
  <2>1. Len(window') <= MaxActions  BY <1>1, <1>4, <1>5, <1>6
  <2>2. refused' \in BOOLEAN  BY <1>2
  <2>3. QED  BY <2>1, <2>2, <1>1, <1>6, <1>7 DEF TypeOK
<1>9. Len(admitted') - Len(window') = d  BY <1>5, <1>6, <1>7
<1>10. WindowIsSuffix'
  <2>1. Len(window') <= Len(admitted')  BY <1>3, <1>5, <1>6, <1>7
  <2>2. ASSUME NEW i \in 1..Len(window') PROVE window'[i] = admitted'[d + i]
    <3>1. CASE i = Len(w) + 1  BY <3>1, <1>5, <1>6, <1>7
    <3>2. CASE i \in 1..Len(w)
      <4>1. d + i \in 1..n  BY <3>2, <1>3, <1>5
      <4>2. QED  BY <3>2, <4>1, <1>3, <1>6, <1>7
    <3>3. QED  BY <3>1, <3>2, <1>5, <1>6
  <2>3. QED  BY <2>1, <2>2, <1>9 DEF WindowIsSuffix
<1>11. \A i \in 1..n : admitted[i] \in Nat /\ admitted[i] <= now'
  <2>1. \A i \in 1..n : admitted[i] \in Nat /\ admitted[i] <= now
    BY <1>1 DEF RateInv, AdmittedInOrder
  <2>2. QED  BY <2>1, <1>1
<1>12. AdmittedInOrder'
  <2>1. DOMAIN admitted' = 1..(n + 1) /\ DOMAIN admitted = 1..n  BY <1>1, <1>7
  <2>2. \A i, j \in 1..n : i <= j => admitted[i] <= admitted[j]
    BY <2>1 DEF RateInv, AdmittedInOrder
  <2>3. \A i \in 1..(n + 1) : i \in 1..n \/ i = n + 1  BY <1>5
  <2>4. \A i \in 1..(n + 1) : admitted'[i] <= now'
    <3>1. \A i \in 1..n : admitted'[i] <= now'  BY <1>7, <1>11
    <3>2. admitted'[n + 1] <= now'  BY <1>1, <1>7
    <3>3. QED  BY <2>3, <3>1, <3>2
  <2>5. ASSUME NEW i \in 1..(n + 1), NEW j \in 1..(n + 1), i <= j
        PROVE  admitted'[i] <= admitted'[j]
    <3>1. CASE j = n + 1  BY <3>1, <2>4, <1>7
    <3>2. CASE j \in 1..n  
      <4>1. i \in 1..n  BY <3>2, <2>5, <1>5
      <4>2. QED  BY <3>2, <4>1, <2>2, <2>5, <1>7
    <3>3. QED  BY <3>1, <3>2, <2>3
  <2>6. QED  BY <2>1, <2>4, <2>5 DEF AdmittedInOrder
<1>13. ForgottenOutlived'
  <2>1. \A i \in 1..d : i \in 1..n  BY <1>3, <1>5
  <2>2. QED  BY <2>1, <1>3, <1>7, <1>9 DEF ForgottenOutlived
<1>14. NeverTooMany'
  <2>1. DOMAIN admitted' = 1..(n + 1) /\ DOMAIN admitted = 1..n  BY <1>1, <1>7
  <2>2. ASSUME NEW i \in 1..(n + 1), i + MaxActions \in 1..(n + 1)
        PROVE  admitted'[i + MaxActions] - admitted'[i] >= Interval
    <3>1. i \in 1..n  BY <2>2, <1>1, <1>5
    <3>2. CASE i + MaxActions \in 1..n
      BY <3>1, <3>2, <2>1, <1>7 DEF RateInv, NeverTooMany
    <3>3. CASE i + MaxActions = n + 1
      <4>1. i \in 1..d  BY <3>1, <3>3, <1>1, <1>3, <1>4, <1>5
      <4>2. now' - admitted[i] >= Interval  BY <4>1, <1>3 DEF Outlived
      <4>3. QED  BY <3>1, <3>3, <4>2, <1>7
    <3>4. i + MaxActions \in 1..n \/ i + MaxActions = n + 1
      <4> DEFINE j == i + MaxActions
      <4>1. j \in 1..(n + 1)  BY <2>2
      <4> HIDE DEF j
      <4>2. j \in 1..n \/ j = n + 1  BY <1>5, <4>1
      <4>3. QED  BY <4>2 DEF j
    <3>5. QED  BY <3>2, <3>3, <3>4
  <2>3. QED  BY <2>1, <2>2 DEF NeverTooMany
<1>15. RefusedOnlyAtLimit'  BY <1>2 DEF RefusedOnlyAtLimit
<1>16. QED  BY <1>8, <1>10, <1>12, <1>13, <1>14, <1>15 DEF RateInv

\* Every call keeps the deque a suffix of the history.
LEMMA RateStep == RateInv /\ [Next]_vars => RateInv'
<1> SUFFICES ASSUME RateInv, [Next]_vars PROVE RateInv'  OBVIOUS
<1>1. CASE Reset  BY <1>1, ResetStep
<1>2. ASSUME NEW after \in Steps, Allow(after) PROVE RateInv'
  <2>1. after \in Nat  BY RateLimiterAssumption DEF RateLimiterAssumption
  <2>2. QED  BY <1>2, <2>1, RefusedStep, AdmittedStep
<1>3. CASE UNCHANGED vars
  BY <1>3 DEF vars, RateInv, TypeOK, WindowIsSuffix, AdmittedInOrder, ForgottenOutlived,
              NeverTooMany, RefusedOnlyAtLimit
<1>4. QED  BY <1>1, <1>2, <1>3 DEF Next

\* So it does in every reachable state.
LEMMA RateInvHolds == Spec => []RateInv
BY RateInit, RateStep, PTL DEF Spec

-----------------------------------------------------------------------------
(* The theorems about the limiter alone *)

\* Type correctness; the deque of SlidingWindowRateLimiter never holds more
\* than max_actions times.
THEOREM TypeCorrect == Spec => []TypeOK
<1>1. RateInv => TypeOK  BY DEF RateInv
<1>2. QED  BY <1>1, RateInvHolds, PTL

\* allow never admits more than max_actions actions within interval_ns.
THEOREM NeverExceeds == Spec => []NeverTooMany
<1>1. RateInv => NeverTooMany  BY DEF RateInv
<1>2. QED  BY <1>1, RateInvHolds, PTL

\* allow refuses only when max_actions admitted actions are within interval_ns.
THEOREM NeverRefusesEarly == Spec => []RefusedOnlyAtLimit
<1>1. RateInv => RefusedOnlyAtLimit  BY DEF RateInv
<1>2. QED  BY <1>1, RateInvHolds, PTL

-----------------------------------------------------------------------------
(* The limiter in the desk *)

\* The limiter's clock is the desk's at the latest order, never ahead of it.
LimiterInv == RateInv /\ now <= clock /\ clock \in Nat

\* The desk starts with a fresh limiter.
LEMMA LimiterInit == DeskInit => LimiterInv
<1> SUFFICES ASSUME DeskInit PROVE LimiterInv  OBVIOUS
<1>1. RateInv  BY RateInit DEF DeskInit
<1>2. now = 0 /\ clock = 0  BY DEF DeskInit, Init
<1>3. QED  BY <1>1, <1>2 DEF LimiterInv

\* Every step of the desk is a call of the limiter at the right time, or none.
LEMMA LimiterStep == LimiterInv /\ [DeskNext]_deskVars => LimiterInv'
<1> SUFFICES ASSUME LimiterInv, [DeskNext]_deskVars PROVE LimiterInv'  OBVIOUS
<1>1. now \in Nat /\ clock \in Nat /\ now <= clock  BY DEF LimiterInv, RateInv, TypeOK
<1>2. CASE UNCHANGED limiterVars
  <2>1. RateInv'  BY <1>2, RateStep DEF limiterVars, LimiterInv
  <2>2. now' = now  BY <1>2 DEF limiterVars, vars
  <2>3. clock' \in Nat /\ clock <= clock'
    <3>1. CASE clock' = clock  BY <1>1, <3>1
    <3>2. ASSUME NEW delay \in Steps, clock' = clock + delay
          PROVE  clock' \in Nat /\ clock <= clock'
      <4>1. delay \in Nat  BY RateLimiterAssumption DEF RateLimiterAssumption
      <4>2. QED  BY <1>1, <3>2, <4>1
    <3>3. QED  
      BY <3>1, <3>2 
         DEF DeskNext, Tick, CancelWorking, SubmitQuote, OwnFill, FeedFill, Filled, deskVars
  <2>4. QED  BY <1>1, <2>1, <2>2, <2>3 DEF LimiterInv
<1>3. ASSUME NEW side \in {"bid", "ask"}, SubmitQuote(side) PROVE LimiterInv'
  <2>1. Allow(clock - now) /\ clock' = clock  BY <1>3 DEF SubmitQuote
  <2>2. clock - now \in Nat  BY <1>1
  <2>3. RateInv'  BY <2>1, <2>2, RefusedStep, AdmittedStep DEF LimiterInv
  <2>4. now' = clock  BY <1>1, <2>1 DEF Allow
  <2>5. QED  BY <1>1, <2>1, <2>3, <2>4 DEF LimiterInv
<1>4. QED
  BY <1>2, <1>3 DEF DeskNext, Tick, CancelWorking, OwnFill, FeedFill, Filled, deskVars

-----------------------------------------------------------------------------
(* The theorems about the desk *)

\* The profit reported (risk.py:52-113) is what the fills and the mid say,
\* through closing and reversing fills of any size and sign, for any limits.
THEOREM ProfitIsTheFills == DeskSpec => ProfitBalances
<1>1. BooksInv => LotsAreThePosition /\ RealizedBalances  BY BooksImply
<1>2. BooksInv /\ [DeskNext]_deskVars =>
        [step = "idle" /\ fillCount' = fillCount =>
           \A m \in risk'.mid :
             risk'.realized + risk'.unrealized = cash' + risk'.inventory * m]_deskVars
  BY MarkedStep
<1>3. QED  BY <1>1, <1>2, BooksHold, PTL DEF ProfitBalances, MarkedToMid, DeskSpec

\* A halt of the risk engine or of a limiter, and a fault of the strategy,
\* reach the driver at once and are never lifted (risk.py:198,
\* backtester.py:390-408, 488-496).
THEOREM HaltStops == DeskSpec => []HaltReachesDriver /\ HaltIsFinal
<1>1. DeskInit => HaltReachesDriver
  BY DEF DeskInit, HaltReachesDriver, Risk!Fresh
<1>2. BooksInv /\ HaltReachesDriver /\ [DeskNext]_deskVars => HaltReachesDriver'
  BY HaltStep
<1>3. BooksInv /\ HaltReachesDriver /\ [DeskNext]_deskVars =>
        [ /\ halted => halted' /\ (step = "idle" => step' = "idle")
          /\ risk.halted => risk'.halted ]_deskVars
  BY HaltStep
<1>4. QED  BY <1>1, <1>2, <1>3, BooksHold, PTL DEF HaltIsFinal, DeskSpec

\* Where a refusal halts (halt_on_violation of both limits), the market maker
\* also leaves no quote behind that it has forgotten (market_maker.py:91-118).
THEOREM DeskStops ==
  ASSUME HaltOnRefusal = TRUE
  PROVE  DeskSpec => StoppedForGood
<1>1. DeskInit => OrdersKnown
  <2> SUFFICES ASSUME DeskInit PROVE OrdersKnown  OBVIOUS
  <2>1. step = "idle" /\ resting = <<>>  BY DEF DeskInit
  <2>2. DOMAIN resting = {}  BY <2>1
  <2>3. QED  BY <2>1, <2>2 DEF OrdersKnown
<1>2. BooksInv /\ HaltReachesDriver /\ OrdersKnown /\ [DeskNext]_deskVars => OrdersKnown'
  BY KnownStep
<1>3. OrdersKnown => NoOrphans  BY DEF OrdersKnown, NoOrphans, Known
<1>4. DeskSpec => [][DeskNext]_deskVars  BY PTL DEF DeskSpec
<1>5. DeskSpec => []OrdersKnown
  BY <1>1, <1>2, BooksHold, HaltStops, PTL DEF DeskSpec
<1>6. QED  BY <1>3, <1>5, HaltStops, PTL DEF StoppedForGood

\* In the desk too, whose rounds call it at times of their own, the limiter
\* admits never too many orders and refuses none too early.
THEOREM DeskLimited == DeskSpec => [](NeverTooMany /\ RefusedOnlyAtLimit)
<1>1. LimiterInv => NeverTooMany /\ RefusedOnlyAtLimit  BY DEF LimiterInv, RateInv
<1>2. QED  BY <1>1, LimiterInit, LimiterStep, PTL DEF DeskSpec

=============================================================================
