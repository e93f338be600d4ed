--------------------------- MODULE OrderBookProofs ---------------------------
(***************************************************************************)
(* Theorems about the C++ book and its Python adapter, for any prices,     *)
(* sizes, ids and pool: the vectors, indices, totals, pool and locator     *)
(* table agree after every call, and so does the adapter's table; and the  *)
(* book is the price-time-priority book of LimitBook.                      *)
(***************************************************************************)
EXTENDS NativeBook, Lemmas, FiniteSetTheorems

-----------------------------------------------------------------------------
(* Numbers and sequences *)

\* Max of zero and a number that is at least zero.
LEMMA AtLeastZero ==
  ASSUME NEW t \in Nat, NEW e \in Nat, e <= t
  PROVE  Max({0, t - e}) = t - e
<1> DEFINE S == {0, t - e}
<1>1. t - e \in S /\ \A y \in S : t - e >= y  OBVIOUS
<1>2. Max(S) \in S /\ \A y \in S : Max(S) >= y
  <2> HIDE DEF S
  <2>1. \E x \in S : \A y \in S : x >= y  BY <1>1
  <2>2. QED  BY <2>1 DEF Max
<1>3. Max(S) >= t - e /\ t - e >= Max(S) /\ Max(S) \in Int  BY <1>1, <1>2
<1>4. QED  BY <1>3

\* A sequence with one more element at the k-th position.
LEMMA InsertAtIs ==
  ASSUME NEW S, NEW q \in Seq(S), NEW k \in 1..(Len(q) + 1), NEW e \in S
  PROVE  /\ InsertAt(q, k, e) \in Seq(S)
         /\ Len(InsertAt(q, k, e)) = Len(q) + 1
         /\ \A i \in 1..(Len(q) + 1) :
              InsertAt(q, k, e)[i] = IF i < k THEN q[i] ELSE IF i = k THEN e ELSE q[i - 1]
<1> DEFINE n == Len(q)
           a == SubSeq(q, 1, k - 1)
           b == SubSeq(q, k, n)
<1>1. n \in Nat /\ k \in Int /\ 1 <= k /\ k <= n + 1  OBVIOUS
<1>2. a \in Seq(S) /\ Len(a) = k - 1 /\ \A i \in 1..(k - 1) : a[i] = q[i]
  <2>1. \A i \in 1..(k - 1) : q[i] \in S  BY <1>1
  <2>2. QED  BY <1>1, <2>1, SubSeqProperties
<1>3. b \in Seq(S) /\ Len(b) = n - k + 1 /\ \A i \in 1..(n - k + 1) : b[i] = q[k + i - 1]
  <2>1. \A i \in k..n : q[i] \in S  BY <1>1
  <2>2. QED  BY <1>1, <2>1, SubSeqProperties
<1>4. <<e>> \in Seq(S) /\ Len(<<e>>) = 1 /\ <<e>>[1] = e  OBVIOUS
<1> DEFINE c == <<e>>
           ac == a \o c
<1> HIDE DEF n, a, b, c
<1>5. /\ ac \in Seq(S) /\ Len(ac) = k
      /\ \A i \in 1..k : ac[i] = IF i < k THEN q[i] ELSE e
  <2>1. /\ ac \in Seq(S) /\ Len(ac) = Len(a) + Len(c)
        /\ \A i \in 1..(Len(a) + Len(c)) : ac[i] = IF i <= Len(a) THEN a[i] ELSE c[i - Len(a)]
    BY <1>2, <1>4, ConcatProperties DEF c
  <2>2. Len(a) + Len(c) = k  BY <1>1, <1>2, <1>4 DEF c
  <2>3. ASSUME NEW i \in 1..k PROVE ac[i] = IF i < k THEN q[i] ELSE e
    <3>1. CASE i < k  BY <1>1, <1>2, <2>1, <2>2, <3>1
    <3>2. CASE i = k
      <4>1. ~(i <= Len(a)) /\ i - Len(a) = 1  BY <1>1, <1>2, <3>2
      <4>2. QED  BY <1>4, <2>1, <2>2, <3>2, <4>1 DEF c
    <3>3. i < k \/ i = k  BY <1>1
    <3>4. QED  BY <3>1, <3>2, <3>3
  <2>4. QED  BY <2>1, <2>2, <2>3
<1> HIDE DEF ac
<1>6. /\ ac \o b \in Seq(S) /\ Len(ac \o b) = n + 1
      /\ \A i \in 1..(n + 1) : (ac \o b)[i] = IF i <= k THEN ac[i] ELSE b[i - k]
  <2>1. /\ ac \o b \in Seq(S) /\ Len(ac \o b) = Len(ac) + Len(b)
        /\ \A i \in 1..(Len(ac) + Len(b)) :
             (ac \o b)[i] = IF i <= Len(ac) THEN ac[i] ELSE b[i - Len(ac)]
    BY <1>3, <1>5, ConcatProperties
  <2>2. Len(ac) + Len(b) = n + 1  BY <1>1, <1>3, <1>5
  <2>3. QED  BY <1>5, <2>1, <2>2
<1>7. ASSUME NEW i \in 1..(n + 1)
      PROVE  (ac \o b)[i] = IF i < k THEN q[i] ELSE IF i = k THEN e ELSE q[i - 1]
  <2>1. CASE i <= k  BY <1>1, <1>5, <1>6, <2>1
  <2>2. CASE ~(i <= k)
    <3>1. i - k \in 1..(n - k + 1) /\ k + (i - k) - 1 = i - 1  BY <1>1, <2>2
    <3>2. b[i - k] = q[i - 1]  BY <1>3, <3>1
    <3>3. QED  BY <1>1, <1>6, <2>2, <3>2
  <2>3. QED  BY <2>1, <2>2
<1>8. InsertAt(q, k, e) = ac \o b  BY DEF InsertAt, a, b, c, ac, n
<1>9. QED  BY <1>6, <1>7, <1>8 DEF n

\* Taking an element out of a queue without repetitions is taking its place out.
LEMMA RemoveFirstIs ==
  ASSUME NEW S, NEW q \in Seq(S), IsInjective(q), NEW k \in 1..Len(q)
  PROVE  RemoveFirst(q, q[k]) = RemoveAt(q, k)
<1> DEFINE I == {i \in 1..Len(q) : q[i] = q[k]}
<1>1. I = {k}
  <2>1. DOMAIN q = 1..Len(q)  OBVIOUS
  <2>2. QED  BY <2>1 DEF IsInjective
<1>2. Min({k}) = k
  <2>1. \A x \in {k} : (\A y \in {k} : x =< y) => x = k  OBVIOUS
  <2>2. \E x \in {k} : \A y \in {k} : x =< y  OBVIOUS
  <2>3. QED  BY <2>1, <2>2 DEF Min
<1>3. SelectInSeq(q, LAMBDA v : v = q[k]) = k
  <2>1. SelectInSeq(q, LAMBDA v : v = q[k]) = IF I # {} THEN Min(I) ELSE 0
    BY DEF SelectInSeq
  <2>2. QED  BY <1>1, <1>2, <2>1
<1>4. \E i \in 1..Len(q) : q[i] = q[k]  OBVIOUS
<1>5. QED  BY <1>3, <1>4 DEF RemoveFirst

-----------------------------------------------------------------------------
(* What the orders of a queue show *)

\* ShownUpTo adds one order after the other.
LEMMA ShownUpToIs ==
  ASSUME NEW S, NEW pool, \A x \in S : pool[x].qty \in Nat, NEW queue \in Seq(S)
  PROVE  /\ ShownUpTo(pool, queue) \in [0..Len(queue) -> Nat]
         /\ ShownUpTo(pool, queue)[0] = 0
         /\ \A i \in 1..Len(queue) : ShownUpTo(pool, queue)[i] =
              ShownUpTo(pool, queue)[i - 1] + pool[queue[i]].qty
<1> DEFINE n == Len(queue)
           turn == [i \in 1..n |-> [sum \in Nat |-> sum + pool[queue[i]].qty]]
           Good == [i \in 0..n |-> Nat]
           Body(g) == [i \in 0..n |-> IF i = 0 THEN 0 ELSE g[i - 1] + pool[queue[i]].qty]
           m == ShownUpTo(pool, queue)
<1>1. n \in Nat /\ \A i \in 1..n : pool[queue[i]].qty \in Nat  OBVIOUS
<1> HIDE DEF n
<1>2. PICK f \in [0..n -> Nat] : IsRun(f, n, 0, turn)
  <2>1. 0 \in Good[0]  BY <1>1
  <2>2. ASSUME NEW i \in 1..n, NEW x \in Good[i - 1] PROVE turn[i][x] \in Good[i]
    <3>1. i - 1 \in 0..n /\ i \in 0..n  BY <1>1
    <3>2. x \in Nat  BY <3>1
    <3>3. QED  BY <1>1, <3>1, <3>2
  <2>3. Good \in [0..n -> SUBSET Nat]  OBVIOUS
  <2> HIDE DEF turn, Good
  <2>4. QED  BY <1>1, <2>1, <2>2, <2>3, LoopKeeps
<1>3. \A i \in 0..n : f[i] \in Nat  BY <1>2
<1>4. f = Body(f)
  <2>1. ASSUME NEW i \in 1..n PROVE f[i] = f[i - 1] + pool[queue[i]].qty
    <3>1. i - 1 \in 0..n  BY <1>1
    <3>2. f[i - 1] \in Nat  BY <1>3, <3>1
    <3>3. QED  BY <1>2, <3>2 DEF IsRun
  <2>2. \A i \in 0..n : i # 0 => i \in 1..n  BY <1>1
  <2>3. \A i \in 0..n : f[i] = Body(f)[i]  BY <1>2, <2>1, <2>2 DEF IsRun
  <2>4. QED  BY <2>3
<1>5. m = CHOOSE g : g = Body(g)  BY DEF ShownUpTo, n
<1>6. m = Body(m)
  <2> HIDE DEF Body, m
  <2>1. (CHOOSE g : g = Body(g)) = Body(CHOOSE g : g = Body(g))  BY <1>4
  <2>2. QED  BY <1>5, <2>1
<1> HIDE DEF m
<1>7. m[0] = 0 /\ \A i \in 1..n : m[i] = m[i - 1] + pool[queue[i]].qty
  <2>1. 0 \in 0..n /\ \A i \in 1..n : i \in 0..n /\ i # 0  BY <1>1
  <2>2. QED  BY <1>6, <2>1
<1>8. \A i \in 0..n : m[i] \in Nat
  <2> DEFINE T == {i \in 0..n : m[i] \in Nat}
  <2>1. 0 \in T  BY <1>1, <1>7
  <2>2. ASSUME NEW i \in 0..n, i < n, i \in T PROVE i + 1 \in T
    <3>1. i + 1 \in 1..n /\ i + 1 \in 0..n /\ (i + 1) - 1 = i  BY <1>1, <2>2
    <3>2. m[i + 1] = m[i] + pool[queue[i + 1]].qty  BY <1>7, <3>1
    <3>3. QED  BY <1>1, <2>2, <3>1, <3>2
  <2> HIDE DEF T
  <2>3. \A i \in 0..n : i \in T  BY <1>1, <2>1, <2>2, UpTo
  <2>4. QED  BY <2>3 DEF T
<1>9. m \in [0..n -> Nat]  BY <1>6, <1>8
<1>10. QED  BY <1>7, <1>9 DEF m, n

\* The first n of two queues show the same if each order does.
LEMMA ShownSame ==
  ASSUME NEW S, NEW pool, \A x \in S : pool[x].qty \in Nat, NEW queue \in Seq(S),
         NEW later, \A x \in S : later[x].qty \in Nat, NEW rest \in Seq(S),
         NEW n \in Nat, n <= Len(queue), n <= Len(rest),
         \A i \in 1..n : pool[queue[i]].qty = later[rest[i]].qty
  PROVE  ShownUpTo(pool, queue)[n] = ShownUpTo(later, rest)[n]
<1> DEFINE a == ShownUpTo(pool, queue)
           b == ShownUpTo(later, rest)
           Same == {i \in 0..n : a[i] = b[i]}
<1>1. a[0] = 0 /\ \A i \in 1..Len(queue) : a[i] = a[i - 1] + pool[queue[i]].qty
  BY ShownUpToIs
<1>2. b[0] = 0 /\ \A i \in 1..Len(rest) : b[i] = b[i - 1] + later[rest[i]].qty
  BY ShownUpToIs
<1>3. Len(queue) \in Nat /\ Len(rest) \in Nat  OBVIOUS
<1> HIDE DEF a, b
<1>4. 0 \in Same  BY <1>1, <1>2
<1>5. ASSUME NEW i \in 0..n, i < n, i \in Same PROVE i + 1 \in Same
  <2>1. /\ i + 1 \in 1..n /\ i + 1 \in 0..n /\ i + 1 - 1 = i
        /\ i + 1 \in 1..Len(queue) /\ i + 1 \in 1..Len(rest)
    BY <1>3, <1>5
  <2>2. a[i + 1] = a[i] + pool[queue[i + 1]].qty  BY <1>1, <2>1
  <2>3. b[i + 1] = b[i] + later[rest[i + 1]].qty  BY <1>2, <2>1
  <2>4. pool[queue[i + 1]].qty = later[rest[i + 1]].qty  BY <2>1
  <2>5. QED  BY <1>5, <2>1, <2>2, <2>3, <2>4
<1> HIDE DEF Same
<1>6. \A i \in 0..n : i \in Same  BY <1>4, <1>5, UpTo
<1>7. QED  BY <1>6 DEF Same, a, b

\* What a queue shows is a quantity, no less than what one order of it shows,
\* and depends on nothing but the quantities of its orders.
LEMMA ShownFacts ==
  ASSUME NEW S, NEW pool, \A x \in S : pool[x].qty \in Nat, NEW queue \in Seq(S)
  PROVE  /\ Shown(pool, queue) \in Nat
         /\ queue = <<>> => Shown(pool, queue) = 0
<1>1. Len(queue) \in Nat  OBVIOUS
<1>2. Len(queue) \in 0..Len(queue)  BY <1>1
<1>3. queue = <<>> => Len(queue) = 0  OBVIOUS
<1>4. QED  BY <1>2, <1>3, ShownUpToIs DEF Shown

\* An order at the end adds what it shows.
LEMMA ShownAppend ==
  ASSUME NEW S, NEW pool, \A x \in S : pool[x].qty \in Nat, NEW queue \in Seq(S), NEW x \in S
  PROVE  Shown(pool, Append(queue, x)) = Shown(pool, queue) + pool[x].qty
<1> DEFINE n == Len(queue)
           more == Append(queue, x)
<1>1. /\ n \in Nat /\ more \in Seq(S) /\ Len(more) = n + 1 /\ more[n + 1] = x
      /\ \A i \in 1..n : more[i] = queue[i]
  OBVIOUS
<1> HIDE DEF more
<1>2. ShownUpTo(pool, more)[n + 1] = ShownUpTo(pool, more)[n] + pool[x].qty
  <2>1. n + 1 \in 1..Len(more) /\ n + 1 - 1 = n  BY <1>1
  <2>2. QED  BY <1>1, <2>1, ShownUpToIs
<1>3. ShownUpTo(pool, more)[n] = ShownUpTo(pool, queue)[n]
  <2>1. n <= Len(more) /\ n <= Len(queue)  BY <1>1
  <2>2. \A i \in 1..n : pool[more[i]].qty = pool[queue[i]].qty  BY <1>1
  <2>3. QED  BY <1>1, <2>1, <2>2, ShownSame
<1>4. QED  BY <1>1, <1>2, <1>3 DEF Shown, more

\* Without its k-th order, a queue shows that much less.
LEMMA ShownRemove ==
  ASSUME NEW S, NEW pool, \A x \in S : pool[x].qty \in Nat, NEW queue \in Seq(S),
         NEW k \in 1..Len(queue)
  PROVE  Shown(pool, queue) = Shown(pool, RemoveAt(queue, k)) + pool[queue[k]].qty
<1> DEFINE n == Len(queue)
           rest == RemoveAt(queue, k)
           a == ShownUpTo(pool, queue)
           b == ShownUpTo(pool, rest)
           gone == pool[queue[k]].qty
           T == {i \in 0..(n - 1) : IF i < k THEN b[i] = a[i] ELSE b[i] + gone = a[i + 1]}
<1>1. /\ rest \in Seq(S) /\ Len(rest) = n - 1
      /\ \A i \in 1..(n - 1) : rest[i] = IF i < k THEN queue[i] ELSE queue[i + 1]
  BY RemoveAtIs
<1>2. /\ a[0] = 0 /\ \A i \in 1..n : a[i] = a[i - 1] + pool[queue[i]].qty
      /\ \A i \in 0..n : a[i] \in Nat
  BY ShownUpToIs
<1> HIDE DEF rest
<1>3. /\ b[0] = 0 /\ \A i \in 1..(n - 1) : b[i] = b[i - 1] + pool[rest[i]].qty
      /\ \A i \in 0..(n - 1) : b[i] \in Nat
  <2>1. /\ b[0] = 0 /\ \A i \in 1..Len(rest) : b[i] = b[i - 1] + pool[rest[i]].qty
        /\ b \in [0..Len(rest) -> Nat]
    BY <1>1, ShownUpToIs
  <2>2. QED  BY <1>1, <2>1
<1>4. n \in Nat /\ n - 1 \in Nat /\ k \in Int /\ 1 <= k /\ k <= n  OBVIOUS
<1>5. \A i \in 1..n : pool[queue[i]].qty \in Nat  OBVIOUS
<1>6. gone \in Nat /\ a[k] = a[k - 1] + gone  BY <1>2, <1>5
<1> HIDE DEF n, a, b, gone
<1>7. 0 \in T  BY <1>2, <1>3, <1>4
<1>8. ASSUME NEW i \in 0..(n - 1), i < n - 1, i \in T PROVE i + 1 \in T
  <2>1. i + 1 \in 1..(n - 1) /\ i + 1 \in 0..(n - 1) /\ i + 1 - 1 = i  BY <1>4, <1>8
  <2>2. /\ i + 1 \in 1..n /\ i + 2 \in 1..n /\ i + 2 - 1 = i + 1 /\ i + 1 + 1 = i + 2
        /\ i \in 0..n /\ i + 1 \in 0..n /\ i + 2 \in 0..n
    BY <1>4, <1>8
  <2>3. b[i + 1] = b[i] + pool[rest[i + 1]].qty  BY <1>3, <2>1
  <2>4. a[i + 1] = a[i] + pool[queue[i + 1]].qty /\ a[i + 2] = a[i + 1] + pool[queue[i + 2]].qty
    BY <1>2, <2>2
  <2>5. /\ a[i] \in Nat /\ a[i + 1] \in Nat /\ a[i + 2] \in Nat
        /\ b[i] \in Nat /\ b[i + 1] \in Nat
        /\ pool[queue[i + 1]].qty \in Nat /\ pool[queue[i + 2]].qty \in Nat
    BY <1>2, <1>3, <1>5, <2>1, <2>2
  <2>6. CASE i + 1 < k
    <3>1. i < k  BY <1>4, <2>6
    <3>2. rest[i + 1] = queue[i + 1] /\ b[i] = a[i]  BY <1>1, <1>8, <2>1, <2>6, <3>1
    <3>3. b[i + 1] = a[i + 1]  BY <2>3, <2>4, <3>2
    <3>4. QED  BY <2>1, <2>6, <3>3
  <2>7. CASE i + 1 = k
    <3>1. i < k /\ ~(i + 1 < k)  BY <1>4, <2>7
    <3>2. rest[i + 1] = queue[i + 2] /\ b[i] = a[i]  BY <1>1, <1>8, <2>1, <2>2, <3>1
    <3>3. a[i + 1] = a[i] + gone  BY <1>6, <2>1, <2>7
    <3>4. pool[rest[i + 1]].qty = pool[queue[i + 2]].qty  BY <3>2
    <3>5. b[i + 1] + gone = a[i + 2]
      <4> DEFINE q == pool[queue[i + 2]].qty
      <4>1. b[i + 1] = a[i] + q /\ a[i + 2] = (a[i] + gone) + q  BY <2>3, <2>4, <3>2, <3>3, <3>4
      <4>2. a[i] \in Nat /\ gone \in Nat /\ q \in Nat  BY <1>6, <2>5
      <4> HIDE DEF q
      <4>3. QED  BY <4>1, <4>2
    <3>6. QED  BY <2>1, <2>2, <3>1, <3>5
  <2>8. CASE i + 1 > k
    <3>1. ~(i < k) /\ ~(i + 1 < k)  BY <1>4, <2>8
    <3>2. rest[i + 1] = queue[i + 2] /\ b[i] + gone = a[i + 1]  BY <1>1, <1>8, <2>1, <2>2, <3>1
    <3>3. pool[rest[i + 1]].qty = pool[queue[i + 2]].qty  BY <3>2
    <3>4. b[i + 1] + gone = a[i + 2]
      <4> DEFINE q == pool[queue[i + 2]].qty
      <4>1. b[i + 1] = b[i] + q /\ a[i + 2] = (b[i] + gone) + q  BY <2>3, <2>4, <3>2, <3>3
      <4>2. b[i] \in Nat /\ gone \in Nat /\ q \in Nat  BY <1>6, <2>5
      <4> HIDE DEF q
      <4>3. QED  BY <4>1, <4>2
    <3>5. QED  BY <2>1, <2>2, <3>1, <3>4
  <2>9. QED  BY <1>4, <2>6, <2>7, <2>8
<1> HIDE DEF T
<1>9. \A i \in 0..(n - 1) : i \in T  BY <1>4, <1>7, <1>8, UpTo
<1>10. b[n - 1] + gone = a[n]
  <2>1. n - 1 \in T /\ n - 1 + 1 = n  BY <1>4, <1>9
  <2>2. CASE n - 1 < k
    <3>1. n = k  BY <1>4, <2>2
    <3>2. QED  BY <1>6, <2>1, <2>2, <3>1 DEF T
  <2>3. CASE ~(n - 1 < k)  BY <2>1, <2>3 DEF T
  <2>4. QED  BY <2>2, <2>3
<1>11. QED  BY <1>1, <1>10 DEF Shown, a, b, n, gone, rest

\* When one order gives up part of what it shows, so does its queue.
LEMMA ShownTake ==
  ASSUME NEW S, NEW pool, \A x \in S : pool[x].qty \in Nat, NEW queue \in Seq(S),
         NEW k \in 1..Len(queue), NEW later, \A x \in S : later[x].qty \in Nat, NEW e \in Nat,
         pool[queue[k]].qty = later[queue[k]].qty + e,
         \A i \in 1..Len(queue) : i # k => later[queue[i]].qty = pool[queue[i]].qty
  PROVE  Shown(pool, queue) = Shown(later, queue) + e
<1> DEFINE rest == RemoveAt(queue, k)
<1>1. Shown(pool, queue) = Shown(pool, rest) + pool[queue[k]].qty  BY ShownRemove
<1>2. Shown(later, queue) = Shown(later, rest) + later[queue[k]].qty  BY ShownRemove
<1>3. /\ rest \in Seq(S) /\ Len(rest) = Len(queue) - 1
      /\ \A i \in 1..(Len(queue) - 1) : rest[i] = IF i < k THEN queue[i] ELSE queue[i + 1]
  BY RemoveAtIs
<1> HIDE DEF rest
<1>4. Shown(pool, rest) = Shown(later, rest)
  <2>1. \A i \in 1..Len(rest) : pool[rest[i]].qty = later[rest[i]].qty
    <3>1. ASSUME NEW i \in 1..Len(rest) PROVE pool[rest[i]].qty = later[rest[i]].qty
      <4>1. i \in 1..(Len(queue) - 1) /\ i \in 1..Len(queue) /\ i + 1 \in 1..Len(queue)
        BY <1>3
      <4>2. CASE i < k
        <5>1. i # k  BY <4>2
        <5>2. QED  BY <1>3, <4>1, <4>2, <5>1
      <4>3. CASE ~(i < k)
        <5>1. i + 1 # k  BY <4>3
        <5>2. QED  BY <1>3, <4>1, <4>3, <5>1
      <4>4. QED  BY <4>2, <4>3
    <3>2. QED  BY <3>1
  <2> DEFINE n == Len(rest)
  <2>2. rest \in Seq(S) /\ n \in Nat /\ n <= Len(rest)  BY <1>3
  <2>3. \A i \in 1..n : pool[rest[i]].qty = later[rest[i]].qty  BY <2>1
  <2> HIDE DEF n
  <2>4. ShownUpTo(pool, rest)[n] = ShownUpTo(later, rest)[n]  BY <2>2, <2>3, ShownSame
  <2>5. QED  BY <2>4 DEF Shown, n
<1>5. queue[k] \in S /\ Shown(later, rest) \in Nat  BY <1>3, ShownFacts
<1>6. QED  BY <1>1, <1>2, <1>4, <1>5

-----------------------------------------------------------------------------
(* The book by price: pool D, levels B[side][price] and locators L.  The      *)
(* vectors and their indices are one way to keep B.                           *)

Order == [id : Ids, qty : Nat]
Level == [price : Ticks, queue : Seq(Nodes), total : Nat]
Located == [active : {TRUE}, side : Side, price : Ticks, node : Nodes]

Pools == UNION {[N -> Order] : N \in SUBSET Nodes}
Shelves == UNION {[P -> Level] : P \in SUBSET Ticks}
Tables == [Ids -> Located \cup {NoLocator}]

\* Places of one queue, and of different queues, hold different nodes.
QueuesApart(B) ==
  \A s, t \in Side : \A p \in DOMAIN B[s], r \in DOMAIN B[t] :
    \A k \in 1..Len(B[s][p].queue), l \in 1..Len(B[t][r].queue) :
      B[s][p].queue[k] = B[t][r].queue[l] => s = t /\ p = r /\ k = l

\* The nodes that rest are the acquired ones.
PoolRests(D, B) ==
  /\ \A s \in Side : \A p \in DOMAIN B[s] : \A k \in 1..Len(B[s][p].queue) :
       B[s][p].queue[k] \in DOMAIN D
  /\ \A n \in DOMAIN D : \E s \in Side : \E p \in DOMAIN B[s] :
       \E k \in 1..Len(B[s][p].queue) : B[s][p].queue[k] = n

\* Levels stand under their price and cache what their orders show.
LevelsRight(D, B) ==
  \A s \in Side : \A p \in DOMAIN B[s] :
    B[s][p].price = p /\ B[s][p].total = Shown(D, B[s][p].queue)

\* A locator leads to a node that rests in its level under its id.
LocatorsLead(D, B, L) ==
  \A id \in Ids : L[id] \in Located =>
    /\ L[id].price \in DOMAIN B[L[id].side]
    /\ \E k \in 1..Len(B[L[id].side][L[id].price].queue) :
         B[L[id].side][L[id].price].queue[k] = L[id].node
    /\ D[L[id].node].id = id

\* An order whose id is not reused is where its locator says.
UniqueFound(D, L) ==
  \A n \in DOMAIN D : D[n].id \in UniqueIds => L[D[n].id] \in Located /\ L[D[n].id].node = n

\* Pool, levels and locators fit together.
Shelved(D, B, L) ==
  /\ D \in Pools /\ B \in [Side -> Shelves] /\ L \in Tables
  /\ QueuesApart(B) /\ PoolRests(D, B) /\ LevelsRight(D, B)
  /\ LocatorsLead(D, B, L) /\ UniqueFound(D, L)

\* The level at p on side s is now `level`, or is gone.
Put(B, s, p, level) ==
  [t \in Side |-> IF t = s THEN [r \in DOMAIN B[t] \cup {p} |-> IF r = p THEN level ELSE B[t][r]]
                  ELSE B[t]]
Drop(B, s, p) ==
  [t \in Side |-> IF t = s THEN Restrict(B[t], DOMAIN B[t] \ {p}) ELSE B[t]]

\* A pool and a shelf, from the orders and levels they hold.
LEMMA PoolIs ==
  ASSUME NEW N \in SUBSET Nodes, NEW D, D = [n \in N |-> D[n]], \A n \in N : D[n] \in Order
  PROVE  D \in Pools
<1>1. D \in [N -> Order]  OBVIOUS
<1>2. QED  BY <1>1 DEF Pools

\* What a pool holds.
LEMMA PoolHas ==
  ASSUME NEW D \in Pools
  PROVE  /\ DOMAIN D \in SUBSET Nodes /\ D = [n \in DOMAIN D |-> D[n]]
         /\ \A n \in DOMAIN D : D[n] \in Order /\ D[n].id \in Ids /\ D[n].qty \in Nat
<1>1. PICK N \in SUBSET Nodes : D \in [N -> Order]  BY DEF Pools
<1>2. DOMAIN D = N /\ \A n \in N : D[n] \in Order  BY <1>1
<1>3. \A o \in Order : o.id \in Ids /\ o.qty \in Nat  BY DEF Order
<1> HIDE DEF Order
<1>4. D = [n \in DOMAIN D |-> D[n]]  BY <1>1
<1>5. QED  BY <1>2, <1>3, <1>4

\* A shelf, from the levels it holds.
LEMMA ShelfIs ==
  ASSUME NEW P \in SUBSET Ticks, NEW f, f = [p \in P |-> f[p]], \A p \in P : f[p] \in Level
  PROVE  f \in Shelves
<1>1. f \in [P -> Level]  OBVIOUS
<1>2. QED  BY <1>1 DEF Shelves

\* What a shelf holds.
LEMMA ShelfHas ==
  ASSUME NEW f \in Shelves
  PROVE  /\ DOMAIN f \in SUBSET Ticks /\ f = [p \in DOMAIN f |-> f[p]]
         /\ \A p \in DOMAIN f : /\ f[p] \in Level /\ f[p].price \in Ticks
                                /\ f[p].queue \in Seq(Nodes) /\ f[p].total \in Nat
                                /\ Len(f[p].queue) \in Nat
<1>1. PICK P \in SUBSET Ticks : f \in [P -> Level]  BY DEF Shelves
<1>2. DOMAIN f = P /\ \A p \in P : f[p] \in Level  BY <1>1
<1>3. \A l \in Level : /\ l.price \in Ticks /\ l.queue \in Seq(Nodes) /\ l.total \in Nat
                       /\ Len(l.queue) \in Nat
  BY DEF Level
<1> HIDE DEF Level
<1>4. f = [p \in DOMAIN f |-> f[p]]  BY <1>1
<1>5. QED  BY <1>2, <1>3, <1>4

\* What Put and Drop leave.
LEMMA PutIs ==
  ASSUME NEW B \in [Side -> Shelves], NEW s \in Side, NEW p \in Ticks, NEW level \in Level
  PROVE  /\ Put(B, s, p, level) \in [Side -> Shelves]
         /\ DOMAIN Put(B, s, p, level)[s] = DOMAIN B[s] \cup {p}
         /\ \A t \in Side : t # s => Put(B, s, p, level)[t] = B[t]
         /\ Put(B, s, p, level)[s][p] = level
         /\ \A r \in DOMAIN B[s] : r # p => Put(B, s, p, level)[s][r] = B[s][r]
<1> DEFINE f == [r \in DOMAIN B[s] \cup {p} |-> IF r = p THEN level ELSE B[s][r]]
           C == Put(B, s, p, level)
<1>1. /\ DOMAIN f = DOMAIN B[s] \cup {p} /\ f[p] = level
      /\ \A r \in DOMAIN B[s] : r # p => f[r] = B[s][r]
  OBVIOUS
<1>2. B[s] \in Shelves  OBVIOUS
<1>3. f \in Shelves
  <2>1. DOMAIN B[s] \cup {p} \in SUBSET Ticks  BY <1>2, ShelfHas
  <2>2. \A r \in DOMAIN B[s] \cup {p} : f[r] \in Level  BY <1>2, ShelfHas
  <2>3. f = [r \in DOMAIN B[s] \cup {p} |-> f[r]]  OBVIOUS
  <2> HIDE DEF f
  <2>4. QED  BY <2>1, <2>2, <2>3, ShelfIs
<1>4. C[s] = f /\ \A t \in Side : t # s => C[t] = B[t]  BY DEF Put
<1>5. C \in [Side -> Shelves]
  <2>1. C = [t \in Side |-> C[t]]  BY DEF Put
  <2>2. \A t \in Side : C[t] \in Shelves  BY <1>3, <1>4
  <2> HIDE DEF C
  <2>3. QED  BY <2>1, <2>2
<1>6. QED  BY <1>1, <1>4, <1>5

\* The shelves after a level went.
LEMMA DropIs ==
  ASSUME NEW B \in [Side -> Shelves], NEW s \in Side, NEW p
  PROVE  /\ Drop(B, s, p) \in [Side -> Shelves]
         /\ DOMAIN Drop(B, s, p)[s] = DOMAIN B[s] \ {p}
         /\ \A t \in Side : t # s => Drop(B, s, p)[t] = B[t]
         /\ \A r \in DOMAIN B[s] : r # p => Drop(B, s, p)[s][r] = B[s][r]
<1> DEFINE f == Restrict(B[s], DOMAIN B[s] \ {p})
           C == Drop(B, s, p)
<1>1. /\ DOMAIN f = DOMAIN B[s] \ {p} /\ f = [r \in DOMAIN B[s] \ {p} |-> f[r]]
      /\ \A r \in DOMAIN B[s] : r # p => f[r] = B[s][r]
  BY DEF Restrict
<1>2. B[s] \in Shelves  OBVIOUS
<1> HIDE DEF f
<1>3. f \in Shelves
  <2>1. DOMAIN B[s] \ {p} \in SUBSET Ticks  BY <1>2, ShelfHas
  <2>2. \A r \in DOMAIN B[s] \ {p} : f[r] \in Level  BY <1>1, <1>2, ShelfHas
  <2>3. QED  BY <1>1, <2>1, <2>2, ShelfIs
<1>4. C[s] = f /\ \A t \in Side : t # s => C[t] = B[t]  BY DEF Drop, f
<1>5. C \in [Side -> Shelves]
  <2>1. C = [t \in Side |-> C[t]]  BY DEF Drop
  <2>2. \A t \in Side : C[t] \in Shelves  BY <1>3, <1>4
  <2> HIDE DEF C
  <2>3. QED  BY <2>1, <2>2
<1>6. QED  BY <1>1, <1>4, <1>5

\* A locator is active if it is located.
LEMMA LocatorIs ==
  ASSUME NEW L \in Tables, NEW id \in Ids
  PROVE  /\ L[id].active <=> L[id] \in Located
         /\ L[id] \in Located => /\ L[id].side \in Side /\ L[id].price \in Ticks
                                 /\ L[id].node \in Nodes
         /\ L[id] \notin Located => L[id] = NoLocator
<1>1. L[id] \in Located \cup {NoLocator}  BY DEF Tables
<1>2. \A x \in Located : x.active = TRUE /\ x.side \in Side /\ x.price \in Ticks /\ x.node \in Nodes
  BY DEF Located
<1>3. NoLocator.active = FALSE  BY DEF NoLocator
<1> HIDE DEF Located, NoLocator
<1>4. QED  BY <1>1, <1>2, <1>3

\* An entry of the locator table is written.
LEMMA TableIs ==
  ASSUME NEW L \in Tables, NEW id \in Ids, NEW x \in Located \cup {NoLocator}
  PROVE  /\ [L EXCEPT ![id] = x] \in Tables
         /\ [L EXCEPT ![id] = x][id] = x
         /\ \A j \in Ids : j # id => [L EXCEPT ![id] = x][j] = L[j]
BY DEF Tables

\* An id's locator is forgotten.
LEMMA ForgetIs ==
  ASSUME NEW L \in Tables, NEW id \in Ids
  PROVE  /\ Forget(L, id) \in Tables
         /\ Forget(L, id)[id] = NoLocator
         /\ \A j \in Ids : j # id => Forget(L, id)[j] = L[j]
BY DEF Forget, Tables

\* Of the pools with one more node, and one less.
LEMMA AcquireIs ==
  ASSUME NEW D \in Pools, NEW n \in Nodes, n \notin DOMAIN D, NEW o \in Order
  PROVE  /\ Acquire(D, n, o) \in Pools
         /\ DOMAIN Acquire(D, n, o) = DOMAIN D \cup {n}
         /\ Acquire(D, n, o)[n] = o
         /\ \A m \in DOMAIN D : Acquire(D, n, o)[m] = D[m]
<1> DEFINE A == Acquire(D, n, o)
<1>1. /\ DOMAIN A = DOMAIN D \cup {n} /\ A[n] = o /\ \A m \in DOMAIN D : A[m] = D[m]
      /\ A = [m \in DOMAIN D \cup {n} |-> A[m]]
  BY DEF Acquire
<1> HIDE DEF A
<1>2. DOMAIN D \in SUBSET Nodes /\ \A m \in DOMAIN D : D[m] \in Order  BY PoolHas
<1>3. \A m \in DOMAIN D \cup {n} : A[m] \in Order  BY <1>1, <1>2
<1>4. DOMAIN D \cup {n} \in SUBSET Nodes  BY <1>2
<1>5. A \in Pools  BY <1>1, <1>3, <1>4, PoolIs
<1>6. QED  BY <1>1, <1>5 DEF A

\* The pool after a node was given back.
LEMMA ReleaseIs ==
  ASSUME NEW D \in Pools, NEW n
  PROVE  /\ Release(D, n) \in Pools
         /\ DOMAIN Release(D, n) = DOMAIN D \ {n}
         /\ \A m \in DOMAIN D : m # n => Release(D, n)[m] = D[m]
<1> DEFINE A == Release(D, n)
<1>1. /\ DOMAIN A = DOMAIN D \ {n} /\ \A m \in DOMAIN D : m # n => A[m] = D[m]
      /\ A = [m \in DOMAIN D \ {n} |-> A[m]]
  BY DEF Release, Restrict
<1> HIDE DEF A
<1>2. DOMAIN D \in SUBSET Nodes /\ \A m \in DOMAIN D : D[m] \in Order  BY PoolHas
<1>3. \A m \in DOMAIN D \ {n} : A[m] \in Order  BY <1>1, <1>2
<1>4. DOMAIN D \ {n} \in SUBSET Nodes  BY <1>2
<1>5. A \in Pools  BY <1>1, <1>3, <1>4, PoolIs
<1>6. QED  BY <1>1, <1>5 DEF A

\* A queue shows the same as long as its orders do.
LEMMA OthersShow ==
  ASSUME NEW D \in Pools, NEW E \in Pools, NEW queue \in Seq(Nodes),
         \A k \in 1..Len(queue) : /\ queue[k] \in DOMAIN D /\ queue[k] \in DOMAIN E
                                  /\ E[queue[k]].qty = D[queue[k]].qty
  PROVE  Shown(E, queue) = Shown(D, queue)
<1> DEFINE S == DOMAIN D \cap DOMAIN E
<1>1. queue \in Seq(S)
  <2>1. queue \in [1..Len(queue) -> S] /\ Len(queue) \in Nat
    <3>1. queue \in [1..Len(queue) -> Nodes] /\ Len(queue) \in Nat  OBVIOUS
    <3>2. QED  BY <3>1
  <2>2. QED  BY <2>1
<1>2. \A m \in S : D[m].qty \in Nat /\ E[m].qty \in Nat  BY PoolHas
<1> HIDE DEF S
<1>3. Len(queue) \in Nat /\ Len(queue) <= Len(queue)  OBVIOUS
<1>4. ShownUpTo(D, queue)[Len(queue)] = ShownUpTo(E, queue)[Len(queue)]
  BY <1>1, <1>2, <1>3, ShownSame
<1>5. QED  BY <1>4 DEF Shown

\* Emptied or new, a level without orders comes and goes unnoticed.
LEMMA ShelvedOpen ==
  ASSUME NEW D, NEW B, NEW L, Shelved(D, B, L), NEW s \in Side, NEW p \in Ticks,
         p \notin DOMAIN B[s]
  PROVE  Shelved(D, Put(B, s, p, EmptyLevel(p)), L)
<1> DEFINE C == Put(B, s, p, EmptyLevel(p))
<1>1. /\ EmptyLevel(p) \in Level /\ EmptyLevel(p).queue = <<>> /\ EmptyLevel(p).price = p
      /\ EmptyLevel(p).total = 0
  BY DEF EmptyLevel, Level
<1> USE DEF Shelved
<1>2. /\ C \in [Side -> Shelves] /\ DOMAIN C[s] = DOMAIN B[s] \cup {p}
      /\ \A t \in Side : t # s => C[t] = B[t]
      /\ C[s][p] = EmptyLevel(p)
      /\ \A r \in DOMAIN B[s] : r # p => C[s][r] = B[s][r]
  BY <1>1, PutIs
<1> HIDE DEF C
<1>3. \A t \in Side : \A r \in DOMAIN C[t] :
        (t = s /\ r = p) \/ (r \in DOMAIN B[t] /\ C[t][r] = B[t][r])
  BY <1>2
<1>4. \A t \in Side : \A r \in DOMAIN B[t] : r \in DOMAIN C[t] /\ C[t][r] = B[t][r]  BY <1>2
<1>5. \A k \in 1..Len(C[s][p].queue) : FALSE  BY <1>1, <1>2
<1>6. QueuesApart(C)  BY <1>3, <1>5 DEF QueuesApart
<1>7. PoolRests(D, C)  BY <1>3, <1>4, <1>5 DEF PoolRests
<1>8. LevelsRight(D, C)
  <2>1. \A x \in DOMAIN D : D[x].qty \in Nat  BY PoolHas
  <2>2. <<>> \in Seq(DOMAIN D)  OBVIOUS
  <2>3. Shown(D, <<>>) = 0  BY <2>1, <2>2, ShownFacts
  <2>4. C[s][p].price = p /\ C[s][p].total = Shown(D, C[s][p].queue)  BY <1>1, <1>2, <2>3
  <2>5. QED  BY <1>3, <2>4 DEF LevelsRight
<1>9. LocatorsLead(D, C, L)
  <2>1. \A id \in Ids : L[id] \in Located => L[id].side \in Side  BY LocatorIs
  <2>2. QED  BY <1>4, <2>1 DEF LocatorsLead
<1>10. QED  BY <1>2, <1>6, <1>7, <1>8, <1>9 DEF C

\* An empty level goes unnoticed.
LEMMA ShelvedDrop ==
  ASSUME NEW D, NEW B, NEW L, Shelved(D, B, L), NEW s \in Side, NEW p \in DOMAIN B[s],
         B[s][p].queue = <<>>
  PROVE  Shelved(D, Drop(B, s, p), L)
<1> DEFINE C == Drop(B, s, p)
<1> USE DEF Shelved
<1>1. /\ C \in [Side -> Shelves] /\ DOMAIN C[s] = DOMAIN B[s] \ {p}
      /\ \A t \in Side : t # s => C[t] = B[t]
      /\ \A r \in DOMAIN B[s] : r # p => C[s][r] = B[s][r]
  BY DropIs
<1> HIDE DEF C
<1>2. \A t \in Side : \A r \in DOMAIN C[t] : r \in DOMAIN B[t] /\ C[t][r] = B[t][r]  BY <1>1
<1>3. \A k \in 1..Len(B[s][p].queue) : FALSE  OBVIOUS
<1>4. \A t \in Side : \A r \in DOMAIN B[t] :
        (t = s /\ r = p) \/ (r \in DOMAIN C[t] /\ C[t][r] = B[t][r])
  BY <1>1
<1>5. QueuesApart(C)  BY <1>2 DEF QueuesApart
<1>6. PoolRests(D, C)  BY <1>2, <1>3, <1>4 DEF PoolRests
<1>7. LevelsRight(D, C)  BY <1>2 DEF LevelsRight
<1>8. LocatorsLead(D, C, L)
  <2>1. \A id \in Ids : L[id] \in Located => L[id].side \in Side  BY LocatorIs
  <2>2. QED  BY <1>3, <1>4, <2>1 DEF LocatorsLead
<1>9. QED  BY <1>1, <1>5, <1>6, <1>7, <1>8 DEF C

\* A level is written where there was one.
LEMMA LevelPut ==
  ASSUME NEW B \in [Side -> Shelves], NEW s \in Side, NEW p \in DOMAIN B[s], NEW level \in Level
  PROVE  /\ Put(B, s, p, level) \in [Side -> Shelves]
         /\ \A t \in Side : DOMAIN Put(B, s, p, level)[t] = DOMAIN B[t]
         /\ Put(B, s, p, level)[s][p] = level
         /\ \A t \in Side : \A r \in DOMAIN B[t] :
              t # s \/ r # p => Put(B, s, p, level)[t][r] = B[t][r]
<1>1. B[s] \in Shelves  OBVIOUS
<1>2. p \in Ticks  BY <1>1, ShelfHas
<1> DEFINE C == Put(B, s, p, level)
<1>3. /\ C \in [Side -> Shelves] /\ DOMAIN C[s] = DOMAIN B[s] \cup {p}
      /\ \A t \in Side : t # s => C[t] = B[t]
      /\ C[s][p] = level
      /\ \A r \in DOMAIN B[s] : r # p => C[s][r] = B[s][r]
  BY <1>2, PutIs
<1> HIDE DEF C
<1>4. QED  BY <1>3 DEF C

\* A level with one more order.
LEMMA LevelAppendIs ==
  ASSUME NEW level \in Level, NEW n \in Nodes, NEW qty \in Nat
  PROVE  /\ LevelAppend(level, n, qty) \in Level
         /\ LevelAppend(level, n, qty).price = level.price
         /\ LevelAppend(level, n, qty).queue = Append(level.queue, n)
         /\ LevelAppend(level, n, qty).total = level.total + qty
<1>1. level.queue \in Seq(Nodes) /\ level.total \in Nat /\ level.price \in Ticks  BY DEF Level
<1>2. Append(level.queue, n) \in Seq(Nodes) /\ level.total + qty \in Nat  BY <1>1
<1>3. LevelAppend(level, n, qty) \in Level  BY <1>1, <1>2 DEF Level, LevelAppend
<1>4. LevelAppend(level, n, qty).price = level.price  BY DEF Level, LevelAppend
<1>5. LevelAppend(level, n, qty).queue = Append(level.queue, n)  BY DEF Level, LevelAppend
<1>6. LevelAppend(level, n, qty).total = level.total + qty  BY DEF Level, LevelAppend
<1>7. QED  BY <1>3, <1>4, <1>5, <1>6

\* A new order keeps the book in order, if callers do not reuse unique ids.
LEMMA ShelvedAdd ==
  ASSUME NEW D, NEW B, NEW L, Shelved(D, B, L), NEW s \in Side, NEW p \in DOMAIN B[s],
         NEW n \in Nodes, n \notin DOMAIN D, NEW o \in Order,
         o.id \in UniqueIds => \A m \in DOMAIN D : D[m].id # o.id
  PROVE  Shelved(Acquire(D, n, o), Put(B, s, p, LevelAppend(B[s][p], n, o.qty)),
                 [L EXCEPT ![o.id] = Locator(s, p, n)])
<1>0. /\ D \in Pools /\ B \in [Side -> Shelves] /\ L \in Tables
      /\ QueuesApart(B) /\ PoolRests(D, B) /\ LevelsRight(D, B)
      /\ LocatorsLead(D, B, L) /\ UniqueFound(D, L)
  BY DEF Shelved
<1> DEFINE old == B[s][p]
           new == LevelAppend(B[s][p], n, o.qty)
           len == Len(old.queue)
           C == Put(B, s, p, new)
           E == Acquire(D, n, o)
           M == [L EXCEPT ![o.id] = Locator(s, p, n)]
<1>1. B[s] \in Shelves /\ \A t \in Side : B[t] \in Shelves  BY <1>0
<1>2. /\ old \in Level /\ p \in Ticks /\ old.queue \in Seq(Nodes) /\ old.total \in Nat /\ len \in Nat
      /\ o.id \in Ids /\ o.qty \in Nat
  BY <1>1, ShelfHas DEF Order
<1>3. /\ new \in Level /\ new.price = old.price /\ new.queue = Append(old.queue, n)
      /\ new.total = old.total + o.qty
  BY <1>2, LevelAppendIs
<1>4. /\ C \in [Side -> Shelves] /\ \A t \in Side : DOMAIN C[t] = DOMAIN B[t]
      /\ C[s][p] = new
      /\ \A t \in Side : \A r \in DOMAIN B[t] : t # s \/ r # p => C[t][r] = B[t][r]
  BY <1>0, <1>3, LevelPut
<1>5. /\ E \in Pools /\ DOMAIN E = DOMAIN D \cup {n} /\ E[n] = o /\ \A m \in DOMAIN D : E[m] = D[m]
  <2>1. D \in Pools  BY <1>0
  <2>2. QED  BY <2>1, AcquireIs
<1>6. /\ M \in Tables /\ Locator(s, p, n) \in Located /\ M[o.id] = Locator(s, p, n)
      /\ \A j \in Ids : j # o.id => M[j] = L[j]
  <2>1. Locator(s, p, n) \in Located  BY <1>2 DEF Locator, Located
  <2>2. QED  BY <1>0, <1>2, <2>1, TableIs
<1>7. /\ Len(new.queue) = len + 1 /\ new.queue[len + 1] = n
      /\ \A k \in 1..len : new.queue[k] = old.queue[k]
  BY <1>2, <1>3
<1> HIDE DEF C, E, M, new
<1>8. \A t \in Side : \A r \in DOMAIN C[t] : \A k \in 1..Len(C[t][r].queue) :
        \/ t = s /\ r = p /\ k = len + 1 /\ C[t][r].queue[k] = n
        \/ r \in DOMAIN B[t] /\ k \in 1..Len(B[t][r].queue) /\ C[t][r].queue[k] = B[t][r].queue[k]
  <2>1. ASSUME NEW k \in 1..Len(new.queue)
        PROVE  (k = len + 1 /\ new.queue[k] = n) \/ (k \in 1..len /\ new.queue[k] = old.queue[k])
    BY <1>2, <1>7
  <2>2. QED  BY <1>4, <2>1
<1>9. \A t \in Side : \A r \in DOMAIN B[t] : \A k \in 1..Len(B[t][r].queue) :
        r \in DOMAIN C[t] /\ k \in 1..Len(C[t][r].queue) /\ C[t][r].queue[k] = B[t][r].queue[k]
  <2>1. \A k \in 1..len : k \in 1..Len(new.queue) /\ new.queue[k] = old.queue[k]  BY <1>2, <1>7
  <2>2. QED  BY <1>4, <2>1
<1>10. \A t \in Side : \A r \in DOMAIN B[t] : \A k \in 1..Len(B[t][r].queue) :
        B[t][r].queue[k] \in DOMAIN D /\ B[t][r].queue[k] # n
  BY <1>0 DEF PoolRests
<1>11. QueuesApart(C)
  <2>1. ASSUME NEW t \in Side, NEW r \in DOMAIN C[t], NEW k \in 1..Len(C[t][r].queue),
               NEW u \in Side, NEW v \in DOMAIN C[u], NEW l \in 1..Len(C[u][v].queue),
               C[t][r].queue[k] = C[u][v].queue[l]
        PROVE  t = u /\ r = v /\ k = l
    <3>1. CASE t = s /\ r = p /\ k = len + 1 /\ C[t][r].queue[k] = n
      BY <1>8, <1>10, <2>1, <3>1
    <3>2. CASE /\ r \in DOMAIN B[t] /\ k \in 1..Len(B[t][r].queue)
               /\ C[t][r].queue[k] = B[t][r].queue[k]
      <4>1. /\ v \in DOMAIN B[u] /\ l \in 1..Len(B[u][v].queue)
            /\ C[u][v].queue[l] = B[u][v].queue[l]
        <5>1. C[u][v].queue[l] # n  BY <1>10, <2>1, <3>2
        <5>2. QED  BY <1>8, <5>1
      <4>2. B[t][r].queue[k] = B[u][v].queue[l]  BY <2>1, <3>2, <4>1
      <4>3. QED  BY <1>0, <3>2, <4>1, <4>2 DEF QueuesApart
    <3>3. QED  BY <1>8, <3>1, <3>2
  <2>2. QED  BY <2>1 DEF QueuesApart
<1>12. PoolRests(E, C)
  <2>1. ASSUME NEW t \in Side, NEW r \in DOMAIN C[t], NEW k \in 1..Len(C[t][r].queue)
        PROVE  C[t][r].queue[k] \in DOMAIN E
    BY <1>5, <1>8, <1>10
  <2>2. ASSUME NEW m \in DOMAIN E
        PROVE  \E t \in Side : \E r \in DOMAIN C[t] : \E k \in 1..Len(C[t][r].queue) :
                 C[t][r].queue[k] = m
    <3>1. CASE m = n
      <4>1. p \in DOMAIN C[s] /\ len + 1 \in 1..Len(C[s][p].queue) /\ C[s][p].queue[len + 1] = n
        BY <1>2, <1>4, <1>7
      <4>2. QED  BY <3>1, <4>1
    <3>2. CASE m \in DOMAIN D
      <4>1. PICK t \in Side : \E r \in DOMAIN B[t] : \E k \in 1..Len(B[t][r].queue) :
              B[t][r].queue[k] = m
        BY <1>0, <3>2 DEF PoolRests
      <4>2. PICK r \in DOMAIN B[t] : \E k \in 1..Len(B[t][r].queue) : B[t][r].queue[k] = m
        BY <4>1
      <4>3. PICK k \in 1..Len(B[t][r].queue) : B[t][r].queue[k] = m  BY <4>2
      <4>4. QED  BY <1>9, <4>3
    <3>3. QED  BY <1>5, <3>1, <3>2
  <2>3. QED  BY <2>1, <2>2 DEF PoolRests
<1>13. LevelsRight(E, C)
  <2>1. ASSUME NEW t \in Side, NEW r \in DOMAIN C[t]
        PROVE  C[t][r].price = r /\ C[t][r].total = Shown(E, C[t][r].queue)
    <3>1. r \in DOMAIN B[t]  BY <1>4
    <3>2. B[t][r].price = r /\ B[t][r].total = Shown(D, B[t][r].queue)  BY <1>0, <3>1 DEF LevelsRight
    <3>3. B[t][r].queue \in Seq(Nodes)  BY <1>1, <3>1, ShelfHas
    <3>4. Shown(E, B[t][r].queue) = Shown(D, B[t][r].queue)
      <4>1. \A k \in 1..Len(B[t][r].queue) :
              B[t][r].queue[k] \in DOMAIN D /\ B[t][r].queue[k] # n
        BY <1>10, <3>1
      <4>2. \A k \in 1..Len(B[t][r].queue) :
              /\ B[t][r].queue[k] \in DOMAIN D /\ B[t][r].queue[k] \in DOMAIN E
              /\ E[B[t][r].queue[k]].qty = D[B[t][r].queue[k]].qty
        BY <1>5, <4>1
      <4>3. QED  BY <1>0, <1>5, <3>3, <4>2, OthersShow
    <3>5. CASE t # s \/ r # p
      <4>1. C[t][r] = B[t][r]  BY <1>4, <3>1, <3>5
      <4>2. QED  BY <3>2, <3>4, <4>1
    <3>6. CASE t = s /\ r = p
      <4>1. \A m \in DOMAIN E : E[m].qty \in Nat  BY <1>5, PoolHas
      <4>2. old.queue \in Seq(DOMAIN E)
        <5>1. \A k \in 1..len : old.queue[k] \in DOMAIN E  BY <1>5, <1>10
        <5>2. QED  BY <1>2, <5>1
      <4>3. n \in DOMAIN E  BY <1>5
      <4>4. Shown(E, Append(old.queue, n)) = Shown(E, old.queue) + E[n].qty
        BY <4>1, <4>2, <4>3, ShownAppend
      <4>5. C[t][r] = new /\ B[t][r] = old  BY <1>4, <3>6
      <4>6. QED  BY <1>3, <1>5, <3>2, <3>4, <4>4, <4>5
    <3>7. QED  BY <3>5, <3>6
  <2>2. QED  BY <2>1 DEF LevelsRight
<1>14. LocatorsLead(E, C, M)
  <2>1. ASSUME NEW id \in Ids, M[id] \in Located
        PROVE  /\ M[id].price \in DOMAIN C[M[id].side]
               /\ \E k \in 1..Len(C[M[id].side][M[id].price].queue) :
                    C[M[id].side][M[id].price].queue[k] = M[id].node
               /\ E[M[id].node].id = id
    <3>1. CASE id = o.id
      <4>1. M[id].side = s /\ M[id].price = p /\ M[id].node = n  BY <1>6, <3>1 DEF Locator
      <4>2. p \in DOMAIN C[s] /\ len + 1 \in 1..Len(C[s][p].queue) /\ C[s][p].queue[len + 1] = n
        BY <1>2, <1>4, <1>7
      <4>3. E[n].id = id  BY <1>5, <3>1
      <4>4. QED  BY <4>1, <4>2, <4>3
    <3>2. CASE id # o.id
      <4>1. M[id] = L[id] /\ L[id].side \in Side  BY <1>0, <1>6, <2>1, <3>2, LocatorIs
      <4>2. /\ L[id].price \in DOMAIN B[L[id].side]
            /\ \E k \in 1..Len(B[L[id].side][L[id].price].queue) :
                 B[L[id].side][L[id].price].queue[k] = L[id].node
            /\ D[L[id].node].id = id
        BY <1>0, <2>1, <4>1 DEF LocatorsLead
      <4>3. L[id].node \in DOMAIN D  BY <1>10, <4>1, <4>2
      <4>4. E[L[id].node].id = id  BY <1>5, <4>2, <4>3
      <4>5. QED  BY <1>9, <4>1, <4>2, <4>4
    <3>3. QED  BY <3>1, <3>2
  <2>2. QED  BY <2>1 DEF LocatorsLead
<1>15. UniqueFound(E, M)
  <2>1. ASSUME NEW m \in DOMAIN E, E[m].id \in UniqueIds
        PROVE  M[E[m].id] \in Located /\ M[E[m].id].node = m
    <3>1. CASE m = n  BY <1>5, <1>6, <3>1 DEF Locator
    <3>2. CASE m \in DOMAIN D
      <4>1. E[m] = D[m] /\ D[m].id \in Ids  BY <1>0, <1>5, <3>2, PoolHas
      <4>2. D[m].id # o.id  BY <2>1, <3>2, <4>1
      <4>3. QED  BY <1>0, <1>6, <2>1, <3>2, <4>1, <4>2 DEF UniqueFound
    <3>3. QED  BY <1>5, <3>1, <3>2
  <2>2. QED  BY <2>1 DEF UniqueFound
<1>16. Shelved(E, C, M)
  BY <1>4, <1>5, <1>6, <1>11, <1>12, <1>13, <1>14, <1>15 DEF Shelved
<1>17. QED  BY <1>16 DEF C, E, M, new

\* An order leaves, and its id's locator is forgotten.
LEMMA ShelvedRemove ==
  ASSUME NEW D, NEW B, NEW L, Shelved(D, B, L), NEW s \in Side, NEW p \in DOMAIN B[s],
         NEW k \in 1..Len(B[s][p].queue), NEW new \in Level, NEW n, n = B[s][p].queue[k],
         new.price = B[s][p].price, new.queue = RemoveAt(B[s][p].queue, k),
         B[s][p].total = new.total + D[n].qty
  PROVE  Shelved(Release(D, n), Put(B, s, p, new), Forget(L, D[n].id))
<1>0. /\ D \in Pools /\ B \in [Side -> Shelves] /\ L \in Tables
      /\ QueuesApart(B) /\ PoolRests(D, B) /\ LevelsRight(D, B)
      /\ LocatorsLead(D, B, L) /\ UniqueFound(D, L)
  BY DEF Shelved
<1> DEFINE old == B[s][p]
           len == Len(old.queue)
           C == Put(B, s, p, new)
           E == Release(D, n)
           M == Forget(L, D[n].id)
<1>1. B[s] \in Shelves /\ \A t \in Side : B[t] \in Shelves  BY <1>0
<1>2. /\ old \in Level /\ p \in Ticks /\ old.queue \in Seq(Nodes) /\ old.total \in Nat /\ len \in Nat
  BY <1>1, ShelfHas
<1>3. /\ n \in DOMAIN D /\ D[n].id \in Ids /\ D[n].qty \in Nat
      /\ \A m \in DOMAIN D : D[m].id \in Ids /\ D[m].qty \in Nat
  <2>1. D \in Pools  BY <1>0
  <2>2. n \in DOMAIN D  BY <1>0 DEF PoolRests
  <2>3. QED  BY <2>1, <2>2, PoolHas
<1>4. /\ C \in [Side -> Shelves] /\ \A t \in Side : DOMAIN C[t] = DOMAIN B[t]
      /\ C[s][p] = new
      /\ \A t \in Side : \A r \in DOMAIN B[t] : t # s \/ r # p => C[t][r] = B[t][r]
  BY <1>0, LevelPut
<1>5. /\ E \in Pools /\ DOMAIN E = DOMAIN D \ {n}
      /\ \A m \in DOMAIN D : m # n => E[m] = D[m]
  <2>1. D \in Pools  BY <1>0
  <2>2. QED  BY <2>1, ReleaseIs
<1>6. /\ M \in Tables /\ M[D[n].id] \notin Located /\ \A j \in Ids : j # D[n].id => M[j] = L[j]
  <2>1. M[D[n].id] = NoLocator /\ M \in Tables /\ \A j \in Ids : j # D[n].id => M[j] = L[j]
    <3>1. L \in Tables /\ D[n].id \in Ids  BY <1>0, <1>3
    <3>2. QED  BY <3>1, ForgetIs
  <2>2. NoLocator \notin Located  BY DEF NoLocator, Located
  <2>3. QED  BY <2>1, <2>2
<1>7. /\ new.queue \in Seq(Nodes) /\ Len(new.queue) = len - 1
      /\ \A i \in 1..(len - 1) : new.queue[i] = IF i < k THEN old.queue[i] ELSE old.queue[i + 1]
  BY <1>2, RemoveAtIs
<1> HIDE DEF C, E, M
\* The places that are left, in terms of the places before.
<1> DEFINE From(t, r, i) == IF t = s /\ r = p /\ ~(i < k) THEN i + 1 ELSE i
<1>8. ASSUME NEW t \in Side, NEW r \in DOMAIN C[t], NEW i \in 1..Len(C[t][r].queue)
      PROVE  /\ r \in DOMAIN B[t] /\ From(t, r, i) \in 1..Len(B[t][r].queue)
             /\ C[t][r].queue[i] = B[t][r].queue[From(t, r, i)]
             /\ ~(t = s /\ r = p /\ From(t, r, i) = k)
             /\ i \in Nat
  <2>1. r \in DOMAIN B[t]  BY <1>4
  <2>2. CASE t = s /\ r = p
    <3>1. C[t][r] = new /\ i \in 1..(len - 1) /\ B[t][r] = old  BY <1>4, <1>7, <2>2
    <3>2. k \in 1..len /\ i \in 1..len /\ i + 1 \in 1..len  BY <1>2, <3>1
    <3>3. QED  BY <1>7, <2>1, <2>2, <3>1, <3>2
  <2>3. CASE ~(t = s /\ r = p)
    <3>1. C[t][r] = B[t][r]  BY <1>4, <2>1, <2>3
    <3>2. From(t, r, i) = i  BY <2>3
    <3>3. QED  BY <2>1, <2>3, <3>1, <3>2
  <2>4. QED  BY <2>2, <2>3
<1>9. ASSUME NEW t \in Side, NEW r \in DOMAIN B[t], NEW i \in 1..Len(B[t][r].queue),
             B[t][r].queue[i] # n
      PROVE  /\ r \in DOMAIN C[t]
             /\ \E j \in 1..Len(C[t][r].queue) : C[t][r].queue[j] = B[t][r].queue[i]
  <2>1. r \in DOMAIN C[t]  BY <1>4
  <2>2. CASE t = s /\ r = p
    <3>1. C[t][r] = new /\ B[t][r] = old /\ i \in 1..len /\ i # k /\ k \in 1..len
      BY <1>4, <1>9, <2>2
    <3>2. CASE i < k
      <4>1. i \in 1..(len - 1) /\ new.queue[i] = old.queue[i]  BY <1>2, <1>7, <3>1, <3>2
      <4>2. QED  BY <1>7, <2>1, <3>1, <4>1
    <3>3. CASE ~(i < k)
      <4>1. i - 1 \in 1..(len - 1) /\ ~(i - 1 < k) /\ i - 1 + 1 = i  BY <1>2, <3>1, <3>3
      <4>2. new.queue[i - 1] = old.queue[i]  BY <1>7, <4>1
      <4>3. QED  BY <1>7, <2>1, <3>1, <4>1, <4>2
    <3>4. QED  BY <3>2, <3>3
  <2>3. CASE ~(t = s /\ r = p)
    <3>1. C[t][r] = B[t][r]  BY <1>4, <2>3
    <3>2. QED  BY <2>1, <3>1
  <2>4. QED  BY <2>2, <2>3
<1>10. ASSUME NEW t \in Side, NEW r \in DOMAIN C[t], NEW i \in 1..Len(C[t][r].queue)
       PROVE  C[t][r].queue[i] \in DOMAIN D /\ C[t][r].queue[i] # n
  <2>1. C[t][r].queue[i] \in DOMAIN D  BY <1>0, <1>8 DEF PoolRests
  <2>2. ASSUME C[t][r].queue[i] = n PROVE FALSE
    <3>1. B[t][r].queue[From(t, r, i)] = B[s][p].queue[k]  BY <1>8, <2>2
    <3>2. t = s /\ r = p /\ From(t, r, i) = k  BY <1>0, <1>8, <3>1 DEF QueuesApart
    <3>3. QED  BY <1>8, <3>2
  <2>3. QED  BY <2>1, <2>2
<1>11. QueuesApart(C)
  <2>1. ASSUME NEW t \in Side, NEW r \in DOMAIN C[t], NEW i \in 1..Len(C[t][r].queue),
               NEW u \in Side, NEW v \in DOMAIN C[u], NEW j \in 1..Len(C[u][v].queue),
               C[t][r].queue[i] = C[u][v].queue[j]
        PROVE  t = u /\ r = v /\ i = j
    <3>1. /\ r \in DOMAIN B[t] /\ From(t, r, i) \in 1..Len(B[t][r].queue)
          /\ C[t][r].queue[i] = B[t][r].queue[From(t, r, i)] /\ i \in Nat
      BY <1>8
    <3>2. /\ v \in DOMAIN B[u] /\ From(u, v, j) \in 1..Len(B[u][v].queue)
          /\ C[u][v].queue[j] = B[u][v].queue[From(u, v, j)] /\ j \in Nat
      BY <1>8
    <3>3. B[t][r].queue[From(t, r, i)] = B[u][v].queue[From(u, v, j)]  BY <2>1, <3>1, <3>2
    <3> HIDE DEF From
    <3>4. t = u /\ r = v /\ From(t, r, i) = From(u, v, j)
      BY <1>0, <3>1, <3>2, <3>3 DEF QueuesApart
    <3>5. k \in Int  OBVIOUS
    <3>6. QED  BY <3>1, <3>2, <3>4, <3>5 DEF From
  <2>2. QED  BY <2>1 DEF QueuesApart
<1>12. PoolRests(E, C)
  <2>1. ASSUME NEW t \in Side, NEW r \in DOMAIN C[t], NEW i \in 1..Len(C[t][r].queue)
        PROVE  C[t][r].queue[i] \in DOMAIN E
    BY <1>5, <1>10
  <2>2. ASSUME NEW m \in DOMAIN E
        PROVE  \E t \in Side : \E r \in DOMAIN C[t] : \E i \in 1..Len(C[t][r].queue) :
                 C[t][r].queue[i] = m
    <3>1. m \in DOMAIN D /\ m # n  BY <1>5
    <3>2. PICK t \in Side : \E r \in DOMAIN B[t] : \E i \in 1..Len(B[t][r].queue) :
            B[t][r].queue[i] = m
      BY <1>0, <3>1 DEF PoolRests
    <3>3. PICK r \in DOMAIN B[t] : \E i \in 1..Len(B[t][r].queue) : B[t][r].queue[i] = m
      BY <3>2
    <3>4. PICK i \in 1..Len(B[t][r].queue) : B[t][r].queue[i] = m  BY <3>3
    <3>5. QED  BY <1>9, <3>1, <3>4
  <2>3. QED  BY <2>1, <2>2 DEF PoolRests
<1>13. LevelsRight(E, C)
  <2>1. ASSUME NEW t \in Side, NEW r \in DOMAIN C[t]
        PROVE  C[t][r].price = r /\ C[t][r].total = Shown(E, C[t][r].queue)
    <3>1. r \in DOMAIN B[t]  BY <1>4
    <3>2. B[t][r].price = r /\ B[t][r].total = Shown(D, B[t][r].queue)
      BY <1>0, <3>1 DEF LevelsRight
    <3>3. C[t][r].queue \in Seq(Nodes)
      <4>1. C[t] \in Shelves  BY <1>4
      <4>2. QED  BY <4>1, ShelfHas
    <3>4. Shown(E, C[t][r].queue) = Shown(D, C[t][r].queue)
      <4>1. \A i \in 1..Len(C[t][r].queue) :
              /\ C[t][r].queue[i] \in DOMAIN D /\ C[t][r].queue[i] \in DOMAIN E
              /\ E[C[t][r].queue[i]].qty = D[C[t][r].queue[i]].qty
        BY <1>5, <1>10
      <4>2. QED  BY <1>0, <1>5, <3>3, <4>1, OthersShow
    <3>5. CASE t # s \/ r # p
      <4>1. C[t][r] = B[t][r]  BY <1>4, <3>1, <3>5
      <4>2. QED  BY <3>2, <3>4, <4>1
    <3>6. CASE t = s /\ r = p
      <4>1. old.queue \in Seq(DOMAIN D)
        <5>1. \A i \in 1..len : old.queue[i] \in DOMAIN D  BY <1>0 DEF PoolRests
        <5>2. QED  BY <1>2, <5>1
      <4>2. Shown(D, old.queue) = Shown(D, new.queue) + D[n].qty
        <5>1. \A m \in DOMAIN D : D[m].qty \in Nat  BY <1>3
        <5>2. k \in 1..Len(old.queue)  OBVIOUS
        <5>3. QED  BY <4>1, <5>1, <5>2, ShownRemove
      <4>3. Shown(D, new.queue) \in Nat
        <5>1. new.queue \in Seq(DOMAIN D)  BY <4>1, RemoveAtIs
        <5>2. QED  BY <1>3, <5>1, ShownFacts
      <4>4. C[t][r] = new /\ B[t][r] = old /\ new.total \in Nat  BY <1>4, <3>6 DEF Level
      <4>5. QED  BY <1>3, <3>2, <3>4, <4>2, <4>3, <4>4
    <3>7. QED  BY <3>5, <3>6
  <2>2. QED  BY <2>1 DEF LevelsRight
<1>14. LocatorsLead(E, C, M)
  <2>1. ASSUME NEW id \in Ids, M[id] \in Located
        PROVE  /\ M[id].price \in DOMAIN C[M[id].side]
               /\ \E i \in 1..Len(C[M[id].side][M[id].price].queue) :
                    C[M[id].side][M[id].price].queue[i] = M[id].node
               /\ E[M[id].node].id = id
    <3>1. id # D[n].id  BY <1>6, <2>1
    <3>2. M[id] = L[id] /\ L[id].side \in Side
      <4>1. M[id] = L[id] /\ L \in Tables  BY <1>0, <1>6, <3>1
      <4>2. QED  BY <2>1, <4>1, LocatorIs
    <3>3. L[id].price \in DOMAIN B[L[id].side] /\ D[L[id].node].id = id
      BY <1>0, <2>1, <3>2 DEF LocatorsLead
    <3>4. PICK i \in 1..Len(B[L[id].side][L[id].price].queue) :
            B[L[id].side][L[id].price].queue[i] = L[id].node
      BY <1>0, <2>1, <3>2 DEF LocatorsLead
    <3>5. L[id].node # n /\ L[id].node \in DOMAIN D
      BY <1>0, <3>1, <3>2, <3>3, <3>4 DEF PoolRests
    <3>6. E[L[id].node].id = id  BY <1>5, <3>3, <3>5
    <3>7. \E j \in 1..Len(C[L[id].side][L[id].price].queue) :
            C[L[id].side][L[id].price].queue[j] = L[id].node
      BY <1>9, <3>2, <3>3, <3>4, <3>5
    <3>8. L[id].price \in DOMAIN C[L[id].side]  BY <1>4, <3>2, <3>3
    <3>9. QED  BY <3>2, <3>6, <3>7, <3>8
  <2>2. QED  BY <2>1 DEF LocatorsLead
<1>15. UniqueFound(E, M)
  <2>1. ASSUME NEW m \in DOMAIN E, E[m].id \in UniqueIds
        PROVE  M[E[m].id] \in Located /\ M[E[m].id].node = m
    <3>1. m \in DOMAIN D /\ m # n /\ E[m] = D[m]  BY <1>5
    <3>2. L[D[m].id] \in Located /\ L[D[m].id].node = m  BY <1>0, <2>1, <3>1 DEF UniqueFound
    <3>3. D[m].id # D[n].id
      <4>1. ASSUME D[m].id = D[n].id PROVE FALSE
        <5>1. L[D[n].id].node = n  BY <1>0, <1>3, <2>1, <3>1, <4>1 DEF UniqueFound
        <5>2. QED  BY <3>1, <3>2, <4>1, <5>1
      <4>2. QED  BY <4>1
    <3>4. QED  BY <1>3, <1>6, <3>1, <3>2, <3>3
  <2>2. QED  BY <2>1 DEF UniqueFound
<1>16. Shelved(E, C, M)
  BY <1>4, <1>5, <1>6, <1>11, <1>12, <1>13, <1>14, <1>15 DEF Shelved
<1>17. QED  BY <1>16 DEF C, E, M

\* A node's order shows e less.
Give(D, n, e) == [D EXCEPT ![n].qty = @ - e]

\* An order of the pool gives up part of its quantity.
LEMMA GiveIs ==
  ASSUME NEW D \in Pools, NEW n \in DOMAIN D, NEW e \in Nat, e <= D[n].qty
  PROVE  /\ Give(D, n, e) \in Pools
         /\ DOMAIN Give(D, n, e) = DOMAIN D
         /\ Give(D, n, e)[n].id = D[n].id
         /\ D[n].qty = Give(D, n, e)[n].qty + e
         /\ \A m \in DOMAIN D : m # n => Give(D, n, e)[m] = D[m]
<1> DEFINE E == Give(D, n, e)
<1>1. /\ DOMAIN D \in SUBSET Nodes /\ D = [m \in DOMAIN D |-> D[m]]
      /\ \A m \in DOMAIN D : D[m] \in Order /\ D[m].qty \in Nat
  BY PoolHas
<1>2. D[n] \in Order /\ D[n].qty - e \in Nat  BY <1>1
<1>3. [D[n] EXCEPT !.qty = @ - e] \in Order  BY <1>2 DEF Order
<1>4. [D[n] EXCEPT !.qty = @ - e].id = D[n].id  BY <1>2 DEF Order
<1>5. [D[n] EXCEPT !.qty = @ - e].qty = D[n].qty - e  BY <1>2 DEF Order
<1>6. /\ DOMAIN E = DOMAIN D /\ E = [m \in DOMAIN D |-> E[m]]
      /\ \A m \in DOMAIN D : m # n => E[m] = D[m]
  BY <1>1 DEF Give
<1>7. E[n] = [D[n] EXCEPT !.qty = @ - e]  BY <1>1 DEF Give
<1> HIDE DEF E
<1>8. E \in Pools
  <2>1. \A m \in DOMAIN D : E[m] \in Order  BY <1>1, <1>3, <1>6, <1>7
  <2>2. QED  BY <1>1, <1>6, <2>1, PoolIs
<1>9. E[n].id = D[n].id  BY <1>4, <1>7
<1>10. E[n].qty = D[n].qty - e  BY <1>5, <1>7
<1>11. D[n].qty = E[n].qty + e
  <2>1. D[n].qty \in Nat  BY <1>1
  <2>2. QED  BY <1>10, <2>1
<1>12. QED  BY <1>6, <1>8, <1>9, <1>11 DEF E

\* An order gives up part of what it shows, and so does its level.
LEMMA ShelvedTake ==
  ASSUME NEW D, NEW B, NEW L, Shelved(D, B, L), NEW s \in Side, NEW p \in DOMAIN B[s],
         NEW k \in 1..Len(B[s][p].queue), NEW new \in Level, NEW n, n = B[s][p].queue[k],
         NEW e \in Nat, e <= D[n].qty,
         new.price = B[s][p].price, new.queue = B[s][p].queue,
         B[s][p].total = new.total + e
  PROVE  Shelved(Give(D, n, e), Put(B, s, p, new), L)
<1>0. /\ D \in Pools /\ B \in [Side -> Shelves] /\ L \in Tables
      /\ QueuesApart(B) /\ PoolRests(D, B) /\ LevelsRight(D, B)
      /\ LocatorsLead(D, B, L) /\ UniqueFound(D, L)
  BY DEF Shelved
<1> DEFINE old == B[s][p]
           C == Put(B, s, p, new)
           E == Give(D, n, e)
<1>1. \A t \in Side : B[t] \in Shelves  BY <1>0
<1>2. old \in Level /\ old.queue \in Seq(Nodes) /\ old.total \in Nat
  BY <1>1, ShelfHas
<1>3. n \in DOMAIN D  BY <1>0 DEF PoolRests
<1>4. /\ C \in [Side -> Shelves] /\ \A t \in Side : DOMAIN C[t] = DOMAIN B[t]
      /\ C[s][p] = new
      /\ \A t \in Side : \A r \in DOMAIN B[t] : t # s \/ r # p => C[t][r] = B[t][r]
  BY <1>0, LevelPut
<1>5. /\ E \in Pools /\ DOMAIN E = DOMAIN D /\ E[n].id = D[n].id
      /\ D[n].qty = E[n].qty + e
      /\ \A m \in DOMAIN D : m # n => E[m] = D[m]
  <2>1. D \in Pools  BY <1>0
  <2>2. QED  BY <1>3, <2>1, GiveIs
<1> HIDE DEF C, E
<1>6. \A t \in Side : \A r \in DOMAIN B[t] : C[t][r].queue = B[t][r].queue /\ C[t][r].price = B[t][r].price
  BY <1>4
<1>7. \A m \in DOMAIN D : E[m].id = D[m].id  BY <1>5
<1>8. QueuesApart(C)  BY <1>0, <1>4, <1>6 DEF QueuesApart
<1>9. PoolRests(E, C)
  <2>1. \A t \in Side : \A r \in DOMAIN C[t] : C[t][r].queue = B[t][r].queue /\ r \in DOMAIN B[t]
    BY <1>4, <1>6
  <2>2. \A t \in Side : \A r \in DOMAIN B[t] : r \in DOMAIN C[t]  BY <1>4
  <2>3. PoolRests(D, C)  BY <1>0, <2>1, <2>2 DEF PoolRests
  <2>4. QED  BY <1>5, <2>3 DEF PoolRests
<1>10. LevelsRight(E, C)
  <2>1. ASSUME NEW t \in Side, NEW r \in DOMAIN C[t]
        PROVE  C[t][r].price = r /\ C[t][r].total = Shown(E, C[t][r].queue)
    <3>1. r \in DOMAIN B[t]  BY <1>4
    <3>2. B[t][r].price = r /\ B[t][r].total = Shown(D, B[t][r].queue)
      BY <1>0, <3>1 DEF LevelsRight
    <3>3. B[t][r].queue \in Seq(Nodes)  BY <1>1, <3>1, ShelfHas
    <3>4. CASE t # s \/ r # p
      <4>1. \A i \in 1..Len(B[t][r].queue) : B[t][r].queue[i] \in DOMAIN D /\ B[t][r].queue[i] # n
        BY <1>0, <3>1, <3>4 DEF PoolRests, QueuesApart
      <4>2. \A i \in 1..Len(B[t][r].queue) :
              /\ B[t][r].queue[i] \in DOMAIN D /\ B[t][r].queue[i] \in DOMAIN E
              /\ E[B[t][r].queue[i]].qty = D[B[t][r].queue[i]].qty
        BY <1>5, <4>1
      <4>3. Shown(E, B[t][r].queue) = Shown(D, B[t][r].queue)
        BY <1>0, <1>5, <3>3, <4>2, OthersShow
      <4>4. C[t][r] = B[t][r]  BY <1>4, <3>1, <3>4
      <4>5. QED  BY <3>2, <4>3, <4>4
    <3>5. CASE t = s /\ r = p
      <4>1. \A i \in 1..Len(old.queue) : old.queue[i] \in DOMAIN D  BY <1>0 DEF PoolRests
      <4>2. old.queue \in Seq(DOMAIN D)  BY <1>2, <4>1
      <4>3. (\A x \in DOMAIN D : D[x].qty \in Nat) /\ \A x \in DOMAIN D : E[x].qty \in Nat
        BY <1>0, <1>5, PoolHas
      <4>4. \A i \in 1..Len(old.queue) : i # k => old.queue[i] # n
        BY <1>0 DEF QueuesApart
      <4>5. \A i \in 1..Len(old.queue) : i # k => E[old.queue[i]].qty = D[old.queue[i]].qty
        BY <1>5, <4>1, <4>4
      <4>6. D[old.queue[k]].qty = E[old.queue[k]].qty + e /\ k \in 1..Len(old.queue)  BY <1>5
      <4>7. Shown(D, old.queue) = Shown(E, old.queue) + e
        <5> DEFINE q == old.queue
        <5>1. k \in 1..Len(q) /\ D[q[k]].qty = E[q[k]].qty + e  BY <4>6
        <5>2. \A i \in 1..Len(q) : i # k => E[q[i]].qty = D[q[i]].qty  BY <4>5
        <5> DEFINE S == DOMAIN D
        <5>3. q \in Seq(S) /\ (\A x \in S : D[x].qty \in Nat) /\ \A x \in S : E[x].qty \in Nat
          BY <4>2, <4>3
        <5> HIDE DEF q, S
        <5>4. Shown(D, q) = Shown(E, q) + e  BY <5>1, <5>2, <5>3, ShownTake
        <5>5. QED  BY <5>4 DEF q
      <4>8. Shown(E, old.queue) \in Nat  BY <4>2, <4>3, ShownFacts
      <4>9. C[t][r] = new /\ B[t][r] = old /\ new.total \in Nat  BY <1>4, <3>5 DEF Level
      <4>10. QED  BY <3>2, <4>7, <4>8, <4>9
    <3>6. QED  BY <3>4, <3>5
  <2>2. QED  BY <2>1 DEF LevelsRight
<1>11. LocatorsLead(E, C, L)
  <2>1. ASSUME NEW id \in Ids, L[id] \in Located
        PROVE  /\ L[id].price \in DOMAIN C[L[id].side]
               /\ \E i \in 1..Len(C[L[id].side][L[id].price].queue) :
                    C[L[id].side][L[id].price].queue[i] = L[id].node
               /\ E[L[id].node].id = id
    <3>1. L[id].side \in Side  BY <1>0, <2>1, LocatorIs
    <3>2. L[id].price \in DOMAIN B[L[id].side] /\ D[L[id].node].id = id
      BY <1>0, <2>1 DEF LocatorsLead
    <3>3. PICK i \in 1..Len(B[L[id].side][L[id].price].queue) :
            B[L[id].side][L[id].price].queue[i] = L[id].node
      BY <1>0, <2>1 DEF LocatorsLead
    <3>4. L[id].node \in DOMAIN D  BY <1>0, <3>1, <3>2, <3>3 DEF PoolRests
    <3>5. QED  BY <1>4, <1>6, <1>7, <3>1, <3>2, <3>3, <3>4
  <2>2. QED  BY <2>1 DEF LocatorsLead
<1>12. UniqueFound(E, L)  BY <1>0, <1>5, <1>7 DEF UniqueFound
<1>13. Shelved(E, C, L)
  BY <1>0, <1>4, <1>5, <1>8, <1>9, <1>10, <1>11, <1>12 DEF Shelved
<1>14. QED  BY <1>13 DEF C, E

-----------------------------------------------------------------------------
(* The sweep of one level *)

\* Fills, and how far the sweep of one level is.
Fill == [id : Ids, tick : Ticks, qty : Nat]
Sweeps == [remaining : Nat, data : Pools, locator : Tables, fills : Seq(Fill), level : Level]

\* The level that is written last counts.
LEMMA PutPut ==
  ASSUME NEW B \in [Side -> Shelves], NEW s \in Side, NEW p, NEW old, NEW new
  PROVE  Put(Put(B, s, p, old), s, p, new) = Put(B, s, p, new)
<1> DEFINE C == Put(B, s, p, old)
<1>1. \A t \in Side : t # s => C[t] = B[t]  BY DEF Put
<1>2. /\ DOMAIN C[s] \cup {p} = DOMAIN B[s] \cup {p}
      /\ \A r \in DOMAIN B[s] : r # p => C[s][r] = B[s][r]
  BY DEF Put
<1> HIDE DEF C
<1>3. [r \in DOMAIN C[s] \cup {p} |-> IF r = p THEN new ELSE C[s][r]]
      = [r \in DOMAIN B[s] \cup {p} |-> IF r = p THEN new ELSE B[s][r]]
  BY <1>2
<1>4. Put(C, s, p, new) = Put(B, s, p, new)  BY <1>1, <1>3 DEF Put
<1>5. QED  BY <1>4 DEF C

\* Writing the level that is there changes nothing.
LEMMA PutSame ==
  ASSUME NEW B \in [Side -> Shelves], NEW s \in Side, NEW p \in DOMAIN B[s]
  PROVE  Put(B, s, p, B[s][p]) = B
<1> DEFINE f == [r \in DOMAIN B[s] \cup {p} |-> IF r = p THEN B[s][p] ELSE B[s][r]]
<1>1. B[s] \in Shelves  OBVIOUS
<1>2. B[s] = [r \in DOMAIN B[s] |-> B[s][r]]  BY <1>1, ShelfHas
<1>3. DOMAIN B[s] \cup {p} = DOMAIN B[s]  OBVIOUS
<1>4. f = B[s]  BY <1>2, <1>3
<1> HIDE DEF f
<1>5. Put(B, s, p, B[s][p]) = [t \in Side |-> IF t = s THEN f ELSE B[t]]  BY DEF Put, f
<1>6. QED  BY <1>4, <1>5

\* A level that shows less.
Lighter(level, e) == [level EXCEPT !.total = Max({0, @ - e})]

\* Such a level is a level.
LEMMA LighterIs ==
  ASSUME NEW level \in Level, NEW e \in Nat, e <= level.total
  PROVE  /\ Lighter(level, e) \in Level
         /\ Lighter(level, e).price = level.price
         /\ Lighter(level, e).queue = level.queue
         /\ level.total = Lighter(level, e).total + e
<1>1. level.queue \in Seq(Nodes) /\ level.total \in Nat /\ level.price \in Ticks  BY DEF Level
<1>2. Max({0, level.total - e}) = level.total - e /\ level.total - e \in Nat  BY <1>1, AtLeastZero
<1>3. Lighter(level, e) \in Level  BY <1>1, <1>2 DEF Level, Lighter
<1>4. Lighter(level, e).price = level.price  BY DEF Level, Lighter
<1>5. Lighter(level, e).queue = level.queue  BY DEF Level, Lighter
<1>6. Lighter(level, e).total = level.total - e  BY <1>2 DEF Level, Lighter
<1>7. level.total = Lighter(level, e).total + e  BY <1>1, <1>6
<1>8. QED  BY <1>3, <1>4, <1>5, <1>7

\* A level without one of its orders.
LEMMA LevelRemoveIs ==
  ASSUME NEW level \in Level, IsInjective(level.queue), NEW k \in 1..Len(level.queue),
         NEW e \in Nat, e <= level.total
  PROVE  /\ LevelRemove(level, level.queue[k], e) \in Level
         /\ LevelRemove(level, level.queue[k], e).price = level.price
         /\ LevelRemove(level, level.queue[k], e).queue = RemoveAt(level.queue, k)
         /\ level.total = LevelRemove(level, level.queue[k], e).total + e
<1> DEFINE n == level.queue[k]
           rest == RemoveFirst(level.queue, n)
           new == LevelRemove(level, n, e)
<1>1. level.queue \in Seq(Nodes) /\ level.total \in Nat /\ level.price \in Ticks  BY DEF Level
<1>2. Max({0, level.total - e}) = level.total - e /\ level.total - e \in Nat  BY <1>1, AtLeastZero
<1>3. rest = RemoveAt(level.queue, k)  BY <1>1, RemoveFirstIs
<1>4. rest \in Seq(Nodes)  BY <1>1, <1>3, RemoveAtIs
<1>5. new = [level EXCEPT !.queue = rest, !.total = Max({0, @ - e})]  BY DEF LevelRemove
<1> HIDE DEF new, rest, n
<1>6. new \in Level  BY <1>1, <1>2, <1>4, <1>5 DEF Level
<1>7. new.price = level.price  BY <1>5 DEF Level
<1>8. new.queue = rest  BY <1>5 DEF Level
<1>9. new.total = level.total - e  BY <1>2, <1>5 DEF Level
<1>10. level.total = new.total + e  BY <1>1, <1>9
<1>11. QED  BY <1>3, <1>6, <1>7, <1>8, <1>10 DEF new, n

\* A queue holds no node twice, and its level shows no less than each of its orders.
LEMMA ShelvedHas ==
  ASSUME NEW D, NEW B, NEW L, Shelved(D, B, L), NEW s \in Side, NEW p \in DOMAIN B[s],
         NEW k \in 1..Len(B[s][p].queue)
  PROVE  /\ IsInjective(B[s][p].queue)
         /\ B[s][p].queue[k] \in DOMAIN D
         /\ D[B[s][p].queue[k]].qty \in Nat
         /\ D[B[s][p].queue[k]].qty <= B[s][p].total
<1>0. D \in Pools /\ B \in [Side -> Shelves] /\ QueuesApart(B) /\ PoolRests(D, B) /\ LevelsRight(D, B)
  BY DEF Shelved
<1> DEFINE q == B[s][p].queue
<1>1. q \in Seq(Nodes) /\ B[s][p].total \in Nat
  <2>1. B[s] \in Shelves  BY <1>0
  <2>2. QED  BY <2>1, ShelfHas
<1>2. IsInjective(q)
  <2>1. \A i, j \in 1..Len(q) : q[i] = q[j] => i = j  BY <1>0 DEF QueuesApart
  <2>2. DOMAIN q = 1..Len(q)  BY <1>1
  <2>3. QED  BY <2>1, <2>2 DEF IsInjective
<1>3. \A i \in 1..Len(q) : q[i] \in DOMAIN D  BY <1>0 DEF PoolRests
<1>4. \A n \in DOMAIN D : D[n].qty \in Nat  BY <1>0, PoolHas
<1>5. B[s][p].total = Shown(D, q)  BY <1>0 DEF LevelsRight
<1>6. q \in Seq(DOMAIN D)  BY <1>1, <1>3
<1>7. k \in 1..Len(q)  OBVIOUS
<1> HIDE DEF q
<1>8. Shown(D, q) = Shown(D, RemoveAt(q, k)) + D[q[k]].qty  BY <1>4, <1>6, <1>7, ShownRemove
<1>9. Shown(D, RemoveAt(q, k)) \in Nat
  <2>1. RemoveAt(q, k) \in Seq(DOMAIN D)  BY <1>6, <1>7, RemoveAtIs
  <2>2. QED  BY <1>4, <2>1, ShownFacts
<1>10. q[k] \in DOMAIN D /\ D[q[k]].qty \in Nat  BY <1>3, <1>4, <1>7
<1>11. D[q[k]].qty <= Shown(D, q)  BY <1>8, <1>9, <1>10
<1>12. QED  BY <1>2, <1>5, <1>10, <1>11 DEF q

-----------------------------------------------------------------------------
(* The adapter's table of remaining sizes *)

\* Tables of remaining sizes by id.
Remainders == UNION {[N -> Nat] : N \in SUBSET Ids}

\* MetaTracksBook, for a pool D and a table m.
Tracks(D, m) ==
  /\ m \in Remainders
  /\ \A n \in DOMAIN D : D[n].id \in UniqueIds =>
       D[n].id \in DOMAIN m /\ m[D[n].id] - 2 * D[n].qty \in -1..1
  /\ \A id \in UniqueIds :
       id \in DOMAIN m /\ (\A n \in DOMAIN D : D[n].id # id) => m[id] \in 0..1

\* What a table of remaining sizes holds.
LEMMA RemaindersHas ==
  ASSUME NEW m \in Remainders
  PROVE  /\ DOMAIN m \in SUBSET Ids /\ m = [id \in DOMAIN m |-> m[id]]
         /\ \A id \in DOMAIN m : m[id] \in Nat
<1>1. PICK N \in SUBSET Ids : m \in [N -> Nat]  BY DEF Remainders
<1>2. QED  BY <1>1

\* A table, from the sizes it holds.
LEMMA RemaindersIs ==
  ASSUME NEW N \in SUBSET Ids, NEW m, m = [id \in N |-> m[id]], \A id \in N : m[id] \in Nat
  PROVE  m \in Remainders
<1>1. m \in [N -> Nat]  OBVIOUS
<1>2. QED  BY <1>1 DEF Remainders

\* An entry goes.
LEMMA PoppedIs ==
  ASSUME NEW m \in Remainders, NEW id
  PROVE  /\ Popped(m, id) \in Remainders
         /\ DOMAIN Popped(m, id) = DOMAIN m \ {id}
         /\ \A j \in DOMAIN m : j # id => Popped(m, id)[j] = m[j]
<1> DEFINE r == Popped(m, id)
<1>1. /\ DOMAIN r = DOMAIN m \ {id} /\ r = [j \in DOMAIN m \ {id} |-> r[j]]
      /\ \A j \in DOMAIN m : j # id => r[j] = m[j]
  BY DEF Popped, Restrict
<1> HIDE DEF r
<1>2. DOMAIN m \in SUBSET Ids /\ \A j \in DOMAIN m : m[j] \in Nat  BY RemaindersHas
<1>3. DOMAIN m \ {id} \in SUBSET Ids /\ \A j \in DOMAIN m \ {id} : r[j] \in Nat  BY <1>1, <1>2
<1>4. r \in Remainders  BY <1>1, <1>3, RemaindersIs
<1>5. QED  BY <1>1, <1>4 DEF r

\* A fill touches the entry of its own order only.
LEMMA ReducedIs ==
  ASSUME NEW m \in Remainders, NEW fill \in Fill
  PROVE  /\ Reduced(m, fill) \in Remainders
         /\ \A id \in DOMAIN m : id # fill.id =>
              id \in DOMAIN Reduced(m, fill) /\ Reduced(m, fill)[id] = m[id]
         /\ \A id \in DOMAIN Reduced(m, fill) :
              /\ id \in DOMAIN m
              /\ id = fill.id => Reduced(m, fill)[id] + 2 * fill.qty = m[id]
         /\ fill.id \in DOMAIN m /\ m[fill.id] > 2 * fill.qty => fill.id \in DOMAIN Reduced(m, fill)
<1>1. fill.id \in Ids /\ fill.qty \in Nat  BY DEF Fill
<1>2. /\ DOMAIN m \in SUBSET Ids /\ m = [id \in DOMAIN m |-> m[id]]
      /\ \A id \in DOMAIN m : m[id] \in Nat
  BY RemaindersHas
<1> DEFINE i == fill.id
           e == fill.qty
           r == Reduced(m, fill)
<1>3. CASE i \notin DOMAIN m
  <2>1. r = m  BY <1>3 DEF Reduced
  <2>2. QED  BY <1>3, <2>1
<1>4. CASE i \in DOMAIN m /\ m[i] <= 2 * e
  <2>1. r = Popped(m, i)  BY <1>4 DEF Reduced
  <2>2. /\ r \in Remainders /\ DOMAIN r = DOMAIN m \ {i}
        /\ \A j \in DOMAIN m : j # i => r[j] = m[j]
    <3> HIDE DEF r, i
    <3>1. QED  BY <2>1, PoppedIs
  <2>3. ~(m[i] > 2 * e)
    <3>1. m[i] \in Nat /\ e \in Nat  BY <1>1, <1>2, <1>4
    <3>2. QED  BY <1>4, <3>1
  <2>4. QED  BY <2>2, <2>3
<1>5. CASE i \in DOMAIN m /\ ~(m[i] <= 2 * e)
  <2>1. r = [m EXCEPT ![i] = @ - 2 * e]  BY <1>5 DEF Reduced
  <2>2. m[i] - 2 * e \in Nat /\ (m[i] - 2 * e) + 2 * e = m[i]
    <3>1. m[i] \in Nat /\ e \in Nat  BY <1>1, <1>2, <1>5
    <3>2. QED  BY <1>5, <3>1
  <2>3. /\ DOMAIN r = DOMAIN m /\ r[i] = m[i] - 2 * e /\ r = [j \in DOMAIN m |-> r[j]]
        /\ \A j \in DOMAIN m : j # i => r[j] = m[j]
    BY <1>2, <1>5, <2>1
  <2> HIDE DEF r
  <2>4. \A j \in DOMAIN m : r[j] \in Nat  BY <1>2, <2>2, <2>3
  <2>5. r \in Remainders  BY <1>2, <2>3, <2>4, RemaindersIs
  <2>6. QED  BY <1>5, <2>2, <2>3, <2>5 DEF r
<1>6. QED  BY <1>3, <1>4, <1>5

\* Reductions takes one fill off after the other.
LEMMA ReductionsIs ==
  ASSUME NEW m \in Remainders, NEW fs \in Seq(Fill)
  PROVE  /\ Reductions(m, fs) \in [0..Len(fs) -> Remainders]
         /\ Reductions(m, fs)[0] = m
         /\ \A i \in 1..Len(fs) : Reductions(m, fs)[i] = Reduced(Reductions(m, fs)[i - 1], fs[i])
<1> DEFINE n == Len(fs)
           turn == [i \in 1..n |-> [r \in Remainders |-> Reduced(r, fs[i])]]
           Good == [i \in 0..n |-> Remainders]
           Body(g) == [i \in 0..n |-> IF i = 0 THEN m ELSE Reduced(g[i - 1], fs[i])]
           v == Reductions(m, fs)
<1>1. n \in Nat /\ \A i \in 1..n : fs[i] \in Fill  OBVIOUS
<1> HIDE DEF n
<1>2. PICK f \in [0..n -> Remainders] : IsRun(f, n, m, turn)
  <2>1. m \in Good[0]  BY <1>1
  <2>2. ASSUME NEW i \in 1..n, NEW x \in Good[i - 1] PROVE turn[i][x] \in Good[i]
    <3>1. i - 1 \in 0..n /\ i \in 0..n  BY <1>1
    <3>2. x \in Remainders  BY <3>1
    <3>3. Reduced(x, fs[i]) \in Remainders  BY <1>1, <3>2, ReducedIs
    <3>4. QED  BY <3>1, <3>2, <3>3
  <2>3. Good \in [0..n -> SUBSET Remainders]  OBVIOUS
  <2> HIDE DEF turn, Good
  <2>4. QED  BY <1>1, <2>1, <2>2, <2>3, LoopKeeps
<1>3. \A i \in 0..n : f[i] \in Remainders  BY <1>2
<1>4. f = Body(f)
  <2>1. ASSUME NEW i \in 1..n PROVE f[i] = Reduced(f[i - 1], fs[i])
    <3>1. i - 1 \in 0..n  BY <1>1
    <3>2. f[i - 1] \in Remainders  BY <1>3, <3>1
    <3>3. QED  BY <1>2, <3>2 DEF IsRun
  <2>2. \A i \in 0..n : i # 0 => i \in 1..n  BY <1>1
  <2>3. \A i \in 0..n : f[i] = Body(f)[i]  BY <1>2, <2>1, <2>2 DEF IsRun
  <2>4. QED  BY <2>3
<1>5. v = CHOOSE g : g = Body(g)  BY DEF Reductions, n
<1>6. v = Body(v)
  <2> HIDE DEF Body, v
  <2>1. (CHOOSE g : g = Body(g)) = Body(CHOOSE g : g = Body(g))  BY <1>4
  <2>2. QED  BY <1>5, <2>1
<1> HIDE DEF v
<1>7. v[0] = m /\ \A i \in 1..n : v[i] = Reduced(v[i - 1], fs[i])
  <2>1. 0 \in 0..n /\ \A i \in 1..n : i \in 0..n /\ i # 0  BY <1>1
  <2>2. QED  BY <1>6, <2>1
<1>8. \A i \in 0..n : v[i] \in Remainders
  <2> DEFINE T == {i \in 0..n : v[i] \in Remainders}
  <2>1. 0 \in T  BY <1>1, <1>7
  <2>2. ASSUME NEW i \in 0..n, i < n, i \in T PROVE i + 1 \in T
    <3>1. i + 1 \in 1..n /\ i + 1 \in 0..n /\ (i + 1) - 1 = i  BY <1>1, <2>2
    <3>2. v[i + 1] = Reduced(v[i], fs[i + 1])  BY <1>7, <3>1
    <3>3. QED  BY <1>1, <2>2, <3>1, <3>2, ReducedIs
  <2> HIDE DEF T
  <2>3. \A i \in 0..n : i \in T  BY <1>1, <2>1, <2>2, UpTo
  <2>4. QED  BY <2>3 DEF T
<1>9. v \in [0..n -> Remainders]  BY <1>6, <1>8
<1>10. QED  BY <1>7, <1>9 DEF v, n

\* What is left after all the fills.
After(m, fs) == Reductions(m, fs)[Len(fs)]

\* One more fill is one more reduction.
LEMMA AfterIs ==
  ASSUME NEW m \in Remainders, NEW fs \in Seq(Fill), NEW fill \in Fill
  PROVE  /\ After(m, fs) \in Remainders
         /\ After(m, Append(fs, fill)) = Reduced(After(m, fs), fill)
<1> DEFINE n == Len(fs)
           more == Append(fs, fill)
           a == Reductions(m, fs)
           b == Reductions(m, more)
           Same == {i \in 0..n : a[i] = b[i]}
<1>1. /\ n \in Nat /\ more \in Seq(Fill) /\ Len(more) = n + 1 /\ more[n + 1] = fill
      /\ \A i \in 1..n : more[i] = fs[i]
  OBVIOUS
<1> HIDE DEF more
<1>2. /\ a \in [0..n -> Remainders] /\ a[0] = m
      /\ \A i \in 1..n : a[i] = Reduced(a[i - 1], fs[i])
  BY ReductionsIs
<1>3. b[0] = m /\ \A i \in 1..(n + 1) : b[i] = Reduced(b[i - 1], more[i])
  <2>1. b[0] = m /\ \A i \in 1..Len(more) : b[i] = Reduced(b[i - 1], more[i])
    BY <1>1, ReductionsIs
  <2>2. QED  BY <1>1, <2>1
<1> HIDE DEF a, b, n
<1>4. 0 \in Same  BY <1>1, <1>2, <1>3
<1>5. ASSUME NEW i \in 0..n, i < n, i \in Same PROVE i + 1 \in Same
  <2>1. i + 1 \in 1..n /\ i + 1 \in 0..n /\ i + 1 \in 1..(n + 1) /\ i + 1 - 1 = i  BY <1>1, <1>5
  <2>2. a[i + 1] = Reduced(a[i], fs[i + 1]) /\ b[i + 1] = Reduced(b[i], more[i + 1])
    BY <1>2, <1>3, <2>1
  <2>3. QED  BY <1>1, <1>5, <2>1, <2>2
<1> HIDE DEF Same
<1>6. \A i \in 0..n : i \in Same  BY <1>1, <1>4, <1>5, UpTo
<1>7. n \in 0..n /\ n + 1 \in 1..(n + 1) /\ n + 1 - 1 = n  BY <1>1
<1>8. a[n] = b[n]  BY <1>6, <1>7 DEF Same
<1>9. b[n + 1] = Reduced(b[n], fill)  BY <1>1, <1>3, <1>7
<1>10. a[n] \in Remainders  BY <1>2, <1>7
<1>11. After(m, fs) = a[n] /\ After(m, more) = b[n + 1]  BY <1>1 DEF After, a, b, n
<1>12. QED  BY <1>8, <1>9, <1>10, <1>11 DEF more

\* Orders with an id callers do not reuse have it for themselves.
LEMMA UniqueAlone ==
  ASSUME NEW D, NEW L, UniqueFound(D, L), NEW n \in DOMAIN D, NEW x \in DOMAIN D, x # n,
         D[x].id \in UniqueIds
  PROVE  D[x].id # D[n].id
<1>1. SUFFICES ASSUME D[x].id = D[n].id PROVE FALSE  OBVIOUS
<1>2. L[D[x].id].node = x /\ L[D[n].id].node = n  BY <1>1 DEF UniqueFound
<1>3. QED  BY <1>1, <1>2

\* The fill of all an order shows leaves no entry, or half a unit of it.
LEMMA TracksRelease ==
  ASSUME NEW D \in Pools, NEW m, Tracks(D, m), NEW L, UniqueFound(D, L), NEW n \in DOMAIN D,
         NEW fill \in Fill, fill.id = D[n].id, fill.qty = D[n].qty
  PROVE  Tracks(Release(D, n), Reduced(m, fill))
<1> DEFINE E == Release(D, n)
           r == Reduced(m, fill)
<1>1. /\ m \in Remainders /\ r \in Remainders
      /\ \A id \in DOMAIN m : id # fill.id => id \in DOMAIN r /\ r[id] = m[id]
      /\ \A id \in DOMAIN r : id \in DOMAIN m /\ (id = fill.id => r[id] + 2 * fill.qty = m[id])
  <2>1. m \in Remainders  BY DEF Tracks
  <2>2. QED  BY <2>1, ReducedIs
<1>2. /\ DOMAIN E = DOMAIN D \ {n} /\ \A x \in DOMAIN D : x # n => E[x] = D[x]
  BY ReleaseIs
<1>3. /\ \A x \in DOMAIN D : D[x].id \in UniqueIds =>
           D[x].id \in DOMAIN m /\ m[D[x].id] - 2 * D[x].qty \in -1..1
      /\ \A id \in UniqueIds :
           id \in DOMAIN m /\ (\A x \in DOMAIN D : D[x].id # id) => m[id] \in 0..1
  BY DEF Tracks
<1>4. \A x \in DOMAIN D : x # n /\ D[x].id \in UniqueIds => D[x].id # D[n].id  BY UniqueAlone
<1>5. /\ \A id \in DOMAIN m : m[id] \in Nat /\ m[id] \in Int
      /\ \A id \in DOMAIN r : r[id] \in Nat /\ r[id] \in Int
  BY <1>1, RemaindersHas
<1> HIDE DEF E, r
<1>6. \A x \in DOMAIN E : E[x].id \in UniqueIds =>
        E[x].id \in DOMAIN r /\ r[E[x].id] - 2 * E[x].qty \in -1..1
  BY <1>1, <1>2, <1>3, <1>4
<1>7. ASSUME NEW id \in UniqueIds, id \in DOMAIN r, \A x \in DOMAIN E : E[x].id # id
      PROVE  r[id] \in 0..1
  <2>1. CASE id = D[n].id
    <3>1. r[id] + 2 * D[n].qty = m[id] /\ m[id] - 2 * D[n].qty \in -1..1
      BY <1>1, <1>3, <1>7, <2>1
    <3>2. r[id] \in Nat /\ D[n].qty \in Nat /\ m[id] \in Nat  BY <1>1, <1>5, <1>7, PoolHas
    <3> DEFINE a == r[id]
               b == m[id]
               q == D[n].qty
    <3>3. a + 2 * q = b /\ b - 2 * q \in -1..1 /\ a \in Nat /\ b \in Nat /\ q \in Nat
      BY <3>1, <3>2
    <3> HIDE DEF a, b, q
    <3>4. a \in 0..1  BY <3>3
    <3>5. QED  BY <3>4 DEF a
  <2>2. CASE id # D[n].id
    <3>1. \A x \in DOMAIN D : D[x].id # id  BY <1>2, <1>7, <2>2
    <3>2. id \in DOMAIN m /\ r[id] = m[id]  BY <1>1, <1>7, <2>2
    <3>3. QED  BY <1>3, <3>1, <3>2
  <2>3. QED  BY <2>1, <2>2
<1>8. Tracks(E, r)  BY <1>1, <1>6, <1>7 DEF Tracks
<1>9. QED  BY <1>8 DEF E, r

\* A partial fill is taken off the order and off its entry.
LEMMA TracksGive ==
  ASSUME NEW D \in Pools, NEW m, Tracks(D, m), NEW L, UniqueFound(D, L), NEW n \in DOMAIN D,
         NEW fill \in Fill, fill.id = D[n].id, fill.qty < D[n].qty
  PROVE  Tracks(Give(D, n, fill.qty), Reduced(m, fill))
<1> DEFINE e == fill.qty
           E == Give(D, n, e)
           r == Reduced(m, fill)
<1>1. /\ m \in Remainders /\ r \in Remainders
      /\ \A id \in DOMAIN m : id # fill.id => id \in DOMAIN r /\ r[id] = m[id]
      /\ \A id \in DOMAIN r : id \in DOMAIN m /\ (id = fill.id => r[id] + 2 * e = m[id])
      /\ fill.id \in DOMAIN m /\ m[fill.id] > 2 * e => fill.id \in DOMAIN r
  <2>1. m \in Remainders  BY DEF Tracks
  <2>2. QED  BY <2>1, ReducedIs
<1>2. e \in Nat /\ D[n].qty \in Nat /\ e <= D[n].qty /\ e < D[n].qty
  <2>1. e \in Nat /\ D[n].qty \in Nat  BY PoolHas DEF Fill
  <2>2. QED  BY <2>1
<1>3. /\ DOMAIN E = DOMAIN D /\ E[n].id = D[n].id /\ D[n].qty = E[n].qty + e
      /\ \A x \in DOMAIN D : x # n => E[x] = D[x]
      /\ E \in Pools
  <2> HIDE DEF e
  <2>1. QED  BY <1>2, GiveIs
<1>4. /\ \A x \in DOMAIN D : D[x].id \in UniqueIds =>
           D[x].id \in DOMAIN m /\ m[D[x].id] - 2 * D[x].qty \in -1..1
      /\ \A id \in UniqueIds :
           id \in DOMAIN m /\ (\A x \in DOMAIN D : D[x].id # id) => m[id] \in 0..1
  BY DEF Tracks
<1>5. \A x \in DOMAIN D : x # n /\ D[x].id \in UniqueIds => D[x].id # D[n].id  BY UniqueAlone
<1>6. /\ \A id \in DOMAIN m : m[id] \in Nat
      /\ \A id \in DOMAIN r : r[id] \in Nat
  BY <1>1, RemaindersHas
<1>7. E[n].qty \in Nat  BY <1>3, PoolHas
<1> HIDE DEF E, r, e
<1>8. ASSUME NEW x \in DOMAIN E, E[x].id \in UniqueIds
      PROVE  E[x].id \in DOMAIN r /\ r[E[x].id] - 2 * E[x].qty \in -1..1
  <2>1. CASE x # n  BY <1>1, <1>3, <1>4, <1>5, <1>8, <2>1
  <2>2. CASE x = n
    <3> DEFINE b == m[fill.id]
               a == r[fill.id]
               q == E[n].qty
               d == D[n].qty
    <3>1. /\ fill.id \in DOMAIN m /\ b \in Nat /\ b - 2 * d \in -1..1
          /\ d = q + e /\ q \in Nat /\ e \in Nat /\ e < d
      BY <1>2, <1>3, <1>4, <1>6, <1>7, <1>8, <2>2
    <3>2. b > 2 * e
      <4> HIDE DEF b, q, d
      <4>1. QED  BY <3>1
    <3>3. fill.id \in DOMAIN r /\ a + 2 * e = b /\ a \in Nat  BY <1>1, <1>6, <3>1, <3>2
    <3>4. a - 2 * q \in -1..1
      <4> HIDE DEF a, b, q, d
      <4>1. QED  BY <3>1, <3>3
    <3>5. E[x].id = fill.id /\ E[x].qty = q  BY <1>3, <2>2
    <3>6. QED  BY <3>3, <3>4, <3>5
  <2>3. QED  BY <2>1, <2>2
<1>9. ASSUME NEW id \in UniqueIds, id \in DOMAIN r, \A x \in DOMAIN E : E[x].id # id
      PROVE  r[id] \in 0..1
  <2>1. \A x \in DOMAIN D : D[x].id # id  BY <1>3, <1>9
  <2>2. id # fill.id  BY <2>1
  <2>3. id \in DOMAIN m /\ r[id] = m[id]  BY <1>1, <1>9, <2>2
  <2>4. QED  BY <1>4, <2>1, <2>3
<1>10. Tracks(E, r)  BY <1>1, <1>8, <1>9 DEF Tracks
<1>11. QED  BY <1>10 DEF E, r, e

-----------------------------------------------------------------------------
(* One node of the sweep *)

\* The sweep has reached acc, and writes its level back at p on side s of B.
Swept(acc, B, s, p, m) ==
  /\ acc \in Sweeps
  /\ Shelved(acc.data, Put(B, s, p, acc.level), acc.locator)
  /\ Tracks(acc.data, After(m, acc.fills))

\* The fields of a sweep.
LEMMA SweepHas ==
  ASSUME NEW acc \in Sweeps
  PROVE  /\ acc.remaining \in Nat /\ acc.data \in Pools /\ acc.locator \in Tables
         /\ acc.fills \in Seq(Fill) /\ acc.level \in Level
BY DEF Sweeps

\* A sweep, from its fields.
LEMMA SweepIs ==
  ASSUME NEW remaining \in Nat, NEW pool \in Pools, NEW table \in Tables,
         NEW fs \in Seq(Fill), NEW level \in Level
  PROVE  [remaining |-> remaining, data |-> pool, fills |-> fs, locator |-> table,
          level |-> level] \in Sweeps
BY DEF Sweeps

\* FillNode passes the node over, unlinks it, or takes some of what it shows.
LEMMA FillNodeIs ==
  ASSUME NEW acc, NEW n, acc.remaining \in Nat, acc.data[n].qty \in Nat
  PROVE  LET order == acc.data[n]
             part  == [id |-> order.id, tick |-> Lighter(acc.level, acc.remaining).price,
                       qty |-> acc.remaining]
             whole == [id |-> order.id, tick |-> Lighter(acc.level, order.qty).price,
                       qty |-> order.qty]
         IN /\ acc.remaining = 0 \/ order.qty = 0 => FillNode(acc, n) = acc
            /\ acc.remaining # 0 /\ order.qty # 0 /\ order.qty <= acc.remaining =>
                 FillNode(acc, n) =
                   [remaining |-> acc.remaining - order.qty, data |-> Release(acc.data, n),
                    fills |-> Append(acc.fills, whole), locator |-> Forget(acc.locator, order.id),
                    level |-> LevelRemove(Lighter(acc.level, order.qty), n, 0)]
            /\ acc.remaining # 0 /\ ~(order.qty <= acc.remaining) =>
                 FillNode(acc, n) =
                   [remaining |-> acc.remaining - acc.remaining,
                    data |-> Give(acc.data, n, acc.remaining),
                    fills |-> Append(acc.fills, part), locator |-> acc.locator,
                    level |-> Lighter(acc.level, acc.remaining)]
<1> DEFINE q == acc.data[n].qty
           r == acc.remaining
           e == Executed(acc.data[n], acc.remaining)
<1>1. e = IF q <= r THEN q ELSE r
  <2>1. e = Min({q, r})  BY DEF Executed
  <2>2. q \in Nat /\ r \in Nat  OBVIOUS
  <2> HIDE DEF e, q, r
  <2>3. QED  BY <2>1, <2>2, TheSmaller
<1>2. q \in Nat /\ r \in Nat  OBVIOUS
<1>3. PassedOver(e) <=> r = 0 \/ q = 0
  <2> HIDE DEF e, q, r
  <2>1. QED  BY <1>1, <1>2 DEF PassedOver
<1>4. (q - e = 0) <=> q <= r
  <2> HIDE DEF e, q, r
  <2>1. QED  BY <1>1, <1>2
<1> HIDE DEF e
<1>5. FillNode(acc, n) =
        IF PassedOver(e) THEN acc
        ELSE [remaining |-> r - e,
              data |-> IF q - e = 0 THEN Release(acc.data, n) ELSE Give(acc.data, n, e),
              fills |-> Append(acc.fills, [id |-> acc.data[n].id,
                                           tick |-> Lighter(acc.level, e).price, qty |-> e]),
              locator |-> IF q - e = 0 THEN Forget(acc.locator, acc.data[n].id) ELSE acc.locator,
              level |-> IF q - e = 0 THEN LevelRemove(Lighter(acc.level, e), n, 0)
                        ELSE Lighter(acc.level, e)]
  BY DEF FillNode, e, Give, Lighter
<1>6. CASE r = 0 \/ q = 0  BY <1>2, <1>3, <1>5, <1>6
<1>7. CASE r # 0 /\ q # 0 /\ q <= r
  <2>1. e = q /\ ~PassedOver(e) /\ q - e = 0  BY <1>1, <1>3, <1>4, <1>7
  <2>2. QED  BY <1>2, <1>5, <1>7, <2>1
<1>8. CASE r # 0 /\ q # 0 /\ ~(q <= r)
  <2>1. e = r /\ ~PassedOver(e) /\ ~(q - e = 0)  BY <1>1, <1>3, <1>4, <1>8
  <2>2. QED  BY <1>2, <1>5, <1>8, <2>1
<1>9. QED  BY <1>6, <1>7, <1>8

\* A node of the sweep keeps the book and the adapter's table in order, and
\* takes no other node out of the queue.
LEMMA FillNodeKeeps ==
  ASSUME NEW B \in [Side -> Shelves], NEW s \in Side, NEW p \in DOMAIN B[s],
         NEW m \in Remainders, NEW acc, Swept(acc, B, s, p, m),
         NEW k \in 1..Len(acc.level.queue), NEW n, n = acc.level.queue[k]
  PROVE  /\ Swept(FillNode(acc, n), B, s, p, m)
         /\ acc.remaining = 0 => FillNode(acc, n) = acc
         /\ \A i \in 1..Len(acc.level.queue) : i # k =>
              \E j \in 1..Len(FillNode(acc, n).level.queue) :
                FillNode(acc, n).level.queue[j] = acc.level.queue[i]
<1> DEFINE D == acc.data
           level == acc.level
           C == Put(B, s, p, level)
           q == D[n].qty
           r == acc.remaining
           new == FillNode(acc, n)
           Kept(y) == \A i \in 1..Len(level.queue) : i # k =>
                        \E j \in 1..Len(y.level.queue) : y.level.queue[j] = level.queue[i]
<1>1. /\ acc \in Sweeps /\ Shelved(D, C, acc.locator) /\ Tracks(D, After(m, acc.fills))
  BY DEF Swept
<1>2. /\ r \in Nat /\ D \in Pools /\ acc.locator \in Tables
      /\ acc.fills \in Seq(Fill) /\ level \in Level
  BY <1>1, SweepHas
<1>3. /\ C \in [Side -> Shelves] /\ DOMAIN C[s] = DOMAIN B[s] /\ C[s][p] = level
  BY <1>2, LevelPut
<1>4. level.queue \in Seq(Nodes) /\ level.total \in Nat /\ level.price \in Ticks
  BY <1>2 DEF Level
<1> HIDE DEF C
<1>5. IsInjective(level.queue) /\ n \in DOMAIN D /\ q \in Nat /\ q <= level.total
  <2>1. p \in DOMAIN C[s] /\ k \in 1..Len(C[s][p].queue) /\ n = C[s][p].queue[k]  BY <1>3
  <2>2. QED  BY <1>1, <1>3, <2>1, ShelvedHas
<1>6. D[n].id \in Ids  BY <1>2, <1>5, PoolHas
<1>7. UniqueFound(D, acc.locator)  BY <1>1 DEF Shelved
<1> HIDE DEF q, r, new, level, D
<1>8. CASE r = 0 \/ q = 0
  <2>1. new = acc  BY <1>2, <1>5, <1>8, FillNodeIs DEF new, q, r, D
  <2>2. Kept(acc)  BY DEF level
  <2>3. Swept(new, B, s, p, m) /\ Kept(new)  BY <2>1, <2>2
  <2>4. QED  BY <2>1, <2>3 DEF new, level
<1>9. CASE r # 0 /\ q # 0 /\ q <= r
  <2> DEFINE fill == [id |-> D[n].id, tick |-> Lighter(level, q).price, qty |-> q]
             after == LevelRemove(Lighter(level, q), n, 0)
             light == Lighter(level, q)
  <2>1. new = [remaining |-> r - q, data |-> Release(D, n), fills |-> Append(acc.fills, fill),
               locator |-> Forget(acc.locator, D[n].id), level |-> after]
    BY <1>2, <1>5, <1>9, FillNodeIs DEF new, q, r, D, level
  <2>2. /\ light \in Level /\ light.price = level.price /\ light.queue = level.queue
        /\ level.total = light.total + q
    BY <1>2, <1>5, LighterIs
  <2>3. light.total \in Nat  BY <2>2 DEF Level
  <2> HIDE DEF light
  <2>4. /\ after \in Level /\ after.price = level.price /\ after.queue = RemoveAt(level.queue, k)
        /\ level.total = after.total + q
    <3>1. /\ after = LevelRemove(light, light.queue[k], 0)
          /\ IsInjective(light.queue) /\ k \in 1..Len(light.queue) /\ 0 <= light.total
      BY <1>5, <2>2, <2>3 DEF light, level
    <3> HIDE DEF after
    <3>2. /\ after \in Level /\ after.price = light.price
          /\ after.queue = RemoveAt(light.queue, k) /\ light.total = after.total + 0
      BY <2>2, <3>1, LevelRemoveIs
    <3>3. after.total \in Nat  BY <3>2 DEF Level
    <3>4. light.total = after.total  BY <2>3, <3>2, <3>3
    <3>5. QED  BY <2>2, <3>2, <3>4
  <2> HIDE DEF after
  <2>5. fill \in Fill /\ fill.id = D[n].id /\ fill.qty = q
    <3>1. light.price \in Ticks  BY <1>4, <2>2 DEF level
    <3>2. QED  BY <1>5, <1>6, <3>1 DEF Fill, light
  <2> HIDE DEF fill
  <2>6. Shelved(Release(D, n), Put(C, s, p, after), Forget(acc.locator, D[n].id))
    <3>1. p \in DOMAIN C[s] /\ k \in 1..Len(C[s][p].queue) /\ n = C[s][p].queue[k]
      BY <1>3 DEF level
    <3>2. /\ after.price = C[s][p].price /\ after.queue = RemoveAt(C[s][p].queue, k)
          /\ C[s][p].total = after.total + D[n].qty
      BY <1>3, <2>4 DEF q
    <3>3. QED  BY <1>1, <2>4, <3>1, <3>2, ShelvedRemove
  <2>7. Put(C, s, p, after) = Put(B, s, p, after)  BY PutPut DEF C
  <2>8. Tracks(Release(D, n), Reduced(After(m, acc.fills), fill))
    BY <1>1, <1>2, <1>5, <1>7, <2>5, TracksRelease DEF q
  <2>9. Reduced(After(m, acc.fills), fill) = After(m, Append(acc.fills, fill))
    BY <1>2, <2>5, AfterIs
  <2>10. new \in Sweeps
    <3>1. r - q \in Nat  BY <1>2, <1>5, <1>9 DEF r
    <3>2. Append(acc.fills, fill) \in Seq(Fill)  BY <1>2, <2>5
    <3>3. Release(D, n) \in Pools /\ Forget(acc.locator, D[n].id) \in Tables
      BY <2>6 DEF Shelved
    <3>4. QED  BY <2>1, <2>4, <3>1, <3>2, <3>3, SweepIs
  <2>11. /\ new.data = Release(D, n) /\ new.locator = Forget(acc.locator, D[n].id)
         /\ new.level = after /\ new.fills = Append(acc.fills, fill)
    BY <2>1
  <2>12. Swept(new, B, s, p, m)  BY <2>6, <2>7, <2>8, <2>9, <2>10, <2>11 DEF Swept
  <2>13. Kept(new)
    <3>1. ASSUME NEW i \in 1..Len(level.queue), i # k
          PROVE  \E j \in 1..Len(after.queue) : after.queue[j] = level.queue[i]
      <4> DEFINE len == Len(level.queue)
      <4>1. len \in Nat /\ k \in 1..len  BY <1>4 DEF level
      <4>2. /\ Len(after.queue) = len - 1
            /\ \A j \in 1..(len - 1) :
                 after.queue[j] = IF j < k THEN level.queue[j] ELSE level.queue[j + 1]
        <5>1. level.queue \in Seq(Nodes) /\ k \in 1..Len(level.queue)  BY <1>4 DEF level
        <5>2. QED  BY <2>4, <5>1, RemoveAtIs
      <4>3. CASE i < k
        <5>1. i \in 1..(len - 1)  BY <3>1, <4>1, <4>3
        <5>2. QED  BY <4>2, <4>3, <5>1
      <4>4. CASE ~(i < k)
        <5>1. i - 1 \in 1..(len - 1) /\ ~(i - 1 < k) /\ i - 1 + 1 = i  BY <3>1, <4>1, <4>4
        <5>2. QED  BY <4>2, <5>1
      <4>5. QED  BY <4>3, <4>4
    <3>2. QED  BY <2>11, <3>1
  <2>14. ~(acc.remaining = 0)  BY <1>9 DEF r
  <2>15. QED  BY <2>12, <2>13, <2>14 DEF new, level
<1>10. CASE r # 0 /\ ~(q <= r)
  <2> DEFINE fill == [id |-> D[n].id, tick |-> Lighter(level, r).price, qty |-> r]
             after == Lighter(level, r)
  <2>1. new = [remaining |-> r - r, data |-> Give(D, n, r), fills |-> Append(acc.fills, fill),
               locator |-> acc.locator, level |-> after]
    BY <1>2, <1>5, <1>10, FillNodeIs DEF new, q, r, D, level
  <2>2. r <= q /\ r < q /\ r <= level.total  BY <1>2, <1>4, <1>5, <1>10 DEF level
  <2>3. /\ after \in Level /\ after.price = level.price /\ after.queue = level.queue
        /\ level.total = after.total + r
    BY <1>2, <2>2, LighterIs
  <2> HIDE DEF after
  <2>4. fill \in Fill /\ fill.id = D[n].id /\ fill.qty = r
    <3>1. after.price \in Ticks  BY <1>4, <2>3 DEF level
    <3>2. QED  BY <1>2, <1>6, <3>1 DEF Fill, after
  <2> HIDE DEF fill
  <2>5. Shelved(Give(D, n, r), Put(C, s, p, after), acc.locator)
    <3>1. p \in DOMAIN C[s] /\ k \in 1..Len(C[s][p].queue) /\ n = C[s][p].queue[k]
      BY <1>3 DEF level
    <3>2. /\ after.price = C[s][p].price /\ after.queue = C[s][p].queue
          /\ C[s][p].total = after.total + r /\ r <= D[n].qty
      BY <1>3, <2>2, <2>3 DEF q
    <3>3. QED  BY <1>1, <1>2, <2>3, <3>1, <3>2, ShelvedTake
  <2>6. Put(C, s, p, after) = Put(B, s, p, after)  BY PutPut DEF C
  <2>7. Tracks(Give(D, n, r), Reduced(After(m, acc.fills), fill))
    <3>1. fill.qty < D[n].qty  BY <2>2, <2>4 DEF q
    <3>2. Tracks(Give(D, n, fill.qty), Reduced(After(m, acc.fills), fill))
      BY <1>1, <1>2, <1>5, <1>7, <2>4, <3>1, TracksGive
    <3>3. QED  BY <2>4, <3>2
  <2>8. Reduced(After(m, acc.fills), fill) = After(m, Append(acc.fills, fill))
    BY <1>2, <2>4, AfterIs
  <2>9. new \in Sweeps
    <3>1. r - r \in Nat  BY <1>2
    <3>2. Append(acc.fills, fill) \in Seq(Fill)  BY <1>2, <2>4
    <3>3. Give(D, n, r) \in Pools  BY <2>5 DEF Shelved
    <3>4. QED  BY <1>2, <2>1, <2>3, <3>1, <3>2, <3>3, SweepIs
  <2>10. /\ new.data = Give(D, n, r) /\ new.locator = acc.locator
         /\ new.level = after /\ new.fills = Append(acc.fills, fill)
    BY <2>1
  <2>11. Swept(new, B, s, p, m)  BY <2>5, <2>6, <2>7, <2>8, <2>9, <2>10 DEF Swept
  <2>12. Kept(new)  BY <2>3, <2>10
  <2>13. ~(acc.remaining = 0)  BY <1>10 DEF r
  <2>14. QED  BY <2>11, <2>12, <2>13 DEF new, level
<1>11. QED  BY <1>2, <1>5, <1>8, <1>9, <1>10

\* The sweep of a whole queue takes its nodes one after the other, keeps the book
\* and the adapter's table in order, and without anything left to execute does
\* nothing.
LEMMA FillNodesRun ==
  ASSUME NEW B \in [Side -> Shelves], NEW s \in Side, NEW p \in DOMAIN B[s],
         NEW m \in Remainders, NEW acc, Swept(acc, B, s, p, m)
  PROVE  LET q == acc.level.queue
             v == FillNodes(acc, q)
         IN /\ v[0] = acc /\ \A i \in 1..Len(q) : v[i] = FillNode(v[i - 1], q[i])
            /\ \A i \in 0..Len(q) : /\ Swept(v[i], B, s, p, m)
                                    /\ acc.remaining = 0 => v[i] = acc
<1> DEFINE q == acc.level.queue
           n == Len(q)
           turn == [i \in 1..n |-> [x \in Sweeps |-> FillNode(x, q[i])]]
           Left(x, i) == \A j \in (i + 1)..n : \E l \in 1..Len(x.level.queue) :
                           x.level.queue[l] = q[j]
           Good == [i \in 0..n |-> {x \in Sweeps : /\ Swept(x, B, s, p, m)
                                                   /\ acc.remaining = 0 => x = acc
                                                   /\ Left(x, i)}]
           Body(g) == [i \in 0..n |-> IF i = 0 THEN acc ELSE FillNode(g[i - 1], q[i])]
           v == FillNodes(acc, q)
<1>1. /\ acc \in Sweeps /\ q \in Seq(Nodes) /\ n \in Nat
      /\ \A i, j \in 1..n : q[i] = q[j] => i = j
  <2>1. acc \in Sweeps /\ Shelved(acc.data, Put(B, s, p, acc.level), acc.locator)  BY DEF Swept
  <2>2. acc.level \in Level  BY <2>1, SweepHas
  <2>3. q \in Seq(Nodes)  BY <2>2 DEF Level
  <2>4. p \in DOMAIN Put(B, s, p, acc.level)[s] /\ Put(B, s, p, acc.level)[s][p] = acc.level
    BY <2>2, LevelPut
  <2>5. \A i \in 1..n : IsInjective(q)
    <3>1. ASSUME NEW i \in 1..n PROVE IsInjective(q)
      <4>1. i \in 1..Len(Put(B, s, p, acc.level)[s][p].queue)  BY <2>4
      <4>2. QED  BY <2>1, <2>4, <4>1, ShelvedHas
    <3>2. QED  BY <3>1
  <2>6. DOMAIN q = 1..n /\ n \in Nat  BY <2>3
  <2>7. QED  BY <2>1, <2>3, <2>5, <2>6 DEF IsInjective
<1>2. acc \in Good[0]
  <2>1. Left(acc, 0)
    <3>1. \A j \in (0 + 1)..n : j \in 1..Len(acc.level.queue)  BY <1>1
    <3>2. QED  BY <3>1
  <2> HIDE DEF Left, n
  <2>2. QED  BY <1>1, <2>1
<1>3. ASSUME NEW i \in 1..n, NEW x \in Good[i - 1] PROVE turn[i][x] \in Good[i]
  <2>1. i - 1 \in 0..n /\ i \in 0..n /\ i - 1 + 1 = i /\ i \in i..n  BY <1>1
  <2>2. x \in Sweeps /\ Swept(x, B, s, p, m) /\ (acc.remaining = 0 => x = acc) /\ Left(x, i - 1)
    <3> HIDE DEF Left, n
    <3>1. QED  BY <2>1
  <2>3. PICK l \in 1..Len(x.level.queue) : x.level.queue[l] = q[i]  BY <2>1, <2>2
  <2> DEFINE y == FillNode(x, q[i])
  <2>4. /\ Swept(y, B, s, p, m) /\ (x.remaining = 0 => y = x)
        /\ \A k \in 1..Len(x.level.queue) : k # l =>
             \E j \in 1..Len(y.level.queue) : y.level.queue[j] = x.level.queue[k]
    <3> DEFINE a == q[i]
    <3>1. Swept(x, B, s, p, m) /\ a = x.level.queue[l] /\ l \in 1..Len(x.level.queue)
      BY <2>2, <2>3
    <3> HIDE DEF a, Good, Left, n, q, turn
    <3>2. /\ Swept(FillNode(x, a), B, s, p, m) /\ (x.remaining = 0 => FillNode(x, a) = x)
          /\ \A k \in 1..Len(x.level.queue) : k # l =>
               \E j \in 1..Len(FillNode(x, a).level.queue) :
                 FillNode(x, a).level.queue[j] = x.level.queue[k]
      BY <3>1, FillNodeKeeps
    <3>3. QED  BY <3>2 DEF a, y, q
  <2>5. Left(y, i)
    <3>1. ASSUME NEW j \in (i + 1)..n
          PROVE  \E k \in 1..Len(y.level.queue) : y.level.queue[k] = q[j]
      <4>1. j \in 1..n /\ j # i /\ j \in (i - 1 + 1)..n  BY <1>1, <2>1
      <4>2. PICK k \in 1..Len(x.level.queue) : x.level.queue[k] = q[j]  BY <2>2, <4>1
      <4>3. k # l  BY <1>1, <2>3, <4>1, <4>2
      <4> HIDE DEF y
      <4>4. QED  BY <2>4, <4>2, <4>3
    <3>2. QED  BY <3>1
  <2>6. y \in Sweeps  BY <2>4 DEF Swept
  <2>7. turn[i][x] = y  BY <2>2
  <2>8. acc.remaining = 0 => y = acc  BY <2>2, <2>4
  <2> HIDE DEF Left, n, y, turn
  <2>9. QED  BY <2>1, <2>4, <2>5, <2>6, <2>7, <2>8
<1>4. Good \in [0..n -> SUBSET Sweeps]
  <2> HIDE DEF Left, n
  <2>1. QED  OBVIOUS
<1>5. PICK f \in [0..n -> Sweeps] : IsRun(f, n, acc, turn) /\ \A i \in 0..n : f[i] \in Good[i]
  <2> HIDE DEF Good, turn, n
  <2>1. QED  BY <1>1, <1>2, <1>3, <1>4, LoopKeeps
<1>6. f = Body(f)
  <2> HIDE DEF q, n, Good
  <2>1. ASSUME NEW i \in 1..n PROVE f[i] = FillNode(f[i - 1], q[i])
    <3>1. i - 1 \in 0..n  BY <1>1
    <3>2. f[i - 1] \in Sweeps  BY <3>1
    <3>3. QED  BY <1>5, <3>2 DEF IsRun
  <2>2. \A i \in 0..n : i # 0 => i \in 1..n  BY <1>1
  <2>3. \A i \in 0..n : f[i] = Body(f)[i]  BY <1>5, <2>1, <2>2 DEF IsRun
  <2>4. QED  BY <2>3
<1>7. v = CHOOSE g : g = Body(g)  BY DEF FillNodes
<1>8. v = Body(v)
  <2> HIDE DEF Body, v
  <2>1. (CHOOSE g : g = Body(g)) = Body(CHOOSE g : g = Body(g))  BY <1>6
  <2>2. QED  BY <1>7, <2>1
<1> HIDE DEF v, Good, turn, q, n
<1>9. v[0] = acc /\ \A i \in 1..n : v[i] = FillNode(v[i - 1], q[i])
  <2>1. 0 \in 0..n /\ \A i \in 1..n : i \in 0..n /\ i # 0  BY <1>1
  <2>2. QED  BY <1>8, <2>1
<1>10. \A i \in 1..n : f[i] = FillNode(f[i - 1], q[i]) /\ f[0] = acc
  <2>1. 0 \in 0..n /\ \A i \in 1..n : i \in 0..n /\ i # 0  BY <1>1
  <2>2. QED  BY <1>5, <1>6, <2>1 DEF IsRun
<1>11. \A i \in 0..n : v[i] = f[i]
  <2> DEFINE T == {i \in 0..n : v[i] = f[i]}
  <2>1. 0 \in T  BY <1>1, <1>5, <1>9 DEF IsRun
  <2>2. ASSUME NEW i \in 0..n, i < n, i \in T PROVE i + 1 \in T
    <3>1. i + 1 \in 1..n /\ i + 1 \in 0..n /\ (i + 1) - 1 = i  BY <1>1, <2>2
    <3>2. v[i + 1] = FillNode(v[i], q[i + 1]) /\ f[i + 1] = FillNode(f[i], q[i + 1])
      BY <1>9, <1>10, <3>1
    <3>3. QED  BY <2>2, <3>1, <3>2
  <2> HIDE DEF T
  <2>3. \A i \in 0..n : i \in T  BY <1>1, <2>1, <2>2, UpTo
  <2>4. QED  BY <2>3 DEF T
<1>12. \A i \in 0..n : v[i] \in Good[i]  BY <1>5, <1>11
<1>13. \A i \in 0..n : Swept(v[i], B, s, p, m) /\ (acc.remaining = 0 => v[i] = acc)
  BY <1>12 DEF Good
<1>14. QED  BY <1>9, <1>13 DEF v, q, n

\* So does the whole sweep.
LEMMA FillNodesKeeps ==
  ASSUME NEW B \in [Side -> Shelves], NEW s \in Side, NEW p \in DOMAIN B[s],
         NEW m \in Remainders, NEW acc, Swept(acc, B, s, p, m)
  PROVE  /\ Swept(FillNodes(acc, acc.level.queue)[Len(acc.level.queue)], B, s, p, m)
         /\ acc.remaining = 0 => FillNodes(acc, acc.level.queue)[Len(acc.level.queue)] = acc
<1>1. acc.level \in Level  BY SweepHas DEF Swept
<1>2. acc.level.queue \in Seq(Nodes)  BY <1>1 DEF Level
<1>3. Len(acc.level.queue) \in 0..Len(acc.level.queue)  BY <1>2
<1>4. QED  BY <1>3, FillNodesRun

-----------------------------------------------------------------------------
(* One side: its vector of levels and its index *)

\* Best price first, no price twice.
Sorted(s, es) == \A i, j \in 1..Len(es) : i < j => Comp(s, es[i].price, es[j].price)

\* The vector is sorted and the index holds the positions of its prices.
Flat(s, es, idx) ==
  /\ es \in Seq(Level) /\ Sorted(s, es)
  /\ DOMAIN idx = {es[i].price : i \in 1..Len(es)}
  /\ idx = [p \in DOMAIN idx |-> idx[p]]
  /\ \A i \in 1..Len(es) : idx[es[i].price] = i

\* The levels by price.
Shelf(es, idx) == [p \in DOMAIN idx |-> es[idx[p]]]

\* With the level at p.
Placed(f, p, level) == [r \in DOMAIN f \cup {p} |-> IF r = p THEN level ELSE f[r]]

\* Prices are whole numbers of ticks.
LEMMA TicksAreInts == \A p \in Ticks : p \in Int
<1>1. ASSUME NEW raw \in RawPrices PROVE ToTicks(raw) \in Int
  <2>1. raw \in Nat /\ PriceScale \in Nat \ {0}  BY OrderBookAssumption
  <2> DEFINE a == 2 * raw + PriceScale
             b == 2 * PriceScale
  <2>2. a \in Int /\ b \in Int /\ b > 0  BY <2>1
  <2> HIDE DEF a, b
  <2>3. a \div b \in Int  BY <2>2
  <2>4. QED  BY <2>3 DEF ToTicks, a, b
<1>2. QED  BY <1>1 DEF Ticks

\* The comparators are strict total orders.
LEMMA CompOrders ==
  ASSUME NEW s, NEW p \in Int, NEW q \in Int, NEW r \in Int
  PROVE  /\ ~Comp(s, p, p)
         /\ Comp(s, p, q) /\ Comp(s, q, r) => Comp(s, p, r)
         /\ ~Comp(s, p, q) /\ p # q => Comp(s, q, p)
BY DEF Comp

\* Where a price stands.
LEMMA FlatHas ==
  ASSUME NEW s, NEW es, NEW idx, Flat(s, es, idx)
  PROVE  /\ Len(es) \in Nat /\ DOMAIN es = 1..Len(es)
         /\ \A i \in 1..Len(es) : /\ es[i] \in Level /\ es[i].price \in Ticks
                                  /\ es[i].price \in DOMAIN idx /\ idx[es[i].price] = i
         /\ \A p \in DOMAIN idx : idx[p] \in 1..Len(es) /\ es[idx[p]].price = p /\ p \in Ticks
<1>1. es \in Seq(Level)  BY DEF Flat
<1>2. Len(es) \in Nat /\ DOMAIN es = 1..Len(es) /\ \A i \in 1..Len(es) : es[i] \in Level  BY <1>1
<1>3. \A l \in Level : l.price \in Ticks  BY DEF Level
<1>4. \A i \in 1..Len(es) : es[i].price \in DOMAIN idx /\ idx[es[i].price] = i  BY DEF Flat
<1>5. ASSUME NEW p \in DOMAIN idx PROVE idx[p] \in 1..Len(es) /\ es[idx[p]].price = p /\ p \in Ticks
  <2>1. PICK i \in 1..Len(es) : es[i].price = p  BY DEF Flat
  <2>2. idx[p] = i  BY <1>4, <2>1
  <2>3. QED  BY <1>2, <1>3, <2>1, <2>2
<1>6. QED  BY <1>2, <1>3, <1>4, <1>5

\* The levels of a sorted vector have different prices.
LEMMA SortedApart ==
  ASSUME NEW s, NEW es \in Seq(Level), Sorted(s, es),
         NEW i \in 1..Len(es), NEW j \in 1..Len(es), es[i].price = es[j].price
  PROVE  i = j
<1>1. \A k \in 1..Len(es) : es[k].price \in Ticks
  <2>1. \A k \in 1..Len(es) : es[k] \in Level  OBVIOUS
  <2>2. QED  BY <2>1 DEF Level
<1>2. es[i].price \in Int  BY <1>1, TicksAreInts
<1>3. ~Comp(s, es[i].price, es[j].price) /\ ~Comp(s, es[j].price, es[i].price)
  BY <1>2, CompOrders
<1>4. ~(i < j) /\ ~(j < i)  BY <1>3 DEF Sorted
<1>5. i \in Int /\ j \in Int  OBVIOUS
<1>6. QED  BY <1>4, <1>5

\* The levels by price are levels, each under its price.
LEMMA ShelfOfFlat ==
  ASSUME NEW s, NEW es, NEW idx, Flat(s, es, idx)
  PROVE  /\ Shelf(es, idx) \in Shelves
         /\ DOMAIN Shelf(es, idx) = DOMAIN idx
         /\ \A p \in DOMAIN idx : Shelf(es, idx)[p] = es[idx[p]]
         /\ \A i \in 1..Len(es) : Shelf(es, idx)[es[i].price] = es[i]
<1> DEFINE f == Shelf(es, idx)
<1>1. DOMAIN f = DOMAIN idx /\ f = [p \in DOMAIN idx |-> f[p]] /\ \A p \in DOMAIN idx : f[p] = es[idx[p]]
  BY DEF Shelf
<1> HIDE DEF f
<1>2. DOMAIN idx \in SUBSET Ticks /\ \A p \in DOMAIN idx : f[p] \in Level  BY <1>1, FlatHas
<1>3. f \in Shelves  BY <1>1, <1>2, ShelfIs
<1>4. \A i \in 1..Len(es) : f[es[i].price] = es[i]  BY <1>1, FlatHas
<1>5. QED  BY <1>1, <1>3, <1>4 DEF f

\* A level is written at its place.
LEMMA FlatWrite ==
  ASSUME NEW s, NEW es, NEW idx, Flat(s, es, idx), NEW p \in DOMAIN idx, NEW level \in Level,
         level.price = p
  PROVE  /\ Flat(s, [es EXCEPT ![idx[p]] = level], idx)
         /\ Len([es EXCEPT ![idx[p]] = level]) = Len(es)
         /\ \A i \in 1..Len(es) : [es EXCEPT ![idx[p]] = level][i].price = es[i].price
         /\ Shelf([es EXCEPT ![idx[p]] = level], idx) = Placed(Shelf(es, idx), p, level)
<1> DEFINE k == idx[p]
           new == [es EXCEPT ![k] = level]
<1>1. es \in Seq(Level) /\ Sorted(s, es)  BY DEF Flat
<1>2. /\ k \in 1..Len(es) /\ es[k].price = p
      /\ \A r \in DOMAIN idx : idx[r] \in 1..Len(es) /\ es[idx[r]].price = r
  BY FlatHas
<1> HIDE DEF k
<1>3. /\ new \in Seq(Level) /\ Len(new) = Len(es) /\ new[k] = level
      /\ \A i \in 1..Len(es) : i # k => new[i] = es[i]
  BY <1>1, <1>2
<1> HIDE DEF new
<1>4. \A i \in 1..Len(es) : new[i].price = es[i].price  BY <1>2, <1>3
<1>5. Sorted(s, new)  BY <1>1, <1>3, <1>4 DEF Sorted
<1>6. {new[i].price : i \in 1..Len(new)} = {es[i].price : i \in 1..Len(es)}  BY <1>3, <1>4
<1>7. Flat(s, new, idx)
  <2>1. /\ DOMAIN idx = {es[i].price : i \in 1..Len(es)} /\ idx = [r \in DOMAIN idx |-> idx[r]]
        /\ \A i \in 1..Len(es) : idx[es[i].price] = i
    BY DEF Flat
  <2>2. QED  BY <1>3, <1>4, <1>5, <1>6, <2>1 DEF Flat
<1>8. \A r \in DOMAIN idx : new[idx[r]] = IF r = p THEN level ELSE es[idx[r]]
  <2>1. \A r \in DOMAIN idx : r # p => idx[r] # k  BY <1>2
  <2>2. QED  BY <1>2, <1>3, <2>1 DEF k
<1>9. Shelf(new, idx) = Placed(Shelf(es, idx), p, level)
  <2>1. DOMAIN Shelf(es, idx) = DOMAIN idx /\ \A r \in DOMAIN idx : Shelf(es, idx)[r] = es[idx[r]]
    BY ShelfOfFlat
  <2>2. DOMAIN Shelf(es, idx) \cup {p} = DOMAIN idx  BY <2>1
  <2>3. Shelf(new, idx) = [r \in DOMAIN idx |-> IF r = p THEN level ELSE Shelf(es, idx)[r]]
    BY <1>8, <2>1 DEF Shelf
  <2>4. QED  BY <2>2, <2>3 DEF Placed
<1>10. QED  BY <1>3, <1>4, <1>7, <1>9 DEF new, k

\* Writing the positions from `start` on makes an index of a sorted vector whose
\* earlier positions are right.
LEMMA RefreshIs ==
  ASSUME NEW s, NEW es \in Seq(Level), Sorted(s, es), NEW start \in 1..(Len(es) + 1), NEW idx,
         DOMAIN idx \cup {es[i].price : i \in start..Len(es)} = {es[i].price : i \in 1..Len(es)},
         \A i \in 1..(start - 1) : idx[es[i].price] = i
  PROVE  Flat(s, es, RefreshIndices(es, idx, start))
<1> DEFINE n == Len(es)
           tail == start..n
           new == RefreshIndices(es, idx, start)
<1>1. n \in Nat /\ start \in Int /\ 1 <= start  OBVIOUS
<1>2. DOMAIN new = {es[i].price : i \in 1..n}  BY DEF RefreshIndices
<1>3. ASSUME NEW i \in 1..n PROVE new[es[i].price] = i
  <2> DEFINE p == es[i].price
  <2>1. p \in DOMAIN idx \cup {es[j].price : j \in start..Len(es)}  OBVIOUS
  <2>2. new[p] = IF \E j \in tail : es[j].price = p THEN CHOOSE j \in tail : es[j].price = p
                 ELSE idx[p]
    BY <2>1 DEF RefreshIndices
  <2>3. \A j \in 1..n : es[j].price = p => j = i  BY SortedApart
  <2> HIDE DEF new, p, n
  <2>4. CASE i \in tail
    <3>1. es[i].price = p  BY DEF p
    <3>2. \A j \in tail : es[j].price = p => j = i
      <4>1. \A j \in tail : j \in 1..n  BY <1>1
      <4>2. QED  BY <2>3, <4>1
    <3>3. \E j \in tail : es[j].price = p  BY <2>4, <3>1
    <3> HIDE DEF tail
    <3>4. (CHOOSE j \in tail : es[j].price = p) = i  BY <2>4, <3>1, <3>2
    <3>5. QED  BY <2>2, <3>3, <3>4 DEF p
  <2>5. CASE i \notin tail
    <3>1. i \in 1..(start - 1)  BY <1>1, <2>5
    <3>2. \A j \in tail : es[j].price # p
      <4>1. \A j \in tail : j \in 1..n  BY <1>1
      <4>2. QED  BY <2>3, <2>5, <4>1
    <3>3. idx[p] = i  BY <3>1 DEF p
    <3>4. QED  BY <2>2, <3>2, <3>3 DEF p
  <2>6. QED  BY <2>4, <2>5
<1>4. new = [p \in DOMAIN new |-> new[p]]  BY DEF RefreshIndices
<1> HIDE DEF new
<1>5. Flat(s, es, new)  BY <1>2, <1>3, <1>4 DEF Flat
<1>6. QED  BY <1>5 DEF new

\* The scan for the place of a price finds the first level that does not come
\* before it, or the end.
LEMMA InsertPosIs ==
  ASSUME NEW s, NEW es \in Seq(Level), NEW p
  PROVE  /\ FindInsertPos(s, es, p) \in 1..(Len(es) + 1)
         /\ \A j \in 1..(FindInsertPos(s, es, p) - 1) : Comp(s, es[j].price, p)
         /\ FindInsertPos(s, es, p) \in 1..Len(es) =>
              ~Comp(s, es[FindInsertPos(s, es, p)].price, p)
<1> DEFINE n == Len(es)
           Stop(i) == /\ \A j \in 1..(i - 1) : Comp(s, es[j].price, p)
                      /\ i \in DOMAIN es => ~Comp(s, es[i].price, p)
           Later == {i \in 1..n : ~Comp(s, es[i].price, p)}
<1>1. n \in Nat /\ DOMAIN es = 1..n  OBVIOUS
<1>2. \E i \in 1..(n + 1) : Stop(i)
  <2>1. CASE Later = {}
    <3>1. n + 1 \in 1..(n + 1) /\ n + 1 \notin DOMAIN es /\ n + 1 - 1 = n  BY <1>1
    <3>2. \A j \in 1..(n + 1 - 1) : Comp(s, es[j].price, p)  BY <2>1, <3>1
    <3>3. QED  BY <3>1, <3>2
  <2>2. CASE Later # {}
    <3>1. Later \in SUBSET Nat  OBVIOUS
    <3> HIDE DEF Later
    <3>2. PICK i \in Later : \A j \in Later : i <= j  BY <2>2, <3>1, LeastNatural
    <3>3. i \in 1..n /\ ~Comp(s, es[i].price, p)  BY DEF Later
    <3>4. \A j \in 1..(i - 1) : Comp(s, es[j].price, p)
      <4>1. \A j \in 1..(i - 1) : j \in 1..n /\ ~(i <= j)  BY <1>1, <3>3
      <4>2. \A j \in 1..(i - 1) : j \notin Later  BY <3>2, <4>1
      <4>3. QED  BY <4>1, <4>2 DEF Later
    <3>5. i \in 1..(n + 1)  BY <1>1, <3>3
    <3>6. QED  BY <3>3, <3>4, <3>5
  <2>3. QED  BY <2>1, <2>2
<1> HIDE DEF n
<1>3. FindInsertPos(s, es, p) = CHOOSE i \in 1..(n + 1) : Stop(i)  BY DEF FindInsertPos, n
<1> DEFINE pos == FindInsertPos(s, es, p)
<1>4. pos \in 1..(n + 1) /\ Stop(pos)
  <2> HIDE DEF Stop
  <2>1. (CHOOSE i \in 1..(n + 1) : Stop(i)) \in 1..(n + 1) /\ Stop(CHOOSE i \in 1..(n + 1) : Stop(i))
    BY <1>2
  <2>2. QED  BY <1>3, <2>1
<1>5. QED  BY <1>1, <1>4 DEF n

\* A level is added where the price had none, without orders.
LEMMA LevelForIs ==
  ASSUME NEW s, NEW es, NEW idx, Flat(s, es, idx), NEW p \in Ticks, p \notin DOMAIN idx
  PROVE  LET fb == LevelFor(s, [entries |-> es, index |-> idx], p)
         IN /\ Flat(s, fb.entries, fb.index)
            /\ p \in DOMAIN fb.index
            /\ Shelf(fb.entries, fb.index) = Placed(Shelf(es, idx), p, EmptyLevel(p))
<1> DEFINE pos == FindInsertPos(s, es, p)
           new == InsertAt(es, pos, EmptyLevel(p))
           refreshed == RefreshIndices(new, idx, pos)
           n == Len(es)
<1>1. es \in Seq(Level) /\ Sorted(s, es)  BY DEF Flat
<1>2. /\ n \in Nat
      /\ \A i \in 1..n : /\ es[i] \in Level /\ es[i].price \in Ticks
                         /\ es[i].price \in DOMAIN idx /\ idx[es[i].price] = i
      /\ \A r \in DOMAIN idx : idx[r] \in 1..n /\ es[idx[r]].price = r
  BY FlatHas
<1>3. /\ pos \in 1..(n + 1) /\ \A j \in 1..(pos - 1) : Comp(s, es[j].price, p)
      /\ pos \in 1..n => ~Comp(s, es[pos].price, p)
  BY <1>1, InsertPosIs
<1>4. EmptyLevel(p) \in Level /\ EmptyLevel(p).price = p  BY DEF EmptyLevel, Level
<1> DEFINE empty == EmptyLevel(p)
<1> HIDE DEF pos, empty
<1>5. /\ new \in Seq(Level) /\ Len(new) = n + 1
      /\ \A i \in 1..(n + 1) : new[i] = IF i < pos THEN es[i] ELSE IF i = pos THEN empty ELSE es[i - 1]
  <2>1. es \in Seq(Level) /\ pos \in 1..(Len(es) + 1)  BY <1>1, <1>3
  <2>2. empty \in Level  BY <1>4 DEF empty
  <2>3. new = InsertAt(es, pos, empty)  BY DEF empty
  <2> HIDE DEF new
  <2>4. QED  BY <2>1, <2>2, <2>3, InsertAtIs
<1> HIDE DEF new
\* The old place of a level that is not the new one, and the new of an old one.
<1>6. ASSUME NEW i \in 1..(n + 1), i # pos
      PROVE  IF i < pos THEN i \in 1..n /\ new[i] = es[i] ELSE i - 1 \in 1..n /\ new[i] = es[i - 1]
  <2>1. pos \in Int /\ 1 <= pos /\ pos <= n + 1  BY <1>3
  <2>2. QED  BY <1>2, <1>5, <1>6, <2>1
<1>7. ASSUME NEW i \in 1..n
      PROVE  IF i < pos THEN i \in 1..(n + 1) /\ new[i] = es[i]
             ELSE i + 1 \in 1..(n + 1) /\ new[i + 1] = es[i]
  <2>1. pos \in Int /\ 1 <= pos /\ pos <= n + 1  BY <1>3
  <2>2. i + 1 \in 1..(n + 1) /\ i \in 1..(n + 1) /\ i + 1 - 1 = i  BY <1>2
  <2>3. ~(i < pos) => ~(i + 1 < pos) /\ i + 1 # pos  BY <2>1
  <2>4. QED  BY <1>5, <2>2, <2>3
<1>8. new[pos] = empty /\ empty.price = p
  <2>1. ~(pos < pos)  BY <1>3
  <2>2. QED  BY <1>3, <1>4, <1>5, <2>1 DEF empty
<1>9. Sorted(s, new)
  <2>1. ASSUME NEW i \in 1..(n + 1), NEW j \in 1..(n + 1), i < j
        PROVE  Comp(s, new[i].price, new[j].price)
    <3>1. p \in Int /\ \A k \in 1..n : es[k].price \in Int /\ es[k].price # p
      BY <1>2, TicksAreInts
    <3>2. pos \in Int /\ i \in Int /\ j \in Int /\ 1 <= pos /\ pos <= n + 1  BY <1>3
    <3>3. ASSUME NEW k \in 1..n, ~(k < pos) PROVE Comp(s, p, es[k].price)
      <4>1. pos \in 1..n /\ ~Comp(s, es[pos].price, p)  BY <1>2, <1>3, <3>2, <3>3
      <4>2. Comp(s, p, es[pos].price)  BY <3>1, <4>1, CompOrders
      <4>3. CASE k = pos  BY <4>2, <4>3
      <4>4. CASE k # pos
        <5>1. pos < k  BY <3>2, <3>3, <4>4
        <5>2. Comp(s, es[pos].price, es[k].price)  BY <1>1, <4>1, <5>1 DEF Sorted
        <5>3. QED  BY <3>1, <4>1, <4>2, <5>2, CompOrders
      <4>5. QED  BY <4>3, <4>4
    <3>4. CASE i = pos
      <4>1. j # pos /\ ~(j < pos) /\ ~(j - 1 < pos)  BY <2>1, <3>2, <3>4
      <4>2. j - 1 \in 1..n /\ new[j] = es[j - 1]  BY <1>6, <4>1
      <4>3. QED  BY <1>8, <3>3, <3>4, <4>1, <4>2
    <3>5. CASE j = pos
      <4>1. i # pos /\ i < pos /\ i \in 1..(pos - 1)  BY <2>1, <3>2, <3>5
      <4>2. new[i] = es[i]  BY <1>6, <4>1
      <4>3. QED  BY <1>3, <1>8, <3>5, <4>1, <4>2
    <3>6. CASE i # pos /\ j # pos
      <4>1. PICK k \in 1..n : new[i] = es[k] /\ k = IF i < pos THEN i ELSE i - 1
        BY <1>6, <3>6
      <4>2. PICK l \in 1..n : new[j] = es[l] /\ l = IF j < pos THEN j ELSE j - 1
        BY <1>6, <3>6
      <4>3. k < l  BY <2>1, <3>2, <3>6, <4>1, <4>2
      <4>4. QED  BY <1>1, <4>1, <4>2, <4>3 DEF Sorted
    <3>7. QED  BY <3>4, <3>5, <3>6
  <2>2. QED  BY <1>5, <2>1 DEF Sorted
<1>10. DOMAIN idx \cup {new[i].price : i \in pos..Len(new)} = {new[i].price : i \in 1..Len(new)}
  <2>1. \A r \in DOMAIN idx : \E i \in 1..(n + 1) : new[i].price = r
    <3>1. ASSUME NEW r \in DOMAIN idx PROVE \E i \in 1..(n + 1) : new[i].price = r
      <4>1. idx[r] \in 1..n /\ es[idx[r]].price = r  BY <1>2
      <4>2. QED  BY <1>7, <4>1
    <3>2. QED  BY <3>1
  <2>2. \A i \in pos..(n + 1) : i \in 1..(n + 1)  BY <1>2, <1>3
  <2>3. \A i \in 1..(n + 1) : i \notin pos..(n + 1) => new[i].price \in DOMAIN idx
    <3>1. ASSUME NEW i \in 1..(n + 1), i \notin pos..(n + 1) PROVE new[i].price \in DOMAIN idx
      <4>1. i < pos /\ i # pos  BY <1>3, <3>1
      <4>2. i \in 1..n /\ new[i] = es[i]  BY <1>6, <4>1
      <4>3. QED  BY <1>2, <4>2
    <3>2. QED  BY <3>1
  <2>4. QED  BY <1>5, <2>1, <2>2, <2>3
<1>11. \A i \in 1..(pos - 1) : idx[new[i].price] = i
  <2>1. ASSUME NEW i \in 1..(pos - 1) PROVE idx[new[i].price] = i
    <3>1. i \in 1..(n + 1) /\ i < pos /\ i # pos  BY <1>2, <1>3
    <3>2. i \in 1..n /\ new[i] = es[i]  BY <1>6, <3>1
    <3>3. QED  BY <1>2, <3>2
  <2>2. QED  BY <2>1
<1>12. Flat(s, new, refreshed)
  <2>1. pos \in 1..(Len(new) + 1)  BY <1>2, <1>3, <1>5
  <2>2. QED  BY <1>5, <1>9, <1>10, <1>11, <2>1, RefreshIs
<1>13. DOMAIN refreshed = DOMAIN idx \cup {p}
  <2>1. pos \in pos..(n + 1)  BY <1>2, <1>3
  <2>2. \A i \in pos..(n + 1) : new[i].price \in DOMAIN idx \cup {p}
    <3>1. ASSUME NEW i \in pos..(n + 1) PROVE new[i].price \in DOMAIN idx \cup {p}
      <4>1. i \in 1..(n + 1)  BY <1>2, <1>3
      <4>2. i # pos => new[i].price \in DOMAIN idx  BY <1>2, <1>6, <4>1
      <4>3. QED  BY <1>8, <4>2
    <3>2. QED  BY <3>1
  <2>3. DOMAIN refreshed = DOMAIN idx \cup {new[i].price : i \in pos..(n + 1)}
    BY <1>5 DEF RefreshIndices
  <2>4. QED  BY <1>8, <2>1, <2>2, <2>3
<1> HIDE DEF refreshed
<1>14. Shelf(new, refreshed) = Placed(Shelf(es, idx), p, empty)
  <2>1. /\ DOMAIN Shelf(es, idx) = DOMAIN idx
        /\ \A r \in DOMAIN idx : Shelf(es, idx)[r] = es[idx[r]]
    BY ShelfOfFlat
  <2>2. \A i \in 1..(n + 1) : refreshed[new[i].price] = i  BY <1>5, <1>12, FlatHas
  <2>3. ASSUME NEW r \in DOMAIN idx \cup {p}
        PROVE  new[refreshed[r]] = IF r = p THEN empty ELSE Shelf(es, idx)[r]
    <3>1. CASE r = p  BY <1>3, <1>8, <2>2, <3>1
    <3>2. CASE r # p
      <4>1. idx[r] \in 1..n /\ es[idx[r]].price = r  BY <1>2, <3>2
      <4>2. PICK i \in 1..(n + 1) : new[i] = es[idx[r]]  BY <1>7, <4>1
      <4>3. refreshed[r] = i  BY <2>2, <4>1, <4>2
      <4>4. QED  BY <2>1, <3>2, <4>2, <4>3
    <3>3. QED  BY <3>1, <3>2
  <2>4. Shelf(new, refreshed) = [r \in DOMAIN idx \cup {p} |->
                                   IF r = p THEN empty ELSE Shelf(es, idx)[r]]
    BY <1>13, <2>3 DEF Shelf
  <2>5. QED  BY <2>1, <2>4 DEF Placed
<1>15. LevelFor(s, [entries |-> es, index |-> idx], p) = [entries |-> new, index |-> refreshed]
  BY DEF LevelFor, new, refreshed, pos
<1>16. QED  BY <1>12, <1>13, <1>14, <1>15 DEF empty

\* A level without orders is taken out.
LEMMA EraseIs ==
  ASSUME NEW s, NEW es, NEW idx, Flat(s, es, idx), NEW p \in DOMAIN idx,
         es[idx[p]].queue = <<>>
  PROVE  LET fb == EraseIfEmpty([entries |-> es, index |-> idx], p)
         IN /\ Flat(s, fb.entries, fb.index)
            /\ DOMAIN fb.index = DOMAIN idx \ {p}
            /\ Shelf(fb.entries, fb.index) = Restrict(Shelf(es, idx), DOMAIN Shelf(es, idx) \ {p})
<1> DEFINE pos == idx[p]
           new == RemoveAt(es, pos)
           cut == Restrict(idx, DOMAIN idx \ {p})
           refreshed == RefreshIndices(new, cut, pos)
           n == Len(es)
<1>1. es \in Seq(Level) /\ Sorted(s, es)  BY DEF Flat
<1>2. /\ n \in Nat
      /\ \A i \in 1..n : /\ es[i] \in Level /\ es[i].price \in Ticks
                         /\ es[i].price \in DOMAIN idx /\ idx[es[i].price] = i
      /\ \A r \in DOMAIN idx : idx[r] \in 1..n /\ es[idx[r]].price = r
  BY FlatHas
<1>3. pos \in 1..n /\ es[pos].price = p  BY <1>2
<1>4. /\ new \in Seq(Level) /\ Len(new) = n - 1
      /\ \A i \in 1..(n - 1) : new[i] = IF i < pos THEN es[i] ELSE es[i + 1]
  BY <1>1, <1>3, RemoveAtIs
<1>5. DOMAIN cut = DOMAIN idx \ {p} /\ \A r \in DOMAIN idx : r # p => cut[r] = idx[r]
  BY DEF Restrict
<1>6. EraseIfEmpty([entries |-> es, index |-> idx], p) = [entries |-> new, index |-> refreshed]
  BY DEF EraseIfEmpty
<1> HIDE DEF pos, new, cut, n
\* The old place of a level that is left, and the new of an old one.
<1> DEFINE From(i) == IF i < pos THEN i ELSE i + 1
           To(i) == IF i < pos THEN i ELSE i - 1
<1>7. ASSUME NEW i \in 1..(n - 1)
      PROVE  From(i) \in 1..n /\ From(i) # pos /\ new[i] = es[From(i)]
  <2>1. pos \in Int /\ 1 <= pos /\ pos <= n  BY <1>3
  <2>2. QED  BY <1>2, <1>4, <2>1
<1>8. ASSUME NEW i \in 1..n, i # pos PROVE To(i) \in 1..(n - 1) /\ new[To(i)] = es[i]
  <2>1. pos \in Int /\ 1 <= pos /\ pos <= n  BY <1>3
  <2>2. CASE i < pos
    <3>1. i \in 1..(n - 1)  BY <1>2, <2>1, <2>2
    <3>2. QED  BY <1>4, <2>2, <3>1
  <2>3. CASE ~(i < pos)
    <3>1. i - 1 \in 1..(n - 1) /\ ~(i - 1 < pos) /\ i - 1 + 1 = i  BY <1>2, <1>8, <2>1, <2>3
    <3>2. QED  BY <1>4, <2>3, <3>1
  <2>4. QED  BY <2>2, <2>3
<1>9. Sorted(s, new)
  <2>1. ASSUME NEW i \in 1..(n - 1), NEW j \in 1..(n - 1), i < j
        PROVE  Comp(s, new[i].price, new[j].price)
    <3>1. pos \in Int /\ i \in Int /\ j \in Int  BY <1>3
    <3>2. From(i) < From(j)  BY <2>1, <3>1
    <3>3. /\ From(i) \in 1..n /\ new[i] = es[From(i)]
          /\ From(j) \in 1..n /\ new[j] = es[From(j)]
      BY <1>7
    <3> HIDE DEF From
    <3>4. QED  BY <1>1, <3>2, <3>3 DEF Sorted, n
  <2>2. QED  BY <1>4, <2>1 DEF Sorted
<1> HIDE DEF From, To
<1>10. \A i \in 1..(n - 1) : new[i].price \in DOMAIN cut /\ cut[new[i].price] = From(i)
  <2>1. ASSUME NEW i \in 1..(n - 1) PROVE new[i].price \in DOMAIN cut /\ cut[new[i].price] = From(i)
    <3>1. From(i) \in 1..n /\ From(i) # pos /\ new[i] = es[From(i)]  BY <1>7
    <3>2. es[From(i)].price \in DOMAIN idx /\ idx[es[From(i)].price] = From(i)  BY <1>2, <3>1
    <3>3. es[From(i)].price # p  BY <3>1, <3>2 DEF pos
    <3>4. QED  BY <1>5, <3>1, <3>2, <3>3
  <2>2. QED  BY <2>1
<1>11. \A r \in DOMAIN cut : /\ idx[r] \in 1..n /\ idx[r] # pos /\ es[idx[r]].price = r
                             /\ \E i \in 1..(n - 1) : new[i] = es[idx[r]]
  <2>1. ASSUME NEW r \in DOMAIN cut
        PROVE  /\ idx[r] \in 1..n /\ idx[r] # pos /\ es[idx[r]].price = r
               /\ \E i \in 1..(n - 1) : new[i] = es[idx[r]]
    <3>1. r \in DOMAIN idx /\ r # p  BY <1>5
    <3>2. idx[r] \in 1..n /\ es[idx[r]].price = r  BY <1>2, <3>1
    <3>3. idx[r] # pos  BY <1>3, <3>1, <3>2
    <3>4. QED  BY <1>8, <3>2, <3>3
  <2>2. QED  BY <2>1
<1>12. DOMAIN cut = {new[i].price : i \in 1..(n - 1)}
  <2>1. \A r \in DOMAIN cut : \E i \in 1..(n - 1) : new[i].price = r  BY <1>11
  <2>2. QED  BY <1>10, <2>1
<1>13. DOMAIN refreshed = DOMAIN cut /\ Flat(s, new, refreshed)
  <2>1. pos \in 1..(Len(new) + 1)  BY <1>2, <1>3, <1>4
  <2>2. \A i \in pos..(n - 1) : i \in 1..(n - 1)  BY <1>2, <1>3
  <2>3. DOMAIN cut \cup {new[i].price : i \in pos..Len(new)} = {new[i].price : i \in 1..Len(new)}
    BY <1>4, <1>12, <2>2
  <2>4. \A i \in 1..(pos - 1) : cut[new[i].price] = i
    <3>1. ASSUME NEW i \in 1..(pos - 1) PROVE cut[new[i].price] = i
      <4>1. i \in 1..(n - 1) /\ i < pos  BY <1>2, <1>3
      <4>2. QED  BY <1>10, <4>1 DEF From
    <3>2. QED  BY <3>1
  <2>5. Flat(s, new, refreshed)  BY <1>4, <1>9, <2>1, <2>3, <2>4, RefreshIs
  <2>6. DOMAIN refreshed = DOMAIN cut \cup {new[i].price : i \in pos..(n - 1)}
    BY <1>4 DEF RefreshIndices
  <2>7. QED  BY <1>12, <2>2, <2>5, <2>6
<1> HIDE DEF refreshed
<1>14. Shelf(new, refreshed) = Restrict(Shelf(es, idx), DOMAIN Shelf(es, idx) \ {p})
  <2>1. DOMAIN Shelf(es, idx) = DOMAIN idx /\ \A r \in DOMAIN idx : Shelf(es, idx)[r] = es[idx[r]]
    BY ShelfOfFlat
  <2>2. \A i \in 1..(n - 1) : refreshed[new[i].price] = i  BY <1>4, <1>13, FlatHas
  <2>3. ASSUME NEW r \in DOMAIN cut PROVE new[refreshed[r]] = Shelf(es, idx)[r]
    <3>1. PICK i \in 1..(n - 1) : new[i] = es[idx[r]]  BY <1>11
    <3>2. refreshed[r] = i  BY <1>11, <2>2, <3>1
    <3>3. QED  BY <1>5, <2>1, <3>1, <3>2
  <2>4. Shelf(new, refreshed) = [r \in DOMAIN cut |-> Shelf(es, idx)[r]]
    BY <1>13, <2>3 DEF Shelf
  <2>5. QED  BY <1>5, <2>1, <2>4 DEF Restrict
<1>15. QED  BY <1>5, <1>6, <1>13, <1>14

-----------------------------------------------------------------------------
(* The sweep of a side *)

\* Indices, sides, and how far the sweep of a side is.
Indices == UNION {[P -> Nat] : P \in SUBSET Ticks}
FlatBooks == [entries : Seq(Level), index : Indices]
Rounds == [remaining : Nat, data : Pools, locator : Tables, fills : Seq(Fill), fb : FlatBooks]

\* The vector and the index of a side, by type.
LEMMA IndexIs ==
  ASSUME NEW s, NEW es, NEW idx, Flat(s, es, idx)
  PROVE  es \in Seq(Level) /\ idx \in Indices
<1>1. DOMAIN idx \in SUBSET Ticks /\ \A p \in DOMAIN idx : idx[p] \in Nat  BY FlatHas
<1>2. idx = [p \in DOMAIN idx |-> idx[p]]  BY DEF Flat
<1>3. idx \in [DOMAIN idx -> Nat]  BY <1>1, <1>2
<1>4. idx \in Indices  BY <1>1, <1>3 DEF Indices
<1>5. QED  BY <1>4 DEF Flat

\* The book with the levels f on side s.
WithSide(B, s, f) == [t \in Side |-> IF t = s THEN f ELSE B[t]]

\* The side is replaced, and by itself leaves the book as it is.
LEMMA WithSideIs ==
  ASSUME NEW B \in [Side -> Shelves], NEW s \in Side, NEW f \in Shelves
  PROVE  /\ WithSide(B, s, f) \in [Side -> Shelves] /\ WithSide(B, s, f)[s] = f
         /\ WithSide(B, s, B[s]) = B
BY DEF WithSide

\* A level put on the replaced side is a side with that level.
LEMMA WithPut ==
  ASSUME NEW B \in [Side -> Shelves], NEW s \in Side, NEW f \in Shelves, NEW p, NEW level,
         NEW g, g = Placed(f, p, level)
  PROVE  Put(WithSide(B, s, f), s, p, level) = WithSide(B, s, g)
<1> DEFINE C == WithSide(B, s, f)
<1>1. C[s] = f /\ \A t \in Side : t # s => C[t] = B[t]  BY DEF WithSide
<1> HIDE DEF C
<1>2. Put(C, s, p, level) = [t \in Side |-> IF t = s THEN g ELSE C[t]]  BY <1>1 DEF Put, Placed
<1> HIDE DEF C
<1>3. [t \in Side |-> IF t = s THEN g ELSE C[t]] = [t \in Side |-> IF t = s THEN g ELSE B[t]]
  BY <1>1
<1>4. Put(C, s, p, level) = WithSide(B, s, g)  BY <1>2, <1>3 DEF WithSide
<1>5. QED  BY <1>4 DEF C

\* A level dropped from the replaced side is a side without it.
LEMMA WithDrop ==
  ASSUME NEW B \in [Side -> Shelves], NEW s \in Side, NEW f \in Shelves, NEW p,
         NEW g, g = Restrict(f, DOMAIN f \ {p})
  PROVE  Drop(WithSide(B, s, f), s, p) = WithSide(B, s, g)
<1> DEFINE C == WithSide(B, s, f)
<1>1. C[s] = f /\ \A t \in Side : t # s => C[t] = B[t]  BY DEF WithSide
<1> HIDE DEF C
<1>2. Drop(C, s, p) = [t \in Side |-> IF t = s THEN g ELSE C[t]]  BY <1>1 DEF Drop
<1>3. [t \in Side |-> IF t = s THEN g ELSE C[t]] = [t \in Side |-> IF t = s THEN g ELSE B[t]]
  BY <1>1
<1>4. Drop(C, s, p) = WithSide(B, s, g)  BY <1>2, <1>3 DEF WithSide
<1>5. QED  BY <1>4 DEF C

\* The sweep has reached the round acc, on side s of the book B.
RoundRight(acc, B, s, m) ==
  /\ acc \in Rounds
  /\ Flat(s, acc.fb.entries, acc.fb.index)
  /\ \A i \in 1..Len(acc.fb.entries) : acc.fb.entries[i].queue # <<>>
  /\ Shelved(acc.data, WithSide(B, s, Shelf(acc.fb.entries, acc.fb.index)), acc.locator)
  /\ Tracks(acc.data, After(m, acc.fills))

\* The fields of a round.
LEMMA RoundHas ==
  ASSUME NEW acc \in Rounds
  PROVE  /\ acc.remaining \in Nat /\ acc.data \in Pools /\ acc.locator \in Tables
         /\ acc.fills \in Seq(Fill) /\ acc.fb \in FlatBooks
         /\ acc.fb.entries \in Seq(Level) /\ acc.fb.index \in Indices
         /\ acc.fb = [entries |-> acc.fb.entries, index |-> acc.fb.index]
BY DEF Rounds, FlatBooks

\* A round, from its fields.
LEMMA RoundIs ==
  ASSUME NEW remaining \in Nat, NEW pool \in Pools, NEW table \in Tables,
         NEW fs \in Seq(Fill), NEW es \in Seq(Level), NEW idx \in Indices
  PROVE  [remaining |-> remaining, data |-> pool, locator |-> table, fills |-> fs,
          fb |-> [entries |-> es, index |-> idx]] \in Rounds
BY DEF Rounds, FlatBooks

\* Writing one level of a flat book leaves its index alone.
LEMMA WriteIs ==
  ASSUME NEW fb, NEW es, NEW idx, fb = [entries |-> es, index |-> idx], NEW pos, NEW level
  PROVE  [fb EXCEPT !.entries[pos] = level]
         = [entries |-> [es EXCEPT ![pos] = level], index |-> idx]
OBVIOUS

\* The nodes queued at a price, if it has a level.
Standing(f, p) == IF p \in DOMAIN f THEN f[p].queue ELSE <<>>

\* eraseIfEmpty keeps the book in order, leaves no empty level and changes no
\* queue.
LEMMA EraseKeeps ==
  ASSUME NEW B \in [Side -> Shelves], NEW s \in Side, NEW es, NEW idx, Flat(s, es, idx),
         NEW p \in DOMAIN idx, \A i \in 1..Len(es) : i # idx[p] => es[i].queue # <<>>,
         NEW D, NEW L, Shelved(D, WithSide(B, s, Shelf(es, idx)), L)
  PROVE  LET fb == EraseIfEmpty([entries |-> es, index |-> idx], p)
         IN /\ fb = [entries |-> fb.entries, index |-> fb.index]
            /\ Flat(s, fb.entries, fb.index)
            /\ \A i \in 1..Len(fb.entries) : fb.entries[i].queue # <<>>
            /\ Shelved(D, WithSide(B, s, Shelf(fb.entries, fb.index)), L)
            /\ \A r \in DOMAIN idx : r # p => r \in DOMAIN fb.index
            /\ \A r : Standing(Shelf(fb.entries, fb.index), r) = Standing(Shelf(es, idx), r)
<1> DEFINE fb == EraseIfEmpty([entries |-> es, index |-> idx], p)
           es2 == fb.entries
           idx2 == fb.index
           g == Shelf(es, idx)
           h == Shelf(es2, idx2)
<1>1. CASE es[idx[p]].queue # <<>>
  <2>1. fb = [entries |-> es, index |-> idx]  BY <1>1 DEF EraseIfEmpty
  <2>2. \A i \in 1..Len(es) : es[i].queue # <<>>  BY <1>1
  <2> HIDE DEF fb
  <2>3. es2 = es /\ idx2 = idx  BY <2>1
  <2>4. QED  BY <2>1, <2>2, <2>3 DEF fb
<1>2. CASE es[idx[p]].queue = <<>>
  <2>1. Flat(s, es, idx) /\ p \in DOMAIN idx  OBVIOUS
  <2>2. Flat(s, es2, idx2) /\ h = Restrict(g, DOMAIN g \ {p})
    BY <1>2, <2>1, EraseIs
  <2>3. fb = [entries |-> es2, index |-> idx2]  BY <1>2 DEF EraseIfEmpty
  <2>4. /\ g \in Shelves /\ DOMAIN g = DOMAIN idx /\ g[p].queue = <<>>
        /\ \A r \in DOMAIN idx : g[r] = es[idx[r]]
    BY <1>2, ShelfOfFlat
  <2>5. \A r \in DOMAIN idx : idx[r] \in 1..Len(es) /\ (r # p => idx[r] # idx[p])
    BY FlatHas
  <2> HIDE DEF fb, es2, idx2
  <2>6. DOMAIN idx2 = DOMAIN idx \ {p}
    <3>1. DOMAIN h = DOMAIN idx2 /\ DOMAIN g = DOMAIN idx  BY <2>2, ShelfOfFlat
    <3> HIDE DEF h, g
    <3>2. QED  BY <2>2, <3>1 DEF Restrict
  <2>7. \A i \in 1..Len(es2) : es2[i].queue # <<>>
    <3>1. ASSUME NEW i \in 1..Len(es2) PROVE es2[i].queue # <<>>
      <4> DEFINE r == es2[i].price
      <4>1. r \in DOMAIN idx2 /\ idx2[r] = i  BY <2>2, FlatHas
      <4>2. h[r] = es2[i]  BY <4>1 DEF Shelf
      <4>3. r \in DOMAIN idx /\ r # p  BY <2>6, <4>1
      <4>4. h[r] = g[r]  BY <2>2, <2>4, <4>3 DEF Restrict
      <4>5. es[idx[r]].queue # <<>>  BY <2>5, <4>3
      <4> HIDE DEF r, h
      <4>6. QED  BY <2>4, <4>2, <4>3, <4>4, <4>5
    <3>2. QED  BY <3>1
  <2>8. Shelved(D, WithSide(B, s, h), L)
    <3> DEFINE G == WithSide(B, s, g)
    <3>1. G[s] = g  BY <2>4, WithSideIs
    <3>2. p \in DOMAIN G[s] /\ G[s][p].queue = <<>>  BY <2>4, <3>1
    <3>3. Drop(G, s, p) = WithSide(B, s, h)
      <4> HIDE DEF h
      <4>1. QED  BY <2>2, <2>4, WithDrop
    <3>4. Shelved(D, G, L)  OBVIOUS
    <3> HIDE DEF G, h
    <3>5. Shelved(D, Drop(G, s, p), L)  BY <3>2, <3>4, ShelvedDrop
    <3>6. QED  BY <3>3, <3>5
  <2>9. \A r \in DOMAIN idx : r # p => r \in DOMAIN idx2  BY <2>6
  <2>10. \A r : Standing(h, r) = Standing(g, r)
    <3> HIDE DEF h, g
    <3>1. QED  BY <2>2, <2>4 DEF Standing, Restrict
  <2>11. QED  BY <2>2, <2>3, <2>7, <2>8, <2>9, <2>10 DEF fb, es2, idx2, h, g
<1>3. QED  BY <1>1, <1>2

\* The sweep of the level at p begins with its whole queue.
LevelOf(acc, p) == acc.fb.entries[acc.fb.index[p]]
Begun(acc, p) ==
  [remaining |-> acc.remaining, data |-> acc.data, locator |-> acc.locator,
   fills |-> acc.fills, level |-> LevelOf(acc, p)]
Ended(acc, p) == FillNodes(Begun(acc, p), LevelOf(acc, p).queue)[Len(LevelOf(acc, p).queue)]

\* The sweep acc of a side has reached y with the level at p: it has swept the
\* queue there and changed no other.
LevelSwept(y, acc, p) ==
  /\ y.remaining = Ended(acc, p).remaining /\ y.data = Ended(acc, p).data
  /\ y.fills = Ended(acc, p).fills
  /\ \A r : Standing(Shelf(y.fb.entries, y.fb.index), r) =
       IF r = p THEN Ended(acc, p).level.queue
       ELSE Standing(Shelf(acc.fb.entries, acc.fb.index), r)

\* A level of the sweep keeps the book and the adapter's table in order, and
\* takes no other level out of the side.
LEMMA FillLevelKeeps ==
  ASSUME NEW B \in [Side -> Shelves], NEW s \in Side, NEW m \in Remainders,
         NEW acc, RoundRight(acc, B, s, m), NEW p \in DOMAIN acc.fb.index
  PROVE  /\ LevelSwept(FillLevel(acc, p), acc, p)
         /\ RoundRight(FillLevel(acc, p), B, s, m)
         /\ \A r \in DOMAIN acc.fb.index : r # p => r \in DOMAIN FillLevel(acc, p).fb.index
<1> DEFINE es == acc.fb.entries
           idx == acc.fb.index
           pos == idx[p]
           level == es[pos]
           f == Shelf(es, idx)
           C == WithSide(B, s, f)
           start == [remaining |-> acc.remaining, data |-> acc.data, locator |-> acc.locator,
                     fills |-> acc.fills, level |-> level]
           swept == FillNodes(start, level.queue)[Len(level.queue)]
           es1 == [es EXCEPT ![pos] = swept.level]
           fb1 == [entries |-> es1, index |-> idx]
           fb2 == IF acc.remaining = 0 THEN fb1 ELSE EraseIfEmpty(fb1, p)
           new == FillLevel(acc, p)
<1>1. /\ acc \in Rounds /\ Flat(s, es, idx) /\ (\A i \in 1..Len(es) : es[i].queue # <<>>)
      /\ Shelved(acc.data, C, acc.locator) /\ Tracks(acc.data, After(m, acc.fills))
  BY DEF RoundRight
<1>2. /\ acc.remaining \in Nat /\ acc.data \in Pools /\ acc.locator \in Tables
      /\ acc.fills \in Seq(Fill) /\ acc.fb = [entries |-> es, index |-> idx]
      /\ es \in Seq(Level)
  BY <1>1, RoundHas
<1>3. /\ pos \in 1..Len(es) /\ level.price = p /\ p \in Ticks /\ level \in Level
      /\ \A r \in DOMAIN idx : idx[r] \in 1..Len(es) /\ es[idx[r]].price = r
  BY <1>1, FlatHas
<1>4. f \in Shelves /\ DOMAIN f = DOMAIN idx /\ f[p] = level /\ \A r \in DOMAIN idx : f[r] = es[idx[r]]
  BY <1>1, ShelfOfFlat
<1> HIDE DEF f
<1>5. C \in [Side -> Shelves] /\ C[s] = f  BY <1>4, WithSideIs
<1>6. new = [remaining |-> swept.remaining, data |-> swept.data, locator |-> swept.locator,
             fills |-> swept.fills, fb |-> fb2]
  <2>1. [acc.fb EXCEPT !.entries[pos] = swept.level] = fb1
    <3> HIDE DEF es, idx, swept
    <3>1. QED  BY <1>2, WriteIs
  <2>2. new = [remaining |-> swept.remaining, data |-> swept.data, locator |-> swept.locator,
               fills |-> swept.fills,
               fb |-> IF acc.remaining = 0 THEN [acc.fb EXCEPT !.entries[pos] = swept.level]
                      ELSE EraseIfEmpty([acc.fb EXCEPT !.entries[pos] = swept.level], p)]
    BY DEF FillLevel
  <2> HIDE DEF swept, fb1, new
  <2>3. QED  BY <2>1, <2>2
<1>7. Swept(swept, C, s, p, m) /\ (acc.remaining = 0 => swept.level = level)
  <2>1. start \in Sweeps  BY <1>2, <1>3 DEF Sweeps
  <2>2. /\ start.data = acc.data /\ start.locator = acc.locator /\ start.fills = acc.fills
        /\ start.level = level /\ start.remaining = acc.remaining
    OBVIOUS
  <2> HIDE DEF C, start, level
  <2>3. p \in DOMAIN C[s] /\ C[s][p] = level  BY <1>4, <1>5
  <2>4. Put(C, s, p, level) = C  BY <1>5, <2>3, PutSame
  <2>5. Swept(start, C, s, p, m)  BY <1>1, <2>1, <2>2, <2>4 DEF Swept
  <2>6. /\ Swept(FillNodes(start, start.level.queue)[Len(start.level.queue)], C, s, p, m)
        /\ start.remaining = 0 =>
             FillNodes(start, start.level.queue)[Len(start.level.queue)] = start
    BY <1>5, <2>3, <2>5, FillNodesKeeps
  <2>7. QED  BY <2>2, <2>6
<1> HIDE DEF swept
<1>8. /\ swept \in Sweeps /\ Shelved(swept.data, Put(C, s, p, swept.level), swept.locator)
      /\ Tracks(swept.data, After(m, swept.fills))
  BY <1>7 DEF Swept
<1>9. /\ swept.remaining \in Nat /\ swept.data \in Pools /\ swept.locator \in Tables
      /\ swept.fills \in Seq(Fill) /\ swept.level \in Level
  BY <1>8, SweepHas
<1>10. swept.level.price = p
  <2> DEFINE P == Put(C, s, p, swept.level)
  <2>1. p \in DOMAIN P[s] /\ P[s][p] = swept.level
    <3> HIDE DEF C
    <3>1. p \in DOMAIN C[s]  BY <1>4, <1>5
    <3>2. QED  BY <1>5, <1>9, <3>1, LevelPut
  <2>2. LevelsRight(swept.data, P)  BY <1>8 DEF Shelved
  <2> HIDE DEF P
  <2>3. QED  BY <2>1, <2>2 DEF LevelsRight
<1> DEFINE g == Shelf(es1, idx)
<1>11. /\ Flat(s, es1, idx) /\ Len(es1) = Len(es)
       /\ g = Placed(f, p, swept.level)
  <2> DEFINE given == swept.level
  <2>1. given \in Level /\ given.price = p /\ Flat(s, es, idx)  BY <1>1, <1>9, <1>10
  <2>2. p \in DOMAIN idx  OBVIOUS
  <2> HIDE DEF es, idx, given
  <2>3. /\ Flat(s, [es EXCEPT ![idx[p]] = given], idx)
        /\ Len([es EXCEPT ![idx[p]] = given]) = Len(es)
        /\ Shelf([es EXCEPT ![idx[p]] = given], idx)
           = Placed(Shelf(es, idx), p, given)
    BY <2>1, <2>2, FlatWrite
  <2>4. QED  BY <2>3 DEF f, given
<1>12. Put(C, s, p, swept.level) = WithSide(B, s, g)
  <2> HIDE DEF g, es1
  <2>1. g = Placed(f, p, swept.level) /\ f \in Shelves
    BY <1>4, <1>11
  <2>2. QED  BY <2>1, WithPut
<1>13. Shelved(swept.data, WithSide(B, s, g), swept.locator)
  <2> HIDE DEF g, C
  <2>1. QED  BY <1>8, <1>12
<1>14. \A i \in 1..Len(es1) : i # pos => es1[i].queue # <<>>
  <2> HIDE DEF es, pos
  <2>1. QED  BY <1>1, <1>2, <1>3, <1>11
<1>15. es1[pos] = swept.level
  <2> HIDE DEF es, pos
  <2>1. QED  BY <1>2, <1>3
<1>16. p \in DOMAIN idx  OBVIOUS
<1>17. ASSUME NEW es2, NEW idx2, fb2 = [entries |-> es2, index |-> idx2], Flat(s, es2, idx2),
              \A i \in 1..Len(es2) : es2[i].queue # <<>>,
              Shelved(swept.data, WithSide(B, s, Shelf(es2, idx2)), swept.locator),
              \A r \in DOMAIN idx : r # p => r \in DOMAIN idx2,
              \A r : Standing(Shelf(es2, idx2), r) = Standing(g, r)
       PROVE  /\ LevelSwept(new, acc, p)
              /\ RoundRight(new, B, s, m)
              /\ \A r \in DOMAIN idx : r # p => r \in DOMAIN new.fb.index
  <2>1. es2 \in Seq(Level) /\ idx2 \in Indices  BY <1>17, IndexIs
  <2> HIDE DEF fb2, new
  <2>2. new = [remaining |-> swept.remaining, data |-> swept.data, locator |-> swept.locator,
               fills |-> swept.fills, fb |-> [entries |-> es2, index |-> idx2]]
    BY <1>6, <1>17
  <2>3. new \in Rounds  BY <1>9, <2>1, <2>2, RoundIs
  <2>4. /\ new.data = swept.data /\ new.locator = swept.locator /\ new.fills = swept.fills
        /\ new.fb.entries = es2 /\ new.fb.index = idx2 /\ new.remaining = swept.remaining
    BY <2>2
  <2>5. RoundRight(new, B, s, m)  BY <1>8, <1>17, <2>3, <2>4 DEF RoundRight
  <2>6. \A r : Standing(g, r) = IF r = p THEN swept.level.queue ELSE Standing(f, r)
    <3> HIDE DEF g
    <3>1. QED  BY <1>11 DEF Standing, Placed
  <2>7. Ended(acc, p) = swept  BY DEF Ended, Begun, LevelOf, swept
  <2>8. LevelSwept(new, acc, p)
    <3> HIDE DEF es, idx, g
    <3>1. f = Shelf(acc.fb.entries, acc.fb.index)  BY DEF f, es, idx
    <3>2. \A r : Standing(Shelf(new.fb.entries, new.fb.index), r) =
                  IF r = p THEN swept.level.queue ELSE Standing(f, r)
      BY <1>17, <2>4, <2>6
    <3>3. QED  BY <2>4, <2>7, <3>1, <3>2 DEF LevelSwept
  <2>9. QED  BY <1>17, <2>4, <2>5, <2>8
<1> HIDE DEF es, idx, pos, level, es1, g, C, start, new
<1>18. CASE acc.remaining = 0
  <2>1. es1[pos].queue # <<>>  BY <1>1, <1>3, <1>7, <1>15, <1>18 DEF level
  <2>2. \A i \in 1..Len(es1) : es1[i].queue # <<>>  BY <1>14, <2>1
  <2>3. fb2 = [entries |-> es1, index |-> idx]  BY <1>18
  <2> HIDE DEF fb2
  <2>4. /\ LevelSwept(new, acc, p) /\ RoundRight(new, B, s, m)
        /\ \A r \in DOMAIN idx : r # p => r \in DOMAIN new.fb.index
    BY <1>11, <1>13, <1>17, <2>2, <2>3 DEF g
  <2>5. QED  BY <2>4 DEF new, idx
<1>19. CASE acc.remaining # 0
  <2> DEFINE erased == EraseIfEmpty([entries |-> es1, index |-> idx], p)
             es2 == erased.entries
             idx2 == erased.index
  <2>1. \A i \in 1..Len(es1) : i # idx[p] => es1[i].queue # <<>>  BY <1>14 DEF pos
  <2>2. Shelved(swept.data, WithSide(B, s, Shelf(es1, idx)), swept.locator)  BY <1>13 DEF g
  <2>3. /\ erased = [entries |-> es2, index |-> idx2] /\ Flat(s, es2, idx2)
        /\ \A i \in 1..Len(es2) : es2[i].queue # <<>>
        /\ Shelved(swept.data, WithSide(B, s, Shelf(es2, idx2)), swept.locator)
        /\ \A r \in DOMAIN idx : r # p => r \in DOMAIN idx2
        /\ \A r : Standing(Shelf(es2, idx2), r) = Standing(g, r)
    BY <1>11, <1>16, <2>1, <2>2, EraseKeeps DEF g
  <2>4. fb2 = [entries |-> es2, index |-> idx2]  BY <1>19, <2>3
  <2> HIDE DEF fb2, erased, es2, idx2
  <2>5. /\ LevelSwept(new, acc, p) /\ RoundRight(new, B, s, m)
        /\ \A r \in DOMAIN idx : r # p => r \in DOMAIN new.fb.index
    BY <1>17, <2>3, <2>4
  <2>6. QED  BY <2>5 DEF new, idx
<1>20. QED  BY <1>18, <1>19

\* The sweep over different levels takes one after the other, and keeps the book
\* and the adapter's table in order.
LEMMA FillLevelsRun ==
  ASSUME NEW B \in [Side -> Shelves], NEW s \in Side, NEW m \in Remainders,
         NEW acc, RoundRight(acc, B, s, m), NEW prices \in Seq(Ticks),
         \A i, j \in 1..Len(prices) : prices[i] = prices[j] => i = j,
         \A i \in 1..Len(prices) : prices[i] \in DOMAIN acc.fb.index
  PROVE  LET v == FillLevels(acc, prices)
         IN /\ v[0] = acc
            /\ \A i \in 1..Len(prices) : /\ v[i] = FillLevel(v[i - 1], prices[i])
                                         /\ prices[i] \in DOMAIN v[i - 1].fb.index
            /\ \A i \in 0..Len(prices) : RoundRight(v[i], B, s, m)
<1> DEFINE n == Len(prices)
           turn == [i \in 1..n |-> [x \in Rounds |-> FillLevel(x, prices[i])]]
           Left(x, i) == \A j \in (i + 1)..n : prices[j] \in DOMAIN x.fb.index
           Good == [i \in 0..n |-> {x \in Rounds : RoundRight(x, B, s, m) /\ Left(x, i)}]
           Body(g) == [i \in 0..n |-> IF i = 0 THEN acc ELSE FillLevel(g[i - 1], prices[i])]
           v == FillLevels(acc, prices)
<1>1. acc \in Rounds /\ n \in Nat  BY DEF RoundRight
<1>2. acc \in Good[0]
  <2>1. Left(acc, 0)
    <3>1. \A j \in (0 + 1)..n : j \in 1..n  BY <1>1
    <3>2. QED  BY <3>1
  <2> HIDE DEF Left, n
  <2>2. QED  BY <1>1, <2>1
<1>3. ASSUME NEW i \in 1..n, NEW x \in Good[i - 1] PROVE turn[i][x] \in Good[i]
  <2>1. i - 1 \in 0..n /\ i \in 0..n /\ i - 1 + 1 = i /\ i \in i..n  BY <1>1
  <2>2. x \in Rounds /\ RoundRight(x, B, s, m) /\ Left(x, i - 1)
    <3> HIDE DEF Left, n
    <3>1. QED  BY <2>1
  <2> DEFINE y == FillLevel(x, prices[i])
  <2>3. /\ RoundRight(y, B, s, m)
        /\ \A r \in DOMAIN x.fb.index : r # prices[i] => r \in DOMAIN y.fb.index
    <3> DEFINE a == prices[i]
    <3>1. RoundRight(x, B, s, m) /\ a \in DOMAIN x.fb.index  BY <2>1, <2>2
    <3> HIDE DEF a, Good, Left, n, turn
    <3>2. /\ RoundRight(FillLevel(x, a), B, s, m)
          /\ \A r \in DOMAIN x.fb.index : r # a => r \in DOMAIN FillLevel(x, a).fb.index
      BY <3>1, FillLevelKeeps
    <3>3. QED  BY <3>2 DEF a, y
  <2>4. Left(y, i)
    <3>1. ASSUME NEW j \in (i + 1)..n PROVE prices[j] \in DOMAIN y.fb.index
      <4>1. j \in 1..n /\ j # i /\ j \in (i - 1 + 1)..n  BY <1>1, <2>1
      <4>2. prices[j] # prices[i]  BY <4>1
      <4>3. prices[j] \in DOMAIN x.fb.index  BY <2>2, <4>1
      <4> HIDE DEF y
      <4>4. QED  BY <2>3, <4>2, <4>3
    <3>2. QED  BY <3>1
  <2>5. y \in Rounds  BY <2>3 DEF RoundRight
  <2>6. turn[i][x] = y  BY <2>2
  <2> HIDE DEF Left, n, y, turn
  <2>7. QED  BY <2>1, <2>3, <2>4, <2>5, <2>6
<1>4. Good \in [0..n -> SUBSET Rounds]
  <2> HIDE DEF Left, n
  <2>1. QED  OBVIOUS
<1>5. PICK f \in [0..n -> Rounds] : IsRun(f, n, acc, turn) /\ \A i \in 0..n : f[i] \in Good[i]
  <2> HIDE DEF Good, turn, n
  <2>1. QED  BY <1>1, <1>2, <1>3, <1>4, LoopKeeps
<1>6. f = Body(f)
  <2> HIDE DEF n, Good
  <2>1. ASSUME NEW i \in 1..n PROVE f[i] = FillLevel(f[i - 1], prices[i])
    <3>1. i - 1 \in 0..n  BY <1>1
    <3>2. f[i - 1] \in Rounds  BY <3>1
    <3>3. QED  BY <1>5, <3>2 DEF IsRun
  <2>2. \A i \in 0..n : i # 0 => i \in 1..n  BY <1>1
  <2>3. \A i \in 0..n : f[i] = Body(f)[i]  BY <1>5, <2>1, <2>2 DEF IsRun
  <2>4. QED  BY <2>3
<1>7. v = CHOOSE g : g = Body(g)  BY DEF FillLevels
<1>8. v = Body(v)
  <2> HIDE DEF Body, v
  <2>1. (CHOOSE g : g = Body(g)) = Body(CHOOSE g : g = Body(g))  BY <1>6
  <2>2. QED  BY <1>7, <2>1
<1> HIDE DEF v, Good, turn, n
<1>9. v[0] = acc /\ \A i \in 1..n : v[i] = FillLevel(v[i - 1], prices[i])
  <2>1. 0 \in 0..n /\ \A i \in 1..n : i \in 0..n /\ i # 0  BY <1>1
  <2>2. QED  BY <1>8, <2>1
<1>10. \A i \in 1..n : f[i] = FillLevel(f[i - 1], prices[i]) /\ f[0] = acc
  <2>1. 0 \in 0..n /\ \A i \in 1..n : i \in 0..n /\ i # 0  BY <1>1
  <2>2. QED  BY <1>5, <1>6, <2>1 DEF IsRun
<1>11. \A i \in 0..n : v[i] = f[i]
  <2> DEFINE T == {i \in 0..n : v[i] = f[i]}
  <2>1. 0 \in T  BY <1>1, <1>5, <1>9 DEF IsRun
  <2>2. ASSUME NEW i \in 0..n, i < n, i \in T PROVE i + 1 \in T
    <3>1. i + 1 \in 1..n /\ i + 1 \in 0..n /\ (i + 1) - 1 = i  BY <1>1, <2>2
    <3>2. v[i + 1] = FillLevel(v[i], prices[i + 1]) /\ f[i + 1] = FillLevel(f[i], prices[i + 1])
      BY <1>9, <1>10, <3>1
    <3>3. QED  BY <2>2, <3>1, <3>2
  <2> HIDE DEF T
  <2>3. \A i \in 0..n : i \in T  BY <1>1, <2>1, <2>2, UpTo
  <2>4. QED  BY <2>3 DEF T
<1>12. \A i \in 0..n : v[i] \in Good[i]  BY <1>5, <1>11
<1>13. \A i \in 0..n : RoundRight(v[i], B, s, m)  BY <1>12 DEF Good
<1>14. \A i \in 1..n : prices[i] \in DOMAIN v[i - 1].fb.index
  <2>1. ASSUME NEW i \in 1..n PROVE prices[i] \in DOMAIN v[i - 1].fb.index
    <3> DEFINE h == i - 1
    <3>1. h \in 0..n /\ i \in (h + 1)..n  BY <1>1
    <3> HIDE DEF h
    <3>2. v[h] \in Good[h]  BY <1>12, <3>1
    <3>3. \A j \in (h + 1)..n : prices[j] \in DOMAIN v[h].fb.index  BY <3>1, <3>2 DEF Good
    <3>4. QED  BY <3>1, <3>3 DEF h
  <2>2. QED  BY <2>1
<1>15. QED  BY <1>9, <1>13, <1>14 DEF v, n

\* So does the whole sweep.
LEMMA FillLevelsKeeps ==
  ASSUME NEW B \in [Side -> Shelves], NEW s \in Side, NEW m \in Remainders,
         NEW acc, RoundRight(acc, B, s, m), NEW prices \in Seq(Ticks),
         \A i, j \in 1..Len(prices) : prices[i] = prices[j] => i = j,
         \A i \in 1..Len(prices) : prices[i] \in DOMAIN acc.fb.index
  PROVE  RoundRight(FillLevels(acc, prices)[Len(prices)], B, s, m)
<1>1. Len(prices) \in 0..Len(prices)  OBVIOUS
<1>2. QED  BY <1>1, FillLevelsRun

\* The sweep visits different prices of the side, some of the leading ones.
LEMMA ReachableIs ==
  ASSUME NEW s \in Side, NEW limit, NEW idx, Flat(Opposite(s), entries[Opposite(s)], idx)
  PROVE  /\ Reachable(s, limit) \in Seq(Ticks)
         /\ \A i, j \in 1..Len(Reachable(s, limit)) :
              Reachable(s, limit)[i] = Reachable(s, limit)[j] => i = j
         /\ \A i \in 1..Len(Reachable(s, limit)) : Reachable(s, limit)[i] \in DOMAIN idx
<1> DEFINE es == entries[Opposite(s)]
           In == {i \in DOMAIN es : \A j \in 1..i : Accepts(s, limit, es[j].price)}
           n == Cardinality(In)
           prices == [i \in 1..n |-> es[i].price]
<1>1. /\ es \in Seq(Level) /\ Sorted(Opposite(s), es)
  BY DEF Flat
<1>2. /\ Len(es) \in Nat /\ DOMAIN es = 1..Len(es)
      /\ \A i \in 1..Len(es) : es[i].price \in Ticks /\ es[i].price \in DOMAIN idx
  BY FlatHas
<1>3. n \in Nat /\ n <= Len(es)
  <2>1. IsFiniteSet(1..Len(es)) /\ Cardinality(1..Len(es)) = Len(es)
    <3>1. 1 \in Int /\ Len(es) \in Int /\ Len(es) - 1 + 1 = Len(es)  BY <1>2
    <3>2. Cardinality(1..Len(es)) = IF 1 > Len(es) THEN 0 ELSE Len(es) - 1 + 1
      BY <3>1, FS_Interval
    <3>3. IsFiniteSet(1..Len(es))  BY <3>1, FS_Interval
    <3>4. QED  BY <1>2, <3>2, <3>3
  <2>2. In \subseteq 1..Len(es)  BY <1>2
  <2> HIDE DEF In, es
  <2>3. IsFiniteSet(In) /\ n <= Cardinality(1..Len(es))  BY <2>1, <2>2, FS_Subset
  <2>4. n \in Nat  BY <2>3, FS_CardinalityType
  <2>5. QED  BY <2>1, <2>3, <2>4
<1>4. Reachable(s, limit) = prices  BY DEF Reachable
<1> HIDE DEF es, n
<1>5. \A i \in 1..n : i \in 1..Len(es)  BY <1>2, <1>3
<1>6. prices \in Seq(Ticks) /\ Len(prices) = n /\ \A i \in 1..n : prices[i] = es[i].price
  <2>1. \A i \in 1..n : es[i].price \in Ticks  BY <1>2, <1>5
  <2>2. prices \in [1..n -> Ticks]  BY <2>1
  <2>3. prices \in Seq(Ticks) /\ Len(prices) = n  BY <1>3, <2>2
  <2>4. QED  BY <2>3
<1> HIDE DEF prices
<1>7. \A i, j \in 1..n : prices[i] = prices[j] => i = j  BY <1>1, <1>5, <1>6, SortedApart
<1>8. \A i \in 1..n : prices[i] \in DOMAIN idx  BY <1>2, <1>5, <1>6
<1>9. QED  BY <1>4, <1>6, <1>7, <1>8

-----------------------------------------------------------------------------
(* The whole book: pool D, vectors E, indices I, locators L, and the adapter's *)
(* table m                                                                     *)

\* Vectors and indices as levels by price.
ByPrice(E, I) == [s \in Side |-> Shelf(E[s], I[s])]

\* Both sides are flat and without empty levels, their levels by price fit the
\* pool and the locators, and the table follows the pool.
BookRight(D, E, I, L, m) ==
  /\ E = [s \in Side |-> E[s]] /\ I = [s \in Side |-> I[s]]
  /\ \A s \in Side : /\ Flat(s, E[s], I[s])
                     /\ \A i \in 1..Len(E[s]) : E[s][i].queue # <<>>
  /\ Shelved(D, ByPrice(E, I), L)
  /\ Tracks(D, m)

\* There are two sides.
LEMMA OppositeIs ==
  ASSUME NEW s \in Side
  PROVE  Opposite(s) \in Side /\ Opposite(s) # s
BY DEF Opposite, Side

\* The book by price has the prices of the indices.
LEMMA ByPriceIs ==
  ASSUME NEW D, NEW E, NEW I, NEW L, NEW m, BookRight(D, E, I, L, m)
  PROVE  /\ ByPrice(E, I) \in [Side -> Shelves]
         /\ \A s \in Side : /\ ByPrice(E, I)[s] = Shelf(E[s], I[s])
                            /\ DOMAIN ByPrice(E, I)[s] = DOMAIN I[s]
                            /\ WithSide(ByPrice(E, I), s, Shelf(E[s], I[s])) = ByPrice(E, I)
<1> DEFINE B == ByPrice(E, I)
<1>1. B = [s \in Side |-> B[s]] /\ \A s \in Side : B[s] = Shelf(E[s], I[s])  BY DEF ByPrice
<1>2. \A s \in Side : Flat(s, E[s], I[s])  BY DEF BookRight
<1> HIDE DEF B
<1>3. \A s \in Side : B[s] \in Shelves /\ DOMAIN B[s] = DOMAIN I[s]  BY <1>1, <1>2, ShelfOfFlat
<1>4. B \in [Side -> Shelves]  BY <1>1, <1>3
<1>5. \A s \in Side : WithSide(B, s, Shelf(E[s], I[s])) = B
  <2>1. ASSUME NEW s \in Side PROVE WithSide(B, s, Shelf(E[s], I[s])) = B
    <3>1. B[s] \in Shelves /\ B[s] = Shelf(E[s], I[s])  BY <1>1, <1>3
    <3>2. WithSide(B, s, B[s]) = B  BY <1>4, <3>1, WithSideIs
    <3>3. QED  BY <3>1, <3>2
  <2>2. QED  BY <2>1
<1>6. QED  BY <1>1, <1>3, <1>4, <1>5 DEF B

\* The levels of a side are the same in its vector and by price.
LEMMA LevelsByPrice ==
  ASSUME NEW D, NEW E, NEW I, NEW L, NEW m, BookRight(D, E, I, L, m), NEW s \in Side
  PROVE  /\ DOMAIN E[s] = 1..Len(E[s]) /\ E[s] \in Seq(Level)
         /\ \A i \in 1..Len(E[s]) : /\ E[s][i].price \in DOMAIN ByPrice(E, I)[s]
                                    /\ ByPrice(E, I)[s][E[s][i].price] = E[s][i]
                                    /\ E[s][i].queue \in Seq(Nodes)
                                    /\ DOMAIN E[s][i].queue = 1..Len(E[s][i].queue)
         /\ \A p \in DOMAIN ByPrice(E, I)[s] :
              I[s][p] \in 1..Len(E[s]) /\ ByPrice(E, I)[s][p] = E[s][I[s][p]]
<1> DEFINE B == ByPrice(E, I)
<1>1. Flat(s, E[s], I[s])  BY DEF BookRight
<1>2. B[s] = Shelf(E[s], I[s]) /\ DOMAIN B[s] = DOMAIN I[s]  BY ByPriceIs
<1> HIDE DEF B
<1>3. /\ DOMAIN E[s] = 1..Len(E[s])
      /\ \A i \in 1..Len(E[s]) : E[s][i] \in Level /\ E[s][i].price \in DOMAIN I[s]
      /\ \A p \in DOMAIN I[s] : I[s][p] \in 1..Len(E[s])
  BY <1>1, FlatHas
<1>4. \A i \in 1..Len(E[s]) : Shelf(E[s], I[s])[E[s][i].price] = E[s][i]  BY <1>1, ShelfOfFlat
<1>5. \A p \in DOMAIN I[s] : Shelf(E[s], I[s])[p] = E[s][I[s][p]]  BY DEF Shelf
<1>6. \A l \in Level : l.queue \in Seq(Nodes) /\ DOMAIN l.queue = 1..Len(l.queue)  BY DEF Level
<1>7. E[s] \in Seq(Level)  BY <1>1 DEF Flat
<1> HIDE DEF Level
<1>8. QED  BY <1>2, <1>3, <1>4, <1>5, <1>6, <1>7 DEF B

\* One side of the book is written.
LEMMA BookIs ==
  ASSUME NEW D, NEW E, NEW I, NEW L, NEW m, BookRight(D, E, I, L, m), NEW s \in Side,
         NEW es, NEW idx, Flat(s, es, idx), \A i \in 1..Len(es) : es[i].queue # <<>>,
         NEW D2, NEW L2, NEW m2, Shelved(D2, WithSide(ByPrice(E, I), s, Shelf(es, idx)), L2),
         Tracks(D2, m2)
  PROVE  BookRight(D2, [E EXCEPT ![s] = es], [I EXCEPT ![s] = idx], L2, m2)
<1> DEFINE E2 == [E EXCEPT ![s] = es]
           I2 == [I EXCEPT ![s] = idx]
<1>1. /\ E = [t \in Side |-> E[t]] /\ I = [t \in Side |-> I[t]]
      /\ \A t \in Side : /\ Flat(t, E[t], I[t])
                         /\ \A i \in 1..Len(E[t]) : E[t][i].queue # <<>>
  BY DEF BookRight
<1>2. /\ E2 = [t \in Side |-> E2[t]] /\ I2 = [t \in Side |-> I2[t]]
      /\ E2[s] = es /\ I2[s] = idx
      /\ \A t \in Side : t # s => E2[t] = E[t] /\ I2[t] = I[t]
  BY <1>1
<1> HIDE DEF E2, I2
<1>3. \A t \in Side : /\ Flat(t, E2[t], I2[t])
                      /\ \A i \in 1..Len(E2[t]) : E2[t][i].queue # <<>>
  BY <1>1, <1>2
<1>4. ByPrice(E2, I2) = WithSide(ByPrice(E, I), s, Shelf(es, idx))
  <2>1. \A t \in Side : ByPrice(E, I)[t] = Shelf(E[t], I[t])  BY DEF ByPrice
  <2>2. \A t \in Side : Shelf(E2[t], I2[t]) = IF t = s THEN Shelf(es, idx) ELSE ByPrice(E, I)[t]
    BY <1>2, <2>1
  <2> HIDE DEF ByPrice
  <2>3. QED  BY <2>2 DEF ByPrice, WithSide
<1>5. BookRight(D2, E2, I2, L2, m2)  BY <1>2, <1>3, <1>4 DEF BookRight
<1>6. QED  BY <1>5 DEF E2, I2

\* The nodes in the queues of a side, and of both.
LinkedOn(es) == UNION {ToSet(es[i].queue) : i \in DOMAIN es}
Linked(E) == LinkedOn(E["Buy"]) \cup LinkedOn(E["Sell"])

\* The nodes in the queues are the acquired ones.
LEMMA NodesRest ==
  ASSUME NEW D, NEW E, NEW I, NEW L, NEW m, BookRight(D, E, I, L, m)
  PROVE  Linked(E) = DOMAIN D
<1> DEFINE B == ByPrice(E, I)
<1>1. PoolRests(D, B)  BY DEF BookRight, Shelved
<1>2. \A s \in Side : \A i \in 1..Len(E[s]) :
        /\ E[s][i].price \in DOMAIN B[s] /\ B[s][E[s][i].price] = E[s][i]
        /\ DOMAIN E[s][i].queue = 1..Len(E[s][i].queue)
  <2>1. \A s \in Side : \A i \in 1..Len(E[s]) :
          E[s][i].price \in DOMAIN B[s] /\ B[s][E[s][i].price] = E[s][i]
    BY LevelsByPrice
  <2>2. \A s \in Side : \A i \in 1..Len(E[s]) :
          DOMAIN E[s][i].queue = 1..Len(E[s][i].queue)
    BY LevelsByPrice
  <2>3. QED  BY <2>1, <2>2
<1>3. \A s \in Side : \A p \in DOMAIN B[s] : \E i \in 1..Len(E[s]) : B[s][p] = E[s][i]
  BY LevelsByPrice
<1>4. \A s \in Side : DOMAIN E[s] = 1..Len(E[s])  BY LevelsByPrice
<1> HIDE DEF B
<1>5. ASSUME NEW s \in Side, NEW i \in 1..Len(E[s]), NEW k \in 1..Len(E[s][i].queue)
      PROVE  E[s][i].queue[k] \in DOMAIN D
  <2>1. k \in 1..Len(B[s][E[s][i].price].queue)  BY <1>2
  <2>2. B[s][E[s][i].price].queue[k] \in DOMAIN D  BY <1>1, <1>2, <2>1 DEF PoolRests
  <2>3. QED  BY <1>2, <2>2
<1>6. ASSUME NEW n \in DOMAIN D
      PROVE  \E s \in Side : \E i \in 1..Len(E[s]) :
               \E k \in 1..Len(E[s][i].queue) : E[s][i].queue[k] = n
  <2>1. PICK s \in Side : \E p \in DOMAIN B[s] : \E k \in 1..Len(B[s][p].queue) :
          B[s][p].queue[k] = n
    BY <1>1 DEF PoolRests
  <2>2. PICK p \in DOMAIN B[s] : \E k \in 1..Len(B[s][p].queue) : B[s][p].queue[k] = n  BY <2>1
  <2>3. PICK i \in 1..Len(E[s]) : B[s][p] = E[s][i]  BY <1>3
  <2>4. QED  BY <2>2, <2>3
<1>7. ASSUME NEW s \in Side
      PROVE  \A n : n \in LinkedOn(E[s]) <=> \E i \in 1..Len(E[s]) :
                      \E k \in 1..Len(E[s][i].queue) : E[s][i].queue[k] = n
  <2>1. DOMAIN E[s] = 1..Len(E[s])  BY <1>4
  <2>2. \A i \in 1..Len(E[s]) : DOMAIN E[s][i].queue = 1..Len(E[s][i].queue)  BY <1>2
  <2>3. QED  BY <2>1, <2>2 DEF LinkedOn, ToSet
<1>8. \A n : n \in Linked(E) <=> \E s \in Side : n \in LinkedOn(E[s])  BY DEF Linked, Side
<1>9. ASSUME NEW n \in Linked(E) PROVE n \in DOMAIN D
  <2>1. PICK s \in Side : n \in LinkedOn(E[s])  BY <1>8
  <2>2. PICK i \in 1..Len(E[s]) : \E k \in 1..Len(E[s][i].queue) : E[s][i].queue[k] = n
    BY <1>7, <2>1
  <2>3. QED  BY <1>5, <2>2
<1>10. ASSUME NEW n \in DOMAIN D PROVE n \in Linked(E)
  <2>1. PICK s \in Side : \E i \in 1..Len(E[s]) :
          \E k \in 1..Len(E[s][i].queue) : E[s][i].queue[k] = n
    BY <1>6
  <2>2. n \in LinkedOn(E[s])  BY <1>7, <2>1
  <2>3. QED  BY <1>8, <2>2
<1>11. QED  BY <1>9, <1>10

\* The same, for the nodes the specification calls resting.
LEMMA RestingIs ==
  ASSUME NEW D, NEW I, NEW L, NEW m, BookRight(D, entries, I, L, m)
  PROVE  RestingNodes = DOMAIN D
<1>1. Linked(entries) = DOMAIN D  BY NodesRest
<1>2. QED  BY <1>1 DEF RestingNodes, Resting, Linked, LinkedOn

-----------------------------------------------------------------------------
(* What each call does to the adapter's table *)

\* Sizes are rounded to the nearest unit.
LEMMA QtyIs ==
  ASSUME NEW size \in Nat
  PROVE  Qty(size) \in Nat /\ size - 2 * Qty(size) \in -1..1
<1> DEFINE h == size \div 2
<1>1. h \in Nat /\ (size = 2 * h \/ size = 2 * h + 1) /\ (size % 2 = 0 <=> size = 2 * h)
  OBVIOUS
<1>2. h % 2 \in 0..1  BY <1>1
<1>3. Qty(size) = IF size % 2 = 0 THEN h ELSE h + (h % 2)  BY DEF Qty
<1> HIDE DEF h
<1>4. CASE size % 2 = 0  BY <1>1, <1>3, <1>4
<1>5. CASE ~(size % 2 = 0)
  <2> DEFINE r == h % 2
  <2>1. r \in 0..1 /\ Qty(size) = h + r /\ size = 2 * h + 1  BY <1>1, <1>2, <1>3, <1>5
  <2> HIDE DEF r
  <2>2. h + r \in Nat /\ size - 2 * (h + r) = 1 - 2 * r  BY <1>1, <2>1
  <2>3. QED  BY <2>1, <2>2
<1>6. QED  BY <1>4, <1>5

\* The entry of a new order is written.
LEMMA EnteredIs ==
  ASSUME NEW m \in Remainders, NEW id \in Ids, NEW size \in Nat
  PROVE  /\ Entered(m, id, size) \in Remainders
         /\ DOMAIN Entered(m, id, size) = DOMAIN m \cup {id}
         /\ Entered(m, id, size)[id] = size
         /\ \A j \in DOMAIN m : j # id => Entered(m, id, size)[j] = m[j]
<1> DEFINE r == Entered(m, id, size)
<1>1. /\ DOMAIN r = DOMAIN m \cup {id} /\ r[id] = size
      /\ \A j \in DOMAIN m : j # id => r[j] = m[j]
      /\ r = [j \in DOMAIN m \cup {id} |-> r[j]]
  BY DEF Entered
<1> HIDE DEF r
<1>2. DOMAIN m \in SUBSET Ids /\ \A j \in DOMAIN m : m[j] \in Nat  BY RemaindersHas
<1>3. DOMAIN m \cup {id} \in SUBSET Ids /\ \A j \in DOMAIN m \cup {id} : r[j] \in Nat
  BY <1>1, <1>2
<1>4. r \in Remainders  BY <1>1, <1>3, RemaindersIs
<1>5. QED  BY <1>1, <1>4 DEF r

\* A new order's entry holds its size before rounding.
LEMMA TracksAdd ==
  ASSUME NEW D \in Pools, NEW m, Tracks(D, m), NEW n \in Nodes, n \notin DOMAIN D,
         NEW o \in Order, o.id \in UniqueIds => \A x \in DOMAIN D : D[x].id # o.id,
         NEW size \in Nat, size - 2 * o.qty \in -1..1
  PROVE  Tracks(Acquire(D, n, o), Entered(m, o.id, size))
<1> DEFINE A == Acquire(D, n, o)
           r == Entered(m, o.id, size)
<1>1. /\ m \in Remainders
      /\ \A x \in DOMAIN D : D[x].id \in UniqueIds =>
           D[x].id \in DOMAIN m /\ m[D[x].id] - 2 * D[x].qty \in -1..1
      /\ \A id \in UniqueIds :
           id \in DOMAIN m /\ (\A x \in DOMAIN D : D[x].id # id) => m[id] \in 0..1
  BY DEF Tracks
<1>2. o.id \in Ids  BY DEF Order
<1>3. /\ r \in Remainders /\ DOMAIN r = DOMAIN m \cup {o.id} /\ r[o.id] = size
      /\ \A j \in DOMAIN m : j # o.id => r[j] = m[j]
  BY <1>1, <1>2, EnteredIs
<1>4. DOMAIN A = DOMAIN D \cup {n} /\ A[n] = o /\ \A x \in DOMAIN D : A[x] = D[x]
  BY DEF Acquire
<1> HIDE DEF A, r
<1>5. ASSUME NEW x \in DOMAIN A, A[x].id \in UniqueIds
      PROVE  A[x].id \in DOMAIN r /\ r[A[x].id] - 2 * A[x].qty \in -1..1
  <2>1. CASE x = n  BY <1>3, <1>4, <2>1
  <2>2. CASE x # n
    <3>1. x \in DOMAIN D /\ A[x] = D[x]  BY <1>4, <2>2
    <3>2. D[x].id # o.id  BY <1>5, <3>1
    <3>3. QED  BY <1>1, <1>3, <1>5, <3>1, <3>2
  <2>3. QED  BY <2>1, <2>2
<1>6. ASSUME NEW id \in UniqueIds, id \in DOMAIN r, \A x \in DOMAIN A : A[x].id # id
      PROVE  r[id] \in 0..1
  <2>1. id # o.id  BY <1>4, <1>6
  <2>2. id \in DOMAIN m /\ r[id] = m[id]  BY <1>3, <1>6, <2>1
  <2>3. \A x \in DOMAIN D : D[x].id # id  BY <1>4, <1>6
  <2>4. QED  BY <1>1, <2>2, <2>3
<1>7. Tracks(A, r)  BY <1>3, <1>5, <1>6 DEF Tracks
<1>8. QED  BY <1>7 DEF A, r

\* The entry of a cancelled order goes with it.
LEMMA TracksPop ==
  ASSUME NEW D, NEW m, Tracks(D, m), NEW id, NEW E, DOMAIN E \subseteq DOMAIN D,
         \A x \in DOMAIN E : E[x] = D[x],
         \A x \in DOMAIN D : x \notin DOMAIN E => D[x].id = id,
         \A x \in DOMAIN E : D[x].id \in UniqueIds => D[x].id # id
  PROVE  Tracks(E, Popped(m, id))
<1> DEFINE r == Popped(m, id)
<1>1. /\ m \in Remainders
      /\ \A x \in DOMAIN D : D[x].id \in UniqueIds =>
           D[x].id \in DOMAIN m /\ m[D[x].id] - 2 * D[x].qty \in -1..1
      /\ \A j \in UniqueIds :
           j \in DOMAIN m /\ (\A x \in DOMAIN D : D[x].id # j) => m[j] \in 0..1
  BY DEF Tracks
<1>2. /\ r \in Remainders /\ DOMAIN r = DOMAIN m \ {id}
      /\ \A j \in DOMAIN m : j # id => r[j] = m[j]
  BY <1>1, PoppedIs
<1> HIDE DEF r
<1>3. ASSUME NEW x \in DOMAIN E, E[x].id \in UniqueIds
      PROVE  E[x].id \in DOMAIN r /\ r[E[x].id] - 2 * E[x].qty \in -1..1
  <2>1. x \in DOMAIN D /\ E[x] = D[x] /\ D[x].id # id  BY <1>3
  <2>2. QED  BY <1>1, <1>2, <1>3, <2>1
<1>4. ASSUME NEW j \in UniqueIds, j \in DOMAIN r, \A x \in DOMAIN E : E[x].id # j
      PROVE  r[j] \in 0..1
  <2>1. j # id /\ j \in DOMAIN m /\ r[j] = m[j]  BY <1>2, <1>4
  <2>2. \A x \in DOMAIN D : D[x].id # j  BY <1>4, <2>1
  <2>3. QED  BY <1>1, <2>1, <2>2
<1>5. Tracks(E, r)  BY <1>2, <1>3, <1>4 DEF Tracks
<1>6. QED  BY <1>5 DEF r

-----------------------------------------------------------------------------
(* The calls *)

\* levelFor keeps the book in order; only the level it returns may be empty.
LEMMA OpenKeeps ==
  ASSUME NEW B \in [Side -> Shelves], NEW s \in Side, NEW es, NEW idx, Flat(s, es, idx),
         \A i \in 1..Len(es) : es[i].queue # <<>>, NEW p \in Ticks,
         NEW D, NEW L, Shelved(D, WithSide(B, s, Shelf(es, idx)), L)
  PROVE  LET fb == LevelFor(s, [entries |-> es, index |-> idx], p)
         IN /\ Flat(s, fb.entries, fb.index)
            /\ p \in DOMAIN fb.index
            /\ \A i \in 1..Len(fb.entries) :
                 i # fb.index[p] => fb.entries[i].queue # <<>>
            /\ Shelved(D, WithSide(B, s, Shelf(fb.entries, fb.index)), L)
<1> DEFINE fb == LevelFor(s, [entries |-> es, index |-> idx], p)
           es2 == fb.entries
           idx2 == fb.index
           f == Shelf(es, idx)
           g == Shelf(es2, idx2)
<1>1. CASE p \in DOMAIN idx
  <2>1. fb = [entries |-> es, index |-> idx]  BY <1>1 DEF LevelFor
  <2> HIDE DEF fb
  <2>2. es2 = es /\ idx2 = idx  BY <2>1
  <2>3. QED  BY <1>1, <2>2 DEF fb
<1>2. CASE p \notin DOMAIN idx
  <2>1. Flat(s, es2, idx2) /\ p \in DOMAIN idx2 /\ g = Placed(f, p, EmptyLevel(p))
    BY <1>2, LevelForIs
  <2>2. /\ f \in Shelves /\ DOMAIN f = DOMAIN idx /\ \A r \in DOMAIN idx : f[r] = es[idx[r]]
    BY ShelfOfFlat
  <2>3. \A r \in DOMAIN idx : idx[r] \in 1..Len(es)  BY FlatHas
  <2> HIDE DEF fb, es2, idx2
  <2>4. /\ DOMAIN g = DOMAIN idx2 /\ \A r \in DOMAIN idx2 : g[r] = es2[idx2[r]]
        /\ \A i \in 1..Len(es2) : es2[i].price \in DOMAIN idx2 /\ idx2[es2[i].price] = i
    BY <2>1, ShelfOfFlat, FlatHas
  <2> HIDE DEF f, g
  <2>5. ASSUME NEW i \in 1..Len(es2), i # idx2[p] PROVE es2[i].queue # <<>>
    <3> DEFINE r == es2[i].price
    <3>1. r \in DOMAIN g /\ r # p /\ g[r] = es2[i]  BY <2>4, <2>5
    <3>2. r \in DOMAIN f /\ g[r] = f[r]  BY <2>1, <3>1 DEF Placed
    <3>3. f[r].queue # <<>>  BY <2>2, <2>3, <3>2
    <3>4. QED  BY <3>1, <3>2, <3>3
  <2>6. Shelved(D, WithSide(B, s, g), L)
    <3> DEFINE C == WithSide(B, s, f)
    <3>1. C[s] = f  BY <2>2, WithSideIs
    <3>2. Put(C, s, p, EmptyLevel(p)) = WithSide(B, s, g)  BY <2>1, <2>2, WithPut
    <3>3. Shelved(D, C, L)  BY DEF f
    <3>4. p \notin DOMAIN C[s]  BY <1>2, <2>2, <3>1
    <3> HIDE DEF C
    <3>5. Shelved(D, Put(C, s, p, EmptyLevel(p)), L)  BY <3>3, <3>4, ShelvedOpen
    <3>6. QED  BY <3>2, <3>5
  <2>7. Shelved(D, WithSide(B, s, Shelf(es2, idx2)), L)  BY <2>6 DEF g
  <2>8. QED  BY <2>1, <2>5, <2>7 DEF fb, es2, idx2
<1>3. QED  BY <1>1, <1>2

\* enqueue_order keeps the book and the adapter's table in order.
LEMMA EnqueueKeeps ==
  ASSUME BookRight(data, entries, index, locator, meta),
         NEW id \in Ids, NEW s \in Side, NEW raw \in RawPrices \ {0}, NEW size \in Sizes,
         NEW node \in Nodes, Enqueue(id, s, raw, size, node)
  PROVE  BookRight(data', entries', index', locator', meta')
<1> DEFINE p == ToTicks(raw)
           B == ByPrice(entries, index)
           fb == LevelFor(s, [entries |-> entries[s], index |-> index[s]], p)
           es == fb.entries
           idx == fb.index
           pos == idx[p]
           f == Shelf(es, idx)
           C == WithSide(B, s, f)
           level == LevelAppend(es[pos], node, Qty(size))
           es2 == [es EXCEPT ![pos] = level]
           o == [id |-> id, qty |-> Qty(size)]
<1>1. /\ Flat(s, entries[s], index[s]) /\ (\A i \in 1..Len(entries[s]) : entries[s][i].queue # <<>>)
      /\ Shelved(data, B, locator) /\ Tracks(data, meta)
  BY DEF BookRight
<1>2. B \in [Side -> Shelves] /\ WithSide(B, s, Shelf(entries[s], index[s])) = B
  BY ByPriceIs
<1>3. p \in Ticks  BY DEF Ticks
<1>4. size \in Nat /\ Qty(size) \in Nat /\ size - 2 * Qty(size) \in -1..1
  BY QtyIs, SizesAssumption
<1>5. o \in Order /\ o.id = id /\ o.qty = Qty(size)  BY <1>4 DEF Order
<1>6. /\ node \notin DOMAIN data
      /\ o.id \in UniqueIds => \A n \in DOMAIN data : data[n].id # o.id
  <2>1. RestingNodes = DOMAIN data  BY RestingIs
  <2>2. node \notin DOMAIN data /\ (id \in UniqueIds => \A n \in RestingNodes : data[n].id # id)
    BY DEF Enqueue, AddLimitOrder
  <2>3. QED  BY <1>5, <2>1, <2>2
<1>7. /\ data' = Acquire(data, node, o)
      /\ entries' = [entries EXCEPT ![s] = es2]
      /\ index' = [index EXCEPT ![s] = idx]
      /\ locator' = [locator EXCEPT ![o.id] = Locator(s, p, node)]
      /\ meta' = Entered(meta, o.id, size)
  BY DEF Enqueue, AddLimitOrder, FlatBook
<1> HIDE DEF B, fb, o, p
<1>8. /\ Flat(s, es, idx) /\ p \in DOMAIN idx
      /\ \A i \in 1..Len(es) : i # idx[p] => es[i].queue # <<>>
      /\ Shelved(data, C, locator)
  BY <1>1, <1>2, <1>3, OpenKeeps DEF fb
<1> HIDE DEF es, idx
<1>9. /\ f \in Shelves /\ DOMAIN f = DOMAIN idx /\ f[p] = es[pos]
      /\ es[pos] \in Level /\ es[pos].price = p /\ pos \in 1..Len(es) /\ es \in Seq(Level)
  BY <1>8, ShelfOfFlat, FlatHas, IndexIs
<1> HIDE DEF f
<1>10. C \in [Side -> Shelves] /\ C[s] = f  BY <1>2, <1>9, WithSideIs
<1> HIDE DEF pos, C
<1>11. /\ level \in Level /\ level.price = p /\ level.queue = Append(es[pos].queue, node)
  BY <1>4, <1>9, LevelAppendIs
<1>12. level.queue # <<>>
  <2>1. es[pos].queue \in Seq(Nodes)  BY <1>9 DEF Level
  <2> HIDE DEF level
  <2>2. QED  BY <1>11, <2>1
<1>13. level = LevelAppend(C[s][p], node, o.qty)  BY <1>5, <1>9, <1>10
<1> HIDE DEF level
<1>14. Flat(s, es2, idx) /\ Len(es2) = Len(es) /\ Shelf(es2, idx) = Placed(f, p, level)
  BY <1>8, <1>11, FlatWrite DEF pos, f
<1>15. \A i \in 1..Len(es2) : es2[i].queue # <<>>
  <2>1. es2[pos] = level /\ \A i \in 1..Len(es) : i # pos => es2[i] = es[i]  BY <1>9
  <2> HIDE DEF es2
  <2>2. QED  BY <1>8, <1>12, <1>14, <2>1 DEF pos
<1> HIDE DEF es2
<1>16. Shelved(Acquire(data, node, o), Put(C, s, p, level), [locator EXCEPT ![o.id] = Locator(s, p, node)])
  <2>1. p \in DOMAIN C[s]  BY <1>8, <1>9, <1>10
  <2>2. QED  BY <1>5, <1>6, <1>8, <1>13, <2>1, ShelvedAdd
<1>17. Put(C, s, p, level) = WithSide(B, s, Shelf(es2, idx))
  BY <1>2, <1>9, <1>14, WithPut DEF C
<1>18. Tracks(Acquire(data, node, o), Entered(meta, o.id, size))
  <2>1. data \in Pools  BY <1>1 DEF Shelved
  <2>2. QED  BY <1>1, <1>4, <1>5, <1>6, <2>1, TracksAdd
<1>19. QED  BY <1>7, <1>14, <1>15, <1>16, <1>17, <1>18, BookIs DEF B

\* cancel_order keeps the book and the adapter's table in order when the
\* native book knows the id.
LEMMA CancelKeeps ==
  ASSUME BookRight(data, entries, index, locator, meta),
         NEW id \in Ids, Cancel(id), meta' = Popped(meta, id)
  PROVE  BookRight(data', entries', index', locator', meta')
<1> DEFINE loc == locator[id]
           s == loc.side
           p == loc.price
           node == loc.node
           es == entries[s]
           idx == index[s]
           pos == idx[p]
           B == ByPrice(entries, index)
           old == es[pos]
           level == LevelRemove(old, node, data[node].qty)
           es1 == [es EXCEPT ![pos] = level]
           fb == EraseIfEmpty([entries |-> es1, index |-> idx], p)
           E == Release(data, node)
           M == Forget(locator, id)
<1>1. Shelved(data, B, locator) /\ Tracks(data, meta)
  BY DEF BookRight
<1>2. /\ data \in Pools /\ B \in [Side -> Shelves] /\ locator \in Tables
      /\ LocatorsLead(data, B, locator) /\ UniqueFound(data, locator)
  BY <1>1 DEF Shelved
<1>3. loc \in Located /\ s \in Side /\ p \in Ticks /\ node \in Nodes
  <2>1. loc.active  BY DEF Cancel
  <2>2. QED  BY <1>2, <2>1, LocatorIs
<1>4. /\ data' = E /\ locator' = M /\ meta' = Popped(meta, id)
      /\ entries' = [entries EXCEPT ![s] = fb.entries]
      /\ index' = [index EXCEPT ![s] = fb.index]
  <2> DEFINE fb0 == [FlatBook(s) EXCEPT !.entries[pos] = LevelRemove(@, node, data[node].qty)]
  <2>1. fb0 = [entries |-> es1, index |-> idx]  BY DEF FlatBook
  <2>2. /\ data' = E /\ locator' = M
        /\ entries' = [entries EXCEPT ![s] = EraseIfEmpty(fb0, p).entries]
        /\ index' = [index EXCEPT ![s] = EraseIfEmpty(fb0, p).index]
    BY DEF Cancel
  <2> HIDE DEF fb0, es1
  <2>3. QED  BY <2>1, <2>2
<1>5. Flat(s, es, idx) /\ (\A i \in 1..Len(es) : es[i].queue # <<>>)
  BY <1>3 DEF BookRight
<1>6. /\ B[s] = Shelf(es, idx) /\ DOMAIN B[s] = DOMAIN idx
      /\ WithSide(B, s, Shelf(es, idx)) = B
  BY <1>3, ByPriceIs
<1>7. /\ p \in DOMAIN B[s] /\ data[node].id = id
      /\ \E k \in 1..Len(B[s][p].queue) : B[s][p].queue[k] = node
  BY <1>2, <1>3 DEF LocatorsLead
<1> HIDE DEF B, E, M, fb, s, p, node
<1>8. PICK k \in 1..Len(B[s][p].queue) : B[s][p].queue[k] = node  BY <1>7
<1>9. /\ IsInjective(B[s][p].queue) /\ node \in DOMAIN data
      /\ data[node].qty \in Nat /\ data[node].qty <= B[s][p].total
  BY <1>1, <1>3, <1>7, <1>8, ShelvedHas
<1> HIDE DEF es, idx
<1>10. /\ p \in DOMAIN idx /\ B[s][p] = old /\ old \in Level /\ old.price = p
       /\ pos \in 1..Len(es) /\ es \in Seq(Level) /\ Shelf(es, idx) \in Shelves
  BY <1>5, <1>6, <1>7, ShelfOfFlat, FlatHas, IndexIs
<1> HIDE DEF pos, old
<1>11. /\ level \in Level /\ level.price = p /\ level.queue = RemoveAt(old.queue, k)
       /\ old.total = level.total + data[node].qty
  BY <1>8, <1>9, <1>10, LevelRemoveIs
<1> HIDE DEF level
<1>12. /\ Flat(s, es1, idx) /\ Len(es1) = Len(es)
       /\ Shelf(es1, idx) = Placed(Shelf(es, idx), p, level)
  BY <1>5, <1>10, <1>11, FlatWrite DEF pos
<1>13. \A i \in 1..Len(es1) : i # idx[p] => es1[i].queue # <<>>
  <2>1. \A i \in 1..Len(es) : i # pos => es1[i] = es[i]  BY <1>10
  <2> HIDE DEF es1
  <2>2. QED  BY <1>5, <1>12, <2>1 DEF pos
<1> HIDE DEF es1
<1>14. Shelved(E, Put(B, s, p, level), M)
  BY <1>1, <1>3, <1>7, <1>8, <1>10, <1>11, ShelvedRemove DEF E, M
<1>15. Put(B, s, p, level) = WithSide(B, s, Shelf(es1, idx))
  <2> DEFINE f == Shelf(es, idx)
             g == Shelf(es1, idx)
  <2>1. f \in Shelves /\ g = Placed(f, p, level)  BY <1>10, <1>12
  <2> HIDE DEF f, g
  <2>2. Put(WithSide(B, s, f), s, p, level) = WithSide(B, s, g)  BY <1>2, <1>3, <2>1, WithPut
  <2>3. QED  BY <1>6, <2>2 DEF f, g
<1>16. Shelved(E, WithSide(B, s, Shelf(es1, idx)), M)  BY <1>14, <1>15
<1>17. /\ Flat(s, fb.entries, fb.index)
       /\ \A i \in 1..Len(fb.entries) : fb.entries[i].queue # <<>>
       /\ Shelved(E, WithSide(B, s, Shelf(fb.entries, fb.index)), M)
  <2>1. p \in DOMAIN idx  BY <1>10
  <2>2. Flat(s, es1, idx) /\ B \in [Side -> Shelves] /\ s \in Side  BY <1>2, <1>3, <1>12
  <2> DEFINE rest == EraseIfEmpty([entries |-> es1, index |-> idx], p)
             es2 == rest.entries
             idx2 == rest.index
  <2>3. /\ rest = [entries |-> es2, index |-> idx2] /\ Flat(s, es2, idx2)
        /\ \A i \in 1..Len(es2) : es2[i].queue # <<>>
        /\ Shelved(E, WithSide(B, s, Shelf(es2, idx2)), M)
        /\ \A r \in DOMAIN idx : r # p => r \in DOMAIN idx2
    BY <1>13, <1>16, <2>1, <2>2, EraseKeeps
  <2>4. QED  BY <2>3 DEF fb
<1>18. Tracks(E, Popped(meta, id))
  <2>1. /\ DOMAIN E = DOMAIN data \ {node}
        /\ \A x \in DOMAIN data : x # node => E[x] = data[x]
    BY <1>2, ReleaseIs DEF E
  <2>2. \A x \in DOMAIN E : data[x].id \in UniqueIds => data[x].id # id
    BY <1>2, <1>7, <1>9, <2>1, UniqueAlone
  <2>3. \A x \in DOMAIN data : x \notin DOMAIN E => data[x].id = id  BY <1>7, <2>1
  <2>4. DOMAIN E \subseteq DOMAIN data /\ \A x \in DOMAIN E : E[x] = data[x]  BY <2>1
  <2>5. QED  BY <1>1, <2>2, <2>3, <2>4, TracksPop
<1>19. BookRight(E, [entries EXCEPT ![s] = fb.entries], [index EXCEPT ![s] = fb.index], M, Popped(meta, id))
  BY <1>3, <1>17, <1>18, BookIs DEF B
<1>20. QED  BY <1>4, <1>19

\* And when it does not.
LEMMA UnknownKeeps ==
  ASSUME BookRight(data, entries, index, locator, meta),
         NEW id \in Ids, Unknown(id)
  PROVE  BookRight(data, entries, index, locator, Popped(meta, id))
<1> DEFINE B == ByPrice(entries, index)
<1>1. Shelved(data, B, locator) /\ Tracks(data, meta)
  BY DEF BookRight
<1>2. /\ data \in Pools /\ locator \in Tables
      /\ LocatorsLead(data, B, locator) /\ UniqueFound(data, locator)
  BY <1>1 DEF Shelved
<1>3. locator[id] \notin Located
  <2>1. SUFFICES ASSUME locator[id] \in Located PROVE FALSE  OBVIOUS
  <2>2. locator[id].active /\ locator[id].side \in Side  BY <1>2, <2>1, LocatorIs
  <2>3. locator[id].price \notin DOMAIN index[locator[id].side]  BY <2>2 DEF Unknown
  <2>4. locator[id].price \in DOMAIN B[locator[id].side]  BY <1>2, <2>1 DEF LocatorsLead
  <2>5. DOMAIN B[locator[id].side] = DOMAIN index[locator[id].side]  BY <2>2, ByPriceIs
  <2>6. QED  BY <2>3, <2>4, <2>5
<1>4. \A x \in DOMAIN data : data[x].id \in UniqueIds => data[x].id # id
  BY <1>2, <1>3 DEF UniqueFound
<1>5. Tracks(data, Popped(meta, id))  BY <1>1, <1>4, TracksPop
<1>6. QED  BY <1>5 DEF BookRight

\* execute_order keeps the book and the adapter's table in order.
LEMMA ExecuteKeeps ==
  ASSUME BookRight(data, entries, index, locator, meta),
         NEW s \in Side, NEW raw \in RawPrices \cup {0}, NEW size \in Sizes,
         ExecuteOrder(s, raw, size)
  PROVE  BookRight(data', entries', index', locator', meta')
<1> DEFINE t == Opposite(s)
           limit == IF raw > 0 THEN ToTicks(raw) ELSE 0
           prices == Reachable(s, limit)
           B == ByPrice(entries, index)
           es == entries[t]
           idx == index[t]
           start == [remaining |-> Qty(size), data |-> data, locator |-> locator,
                     fills |-> <<>>, fb |-> FlatBook(t)]
           swept == FillLevels(start, prices)[Len(prices)]
<1>1. t \in Side  BY OppositeIs
<1>2. /\ data' = swept.data /\ locator' = swept.locator
      /\ entries' = [entries EXCEPT ![t] = swept.fb.entries]
      /\ index' = [index EXCEPT ![t] = swept.fb.index]
      /\ meta' = After(meta, swept.fills)
  <2>1. /\ data' = swept.data /\ locator' = swept.locator /\ fills' = swept.fills
        /\ entries' = [entries EXCEPT ![t] = swept.fb.entries]
        /\ index' = [index EXCEPT ![t] = swept.fb.index]
    BY DEF ExecuteOrder, Match
  <2>2. meta' = After(meta, fills')  BY DEF ExecuteOrder, After
  <2> HIDE DEF swept
  <2>3. QED  BY <2>1, <2>2
<1>3. Shelved(data, B, locator) /\ Tracks(data, meta)  BY DEF BookRight
<1>4. data \in Pools /\ locator \in Tables /\ meta \in Remainders  BY <1>3 DEF Shelved, Tracks
<1>5. Flat(t, es, idx) /\ (\A i \in 1..Len(es) : es[i].queue # <<>>)  BY <1>1 DEF BookRight
<1>6. B \in [Side -> Shelves] /\ WithSide(B, t, Shelf(es, idx)) = B  BY <1>1, ByPriceIs
<1>7. Qty(size) \in Nat  BY QtyIs, SizesAssumption
<1>8. start.remaining = Qty(size) /\ start.data = data /\ start.locator = locator
      /\ start.fills = <<>> /\ start.fb.entries = es /\ start.fb.index = idx
  BY DEF FlatBook
<1>9. start \in Rounds
  <2>1. es \in Seq(Level) /\ idx \in Indices  BY <1>5, IndexIs
  <2>2. start = [remaining |-> Qty(size), data |-> data, locator |-> locator, fills |-> <<>>,
                 fb |-> [entries |-> es, index |-> idx]]
    BY DEF FlatBook
  <2>3. <<>> \in Seq(Fill)  OBVIOUS
  <2> HIDE DEF start, es, idx
  <2>4. QED  BY <1>4, <1>7, <2>1, <2>2, <2>3, RoundIs
<1>10. After(meta, <<>>) = meta
  <2>1. <<>> \in Seq(Fill) /\ Len(<<>>) = 0  OBVIOUS
  <2>2. Reductions(meta, <<>>)[0] = meta  BY <1>4, <2>1, ReductionsIs
  <2>3. QED  BY <2>1, <2>2 DEF After
<1>11. /\ prices \in Seq(Ticks) /\ \A i, j \in 1..Len(prices) : prices[i] = prices[j] => i = j
       /\ \A i \in 1..Len(prices) : prices[i] \in DOMAIN idx
  BY <1>5, ReachableIs
<1> HIDE DEF start, es, idx, B, prices, t
<1>12. RoundRight(start, B, t, meta)
  BY <1>3, <1>5, <1>6, <1>8, <1>9, <1>10 DEF RoundRight
<1>13. RoundRight(swept, B, t, meta)
  <2>1. \A i \in 1..Len(prices) : prices[i] \in DOMAIN start.fb.index  BY <1>8, <1>11
  <2>2. QED  BY <1>1, <1>4, <1>6, <1>11, <1>12, <2>1, FillLevelsKeeps
<1> HIDE DEF swept
<1> DEFINE es2 == swept.fb.entries
           idx2 == swept.fb.index
<1>14. /\ Flat(t, es2, idx2) /\ \A i \in 1..Len(es2) : es2[i].queue # <<>>
       /\ Shelved(swept.data, WithSide(B, t, Shelf(es2, idx2)), swept.locator)
       /\ Tracks(swept.data, After(meta, swept.fills))
  BY <1>13 DEF RoundRight
<1>15. BookRight(swept.data, [entries EXCEPT ![t] = es2], [index EXCEPT ![t] = idx2],
                 swept.locator, After(meta, swept.fills))
  BY <1>1, <1>14, BookIs DEF B
<1>16. QED  BY <1>2, <1>15

-----------------------------------------------------------------------------
(* The invariant and the theorems *)

\* The inductive invariant of adapter and book.
BookInv == BookRight(data, entries, index, locator, meta)

\* The book starts empty.
LEMMA BookInit ==
  ASSUME NativeInit
  PROVE  BookInv
<1> DEFINE B == ByPrice(entries, index)
<1>1. /\ data = <<>> /\ entries = [s \in Side |-> <<>>] /\ index = [s \in Side |-> <<>>]
      /\ locator = [id \in Ids |-> NoLocator] /\ meta = <<>>
  BY DEF NativeInit, Init
<1>2. <<>> = [x \in {} |-> <<>>[x]] /\ DOMAIN <<>> = {}  OBVIOUS
<1>3. \A s \in Side : entries[s] = <<>> /\ index[s] = <<>> /\ Len(entries[s]) = 0  BY <1>1
<1>4. ASSUME NEW s \in Side PROVE Flat(s, entries[s], index[s])
  <2>1. <<>> \in Seq(Level) /\ Len(<<>>) = 0  OBVIOUS
  <2>2. Flat(s, <<>>, <<>>)  BY <1>2, <2>1 DEF Flat, Sorted
  <2>3. QED  BY <1>3, <2>2
<1>5. \A s \in Side : \A i \in 1..Len(entries[s]) : entries[s][i].queue # <<>>  BY <1>3
<1>6. B = [s \in Side |-> B[s]] /\ \A s \in Side : B[s] = Shelf(entries[s], index[s])
  BY DEF ByPrice
<1> HIDE DEF B
<1>7. \A s \in Side : B[s] \in Shelves /\ DOMAIN B[s] = {}
  BY <1>2, <1>3, <1>4, <1>6, ShelfOfFlat
<1>8. B \in [Side -> Shelves]  BY <1>6, <1>7
<1>9. data \in Pools
  <2>1. \A n \in {} : data[n] \in Order  OBVIOUS
  <2>2. data = [n \in {} |-> data[n]]  BY <1>1, <1>2
  <2>3. QED  BY <2>1, <2>2, PoolIs
<1>10. locator \in Tables /\ \A id \in Ids : locator[id] \notin Located
  <2>1. locator \in Tables  BY <1>1 DEF Tables
  <2>2. NoLocator.active = FALSE  BY DEF NoLocator
  <2>3. \A id \in Ids : ~locator[id].active  BY <1>1, <2>2
  <2>4. QED  BY <2>1, <2>3, LocatorIs
<1>11. Shelved(data, B, locator)
  <2>1. DOMAIN data = {}  BY <1>1, <1>2
  <2>2. QueuesApart(B)  BY <1>7 DEF QueuesApart
  <2>3. PoolRests(data, B)  BY <1>7, <2>1 DEF PoolRests
  <2>4. LevelsRight(data, B)  BY <1>7 DEF LevelsRight
  <2>5. LocatorsLead(data, B, locator)  BY <1>10 DEF LocatorsLead
  <2>6. UniqueFound(data, locator)  BY <2>1 DEF UniqueFound
  <2>7. QED  BY <1>8, <1>9, <1>10, <2>2, <2>3, <2>4, <2>5, <2>6 DEF Shelved
<1>12. Tracks(data, meta)
  <2>1. DOMAIN data = {} /\ DOMAIN meta = {}  BY <1>1, <1>2
  <2>2. meta = [id \in {} |-> meta[id]]  BY <1>1, <1>2
  <2>3. \A id \in {} : meta[id] \in Nat  OBVIOUS
  <2>4. meta \in Remainders  BY <2>2, <2>3, RemaindersIs
  <2>5. QED  BY <2>1, <2>4 DEF Tracks
<1>13. entries = [s \in Side |-> entries[s]] /\ index = [s \in Side |-> index[s]]  BY <1>1
<1>14. QED  BY <1>4, <1>5, <1>11, <1>12, <1>13 DEF BookInv, BookRight, B

\* Every call keeps the book in order.
LEMMA BookStep ==
  ASSUME BookInv, [NativeNext]_nativeVars
  PROVE  BookInv'
<1>1. BookRight(data, entries, index, locator, meta)  BY DEF BookInv
<1>2. ASSUME NEW id \in Ids, NEW s \in Side, NEW raw \in RawPrices \ {0}, NEW size \in Sizes,
             NEW node \in Nodes, Enqueue(id, s, raw, size, node)
      PROVE  BookInv'
  BY <1>1, <1>2, EnqueueKeeps DEF BookInv
<1>3. ASSUME NEW id \in Ids, CancelOrder(id) PROVE BookInv'
  <2>1. meta' = Popped(meta, id)  BY <1>3 DEF CancelOrder
  <2>2. CASE Cancel(id)  BY <1>1, <2>1, <2>2, CancelKeeps DEF BookInv
  <2>3. CASE Unknown(id) /\ UNCHANGED <<data, entries, index, locator>>
    <3>1. BookRight(data, entries, index, locator, Popped(meta, id))  BY <1>1, <2>3, UnknownKeeps
    <3>2. QED  BY <2>1, <2>3, <3>1 DEF BookInv
  <2>4. QED  BY <1>3, <2>2, <2>3 DEF CancelOrder
<1>4. ASSUME NEW s \in Side, NEW raw \in RawPrices \cup {0}, NEW size \in Sizes,
             ExecuteOrder(s, raw, size)
      PROVE  BookInv'
  BY <1>1, <1>4, ExecuteKeeps DEF BookInv
<1>5. CASE UNCHANGED nativeVars  BY <1>1, <1>5 DEF BookInv, nativeVars, vars
<1>6. QED  BY <1>2, <1>3, <1>4, <1>5 DEF NativeNext

\* What the invariant says of the book: types, vectors and indices, totals.
LEMMA LevelsAgree ==
  ASSUME BookInv
  PROVE  TypeOK /\ FlatBookConsistent /\ TotalsAgree
<1> DEFINE B == ByPrice(entries, index)
<1>1. BookRight(data, entries, index, locator, meta)  BY DEF BookInv
<1>2. /\ data \in Pools /\ locator \in Tables /\ LevelsRight(data, B)
      /\ \A s \in Side : /\ Flat(s, entries[s], index[s])
                         /\ \A i \in 1..Len(entries[s]) : entries[s][i].queue # <<>>
  BY <1>1 DEF BookRight, Shelved
<1>3. \A s \in Side :
        /\ DOMAIN entries[s] = 1..Len(entries[s]) /\ entries[s] \in Seq(Level)
        /\ \A i \in 1..Len(entries[s]) :
             entries[s][i].price \in DOMAIN B[s] /\ B[s][entries[s][i].price] = entries[s][i]
  BY <1>1, LevelsByPrice
<1> HIDE DEF B
<1>4. TypeOK
  <2>1. DOMAIN data \subseteq Nodes /\ \A n \in DOMAIN data : data[n] \in [id : Ids, qty : Nat]
    <3>1. DOMAIN data \in SUBSET Nodes /\ \A n \in DOMAIN data : data[n] \in Order
      BY <1>2, PoolHas
    <3>2. QED  BY <3>1 DEF Order
  <2>2. \A s \in Side : entries[s] \in Seq([price : Ticks, queue : Seq(Nodes), total : Nat])
    BY <1>3 DEF Level
  <2>3. \A s \in Side : DOMAIN index[s] \subseteq Ticks
    <3>1. ASSUME NEW s \in Side PROVE DOMAIN index[s] \subseteq Ticks
      <4>1. Flat(s, entries[s], index[s])  BY <1>2
      <4>2. QED  BY <4>1, FlatHas
    <3>2. QED  BY <3>1
  <2>4. \A id \in Ids : \/ locator[id] = NoLocator
                        \/ /\ locator[id].side \in Side
                           /\ locator[id].price \in Ticks
                           /\ locator[id].node \in Nodes
    BY <1>2, LocatorIs
  <2>5. QED  BY <2>1, <2>2, <2>3, <2>4 DEF TypeOK
<1>5. FlatBookConsistent
  <2>1. ASSUME NEW s \in Side
        PROVE  /\ \A i, j \in DOMAIN entries[s] :
                    i < j => Comp(s, entries[s][i].price, entries[s][j].price)
               /\ \A i \in DOMAIN entries[s] : entries[s][i].queue # <<>>
               /\ DOMAIN index[s] = {entries[s][i].price : i \in DOMAIN entries[s]}
               /\ \A i \in DOMAIN entries[s] : index[s][entries[s][i].price] = i
    <3>1. Flat(s, entries[s], index[s])  BY <1>2
    <3>2. DOMAIN entries[s] = 1..Len(entries[s])  BY <1>3
    <3>3. \A i \in 1..Len(entries[s]) : entries[s][i].queue # <<>>  BY <1>2
    <3>4. QED  BY <3>1, <3>2, <3>3 DEF Flat, Sorted
  <2>2. QED  BY <2>1 DEF FlatBookConsistent
<1>6. TotalsAgree  BY <1>2, <1>3 DEF TotalsAgree, LevelsRight
<1>7. QED  BY <1>4, <1>5, <1>6

\* Of the pool and the queues.
LEMMA QueuesPartition ==
  ASSUME BookInv
  PROVE  PoolPartition
<1> DEFINE B == ByPrice(entries, index)
<1>1. BookRight(data, entries, index, locator, meta)  BY DEF BookInv
<1>2. QueuesApart(B)  BY <1>1 DEF BookRight, Shelved
<1>3. \A s \in Side :
        /\ DOMAIN entries[s] = 1..Len(entries[s])
        /\ \A i \in 1..Len(entries[s]) :
             /\ entries[s][i].price \in DOMAIN B[s] /\ B[s][entries[s][i].price] = entries[s][i]
             /\ DOMAIN entries[s][i].queue = 1..Len(entries[s][i].queue)
  BY <1>1, LevelsByPrice
<1> HIDE DEF B
<1>4. ASSUME NEW s \in Side, NEW t \in Side, NEW i \in DOMAIN entries[s], NEW j \in DOMAIN entries[t],
             NEW k \in DOMAIN entries[s][i].queue, NEW l \in DOMAIN entries[t][j].queue,
             entries[s][i].queue[k] = entries[t][j].queue[l]
      PROVE  s = t /\ i = j /\ k = l
  <2> DEFINE p == entries[s][i].price
             r == entries[t][j].price
  <2>1. /\ i \in 1..Len(entries[s]) /\ p \in DOMAIN B[s] /\ B[s][p] = entries[s][i]
        /\ k \in 1..Len(B[s][p].queue)
    BY <1>3
  <2>2. /\ j \in 1..Len(entries[t]) /\ r \in DOMAIN B[t] /\ B[t][r] = entries[t][j]
        /\ l \in 1..Len(B[t][r].queue)
    BY <1>3
  <2>3. s = t /\ p = r /\ k = l
    <3>1. B[s][p].queue[k] = B[t][r].queue[l]  BY <1>4, <2>1, <2>2
    <3>2. \A k1 \in 1..Len(B[s][p].queue), l1 \in 1..Len(B[t][r].queue) :
            B[s][p].queue[k1] = B[t][r].queue[l1] => s = t /\ p = r /\ k1 = l1
      <4>1. p \in DOMAIN B[s] /\ r \in DOMAIN B[t]  BY <2>1, <2>2
      <4> HIDE DEF p, r
      <4>2. QED  BY <1>2, <4>1 DEF QueuesApart
    <3>3. k \in 1..Len(B[s][p].queue) /\ l \in 1..Len(B[t][r].queue)  BY <2>1, <2>2
    <3> HIDE DEF p, r
    <3>4. QED  BY <3>1, <3>2, <3>3
  <2>4. i = j
    <3>1. Flat(s, entries[s], index[s])  BY <1>1 DEF BookRight
    <3>2. entries[s] \in Seq(Level) /\ Sorted(s, entries[s])  BY <3>1 DEF Flat
    <3>3. j \in 1..Len(entries[s]) /\ entries[s][i].price = entries[s][j].price  BY <2>2, <2>3
    <3>4. QED  BY <2>1, <3>2, <3>3, SortedApart
  <2>5. QED  BY <2>3, <2>4
<1>5. RestingNodes = DOMAIN data  BY <1>1, RestingIs
<1>6. \A s \in Side : \A i \in DOMAIN entries[s] : IsInjective(entries[s][i].queue)
  BY <1>4 DEF IsInjective
<1>7. \A s, t \in Side : \A i \in DOMAIN entries[s], j \in DOMAIN entries[t] :
        ToSet(entries[s][i].queue) \cap ToSet(entries[t][j].queue) # {} => s = t /\ i = j
  BY <1>4 DEF ToSet
<1>8. QED  BY <1>5, <1>6, <1>7 DEF PoolPartition

\* Of the locators.
LEMMA LocatorsRight ==
  ASSUME BookInv
  PROVE  LocatorNeverDangles /\ EveryOrderCancellable
<1> DEFINE B == ByPrice(entries, index)
<1>1. BookRight(data, entries, index, locator, meta)  BY DEF BookInv
<1>2. locator \in Tables /\ LocatorsLead(data, B, locator) /\ UniqueFound(data, locator)
  BY <1>1 DEF BookRight, Shelved
<1>3. RestingNodes = DOMAIN data  BY <1>1, RestingIs
<1>4. ASSUME NEW id \in Ids, locator[id].active
      PROVE  LET loc == locator[id] IN
             /\ loc.price \in DOMAIN index[loc.side]
             /\ loc.node \in ToSet(entries[loc.side][index[loc.side][loc.price]].queue)
             /\ data[loc.node].id = id
  <2> DEFINE s == locator[id].side
             p == locator[id].price
             n == locator[id].node
             e == entries[s][index[s][p]]
  <2>1. locator[id] \in Located /\ s \in Side  BY <1>2, <1>4, LocatorIs
  <2>2. p \in DOMAIN B[s] /\ data[n].id = id
    BY <1>2, <2>1 DEF LocatorsLead
  <2>3. PICK k \in 1..Len(B[s][p].queue) : B[s][p].queue[k] = n  BY <1>2, <2>1 DEF LocatorsLead
  <2>4. DOMAIN B[s] = DOMAIN index[s]  BY <1>1, <2>1, ByPriceIs
  <2>5. index[s][p] \in 1..Len(entries[s]) /\ B[s][p] = e
    BY <1>1, <2>1, <2>2, LevelsByPrice
  <2>6. DOMAIN e.queue = 1..Len(e.queue)  BY <1>1, <2>1, <2>5, LevelsByPrice
  <2> HIDE DEF B, e, s, p, n
  <2>7. n \in ToSet(e.queue)  BY <2>3, <2>5, <2>6 DEF ToSet
  <2>8. QED  BY <2>2, <2>4, <2>7 DEF s, p, n, e
<1>5. LocatorNeverDangles  BY <1>4 DEF LocatorNeverDangles
<1>6. EveryOrderCancellable
  <2>1. ASSUME NEW n \in RestingNodes, data[n].id \in UniqueIds
        PROVE  locator[data[n].id].active /\ locator[data[n].id].node = n
    <3>1. locator[data[n].id] \in Located /\ locator[data[n].id].node = n
      BY <1>2, <1>3, <2>1 DEF UniqueFound
    <3>2. data[n].id \in Ids  BY <2>1, OrderBookAssumption
    <3>3. QED  BY <1>2, <3>1, <3>2, LocatorIs
  <2>2. QED  BY <2>1 DEF EveryOrderCancellable
<1>7. QED  BY <1>5, <1>6

\* Of the adapter's table.
LEMMA TableRight ==
  ASSUME BookInv
  PROVE  MetaTracksBook
<1>1. BookRight(data, entries, index, locator, meta)  BY DEF BookInv
<1>2. Tracks(data, meta)  BY <1>1 DEF BookRight
<1>3. RestingNodes = DOMAIN data  BY <1>1, RestingIs
<1>4. QED  BY <1>2, <1>3 DEF MetaTracksBook, Tracks

\* In every reachable state, for any ids, prices, tick size, quantities and pool,
\* the two level vectors are sorted, hold no empty level and are indexed at their
\* positions, each level's total is what its orders show, each acquired node is in
\* one queue once, no locator dangles, and an order whose id is not reused can be
\* cancelled by it (OrderBook.hpp:91-253, OrderBook.cpp:71-188).
THEOREM BooksAgree == NativeSpec => []BookConsistent
<1>1. NativeInit => BookInv  BY BookInit
<1>2. BookInv /\ [NativeNext]_nativeVars => BookInv'  BY BookStep
<1>3. BookInv => BookConsistent
  BY LevelsAgree, QueuesPartition, LocatorsRight DEF BookConsistent
<1>4. QED  BY <1>1, <1>2, <1>3, PTL DEF NativeSpec

\* In every reachable state, the adapter has an entry for each resting order whose
\* id is not reused, within half a unit of what the native book shows of it, and no
\* entry of more than half a unit without one (order_book.py, CppOrderBook).
THEOREM TableTracks == NativeSpec => []MetaTracksBook
<1>1. NativeInit => BookInv  BY BookInit
<1>2. BookInv /\ [NativeNext]_nativeVars => BookInv'  BY BookStep
<1>3. BookInv => MetaTracksBook  BY TableRight
<1>4. QED  BY <1>1, <1>2, <1>3, PTL DEF NativeSpec

-----------------------------------------------------------------------------
(* What the limit book promises: what its operators say of a queue of orders *)

\* The limit book sums and compares numbers as the libraries do.
LEMMA InAbstract ==
  /\ \A numbers : Abstract!Running(numbers) = Running(numbers)
  /\ \A numbers : Abstract!Total(numbers) = Total(numbers)
  /\ \A S : Abstract!Max(S) = Max(S) /\ Abstract!Min(S) = Min(S)
<1>1. \A numbers : Abstract!Running(numbers) = Running(numbers)
  BY DEF Abstract!Running, Running
<1>2. \A numbers : Abstract!Total(numbers) = Total(numbers)
  BY <1>1 DEF Abstract!Total, Total
<1>3. \A S : Abstract!Max(S) = Max(S) /\ Abstract!Min(S) = Min(S)
  BY DEF Abstract!Max, Max, Abstract!Min, Min
<1>4. QED  BY <1>1, <1>2, <1>3

\* A number, or zero if it is negative.
Positive(x) == IF x > 0 THEN x ELSE 0

\* What the first orders of a queue show.
Prefix(queue) == Running([i \in DOMAIN queue |-> queue[i].qty])

\* A prefix shows what the shorter one does and the next order.
LEMMA PrefixIs ==
  ASSUME NEW queue \in Seq(Order)
  PROVE  /\ Prefix(queue)[0] = 0
         /\ \A i \in 0..Len(queue) : Prefix(queue)[i] \in Int
         /\ \A i \in 1..Len(queue) : /\ Prefix(queue)[i] = Prefix(queue)[i - 1] + queue[i].qty
                                     /\ queue[i] \in Order /\ queue[i].qty \in Nat
         /\ Abstract!Depth(queue) = Prefix(queue)[Len(queue)]
<1> DEFINE n == Len(queue)
           numbers == [i \in DOMAIN queue |-> queue[i].qty]
<1>1. n \in Nat /\ DOMAIN queue = 1..n /\ \A i \in 1..n : queue[i] \in Order  OBVIOUS
<1>2. \A o \in Order : o.qty \in Nat  BY DEF Order
<1>3. \A i \in 1..n : queue[i] \in Order /\ queue[i].qty \in Nat  BY <1>1, <1>2
<1>4. numbers \in Seq(Int) /\ Len(numbers) = n /\ \A i \in 1..n : numbers[i] = queue[i].qty
  <2>1. \A i \in 1..n : queue[i].qty \in Int  BY <1>3
  <2>2. numbers \in [1..n -> Int]  BY <1>1, <2>1
  <2>3. numbers \in Seq(Int) /\ Len(numbers) = n  BY <1>1, <2>2
  <2>4. QED  BY <1>1, <2>3
<1>5. Abstract!Depth(queue) = Running(numbers)[Len(numbers)]
  <2>1. Abstract!Depth(queue) = Abstract!Total(numbers)
    BY DEF Abstract!Depth, Abstract!QuantitiesOf
  <2> HIDE DEF numbers
  <2>2. QED  BY <2>1, InAbstract DEF Total
<1>6. Prefix(queue) = Running(numbers)  BY DEF Prefix
<1> HIDE DEF numbers, n
<1>7. /\ Running(numbers) \in [0..n -> Int] /\ Running(numbers)[0] = 0
      /\ \A i \in 1..n : Running(numbers)[i] = Running(numbers)[i - 1] + numbers[i]
  BY <1>4, RunningIs
<1>8. QED  BY <1>3, <1>4, <1>5, <1>6, <1>7 DEF n

\* An order gives what it shows, or what the orders before it leave over.
LEMMA GivenIs ==
  ASSUME NEW queue \in Seq(Order), NEW left \in Int, NEW i \in 1..Len(queue)
  PROVE  /\ Positive(left - Prefix(queue)[i - 1]) \in Nat
         /\ Abstract!Given(queue, left, i) =
              IF queue[i].qty <= Positive(left - Prefix(queue)[i - 1]) THEN queue[i].qty
              ELSE Positive(left - Prefix(queue)[i - 1])
         /\ Abstract!Given(queue, left, i) \in Nat
<1> DEFINE x == left - Prefix(queue)[i - 1]
           q == queue[i].qty
           larger == Max({0, x})
<1>1. x \in Int /\ q \in Nat
  <2>1. i - 1 \in 0..Len(queue)  OBVIOUS
  <2>2. Prefix(queue)[i - 1] \in Int  BY <2>1, PrefixIs
  <2>3. QED  BY <2>2, PrefixIs
<1>2. Abstract!Given(queue, left, i) = Min({q, larger})
  <2>1. Abstract!Given(queue, left, i) = Abstract!Min({q, Abstract!Max({0, x})})
    <3>1. Abstract!Running(Abstract!QuantitiesOf(queue)) = Prefix(queue)
      BY InAbstract DEF Abstract!QuantitiesOf, Prefix
    <3>2. QED  BY <3>1 DEF Abstract!Given
  <2> HIDE DEF x, q
  <2>2. QED  BY <2>1, InAbstract
<1> HIDE DEF x, q
<1>3. larger = Positive(x) /\ Positive(x) \in Nat
  <2>1. larger = IF 0 >= x THEN 0 ELSE x  BY <1>1, TheLarger
  <2>2. QED  BY <1>1, <2>1 DEF Positive
<1> HIDE DEF larger
<1>4. Min({q, Positive(x)}) = IF q <= Positive(x) THEN q ELSE Positive(x)
  BY <1>1, <1>3, TheSmaller
<1>5. QED  BY <1>1, <1>2, <1>3, <1>4 DEF x, q

\* The remainder keeps every order that is not executed in full, with what it
\* did not give.
LEMMA RemainderIs ==
  ASSUME NEW queue \in Seq(Order), NEW left \in Int
  PROVE  LET rest == Abstract!Remainder(queue, left)
             given(i) == Abstract!Given(queue, left, i)
         IN /\ rest \in [0..Len(queue) -> Seq(Order)] /\ rest[0] = <<>>
            /\ \A i \in 1..Len(queue) :
                 rest[i] = IF given(i) > 0 /\ given(i) = queue[i].qty THEN rest[i - 1]
                           ELSE Append(rest[i - 1],
                                       [queue[i] EXCEPT !.qty = queue[i].qty - given(i)])
<1> DEFINE n == Len(queue)
           gives(i) == Abstract!Given(queue, left, i)
           next(x, i) == IF gives(i) > 0 /\ gives(i) = queue[i].qty THEN x
                         ELSE Append(x, [queue[i] EXCEPT !.qty = queue[i].qty - gives(i)])
           turn == [i \in 1..n |-> [x \in Seq(Order) |-> next(x, i)]]
           Body(g) == [i \in 0..n |-> IF i = 0 THEN <<>> ELSE next(g[i - 1], i)]
           m == Abstract!Remainder(queue, left)
<1>1. n \in Nat  OBVIOUS
<1>2. ASSUME NEW i \in 1..n PROVE [queue[i] EXCEPT !.qty = queue[i].qty - gives(i)] \in Order
  <2> DEFINE g == gives(i)
  <2>1. queue[i] \in Order /\ queue[i].qty \in Nat  BY PrefixIs
  <2>2. g \in Nat /\ g <= queue[i].qty  BY <2>1, GivenIs
  <2> HIDE DEF g, gives
  <2>3. queue[i].qty - g \in Nat  BY <2>1, <2>2
  <2>4. [queue[i] EXCEPT !.qty = queue[i].qty - g] \in Order  BY <2>1, <2>3 DEF Order
  <2>5. QED  BY <2>4 DEF g
<1>3. turn \in [1..n -> [Seq(Order) -> Seq(Order)]]
  <2>1. ASSUME NEW i \in 1..n, NEW x \in Seq(Order) PROVE next(x, i) \in Seq(Order)
    <3> DEFINE o == [queue[i] EXCEPT !.qty = queue[i].qty - gives(i)]
    <3>1. o \in Order  BY <1>2
    <3> HIDE DEF o, gives
    <3>2. Append(x, o) \in Seq(Order)  BY <3>1
    <3>3. QED  BY <3>2 DEF o
  <2> HIDE DEF next, n
  <2>2. QED  BY <2>1
<1>4. <<>> \in Seq(Order)  OBVIOUS
<1> HIDE DEF turn, n, gives
<1>5. PICK f \in [0..n -> Seq(Order)] : IsRun(f, n, <<>>, turn)  BY <1>1, <1>3, <1>4, LoopRuns
<1>6. f = Body(f)
  <2>1. ASSUME NEW i \in 1..n PROVE f[i] = next(f[i - 1], i)
    <3>1. i - 1 \in 0..n  BY <1>1
    <3>2. f[i - 1] \in Seq(Order)  BY <3>1
    <3>3. f[i] = turn[i][f[i - 1]]  BY <1>5 DEF IsRun
    <3>4. turn[i][f[i - 1]] = next(f[i - 1], i)  BY <3>2 DEF turn
    <3>5. QED  BY <3>3, <3>4
  <2>2. \A i \in 0..n : i # 0 => i \in 1..n  BY <1>1
  <2> HIDE DEF next
  <2>3. f[0] = <<>>  BY <1>5 DEF IsRun
  <2>4. \A i \in 0..n : f[i] = Body(f)[i]  BY <2>1, <2>2, <2>3
  <2>5. QED  BY <2>4
<1>7. m = CHOOSE g : g = Body(g)  BY DEF Abstract!Remainder, n, gives
<1>8. m = Body(m)
  <2> HIDE DEF Body, m
  <2>1. (CHOOSE g : g = Body(g)) = Body(CHOOSE g : g = Body(g))  BY <1>6
  <2>2. QED  BY <1>7, <2>1
<1> HIDE DEF m
<1>9. m[0] = <<>> /\ \A i \in 1..n : m[i] = next(m[i - 1], i)
  <2>1. 0 \in 0..n /\ \A i \in 1..n : i \in 0..n /\ i # 0  BY <1>1
  <2> HIDE DEF next
  <2>2. QED  BY <1>8, <2>1
<1>10. m \in [0..n -> Seq(Order)]
  <2> DEFINE T == {i \in 0..n : m[i] \in Seq(Order)}
  <2>1. 0 \in T
    <3>1. 0 \in 0..n /\ m[0] \in Seq(Order)  BY <1>1, <1>4, <1>9
    <3>2. QED  BY <3>1
  <2>2. ASSUME NEW i \in 0..n, i < n, i \in T PROVE i + 1 \in T
    <3>1. i + 1 \in 1..n /\ i + 1 \in 0..n /\ (i + 1) - 1 = i  BY <1>1, <2>2
    <3>2. m[i] \in Seq(Order)  BY <2>2
    <3>3. turn[i + 1][m[i]] \in Seq(Order)  BY <1>3, <3>1, <3>2
    <3>4. turn[i + 1][m[i]] = next(m[i], i + 1)  BY <3>1, <3>2 DEF turn
    <3> HIDE DEF next
    <3>5. m[i + 1] = next(m[i], i + 1)  BY <1>9, <3>1
    <3>6. QED  BY <3>1, <3>3, <3>4, <3>5
  <2> HIDE DEF T
  <2>3. \A i \in 0..n : i \in T  BY <1>1, <2>1, <2>2, UpTo
  <2>4. \A i \in 0..n : m[i] \in Seq(Order)  BY <2>3 DEF T
  <2>5. m = [i \in 0..n |-> m[i]]
    <3> HIDE DEF next
    <3>1. QED  BY <1>8
  <2>6. QED  BY <2>4, <2>5
<1>11. QED  BY <1>9, <1>10 DEF m, n, gives

\* One more order of the queue adds what it executes.
LEMMA ExecutedIs ==
  ASSUME NEW queue, NEW left, NEW p, NEW k \in Nat \ {0}
  PROVE  LET given == Abstract!Given(queue, left, k)
             fill  == [id |-> queue[k].id, tick |-> p, qty |-> given]
         IN /\ given > 0 => Abstract!Executed(queue, left, p, k)
                            = Abstract!Executed(queue, left, p, k - 1) \cup {fill}
            /\ ~(given > 0) => Abstract!Executed(queue, left, p, k)
                               = Abstract!Executed(queue, left, p, k - 1)
<1> DEFINE gives(j) == Abstract!Given(queue, left, j)
           fill(j) == [id |-> queue[j].id, tick |-> p, qty |-> gives(j)]
           A(n) == {fill(j) : j \in {i \in 1..n : gives(i) > 0}}
<1>1. 1..k = (1..(k - 1)) \cup {k}  OBVIOUS
<1>2. \A n : Abstract!Executed(queue, left, p, n) = A(n)  BY DEF Abstract!Executed
<1> HIDE DEF gives
<1>3. gives(k) > 0 => A(k) = A(k - 1) \cup {fill(k)}  BY <1>1
<1>4. ~(gives(k) > 0) => A(k) = A(k - 1)  BY <1>1
<1> HIDE DEF A, fill
<1>5. QED  BY <1>2, <1>3, <1>4 DEF fill, gives

\* The set of a sequence with one more element.
LEMMA ToSetAppend ==
  ASSUME NEW S, NEW s \in Seq(S), NEW e \in S
  PROVE  ToSet(Append(s, e)) = ToSet(s) \cup {e}
<1> DEFINE n == Len(s)
           t == Append(s, e)
<1>1. /\ n \in Nat /\ DOMAIN s = 1..n /\ DOMAIN t = 1..(n + 1) /\ t[n + 1] = e
      /\ \A i \in 1..n : t[i] = s[i]
  OBVIOUS
<1> HIDE DEF t, n
<1>2. 1..(n + 1) = (1..n) \cup {n + 1}  BY <1>1
<1>3. ToSet(t) = {t[i] : i \in 1..(n + 1)} /\ ToSet(s) = {s[i] : i \in 1..n}  BY <1>1 DEF ToSet
<1>4. QED  BY <1>1, <1>2, <1>3 DEF t

\* The orders in the nodes of a queue.
OrdersIn(D, queue) == [k \in 1..Len(queue) |-> D[queue[k]]]

\* What a sweep of a level knows of its queue.
LEMMA SweptHas ==
  ASSUME NEW B \in [Side -> Shelves], NEW s \in Side, NEW p \in DOMAIN B[s], NEW m, NEW acc,
         Swept(acc, B, s, p, m)
  PROVE  LET q == acc.level.queue IN
         /\ acc.remaining \in Nat /\ acc.data \in Pools /\ acc.fills \in Seq(Fill)
         /\ acc.level \in Level /\ acc.level.total \in Nat /\ acc.level.price \in Ticks
         /\ q \in Seq(Nodes) /\ Len(q) \in Nat /\ IsInjective(q)
         /\ \A i, j \in 1..Len(q) : q[i] = q[j] => i = j
         /\ \A i \in 1..Len(q) : /\ q[i] \in DOMAIN acc.data /\ acc.data[q[i]] \in Order
                                 /\ acc.data[q[i]].qty \in Nat
                                 /\ acc.data[q[i]].qty <= acc.level.total
         /\ OrdersIn(acc.data, q) \in Seq(Order) /\ Len(OrdersIn(acc.data, q)) = Len(q)
         /\ \A i \in 1..Len(q) : OrdersIn(acc.data, q)[i] = acc.data[q[i]]
<1> DEFINE q == acc.level.queue
           C == Put(B, s, p, acc.level)
           orders == OrdersIn(acc.data, q)
<1>1. acc \in Sweeps /\ Shelved(acc.data, C, acc.locator)  BY DEF Swept
<1>2. /\ acc.remaining \in Nat /\ acc.data \in Pools /\ acc.fills \in Seq(Fill)
      /\ acc.level \in Level
  BY <1>1, SweepHas
<1>3. q \in Seq(Nodes) /\ Len(q) \in Nat /\ acc.level.total \in Nat /\ acc.level.price \in Ticks
  BY <1>2 DEF Level
<1>4. C \in [Side -> Shelves] /\ p \in DOMAIN C[s] /\ C[s][p] = acc.level  BY <1>2, LevelPut
<1> HIDE DEF C
<1>5. ASSUME NEW i \in 1..Len(q)
      PROVE  /\ IsInjective(q) /\ q[i] \in DOMAIN acc.data /\ acc.data[q[i]].qty \in Nat
             /\ acc.data[q[i]].qty <= acc.level.total
  <2>1. i \in 1..Len(C[s][p].queue)  BY <1>4
  <2>2. QED  BY <1>1, <1>4, <2>1, ShelvedHas
<1>6. \A n \in DOMAIN acc.data : acc.data[n] \in Order  BY <1>2, PoolHas
<1> HIDE DEF q
<1>7. DOMAIN q = 1..Len(q)  BY <1>3
<1>8. IsInjective(q)
  <2>1. CASE Len(q) = 0
    <3>1. DOMAIN q = {}  BY <1>7, <2>1
    <3>2. QED  BY <3>1 DEF IsInjective
  <2>2. CASE Len(q) # 0
    <3>1. 1 \in 1..Len(q)  BY <1>3, <2>2
    <3>2. QED  BY <1>5, <3>1
  <2>3. QED  BY <2>1, <2>2
<1>9. \A i, j \in 1..Len(q) : q[i] = q[j] => i = j  BY <1>7, <1>8 DEF IsInjective
<1>10. \A i \in 1..Len(q) : acc.data[q[i]] \in Order  BY <1>5, <1>6
<1>11. orders \in Seq(Order) /\ Len(orders) = Len(q) /\ \A i \in 1..Len(q) : orders[i] = acc.data[q[i]]
  <2>1. orders \in [1..Len(q) -> Order]  BY <1>10 DEF OrdersIn
  <2>2. orders \in Seq(Order) /\ Len(orders) = Len(q)  BY <1>3, <2>1
  <2>3. QED  BY <2>2 DEF OrdersIn
<1> HIDE DEF orders
<1>12. QED  BY <1>2, <1>3, <1>5, <1>8, <1>9, <1>10, <1>11 DEF q, orders

\* FillNode left x and reached y with the l-th node n of the queue, of qty.
NodeDone(x, y, l, n, qty) ==
  /\ x.remaining = 0 \/ qty = 0 => y = x
  /\ x.remaining # 0 /\ qty # 0 /\ qty <= x.remaining =>
       /\ y.remaining = x.remaining - qty
       /\ DOMAIN y.data = DOMAIN x.data \ {n}
       /\ \A o \in DOMAIN x.data : o # n => y.data[o] = x.data[o]
       /\ y.level.price = x.level.price /\ y.level.queue = RemoveAt(x.level.queue, l)
       /\ ToSet(y.fills) = ToSet(x.fills) \cup
            {[id |-> x.data[n].id, tick |-> x.level.price, qty |-> qty]}
  /\ x.remaining # 0 /\ ~(qty <= x.remaining) =>
       /\ y.remaining = 0
       /\ DOMAIN y.data = DOMAIN x.data
       /\ y.data[n] = [x.data[n] EXCEPT !.qty = qty - x.remaining]
       /\ \A o \in DOMAIN x.data : o # n => y.data[o] = x.data[o]
       /\ y.level.price = x.level.price /\ y.level.queue = x.level.queue
       /\ ToSet(y.fills) = ToSet(x.fills) \cup
            {[id |-> x.data[n].id, tick |-> x.level.price, qty |-> x.remaining]}

\* What FillNode does with the l-th node of the queue.
LEMMA FillNodeDoes ==
  ASSUME NEW B \in [Side -> Shelves], NEW s \in Side, NEW p \in DOMAIN B[s], NEW m, NEW x,
         Swept(x, B, s, p, m), NEW l \in 1..Len(x.level.queue), NEW n, n = x.level.queue[l],
         NEW qty, qty = x.data[n].qty, NEW y, y = FillNode(x, n)
  PROVE  NodeDone(x, y, l, n, qty)
<1> DEFINE q == x.level.queue
           r == x.remaining
           id == x.data[n].id
           tick == x.level.price
<1>1. /\ r \in Nat /\ x.data \in Pools /\ x.fills \in Seq(Fill)
      /\ x.level \in Level /\ x.level.total \in Nat /\ tick \in Ticks
      /\ q \in Seq(Nodes) /\ IsInjective(q)
      /\ n \in DOMAIN x.data /\ x.data[n] \in Order /\ qty \in Nat /\ qty <= x.level.total
  BY SweptHas
<1>2. id \in Ids  BY <1>1 DEF Order
<1>3. x.data = [o \in DOMAIN x.data |-> x.data[o]]  BY <1>1, PoolHas
<1>4. \A e \in Nat : [id |-> id, tick |-> tick, qty |-> e] \in Fill  BY <1>1, <1>2 DEF Fill
<1>5. CASE r = 0 \/ qty = 0
  <2>1. y = x  BY <1>1, <1>5, FillNodeIs
  <2>2. QED  BY <1>1, <1>5, <2>1 DEF NodeDone
<1>6. CASE r # 0 /\ qty # 0 /\ qty <= r
  <2> DEFINE light == Lighter(x.level, qty)
             after == LevelRemove(light, n, 0)
             fill == [id |-> id, tick |-> light.price, qty |-> qty]
  <2>1. /\ y.remaining = r - qty /\ y.data = Release(x.data, n)
        /\ y.fills = Append(x.fills, fill) /\ y.level = after
    <3>1. y = [remaining |-> r - qty, data |-> Release(x.data, n), fills |-> Append(x.fills, fill),
               locator |-> Forget(x.locator, id), level |-> after]
      BY <1>1, <1>6, FillNodeIs
    <3> HIDE DEF fill, after, id
    <3>2. QED  BY <3>1
  <2>2. light \in Level /\ light.price = tick /\ light.queue = q
    BY <1>1, LighterIs
  <2> HIDE DEF light
  <2>3. after.price = tick /\ after.queue = RemoveAt(q, l)
    <3>1. light.total \in Nat  BY <2>2 DEF Level
    <3>2. n = light.queue[l] /\ l \in 1..Len(light.queue) /\ IsInjective(light.queue) /\ 0 <= light.total
      BY <1>1, <2>2, <3>1
    <3>3. /\ LevelRemove(light, light.queue[l], 0).price = light.price
          /\ LevelRemove(light, light.queue[l], 0).queue = RemoveAt(light.queue, l)
      BY <2>2, <3>1, <3>2, LevelRemoveIs
    <3> HIDE DEF q, tick
    <3>4. QED  BY <2>2, <3>2, <3>3
  <2> HIDE DEF after
  <2>4. /\ DOMAIN y.data = DOMAIN x.data \ {n}
        /\ \A o \in DOMAIN x.data : o # n => y.data[o] = x.data[o]
    <3> DEFINE D == x.data
    <3>1. D \in Pools  BY <1>1
    <3> HIDE DEF D
    <3>2. /\ DOMAIN Release(D, n) = DOMAIN D \ {n}
          /\ \A o \in DOMAIN D : o # n => Release(D, n)[o] = D[o]
      BY <3>1, ReleaseIs
    <3>3. QED  BY <2>1, <3>2 DEF D
  <2>5. fill = [id |-> id, tick |-> tick, qty |-> qty] /\ fill \in Fill  BY <1>1, <1>4, <2>2
  <2> HIDE DEF fill, q, r, id, tick
  <2>6. ToSet(y.fills) = ToSet(x.fills) \cup {fill}  BY <1>1, <2>1, <2>5, ToSetAppend
  <2>7. /\ y.remaining = r - qty /\ y.level.price = tick /\ y.level.queue = RemoveAt(q, l)
        /\ ToSet(y.fills) = ToSet(x.fills) \cup {[id |-> id, tick |-> tick, qty |-> qty]}
    BY <2>1, <2>3, <2>5, <2>6
  <2>8. QED  BY <1>6, <2>4, <2>7 DEF NodeDone, q, r, id, tick
<1>7. CASE r # 0 /\ ~(qty <= r)
  <2> DEFINE light == Lighter(x.level, r)
             fill == [id |-> id, tick |-> light.price, qty |-> r]
  <2>1. /\ y.remaining = r - r /\ y.data = Give(x.data, n, r)
        /\ y.fills = Append(x.fills, fill) /\ y.level = light
    <3>1. y = [remaining |-> r - r, data |-> Give(x.data, n, r), fills |-> Append(x.fills, fill),
               locator |-> x.locator, level |-> light]
      BY <1>1, <1>7, FillNodeIs
    <3> HIDE DEF fill, light, id
    <3>2. QED  BY <3>1
  <2>2. light.price = tick /\ light.queue = q
    <3>1. r <= x.level.total  BY <1>1, <1>7
    <3>2. QED  BY <1>1, <3>1, LighterIs
  <2> HIDE DEF light
  <2>3. /\ DOMAIN y.data = DOMAIN x.data
        /\ y.data[n] = [x.data[n] EXCEPT !.qty = qty - r]
        /\ \A o \in DOMAIN x.data : o # n => y.data[o] = x.data[o]
    <3> DEFINE D == x.data
    <3>1. n \in DOMAIN D /\ D = [o \in DOMAIN D |-> D[o]] /\ qty = D[n].qty  BY <1>1, <1>3
    <3>2. Give(D, n, r) = [D EXCEPT ![n].qty = @ - r]  BY DEF Give
    <3> HIDE DEF D, r
    <3>3. /\ DOMAIN Give(D, n, r) = DOMAIN D
          /\ Give(D, n, r)[n] = [D[n] EXCEPT !.qty = qty - r]
          /\ \A o \in DOMAIN D : o # n => Give(D, n, r)[o] = D[o]
      BY <3>1, <3>2
    <3>4. QED  BY <2>1, <3>3 DEF D, r
  <2>4. fill = [id |-> id, tick |-> tick, qty |-> r] /\ fill \in Fill  BY <1>1, <1>4, <2>2
  <2>5. r - r = 0  BY <1>1
  <2> HIDE DEF fill, q, r, id, tick
  <2>6. ToSet(y.fills) = ToSet(x.fills) \cup {fill}  BY <1>1, <2>1, <2>4, ToSetAppend
  <2>7. /\ y.remaining = 0 /\ y.level.price = tick /\ y.level.queue = q
        /\ ToSet(y.fills) = ToSet(x.fills) \cup {[id |-> id, tick |-> tick, qty |-> r]}
    BY <2>1, <2>2, <2>4, <2>5, <2>6
  <2>8. ~(r = 0 \/ qty = 0) /\ ~(qty <= r) /\ r # 0  BY <1>1, <1>7
  <2>9. QED  BY <2>3, <2>7, <2>8 DEF NodeDone, q, r, id, tick
<1>8. QED  BY <1>1, <1>5, <1>6, <1>7 DEF NodeDone

\* Of a queue q of nodes of pool D, `rest` are what the first k orders leave
\* behind, and the others are as they were: so they stand in queue and pool E.
Lined(queue, E, rest, D, q, k) ==
  /\ Len(queue) = Len(rest) + (Len(q) - k)
  /\ \A j \in 1..Len(rest) : /\ \E i \in 1..k : queue[j] = q[i]
                             /\ queue[j] \in DOMAIN E /\ E[queue[j]] = rest[j]
  /\ \A i \in (k + 1)..Len(q) : queue[Len(rest) + i - k] = q[i]
  /\ \A n \in DOMAIN D : (\A i \in 1..k : n # q[i]) => n \in DOMAIN E /\ E[n] = D[n]

\* So it stands before the k-th order's turn.
Turn(queue, E, rest, D, q, k, h) ==
  /\ q \in Seq(Nodes) /\ IsInjective(q) /\ k \in 1..Len(q) /\ h = k - 1
  /\ rest \in Seq(Order) /\ Lined(queue, E, rest, D, q, h) /\ q[k] \in DOMAIN D

\* The k-th order is next.
LEMMA LinedNext ==
  ASSUME NEW q, NEW k, NEW h, NEW rest, NEW queue, NEW D, NEW E,
         Turn(queue, E, rest, D, q, k, h)
  PROVE  /\ Len(rest) + 1 \in 1..Len(queue) /\ queue[Len(rest) + 1] = q[k]
         /\ q[k] \in DOMAIN E /\ E[q[k]] = D[q[k]]
         /\ \A j \in 1..Len(rest) : queue[j] # q[k]
<1> DEFINE c == Len(rest)
           n == Len(q)
<1>t. /\ q \in Seq(Nodes) /\ IsInjective(q) /\ k \in 1..Len(q) /\ h = k - 1
      /\ rest \in Seq(Order) /\ Lined(queue, E, rest, D, q, h) /\ q[k] \in DOMAIN D
  BY DEF Turn
<1>1. c \in Nat /\ n \in Nat /\ k \in 1..n  BY <1>t
<1>0. \A i, j \in 1..n : q[i] = q[j] => i = j
  <2>1. DOMAIN q = 1..n  BY <1>t
  <2>2. QED  BY <1>t, <2>1 DEF IsInjective
<1>2. /\ Len(queue) = c + (n - (k - 1))
      /\ \A j \in 1..c : \E i \in 1..(k - 1) : queue[j] = q[i]
      /\ \A i \in (k - 1 + 1)..n : queue[c + i - (k - 1)] = q[i]
      /\ \A o \in DOMAIN D : (\A i \in 1..(k - 1) : o # q[i]) => o \in DOMAIN E /\ E[o] = D[o]
  BY <1>t DEF Lined
<1> HIDE DEF c, n
<1>3. c + 1 \in 1..Len(queue)  BY <1>1, <1>2
<1>4. queue[c + 1] = q[k]
  <2>1. k \in (k - 1 + 1)..n /\ c + k - (k - 1) = c + 1  BY <1>1
  <2>2. QED  BY <1>2, <2>1
<1>5. \A i \in 1..(k - 1) : q[k] # q[i]
  <2>1. \A i \in 1..(k - 1) : i \in 1..n /\ i # k  BY <1>1
  <2>2. QED  BY <1>0, <1>1, <2>1
<1>6. q[k] \in DOMAIN E /\ E[q[k]] = D[q[k]]  BY <1>t, <1>2, <1>5
<1>7. \A j \in 1..c : queue[j] # q[k]  BY <1>2, <1>5
<1>8. QED  BY <1>3, <1>4, <1>6, <1>7 DEF c

\* The k-th order stays, as the order o.
LEMMA LinedStays ==
  ASSUME NEW q, NEW k, NEW h, NEW rest, NEW queue, NEW D, NEW E,
         Turn(queue, E, rest, D, q, k, h),
         NEW F, NEW o \in Order, DOMAIN F = DOMAIN E, F[q[k]] = o,
         \A n \in DOMAIN E : n # q[k] => F[n] = E[n]
  PROVE  Lined(queue, F, Append(rest, o), D, q, k)
<1> DEFINE c == Len(rest)
           n == Len(q)
           more == Append(rest, o)
<1>t. /\ q \in Seq(Nodes) /\ IsInjective(q) /\ k \in 1..Len(q) /\ h = k - 1
      /\ rest \in Seq(Order) /\ Lined(queue, E, rest, D, q, h) /\ q[k] \in DOMAIN D
  BY DEF Turn
<1>1. /\ c \in Nat /\ n \in Nat /\ k \in 1..n /\ Len(more) = c + 1 /\ more[c + 1] = o
      /\ \A j \in 1..c : more[j] = rest[j]
  BY <1>t
<1>2. /\ Len(queue) = c + (n - (k - 1))
      /\ \A j \in 1..c : /\ \E i \in 1..(k - 1) : queue[j] = q[i]
                         /\ queue[j] \in DOMAIN E /\ E[queue[j]] = rest[j]
      /\ \A i \in (k - 1 + 1)..n : queue[c + i - (k - 1)] = q[i]
      /\ \A m \in DOMAIN D : (\A i \in 1..(k - 1) : m # q[i]) => m \in DOMAIN E /\ E[m] = D[m]
  BY <1>t DEF Lined
<1>3. /\ c + 1 \in 1..Len(queue) /\ queue[c + 1] = q[k] /\ q[k] \in DOMAIN E
      /\ \A j \in 1..c : queue[j] # q[k]
  BY LinedNext
<1> HIDE DEF c, n, more
<1>4. Len(queue) = Len(more) + (n - k)  BY <1>1, <1>2
<1>5. ASSUME NEW j \in 1..Len(more)
      PROVE  /\ \E i \in 1..k : queue[j] = q[i]
             /\ queue[j] \in DOMAIN F /\ F[queue[j]] = more[j]
  <2>1. CASE j = c + 1
    <3>1. k \in 1..k  BY <1>1
    <3>2. QED  BY <1>1, <1>3, <2>1, <3>1
  <2>2. CASE j # c + 1
    <3>1. j \in 1..c  BY <1>1, <2>2
    <3>2. PICK i \in 1..(k - 1) : queue[j] = q[i]  BY <1>2, <3>1
    <3>3. i \in 1..k  BY <1>1
    <3>4. QED  BY <1>1, <1>2, <1>3, <3>1, <3>2, <3>3
  <2>3. QED  BY <2>1, <2>2
<1>6. ASSUME NEW i \in (k + 1)..n PROVE queue[Len(more) + i - k] = q[i]
  <2>1. i \in (k - 1 + 1)..n /\ c + i - (k - 1) = Len(more) + i - k  BY <1>1
  <2>2. QED  BY <1>2, <2>1
<1>7. ASSUME NEW m \in DOMAIN D, \A i \in 1..k : m # q[i] PROVE m \in DOMAIN F /\ F[m] = D[m]
  <2>1. k \in 1..k /\ \A i \in 1..(k - 1) : i \in 1..k  BY <1>1
  <2>2. m # q[k] /\ \A i \in 1..(k - 1) : m # q[i]  BY <1>7, <2>1
  <2>3. m \in DOMAIN E /\ E[m] = D[m]  BY <1>2, <2>2
  <2>4. QED  BY <2>2, <2>3
<1>8. QED  BY <1>4, <1>5, <1>6, <1>7 DEF Lined, more, n

\* The k-th order leaves.
LEMMA LinedLeaves ==
  ASSUME NEW q, NEW k, NEW h, NEW rest, NEW queue \in Seq(Nodes), NEW D, NEW E,
         Turn(queue, E, rest, D, q, k, h),
         NEW F, DOMAIN F = DOMAIN E \ {q[k]}, \A n \in DOMAIN E : n # q[k] => F[n] = E[n]
  PROVE  Lined(RemoveAt(queue, Len(rest) + 1), F, rest, D, q, k)
<1> DEFINE c == Len(rest)
           n == Len(q)
           short == RemoveAt(queue, c + 1)
<1>t. /\ q \in Seq(Nodes) /\ IsInjective(q) /\ k \in 1..Len(q) /\ h = k - 1
      /\ rest \in Seq(Order) /\ Lined(queue, E, rest, D, q, h) /\ q[k] \in DOMAIN D
  BY DEF Turn
<1>1. c \in Nat /\ n \in Nat /\ k \in 1..n  BY <1>t
<1>2. /\ Len(queue) = c + (n - (k - 1))
      /\ \A j \in 1..c : /\ \E i \in 1..(k - 1) : queue[j] = q[i]
                         /\ queue[j] \in DOMAIN E /\ E[queue[j]] = rest[j]
      /\ \A i \in (k - 1 + 1)..n : queue[c + i - (k - 1)] = q[i]
      /\ \A m \in DOMAIN D : (\A i \in 1..(k - 1) : m # q[i]) => m \in DOMAIN E /\ E[m] = D[m]
  BY <1>t DEF Lined
<1>3. /\ c + 1 \in 1..Len(queue) /\ queue[c + 1] = q[k] /\ q[k] \in DOMAIN E
      /\ \A j \in 1..c : queue[j] # q[k]
  BY LinedNext
<1>4. /\ Len(short) = Len(queue) - 1
      /\ \A j \in 1..(Len(queue) - 1) : short[j] = IF j < c + 1 THEN queue[j] ELSE queue[j + 1]
  BY <1>3, RemoveAtIs
<1> HIDE DEF c, n, short
<1>5. Len(short) = c + (n - k)  BY <1>1, <1>2, <1>4
<1>6. ASSUME NEW j \in 1..c
      PROVE  /\ \E i \in 1..k : short[j] = q[i]
             /\ short[j] \in DOMAIN F /\ F[short[j]] = rest[j]
  <2>1. j \in 1..(Len(queue) - 1) /\ j < c + 1  BY <1>1, <1>2
  <2>2. short[j] = queue[j]  BY <1>4, <2>1
  <2>3. PICK i \in 1..(k - 1) : queue[j] = q[i]  BY <1>2
  <2>4. i \in 1..k  BY <1>1
  <2>5. QED  BY <1>2, <1>3, <2>2, <2>3, <2>4
<1>7. ASSUME NEW i \in (k + 1)..n PROVE short[c + i - k] = q[i]
  <2> DEFINE j == c + i - k
  <2>1. j \in 1..(Len(queue) - 1) /\ ~(j < c + 1) /\ j + 1 = c + i - (k - 1) /\ i \in (k - 1 + 1)..n
    <3>1. Len(queue) = c + (n - (k - 1)) /\ i \in Int /\ k + 1 <= i /\ i <= n  BY <1>1, <1>2
    <3>2. c \in Nat /\ n \in Nat /\ k \in Int /\ 1 <= k  BY <1>1
    <3>3. Len(queue) - 1 = c + (n - k) /\ j \in Int /\ c + 1 <= j /\ j <= c + (n - k)  BY <3>1, <3>2
    <3>4. j + 1 = c + i - (k - 1) /\ k - 1 + 1 = k  BY <3>1, <3>2
    <3> HIDE DEF j
    <3>5. j \in 1..(Len(queue) - 1) /\ ~(j < c + 1)  BY <3>2, <3>3
    <3>6. i \in (k - 1 + 1)..n  BY <3>1, <3>2, <3>4
    <3>7. QED  BY <3>4, <3>5, <3>6
  <2>2. short[j] = queue[j + 1]  BY <1>4, <2>1
  <2>3. QED  BY <1>2, <2>1, <2>2
<1>8. ASSUME NEW m \in DOMAIN D, \A i \in 1..k : m # q[i] PROVE m \in DOMAIN F /\ F[m] = D[m]
  <2>1. k \in 1..k /\ \A i \in 1..(k - 1) : i \in 1..k  BY <1>1
  <2>2. m # q[k] /\ \A i \in 1..(k - 1) : m # q[i]  BY <1>8, <2>1
  <2>3. m \in DOMAIN E /\ E[m] = D[m]  BY <1>2, <2>2
  <2>4. QED  BY <2>2, <2>3
<1>9. QED  BY <1>5, <1>6, <1>7, <1>8 DEF Lined, c, n, short

\* After k nodes of the level the sweep acc began with, and with `left` to
\* execute there, the sweep has reached x: it has executed what the limit book
\* executes against the first k orders, and they hold what the limit book leaves.
Walked(x, acc, left, k) ==
  LET orders == OrdersIn(acc.data, acc.level.queue)
  IN /\ x.remaining = Positive(left - Prefix(orders)[k])
     /\ x.level.price = acc.level.price
     /\ Lined(x.level.queue, x.data, Abstract!Remainder(orders, left)[k],
              acc.data, acc.level.queue, k)
     /\ ToSet(x.fills) = ToSet(acc.fills) \cup
          Abstract!Executed(orders, left, acc.level.price, k)

\* Before its first node a sweep has walked none.
LEMMA WalkedNone ==
  ASSUME NEW B \in [Side -> Shelves], NEW s \in Side, NEW p \in DOMAIN B[s], NEW m, NEW acc,
         Swept(acc, B, s, p, m), NEW left \in Int, acc.remaining = Positive(left)
  PROVE  Walked(acc, acc, left, 0)
<1> DEFINE q == acc.level.queue
           orders == OrdersIn(acc.data, q)
           rest == Abstract!Remainder(orders, left)[0]
<1>1. /\ q \in Seq(Nodes) /\ Len(q) \in Nat /\ orders \in Seq(Order)
  BY SweptHas
<1> HIDE DEF q, orders
<1>2. rest = <<>>  BY <1>1, RemainderIs
<1>3. Prefix(orders)[0] = 0  BY <1>1, PrefixIs
<1>4. Abstract!Executed(orders, left, acc.level.price, 0) = {}
  <2>1. 1..0 = {}  OBVIOUS
  <2>2. QED  BY <2>1 DEF Abstract!Executed
<1>5. Lined(q, acc.data, rest, acc.data, q, 0)
  <2>1. Len(rest) = 0 /\ 1..0 = {}  BY <1>2
  <2> HIDE DEF rest
  <2>2. Len(q) = Len(rest) + (Len(q) - 0)  BY <1>1, <2>1
  <2>3. \A i \in (0 + 1)..Len(q) : Len(rest) + i - 0 = i  BY <1>1, <2>1
  <2>4. QED  BY <2>1, <2>2, <2>3 DEF Lined
<1>6. left - 0 = left  OBVIOUS
<1>7. QED  BY <1>3, <1>4, <1>5, <1>6 DEF Walked, q, orders

\* The next node gives what the limit book has its order give.
LEMMA WalkedOn ==
  ASSUME NEW B \in [Side -> Shelves], NEW s \in Side, NEW p \in DOMAIN B[s], NEW m, NEW acc,
         Swept(acc, B, s, p, m), NEW left \in Int, NEW k \in 1..Len(acc.level.queue),
         NEW x, Swept(x, B, s, p, m), Walked(x, acc, left, k - 1),
         NEW y, y = FillNode(x, acc.level.queue[k])
  PROVE  Walked(y, acc, left, k)
<1> DEFINE D == acc.data
           q == acc.level.queue
           n == q[k]
           h == k - 1
           orders == OrdersIn(D, q)
           P == Prefix(orders)
           rest == Abstract!Remainder(orders, left)
           given == Abstract!Given(orders, left, k)
           tick == acc.level.price
           before == rest[h]
           c == Len(before)
           r == x.remaining
           o == D[n]
           done(i) == Abstract!Executed(orders, left, tick, i)
           fill(e) == [id |-> o.id, tick |-> tick, qty |-> e]
<1>1. /\ q \in Seq(Nodes) /\ Len(q) \in Nat /\ IsInjective(q)
      /\ n \in DOMAIN D /\ o \in Order /\ o.qty \in Nat
      /\ orders \in Seq(Order) /\ Len(orders) = Len(q) /\ orders[k] = o
  BY SweptHas
<1>2. x.level.queue \in Seq(Nodes) /\ r \in Nat /\ tick \in Ticks  BY SweptHas
<1>3. /\ r = Positive(left - P[h]) /\ x.level.price = tick
      /\ Lined(x.level.queue, x.data, before, D, q, h)
      /\ ToSet(x.fills) = ToSet(acc.fills) \cup done(h)
  BY DEF Walked
<1>4. k \in 1..Len(q) /\ k \in 1..Len(orders) /\ h \in 0..Len(orders) /\ k \in Nat \ {0}
  BY <1>1
<1> HIDE DEF D, q, orders
<1>0. h = k - 1  OBVIOUS
<1> HIDE DEF h
<1>5. P[h] \in Int /\ P[k] = P[h] + o.qty  BY <1>0, <1>1, <1>4, PrefixIs
<1>6. given = IF o.qty <= r THEN o.qty ELSE r
  BY <1>0, <1>1, <1>3, <1>4, GivenIs
<1>7. /\ before \in Seq(Order)
      /\ rest[k] = IF given > 0 /\ given = o.qty THEN before
                   ELSE Append(before, [o EXCEPT !.qty = o.qty - given])
  <2> DEFINE gives(i) == Abstract!Given(orders, left, i)
  <2>1. /\ rest \in [0..Len(orders) -> Seq(Order)]
        /\ \A i \in 1..Len(orders) :
             rest[i] = IF gives(i) > 0 /\ gives(i) = orders[i].qty THEN rest[i - 1]
                       ELSE Append(rest[i - 1], [orders[i] EXCEPT !.qty = orders[i].qty - gives(i)])
    BY <1>1, RemainderIs
  <2> HIDE DEF rest
  <2>2. given = gives(k)  OBVIOUS
  <2> HIDE DEF given, gives
  <2>3. QED  BY <1>0, <1>1, <1>4, <2>1, <2>2
<1>8. /\ given > 0 => done(k) = done(h) \cup {fill(given)}
      /\ ~(given > 0) => done(k) = done(h)
  BY <1>0, <1>1, <1>4, ExecutedIs
<1> HIDE DEF n, P, rest, given, tick, o, done, before
<1>9. /\ c + 1 \in 1..Len(x.level.queue) /\ x.level.queue[c + 1] = n
      /\ n \in DOMAIN x.data /\ x.data[n] = o
  <2>1. Lined(x.level.queue, x.data, before, D, q, h)  BY <1>3
  <2>5. q[k] \in DOMAIN D /\ k \in 1..Len(q) /\ q \in Seq(Nodes) /\ IsInjective(q)
    BY <1>1, <1>4 DEF n
  <2> DEFINE queue == x.level.queue
             E == x.data
  <2> HIDE DEF queue, E
  <2>2. Lined(queue, E, before, D, q, h)  BY <2>1 DEF queue, E
  <2>0. before \in Seq(Order)  BY <1>7
  <2> HIDE DEF before, n, o, c, r, fill
  <2>6. Turn(queue, E, before, D, q, k, h)  BY <1>0, <2>0, <2>2, <2>5 DEF Turn
  <2>3. /\ Len(before) + 1 \in 1..Len(queue) /\ queue[Len(before) + 1] = q[k]
        /\ q[k] \in DOMAIN E /\ E[q[k]] = D[q[k]]
    BY <2>6, LinedNext
  <2>4. QED  BY <2>3 DEF queue, E, n, o, c
<1> HIDE DEF r, fill, c
<1>10. y = FillNode(x, n)  BY DEF n, q
<1>11. /\ r = 0 \/ o.qty = 0 => y = x
       /\ r # 0 /\ o.qty # 0 /\ o.qty <= r =>
            /\ y.remaining = r - o.qty
            /\ DOMAIN y.data = DOMAIN x.data \ {n}
            /\ \A z \in DOMAIN x.data : z # n => y.data[z] = x.data[z]
            /\ y.level.price = tick /\ y.level.queue = RemoveAt(x.level.queue, c + 1)
            /\ ToSet(y.fills) = ToSet(x.fills) \cup {fill(o.qty)}
       /\ r # 0 /\ ~(o.qty <= r) =>
            /\ y.remaining = 0
            /\ DOMAIN y.data = DOMAIN x.data
            /\ y.data[n] = [o EXCEPT !.qty = o.qty - r]
            /\ \A z \in DOMAIN x.data : z # n => y.data[z] = x.data[z]
            /\ y.level.price = tick /\ y.level.queue = x.level.queue
            /\ ToSet(y.fills) = ToSet(x.fills) \cup {fill(r)}
  <2> DEFINE l == c + 1
             qty == o.qty
  <2>1. l \in 1..Len(x.level.queue) /\ n = x.level.queue[l] /\ qty = x.data[n].qty  BY <1>9
  <2> HIDE DEF l, qty
  <2>2. NodeDone(x, y, l, n, qty)
    BY <1>10, <2>1, FillNodeDoes
  <2>3. x.level.price = tick /\ x.data[n] = o /\ x.remaining = r  BY <1>3, <1>9 DEF r
  <2>4. fill(qty) = [id |-> o.id, tick |-> tick, qty |-> qty]
        /\ fill(r) = [id |-> o.id, tick |-> tick, qty |-> r]
    BY DEF fill
  <2>5. QED  BY <2>2, <2>3, <2>4 DEF NodeDone, l, qty
<1>12. n = q[k] /\ q[k] \in DOMAIN D  BY <1>1 DEF n
<1>13. /\ y.remaining = Positive(left - P[k]) /\ y.level.price = tick
       /\ Lined(y.level.queue, y.data, rest[k], D, q, k)
       /\ ToSet(y.fills) = ToSet(acc.fills) \cup done(k)
  <2>1. CASE r = 0 \/ o.qty = 0
    <3>1. y = x  BY <1>11, <2>1
    <3>2. given = 0 /\ ~(given > 0)  BY <1>1, <1>2, <1>6, <2>1 DEF r
    <3>3. Positive(left - P[k]) = Positive(left - P[h])
      BY <1>1, <1>3, <1>5, <2>1 DEF Positive
    <3>4. rest[k] = Append(before, o)
      <4>1. [o EXCEPT !.qty = o.qty - 0] = o  BY <1>1 DEF Order
      <4>2. QED  BY <1>7, <3>2, <4>1
    <3>5. Lined(x.level.queue, x.data, Append(before, o), D, q, k)
      <4>1. Turn(x.level.queue, x.data, before, D, q, k, h)
        BY <1>0, <1>1, <1>3, <1>4, <1>7, <1>12 DEF Turn
      <4>2. x.data[q[k]] = o  BY <1>9, <1>12
      <4>3. QED  BY <1>1, <4>1, <4>2, LinedStays
    <3>6. done(k) = done(h)  BY <1>8, <3>2
    <3>7. y.remaining = Positive(left - P[k]) /\ y.level.price = tick  BY <1>3, <3>1, <3>3 DEF r
    <3>8. Lined(y.level.queue, y.data, rest[k], D, q, k)  BY <3>1, <3>4, <3>5
    <3>9. ToSet(y.fills) = ToSet(acc.fills) \cup done(k)  BY <1>3, <3>1, <3>6
    <3>10. QED  BY <3>7, <3>8, <3>9
  <2>2. CASE r # 0 /\ o.qty # 0 /\ o.qty <= r
    <3>1. given = o.qty /\ given > 0  BY <1>1, <1>6, <2>2
    <3>2. y.remaining = Positive(left - P[k])
      BY <1>1, <1>2, <1>3, <1>5, <1>11, <2>2 DEF Positive
    <3>3. rest[k] = before  BY <1>7, <3>1
    <3>4. Lined(RemoveAt(x.level.queue, c + 1), y.data, before, D, q, k)
      <4> DEFINE queue == x.level.queue
                 E == x.data
                 F == y.data
      <4>1. /\ queue \in Seq(Nodes) /\ Lined(queue, E, before, D, q, h)
            /\ DOMAIN F = DOMAIN E \ {q[k]} /\ \A z \in DOMAIN E : z # q[k] => F[z] = E[z]
        BY <1>2, <1>3, <1>11, <1>12, <2>2
      <4> HIDE DEF queue, E, F
      <4>2. Turn(queue, E, before, D, q, k, h)
        BY <1>0, <1>1, <1>4, <1>7, <1>12, <4>1 DEF Turn
      <4>4. Lined(RemoveAt(queue, Len(before) + 1), F, before, D, q, k)
        BY <4>1, <4>2, LinedLeaves
      <4>5. QED  BY <4>4 DEF queue, F, c
    <3>5. done(k) = done(h) \cup {fill(o.qty)}  BY <1>8, <3>1
    <3>6. QED  BY <1>3, <1>11, <2>2, <3>2, <3>3, <3>4, <3>5
  <2>3. CASE r # 0 /\ ~(o.qty <= r)
    <3>1. given = r /\ given > 0 /\ given # o.qty  BY <1>1, <1>2, <1>6, <2>3 DEF r
    <3>2. y.remaining = Positive(left - P[k])
      BY <1>1, <1>2, <1>3, <1>5, <1>11, <2>3 DEF Positive
    <3> DEFINE part == [o EXCEPT !.qty = o.qty - r]
    <3>3. rest[k] = Append(before, part)  BY <1>7, <3>1
    <3>4. part \in Order
      <4>1. o.qty - r \in Nat  BY <1>1, <1>2, <2>3 DEF r
      <4>2. QED  BY <1>1, <4>1 DEF Order
    <3>5. y.data[n] = part  BY <1>11, <2>3
    <3> HIDE DEF part
    <3>6. Lined(x.level.queue, y.data, Append(before, part), D, q, k)
      <4> DEFINE queue == x.level.queue
                 E == x.data
                 F == y.data
      <4>1. /\ Lined(queue, E, before, D, q, h) /\ DOMAIN F = DOMAIN E /\ F[q[k]] = part
            /\ \A z \in DOMAIN E : z # q[k] => F[z] = E[z]
        BY <1>3, <1>11, <1>12, <2>3, <3>5
      <4> HIDE DEF queue, E, F
      <4>2. Turn(queue, E, before, D, q, k, h)
        BY <1>0, <1>1, <1>4, <1>7, <1>12, <4>1 DEF Turn
      <4>3. Lined(queue, F, Append(before, part), D, q, k)
        BY <3>4, <4>1, <4>2, LinedStays
      <4>4. QED  BY <4>3 DEF queue, F
    <3>7. done(k) = done(h) \cup {fill(r)}  BY <1>8, <3>1
    <3>8. QED  BY <1>3, <1>11, <2>3, <3>2, <3>3, <3>6, <3>7
  <2>4. QED  BY <2>1, <2>2, <2>3
<1>14. QED  BY <1>13 DEF Walked, D, q, orders, P, rest, tick, done

\* The sweep acc of a level, with `left` to execute there, ended in y: it has
\* executed what the limit book executes against the queue, and leaves what the
\* limit book leaves of it.
QueueDone(y, acc, left) ==
  LET orders == OrdersIn(acc.data, acc.level.queue)
  IN /\ y.remaining = Positive(left - Abstract!Depth(orders))
     /\ OrdersIn(y.data, y.level.queue) = Abstract!Remainder(orders, left)[Len(orders)]
     /\ \A n \in DOMAIN acc.data : (\A i \in 1..Len(acc.level.queue) : n # acc.level.queue[i]) =>
          n \in DOMAIN y.data /\ y.data[n] = acc.data[n]
     /\ ToSet(y.fills) = ToSet(acc.fills) \cup
          Abstract!Executed(orders, left, acc.level.price, Len(orders))

\* The sweep of a whole queue.
LEMMA QueueSwept ==
  ASSUME NEW B \in [Side -> Shelves], NEW s \in Side, NEW p \in DOMAIN B[s],
         NEW m \in Remainders, NEW acc, Swept(acc, B, s, p, m),
         NEW left \in Int, acc.remaining = Positive(left)
  PROVE  QueueDone(FillNodes(acc, acc.level.queue)[Len(acc.level.queue)], acc, left)
<1> DEFINE q == acc.level.queue
           n == Len(q)
           v == FillNodes(acc, q)
           orders == OrdersIn(acc.data, q)
           T == {k \in 0..n : Walked(v[k], acc, left, k)}
           rest == Abstract!Remainder(orders, left)[n]
           y == v[n]
<1>1. q \in Seq(Nodes) /\ n \in Nat /\ orders \in Seq(Order) /\ Len(orders) = n
  BY SweptHas
<1>2. /\ v[0] = acc /\ \A i \in 1..n : v[i] = FillNode(v[i - 1], q[i])
      /\ \A i \in 0..n : Swept(v[i], B, s, p, m)
  BY FillNodesRun
<1> HIDE DEF v
<1>3. 0 \in T
  <2>1. Walked(acc, acc, left, 0)  BY WalkedNone
  <2>2. QED  BY <1>1, <1>2, <2>1
<1>4. ASSUME NEW i \in 0..n, i < n, i \in T PROVE i + 1 \in T
  <2> DEFINE k == i + 1
             x == v[i]
             z == v[k]
  <2>1. k \in 1..Len(acc.level.queue) /\ k \in 0..n /\ k - 1 = i  BY <1>1, <1>4
  <2>2. Swept(x, B, s, p, m) /\ z = FillNode(x, acc.level.queue[k])  BY <1>2, <2>1
  <2>3. Walked(x, acc, left, k - 1)  BY <1>4, <2>1
  <2> HIDE DEF k, x, z, T
  <2>4. Walked(z, acc, left, k)  BY <2>1, <2>2, <2>3, WalkedOn
  <2>5. QED  BY <2>1, <2>4 DEF T, k, z
<1>5. n \in T
  <2> HIDE DEF T, n
  <2>1. \A i \in 0..n : i \in T  BY <1>1, <1>3, <1>4, UpTo
  <2>2. QED  BY <1>1, <2>1
<1>6. Walked(y, acc, left, n)  BY <1>5
<1>7. /\ y.remaining = Positive(left - Prefix(orders)[n])
      /\ Lined(y.level.queue, y.data, rest, acc.data, q, n)
      /\ ToSet(y.fills) = ToSet(acc.fills) \cup
           Abstract!Executed(orders, left, acc.level.price, n)
  BY <1>6 DEF Walked
<1>8. Abstract!Depth(orders) = Prefix(orders)[n]  BY <1>1, PrefixIs
<1>9. rest \in Seq(Order)
  <2> HIDE DEF orders, rest
  <2>1. Abstract!Remainder(orders, left) \in [0..Len(orders) -> Seq(Order)]  BY <1>1, RemainderIs
  <2>2. n \in 0..Len(orders)  BY <1>1
  <2>3. QED  BY <2>1, <2>2 DEF rest
<1> HIDE DEF y, rest, orders
<1>10. /\ Len(y.level.queue) = Len(rest)
       /\ \A j \in 1..Len(rest) : y.data[y.level.queue[j]] = rest[j]
       /\ \A o \in DOMAIN acc.data : (\A i \in 1..n : o # q[i]) =>
            o \in DOMAIN y.data /\ y.data[o] = acc.data[o]
  <2>1. Len(y.level.queue) = Len(rest) + (n - n)  BY <1>7 DEF Lined
  <2>2. Len(y.level.queue) = Len(rest)  BY <1>1, <1>9, <2>1
  <2>3. \A j \in 1..Len(rest) : y.data[y.level.queue[j]] = rest[j]  BY <1>7 DEF Lined
  <2>4. \A o \in DOMAIN acc.data : (\A i \in 1..n : o # q[i]) =>
            o \in DOMAIN y.data /\ y.data[o] = acc.data[o]
    BY <1>7 DEF Lined
  <2>5. QED  BY <2>2, <2>3, <2>4
<1>11. OrdersIn(y.data, y.level.queue) = rest
  <2> DEFINE r == OrdersIn(y.data, y.level.queue)
  <2>1. r = [j \in 1..Len(rest) |-> rest[j]]  BY <1>10 DEF OrdersIn
  <2>2. rest = [j \in 1..Len(rest) |-> rest[j]]  BY <1>9
  <2>3. QED  BY <2>1, <2>2
<1>12. QED  BY <1>1, <1>7, <1>8, <1>10, <1>11 DEF QueueDone, y, rest, orders, v

\* Pool E differs from D in nodes of the queue q alone.
OnlyIn(q, E, D) == \A n \in DOMAIN D : (\A i \in 1..Len(q) : n # q[i]) => E[n] = D[n]

\* Pools D and E hold the same orders in every queue but that of p on side s.
OthersSame(E, D, C, s, p) ==
  \A t \in Side : \A r : t # s \/ r # p =>
    OrdersIn(E, Standing(C[t], r)) = OrdersIn(D, Standing(C[t], r))

\* The sweep of one queue leaves the orders of every other.
LEMMA OthersStay ==
  ASSUME NEW D, NEW C, NEW L, Shelved(D, C, L), NEW s \in Side, NEW p \in DOMAIN C[s],
         NEW E, OnlyIn(C[s][p].queue, E, D)
  PROVE  OthersSame(E, D, C, s, p)
<1> SUFFICES ASSUME NEW t \in Side, NEW r, t # s \/ r # p
             PROVE  OrdersIn(E, Standing(C[t], r)) = OrdersIn(D, Standing(C[t], r))
  BY DEF OthersSame
<1>1. QueuesApart(C) /\ PoolRests(D, C)  BY DEF Shelved
<1> DEFINE q == Standing(C[t], r)
<1>2. ASSUME NEW k \in 1..Len(q) PROVE E[q[k]] = D[q[k]]
  <2>1. CASE r \in DOMAIN C[t]
    <3>1. q = C[t][r].queue  BY <2>1 DEF Standing
    <3>2. k \in 1..Len(C[t][r].queue)  BY <3>1
    <3> HIDE DEF q
    <3>3. q[k] \in DOMAIN D  BY <1>1, <2>1, <3>1, <3>2 DEF PoolRests
    <3>4. \A i \in 1..Len(C[s][p].queue) : C[t][r].queue[k] # C[s][p].queue[i]
      BY <1>1, <2>1, <3>2 DEF QueuesApart
    <3>5. QED  BY <3>1, <3>3, <3>4 DEF OnlyIn
  <2>2. CASE r \notin DOMAIN C[t]
    <3>1. q = <<>>  BY <2>2 DEF Standing
    <3>2. Len(q) = 0  BY <3>1
    <3>3. QED  BY <3>2
  <2>3. QED  BY <2>1, <2>2
<1> HIDE DEF q
<1>3. QED  BY <1>2 DEF OrdersIn, q

\* The sweep of a level begins in order.
LEMMA BegunIs ==
  ASSUME NEW B \in [Side -> Shelves], NEW s \in Side, NEW m, NEW acc, RoundRight(acc, B, s, m),
         NEW p \in DOMAIN acc.fb.index, NEW f, f = Shelf(acc.fb.entries, acc.fb.index),
         NEW C, C = WithSide(B, s, f)
  PROVE  /\ C \in [Side -> Shelves] /\ C[s] = f /\ (\A t \in Side : t # s => C[t] = B[t])
         /\ Shelved(acc.data, C, acc.locator)
         /\ p \in DOMAIN f /\ f[p] = LevelOf(acc, p) /\ LevelOf(acc, p).price = p
         /\ Swept(Begun(acc, p), C, s, p, m)
<1> DEFINE es == acc.fb.entries
           idx == acc.fb.index
           level == LevelOf(acc, p)
           start == Begun(acc, p)
<1>1. /\ acc \in Rounds /\ Flat(s, es, idx)
      /\ Shelved(acc.data, C, acc.locator) /\ Tracks(acc.data, After(m, acc.fills))
  BY DEF RoundRight
<1>2. /\ acc.remaining \in Nat /\ acc.data \in Pools /\ acc.locator \in Tables
      /\ acc.fills \in Seq(Fill)
  BY <1>1, RoundHas
<1>3. level \in Level /\ level.price = p
  <2>1. idx[p] \in 1..Len(es) /\ es[idx[p]].price = p /\ es[idx[p]] \in Level  BY <1>1, FlatHas
  <2>2. QED  BY <2>1 DEF LevelOf
<1>4. f \in Shelves /\ p \in DOMAIN f /\ f[p] = level  BY <1>1, ShelfOfFlat DEF LevelOf
<1>5. /\ C \in [Side -> Shelves] /\ C[s] = f /\ \A t \in Side : t # s => C[t] = B[t]
  <2>1. C \in [Side -> Shelves] /\ C[s] = f  BY <1>4, WithSideIs
  <2>2. QED  BY <2>1 DEF WithSide
<1>6. start \in Sweeps  BY <1>2, <1>3, SweepIs DEF Begun, Sweeps
<1>7. /\ start.data = acc.data /\ start.locator = acc.locator /\ start.fills = acc.fills
      /\ start.level = level
  BY DEF Begun
<1> HIDE DEF start, level
<1>8. Put(C, s, p, level) = C  BY <1>4, <1>5, PutSame
<1>9. Swept(start, C, s, p, m)  BY <1>1, <1>6, <1>7, <1>8 DEF Swept
<1>10. QED  BY <1>1, <1>3, <1>4, <1>5, <1>9 DEF start, level

\* The sweep acc of side s has reached y with the level at p, with `left` to
\* execute there: it has executed what the limit book executes at p, leaves what
\* the limit book leaves there, and no other orders have changed.
LevelDone(y, acc, B, s, p, left) ==
  LET f == Shelf(acc.fb.entries, acc.fb.index)
      g == Shelf(y.fb.entries, y.fb.index)
      queue == OrdersIn(acc.data, Standing(f, p))
  IN /\ y.remaining = Positive(left - Abstract!Depth(queue))
     /\ OrdersIn(y.data, Standing(g, p)) = Abstract!Remainder(queue, left)[Len(queue)]
     /\ \A r : r # p => OrdersIn(y.data, Standing(g, r)) = OrdersIn(acc.data, Standing(f, r))
     /\ \A t \in Side : t # s => \A r :
          OrdersIn(y.data, Standing(B[t], r)) = OrdersIn(acc.data, Standing(B[t], r))
     /\ ToSet(y.fills) = ToSet(acc.fills) \cup Abstract!Executed(queue, left, p, Len(queue))

\* What FillLevel does with the level at p.
LEMMA FillLevelDoes ==
  ASSUME NEW B \in [Side -> Shelves], NEW s \in Side, NEW m \in Remainders,
         NEW acc, RoundRight(acc, B, s, m), NEW p \in DOMAIN acc.fb.index,
         NEW left \in Int, acc.remaining = Positive(left), NEW y, y = FillLevel(acc, p)
  PROVE  LevelDone(y, acc, B, s, p, left)
<1> DEFINE f == Shelf(acc.fb.entries, acc.fb.index)
           g == Shelf(y.fb.entries, y.fb.index)
           C == WithSide(B, s, f)
           start == Begun(acc, p)
           end == Ended(acc, p)
           q == LevelOf(acc, p).queue
           queue == OrdersIn(acc.data, q)
<1>1. /\ C \in [Side -> Shelves] /\ C[s] = f /\ (\A t \in Side : t # s => C[t] = B[t])
      /\ Shelved(acc.data, C, acc.locator)
      /\ p \in DOMAIN f /\ f[p] = LevelOf(acc, p) /\ LevelOf(acc, p).price = p
      /\ Swept(start, C, s, p, m)
  <2> HIDE DEF f, C, start
  <2>1. f = Shelf(acc.fb.entries, acc.fb.index) /\ C = WithSide(B, s, f)  BY DEF f, C
  <2>2. QED  BY <2>1, BegunIs DEF start
<1>2. /\ start.level = LevelOf(acc, p) /\ start.remaining = acc.remaining
      /\ start.data = acc.data /\ start.fills = acc.fills
      /\ end = FillNodes(start, start.level.queue)[Len(start.level.queue)]
  BY DEF Begun, Ended
<1>3. LevelSwept(y, acc, p)  BY FillLevelKeeps
<1> HIDE DEF start, end, f, C
<1>4. QueueDone(end, start, left)
  <2>1. p \in DOMAIN C[s] /\ start.remaining = Positive(left)  BY <1>1, <1>2
  <2>2. QueueDone(FillNodes(start, start.level.queue)[Len(start.level.queue)], start, left)
    BY <1>1, <2>1, QueueSwept
  <2>3. QED  BY <1>2, <2>2
<1>5. /\ end.remaining = Positive(left - Abstract!Depth(queue))
      /\ OrdersIn(end.data, end.level.queue) = Abstract!Remainder(queue, left)[Len(queue)]
      /\ \A n \in DOMAIN acc.data : (\A i \in 1..Len(q) : n # q[i]) => end.data[n] = acc.data[n]
      /\ ToSet(end.fills) = ToSet(acc.fills) \cup Abstract!Executed(queue, left, p, Len(queue))
  BY <1>1, <1>2, <1>4 DEF QueueDone
<1>6. Standing(f, p) = q  BY <1>1 DEF Standing
<1>7. /\ y.remaining = end.remaining /\ y.data = end.data /\ y.fills = end.fills
      /\ \A r : Standing(g, r) = IF r = p THEN end.level.queue ELSE Standing(f, r)
  BY <1>3 DEF LevelSwept, f, end
<1> HIDE DEF q, g
<1>8. \A t \in Side : \A r : t # s \/ r # p =>
        OrdersIn(end.data, Standing(C[t], r)) = OrdersIn(acc.data, Standing(C[t], r))
  <2> DEFINE D == acc.data
             E == end.data
             L == acc.locator
  <2>1. p \in DOMAIN C[s] /\ C[s][p].queue = q /\ Shelved(D, C, L)  BY <1>1 DEF q
  <2>2. OnlyIn(C[s][p].queue, E, D)  BY <1>5, <2>1 DEF OnlyIn
  <2> HIDE DEF D, E, L
  <2>3. OthersSame(E, D, C, s, p)  BY <2>1, <2>2, OthersStay
  <2>4. QED  BY <2>3 DEF D, E, OthersSame
<1>9. \A r : r # p => OrdersIn(y.data, Standing(g, r)) = OrdersIn(acc.data, Standing(f, r))
  BY <1>1, <1>7, <1>8
<1>10. \A t \in Side : t # s => \A r :
         OrdersIn(y.data, Standing(B[t], r)) = OrdersIn(acc.data, Standing(B[t], r))
  BY <1>1, <1>7, <1>8
<1>11. /\ y.remaining = Positive(left - Abstract!Depth(queue))
       /\ OrdersIn(y.data, Standing(g, p)) = Abstract!Remainder(queue, left)[Len(queue)]
       /\ ToSet(y.fills) = ToSet(acc.fills) \cup Abstract!Executed(queue, left, p, Len(queue))
  BY <1>5, <1>7
<1>12. queue = OrdersIn(acc.data, Standing(f, p))  BY <1>6
<1> HIDE DEF queue
<1>13. QED  BY <1>9, <1>10, <1>11, <1>12 DEF LevelDone, f, g

\* The orders at p, of the levels f.
QueueIn(D, f, p) == OrdersIn(D, Standing(f, p))

\* What the limit book executes at the i-th price and leaves there, of the levels f
\* and pool D, when A[i] rests at the first i prices.
SoldAt(D, f, prices, A, quantity, i) ==
  Abstract!Executed(QueueIn(D, f, prices[i]), quantity - A[i - 1], prices[i],
                    Len(QueueIn(D, f, prices[i])))
LeftAt(D, f, prices, A, quantity, i) ==
  Abstract!Remainder(QueueIn(D, f, prices[i]), quantity - A[i - 1])
    [Len(QueueIn(D, f, prices[i]))]

\* After k prices the sweep acc of side s has reached x: it has executed what the
\* limit book executes at them and leaves what the limit book leaves.
LevelsDone(x, acc, B, s, prices, A, quantity, k) ==
  LET f == Shelf(acc.fb.entries, acc.fb.index)
      g == Shelf(x.fb.entries, x.fb.index)
  IN /\ x.remaining = Positive(quantity - A[k])
     /\ \A i \in 1..k : QueueIn(x.data, g, prices[i]) = LeftAt(acc.data, f, prices, A, quantity, i)
     /\ \A r : (\A i \in 1..k : r # prices[i]) => QueueIn(x.data, g, r) = QueueIn(acc.data, f, r)
     /\ \A t \in Side : t # s => \A r : QueueIn(x.data, B[t], r) = QueueIn(acc.data, B[t], r)
     /\ ToSet(x.fills) = ToSet(acc.fills) \cup
          UNION {SoldAt(acc.data, f, prices, A, quantity, i) : i \in 1..k}

\* Before the first price nothing is done.
LEMMA LevelsNone ==
  ASSUME NEW acc, NEW B, NEW s, NEW prices, NEW A, A[0] = 0, NEW quantity \in Nat,
         acc.remaining = quantity
  PROVE  LevelsDone(acc, acc, B, s, prices, A, quantity, 0)
<1>1. 1..0 = {}  OBVIOUS
<1>2. quantity - A[0] = quantity /\ Positive(quantity) = quantity  BY DEF Positive
<1>3. QED  BY <1>1, <1>2 DEF LevelsDone

\* The next price.
LEMMA LevelsOn ==
  ASSUME NEW B \in [Side -> Shelves], NEW s \in Side, NEW m \in Remainders, NEW acc,
         NEW prices \in Seq(Ticks), \A i, j \in 1..Len(prices) : prices[i] = prices[j] => i = j,
         NEW A, NEW quantity \in Nat, NEW k \in 1..Len(prices), NEW h, h = k - 1, A[h] \in Int,
         NEW depth \in Int, A[k] = A[h] + depth,
         depth = Abstract!Depth(QueueIn(acc.data, Shelf(acc.fb.entries, acc.fb.index), prices[k])),
         NEW x, RoundRight(x, B, s, m), prices[k] \in DOMAIN x.fb.index,
         LevelsDone(x, acc, B, s, prices, A, quantity, h), NEW y, y = FillLevel(x, prices[k])
  PROVE  LevelsDone(y, acc, B, s, prices, A, quantity, k)
<1> DEFINE p == prices[k]
           f == Shelf(acc.fb.entries, acc.fb.index)
           e == Shelf(x.fb.entries, x.fb.index)
           g == Shelf(y.fb.entries, y.fb.index)
           D == acc.data
           left == quantity - A[h]
           queue == QueueIn(D, f, p)
           sold(i) == SoldAt(D, f, prices, A, quantity, i)
           rest(i) == LeftAt(D, f, prices, A, quantity, i)
<1>1. /\ x.remaining = Positive(left)
      /\ \A i \in 1..h : QueueIn(x.data, e, prices[i]) = rest(i)
      /\ \A r : (\A i \in 1..h : r # prices[i]) => QueueIn(x.data, e, r) = QueueIn(D, f, r)
      /\ \A t \in Side : t # s => \A r : QueueIn(x.data, B[t], r) = QueueIn(D, B[t], r)
      /\ ToSet(x.fills) = ToSet(acc.fills) \cup UNION {sold(i) : i \in 1..h}
  BY DEF LevelsDone
<1>2. /\ \A i \in 1..k : i \in 1..h \/ i = k
      /\ \A i \in 1..h : i \in 1..k /\ prices[i] # p
      /\ k \in 1..k /\ k - 1 = h /\ left \in Int
  OBVIOUS
<1>3. QueueIn(x.data, e, p) = queue
  <2>1. \A i \in 1..h : p # prices[i]  BY <1>2
  <2> HIDE DEF p
  <2>2. QED  BY <1>1, <2>1
<1>4. sold(k) = Abstract!Executed(queue, left, p, Len(queue)) /\ rest(k) = Abstract!Remainder(queue, left)[Len(queue)]
  BY <1>2 DEF SoldAt, LeftAt
<1> HIDE DEF p, left
<1>5. LevelDone(y, x, B, s, p, left)
  <2>1. p \in DOMAIN x.fb.index /\ y = FillLevel(x, p)  BY DEF p
  <2>2. QED  BY <1>1, <1>2, <2>1, FillLevelDoes
<1>6. /\ y.remaining = Positive(left - Abstract!Depth(queue))
      /\ QueueIn(y.data, g, p) = rest(k)
      /\ \A r : r # p => QueueIn(y.data, g, r) = QueueIn(x.data, e, r)
      /\ \A t \in Side : t # s => \A r : QueueIn(y.data, B[t], r) = QueueIn(x.data, B[t], r)
      /\ ToSet(y.fills) = ToSet(x.fills) \cup sold(k)
  <2> DEFINE q == OrdersIn(x.data, Standing(e, p))
  <2>1. q = queue  BY <1>3 DEF QueueIn
  <2>2. /\ y.remaining = Positive(left - Abstract!Depth(q))
        /\ OrdersIn(y.data, Standing(g, p)) = Abstract!Remainder(q, left)[Len(q)]
        /\ \A r : r # p => OrdersIn(y.data, Standing(g, r)) = OrdersIn(x.data, Standing(e, r))
        /\ \A t \in Side : t # s => \A r :
             OrdersIn(y.data, Standing(B[t], r)) = OrdersIn(x.data, Standing(B[t], r))
        /\ ToSet(y.fills) = ToSet(x.fills) \cup Abstract!Executed(q, left, p, Len(q))
    BY <1>5 DEF LevelDone
  <2> HIDE DEF q, queue, e, g, sold, rest
  <2>3. QED  BY <1>4, <2>1, <2>2 DEF QueueIn
<1> HIDE DEF f, e, g, D, queue, sold, rest
<1>7. y.remaining = Positive(quantity - A[k])
  <2>1. Abstract!Depth(queue) = depth  BY DEF queue, D, f, p
  <2>2. left - depth = quantity - A[k]  BY DEF left
  <2>3. QED  BY <1>6, <2>1, <2>2
<1>8. \A i \in 1..k : QueueIn(y.data, g, prices[i]) = rest(i)
  <2>1. ASSUME NEW i \in 1..k PROVE QueueIn(y.data, g, prices[i]) = rest(i)
    <3>1. CASE i = k  BY <1>6, <3>1 DEF p
    <3>2. CASE i \in 1..h  BY <1>1, <1>2, <1>6, <3>2
    <3>3. QED  BY <1>2, <3>1, <3>2
  <2>2. QED  BY <2>1
<1>9. \A r : (\A i \in 1..k : r # prices[i]) => QueueIn(y.data, g, r) = QueueIn(D, f, r)
  <2>1. ASSUME NEW r, \A i \in 1..k : r # prices[i] PROVE QueueIn(y.data, g, r) = QueueIn(D, f, r)
    <3>1. r # p  BY <1>2, <2>1 DEF p
    <3>2. \A i \in 1..h : r # prices[i]  BY <1>2, <2>1
    <3>3. QED  BY <1>1, <1>6, <3>1, <3>2
  <2>2. QED  BY <2>1
<1>10. \A t \in Side : t # s => \A r : QueueIn(y.data, B[t], r) = QueueIn(D, B[t], r)
  BY <1>1, <1>6
<1>11. ToSet(y.fills) = ToSet(acc.fills) \cup UNION {sold(i) : i \in 1..k}
  <2>1. UNION {sold(i) : i \in 1..k} = (UNION {sold(i) : i \in 1..h}) \cup sold(k)
    <3>1. 1..k = (1..h) \cup {k}  BY <1>2
    <3>2. QED  BY <3>1
  <2>2. QED  BY <1>1, <1>6, <2>1
<1>12. QED  BY <1>7, <1>8, <1>9, <1>10, <1>11 DEF LevelsDone, f, g, D, sold, rest

\* All of them.
LEMMA LevelsSwept ==
  ASSUME NEW B \in [Side -> Shelves], NEW s \in Side, NEW m \in Remainders,
         NEW acc, RoundRight(acc, B, s, m), NEW prices \in Seq(Ticks),
         \A i, j \in 1..Len(prices) : prices[i] = prices[j] => i = j,
         \A i \in 1..Len(prices) : prices[i] \in DOMAIN acc.fb.index,
         NEW quantity \in Nat, acc.remaining = quantity,
         NEW A, A[0] = 0, \A i \in 0..Len(prices) : A[i] \in Int,
         \A i \in 1..Len(prices) :
           LET depth == Abstract!Depth(QueueIn(acc.data, Shelf(acc.fb.entries, acc.fb.index), prices[i]))
           IN depth \in Int /\ A[i] = A[i - 1] + depth
  PROVE  LevelsDone(FillLevels(acc, prices)[Len(prices)], acc, B, s, prices, A, quantity, Len(prices))
<1> DEFINE n == Len(prices)
           v == FillLevels(acc, prices)
           T == {k \in 0..n : LevelsDone(v[k], acc, B, s, prices, A, quantity, k)}
<1>1. n \in Nat  OBVIOUS
<1>2. /\ v[0] = acc
      /\ \A i \in 1..n : v[i] = FillLevel(v[i - 1], prices[i]) /\ prices[i] \in DOMAIN v[i - 1].fb.index
      /\ \A i \in 0..n : RoundRight(v[i], B, s, m)
  BY FillLevelsRun
<1> HIDE DEF v
<1>3. 0 \in T
  <2>1. LevelsDone(acc, acc, B, s, prices, A, quantity, 0)  BY LevelsNone
  <2>2. QED  BY <1>1, <1>2, <2>1
<1>4. ASSUME NEW i \in 0..n, i < n, i \in T PROVE i + 1 \in T
  <2> DEFINE k == i + 1
             x == v[i]
             z == v[k]
             depth == Abstract!Depth(QueueIn(acc.data, Shelf(acc.fb.entries, acc.fb.index), prices[k]))
  <2>1. k \in 1..Len(prices) /\ k \in 0..n /\ i = k - 1  BY <1>1, <1>4
  <2>2. RoundRight(x, B, s, m) /\ z = FillLevel(x, prices[k]) /\ prices[k] \in DOMAIN x.fb.index
    BY <1>2, <2>1
  <2>3. LevelsDone(x, acc, B, s, prices, A, quantity, i)  BY <1>4
  <2>4. A[i] \in Int /\ depth \in Int /\ A[k] = A[i] + depth  BY <2>1
  <2>5. depth = Abstract!Depth(QueueIn(acc.data, Shelf(acc.fb.entries, acc.fb.index), prices[k]))
    OBVIOUS
  <2> HIDE DEF k, x, z, T, n, depth
  <2>6. LevelsDone(z, acc, B, s, prices, A, quantity, k)
    BY <2>1, <2>2, <2>3, <2>4, <2>5, LevelsOn
  <2>7. QED  BY <2>1, <2>6 DEF T, k, z
<1>5. n \in T
  <2> HIDE DEF T, n
  <2>1. \A i \in 0..n : i \in T  BY <1>1, <1>3, <1>4, UpTo
  <2>2. QED  BY <1>1, <2>1
<1>6. QED  BY <1>5 DEF v

-----------------------------------------------------------------------------
(* The two books, state by state *)

\* The prices the loop visits are those of the levels the limit accepts, which
\* lead the side.
LEMMA ReachableAll ==
  ASSUME NEW s \in Side, NEW limit \in Int, NEW es, es = entries[Opposite(s)], NEW idx,
         Flat(Opposite(s), es, idx)
  PROVE  LET prices == Reachable(s, limit) IN
         /\ Len(prices) \in 0..Len(es)
         /\ \A i \in 1..Len(prices) : prices[i] = es[i].price /\ Accepts(s, limit, es[i].price)
         /\ \A i \in 1..Len(es) : Accepts(s, limit, es[i].price) => i \in 1..Len(prices)
<1> DEFINE n == Len(es)
           In == {i \in 1..n : \A j \in 1..i : Accepts(s, limit, es[j].price)}
           prices == Reachable(s, limit)
<1>1. es \in Seq(Level) /\ Sorted(Opposite(s), es)  BY DEF Flat
<1>2. /\ n \in Nat /\ DOMAIN es = 1..n
      /\ \A i \in 1..n : es[i].price \in Ticks /\ es[i].price \in Int
  BY FlatHas, TicksAreInts
<1>3. prices = [i \in 1..Cardinality(In) |-> es[i].price]  BY <1>2 DEF Reachable
<1> HIDE DEF prices, n
<1>4. ASSUME NEW i \in 1..n, NEW j \in 1..i, Accepts(s, limit, es[i].price)
      PROVE  Accepts(s, limit, es[j].price)
  <2>1. j \in 1..n /\ (j = i \/ j < i)  BY <1>2
  <2>2. CASE j = i  BY <1>4, <2>2
  <2>3. CASE j < i
    <3>1. Comp(Opposite(s), es[j].price, es[i].price)  BY <1>1, <2>1, <2>3 DEF Sorted, n
    <3>2. es[j].price \in Int /\ es[i].price \in Int  BY <1>2, <2>1
    <3>3. QED  BY <1>4, <3>1, <3>2 DEF Comp, Accepts, Opposite, Side
  <2>4. QED  BY <2>1, <2>2, <2>3
<1>5. PICK k \in 0..n : (\A j \in 1..k : j \in In) /\ (k < n => k + 1 \notin In)
  <2> HIDE DEF In
  <2>1. QED  BY <1>2, LongestRun
<1>6. In = 1..k
  <2>1. ASSUME NEW i \in In PROVE i \in 1..k
    <3>1. i \in 1..n /\ \A j \in 1..i : Accepts(s, limit, es[j].price)  OBVIOUS
    <3>2. SUFFICES ASSUME i > k PROVE FALSE  BY <1>2, <3>1
    <3>3. k < n /\ k + 1 \in 1..n /\ \A j \in 1..(k + 1) : j \in 1..i  BY <1>2, <3>1, <3>2
    <3>4. k + 1 \in In  BY <3>1, <3>3
    <3> HIDE DEF In
    <3>5. QED  BY <1>5, <3>3, <3>4
  <2> HIDE DEF In
  <2>2. QED  BY <1>5, <2>1
<1>7. \A i \in 1..n : i \in In <=> Accepts(s, limit, es[i].price)
  <2>1. ASSUME NEW i \in 1..n, Accepts(s, limit, es[i].price) PROVE i \in In
    BY <1>4, <2>1
  <2>2. ASSUME NEW i \in In PROVE Accepts(s, limit, es[i].price)
    <3>1. i \in 1..i  BY <1>2
    <3>2. QED  BY <3>1
  <2> HIDE DEF In
  <2>3. QED  BY <2>1, <2>2
<1>8. Cardinality(In) = k
  <2>1. 1 \in Int /\ k \in Int /\ k - 1 + 1 = k /\ (1 > k => k = 0)  BY <1>2
  <2>2. Cardinality(1..k) = IF 1 > k THEN 0 ELSE k - 1 + 1  BY <2>1, FS_Interval
  <2>3. QED  BY <1>6, <2>1, <2>2
<1> HIDE DEF In
<1>9. Len(prices) = k /\ \A i \in 1..k : prices[i] = es[i].price
  <2>1. prices = [i \in 1..k |-> es[i].price]  BY <1>3, <1>8
  <2>2. k \in Nat  BY <1>2
  <2>3. Len([i \in 1..k |-> es[i].price]) = k  BY <2>2
  <2>4. QED  BY <2>1, <2>3
<1>10. \A i \in 1..k : i \in 1..n  BY <1>2
<1>11. QED  BY <1>6, <1>7, <1>9, <1>10 DEF prices, n

\* The orders at price p of the levels es, as the specification says it.
QueueOf(D, es, p) ==
  IF p \in {es[i].price : i \in DOMAIN es}
  THEN LET e == es[CHOOSE i \in DOMAIN es : es[i].price = p]
       IN [k \in DOMAIN e.queue |-> D[e.queue[k]]]
  ELSE <<>>

\* They are those that stand there.
LEMMA QueueOfIs ==
  ASSUME NEW D, NEW s, NEW es, NEW idx, Flat(s, es, idx), NEW p
  PROVE  QueueOf(D, es, p) = QueueIn(D, Shelf(es, idx), p)
<1>1. /\ Len(es) \in Nat /\ DOMAIN es = 1..Len(es)
      /\ \A i \in 1..Len(es) : es[i] \in Level /\ es[i].price \in DOMAIN idx
      /\ \A r \in DOMAIN idx : idx[r] \in 1..Len(es) /\ es[idx[r]].price = r
  BY FlatHas
<1>2. DOMAIN Shelf(es, idx) = DOMAIN idx /\ \A r \in DOMAIN idx : Shelf(es, idx)[r] = es[idx[r]]
  BY DEF Shelf
<1>3. es \in Seq(Level) /\ Sorted(s, es)  BY DEF Flat
<1>4. CASE p \in DOMAIN idx
  <2> DEFINE i == CHOOSE i \in DOMAIN es : es[i].price = p
  <2>1. i \in DOMAIN es /\ es[i].price = p  BY <1>1, <1>4
  <2>2. i = idx[p]
    <3> HIDE DEF i
    <3>1. i \in 1..Len(es) /\ idx[p] \in 1..Len(es) /\ es[i].price = es[idx[p]].price
      BY <1>1, <1>4, <2>1
    <3>2. QED  BY <1>3, <3>1, SortedApart
  <2>3. QueueOf(D, es, p) = [k \in DOMAIN es[i].queue |-> D[es[i].queue[k]]]
    <3>1. p \in {es[j].price : j \in DOMAIN es}  BY <2>1
    <3>2. QED  BY <3>1 DEF QueueOf
  <2> HIDE DEF i
  <2>4. DOMAIN es[i].queue = 1..Len(es[i].queue)
    <3>1. es[i] \in Level  BY <1>1, <2>1
    <3>2. \A l \in Level : DOMAIN l.queue = 1..Len(l.queue)  BY DEF Level
    <3>3. QED  BY <3>1, <3>2
  <2>5. Standing(Shelf(es, idx), p) = es[i].queue  BY <1>2, <1>4, <2>2 DEF Standing
  <2>6. QED  BY <2>3, <2>4, <2>5 DEF QueueIn, OrdersIn
<1>5. CASE p \notin DOMAIN idx
  <2>1. p \notin {es[i].price : i \in DOMAIN es}  BY <1>1, <1>5
  <2>2. QueueOf(D, es, p) = <<>>  BY <2>1 DEF QueueOf
  <2>3. Standing(Shelf(es, idx), p) = <<>>  BY <1>2, <1>5 DEF Standing
  <2>4. OrdersIn(D, <<>>) = <<>>
    <3>1. 1..Len(<<>>) = {}  OBVIOUS
    <3>2. QED  BY <3>1 DEF OrdersIn
  <2>5. QED  BY <2>2, <2>3, <2>4 DEF QueueIn
<1>6. QED  BY <1>4, <1>5

\* The book by price, as the specification maps it.
LEMMA QueuesNow ==
  ASSUME BookRight(data, entries, index, locator, meta)
  PROVE  \A s \in Side : \A p : QueueAt(s, p) = QueueIn(data, Shelf(entries[s], index[s]), p)
<1>1. ASSUME NEW s \in Side, NEW p
      PROVE  QueueAt(s, p) = QueueIn(data, Shelf(entries[s], index[s]), p)
  <2>1. Flat(s, entries[s], index[s])  BY DEF BookRight
  <2>2. QueueAt(s, p) = QueueOf(data, entries[s], p)  BY DEF QueueAt, QueueOf
  <2>3. QED  BY <2>1, <2>2, QueueOfIs
<1>2. QED  BY <1>1

\* And after a step.
LEMMA QueuesNext ==
  ASSUME BookRight(data', entries', index', locator', meta')
  PROVE  \A s \in Side : \A p : QueueAt(s, p)' = QueueIn(data', Shelf(entries'[s], index'[s]), p)
<1>1. ASSUME NEW s \in Side, NEW p
      PROVE  QueueAt(s, p)' = QueueIn(data', Shelf(entries'[s], index'[s]), p)
  <2>1. Flat(s, entries'[s], index'[s])  BY DEF BookRight
  <2>2. QueueAt(s, p)' = QueueOf(data', entries'[s], p)  BY DEF QueueAt, QueueOf
  <2>3. QED  BY <2>1, <2>2, QueueOfIs
<1>2. QED  BY <1>1

\* The queues by side and tick.
Queues == [s \in Side |-> [p \in Ticks |-> QueueAt(s, p)]]

\* An order rests at a tick when the side has a level there.
LEMMA QueueWhere ==
  ASSUME BookRight(data, entries, index, locator, meta), NEW t \in Side
  PROVE  \A p : QueueAt(t, p) # <<>> <=> \E i \in 1..Len(entries[t]) : entries[t][i].price = p
<1> DEFINE es == entries[t]
           idx == index[t]
<1>1. Flat(t, es, idx) /\ (\A i \in 1..Len(es) : es[i].queue # <<>>)  BY DEF BookRight
<1>2. \A p : QueueAt(t, p) = QueueIn(data, Shelf(es, idx), p)  BY QueuesNow
<1> HIDE DEF es, idx
<1>3. /\ \A i \in 1..Len(es) : es[i].price \in DOMAIN idx /\ idx[es[i].price] = i
      /\ \A p \in DOMAIN idx : idx[p] \in 1..Len(es) /\ es[idx[p]].price = p
      /\ \A i \in 1..Len(es) : es[i] \in Level
  BY <1>1, FlatHas
<1>4. DOMAIN Shelf(es, idx) = DOMAIN idx /\ \A r \in DOMAIN idx : Shelf(es, idx)[r] = es[idx[r]]
  BY DEF Shelf
<1>5. ASSUME NEW p, p \in DOMAIN idx PROVE QueueAt(t, p) # <<>>
  <2> DEFINE q == es[idx[p]].queue
  <2>1. Standing(Shelf(es, idx), p) = q  BY <1>4, <1>5 DEF Standing
  <2>2. q \in Seq(Nodes) /\ q # <<>>
    <3>1. es[idx[p]] \in Level  BY <1>3, <1>5
    <3>2. q \in Seq(Nodes)  BY <3>1 DEF Level
    <3>3. QED  BY <1>1, <1>3, <1>5, <3>2
  <2> HIDE DEF q
  <2>3. DOMAIN OrdersIn(data, q) = 1..Len(q) /\ 1 \in 1..Len(q)  BY <2>2 DEF OrdersIn
  <2>4. DOMAIN <<>> = {}  OBVIOUS
  <2>5. QueueAt(t, p) = OrdersIn(data, q)  BY <1>2, <2>1 DEF QueueIn
  <2>6. QED  BY <2>3, <2>4, <2>5
<1>6. ASSUME NEW p, p \notin DOMAIN idx PROVE QueueAt(t, p) = <<>>
  <2>1. Standing(Shelf(es, idx), p) = <<>>  BY <1>4, <1>6 DEF Standing
  <2>2. OrdersIn(data, <<>>) = <<>>
    <3>1. 1..Len(<<>>) = {}  OBVIOUS
    <3>2. QED  BY <3>1 DEF OrdersIn
  <2>3. QED  BY <1>2, <2>1, <2>2 DEF QueueIn
<1>7. \A p : p \in DOMAIN idx <=> \E i \in 1..Len(es) : es[i].price = p  BY <1>3
<1>8. QED  BY <1>5, <1>6, <1>7 DEF es

\* How many levels of a side come before a price.
Leading(s, es, p) == FindInsertPos(s, es, p) - 1

\* They are the first ones.
LEMMA LeadingIs ==
  ASSUME NEW s \in Side, NEW es \in Seq(Level), Sorted(s, es)
  PROVE  /\ \A p \in Ticks : /\ Leading(s, es, p) \in 0..Len(es)
                             /\ \A i \in 1..Len(es) : Comp(s, es[i].price, p) <=> i <= Leading(s, es, p)
         /\ \A i \in 1..Len(es) : Leading(s, es, es[i].price) = i - 1
<1> DEFINE n == Len(es)
<1>1. n \in Nat /\ \A i \in 1..n : es[i].price \in Ticks
  <2>1. \A i \in 1..Len(es) : es[i] \in Level  OBVIOUS
  <2>2. \A l \in Level : l.price \in Ticks  BY DEF Level
  <2>3. QED  BY <2>1, <2>2
<1>2. ASSUME NEW p \in Ticks
      PROVE  /\ Leading(s, es, p) \in 0..n
             /\ \A i \in 1..n : Comp(s, es[i].price, p) <=> i <= Leading(s, es, p)
  <2> DEFINE pos == FindInsertPos(s, es, p)
  <2>1. /\ pos \in 1..(n + 1) /\ \A j \in 1..(pos - 1) : Comp(s, es[j].price, p)
        /\ pos \in 1..n => ~Comp(s, es[pos].price, p)
    BY InsertPosIs
  <2> HIDE DEF pos
  <2>2. ASSUME NEW i \in 1..n, i > pos - 1, Comp(s, es[i].price, p) PROVE FALSE
    <3>1. pos \in 1..n /\ (pos = i \/ pos < i)  BY <1>1, <2>1, <2>2
    <3>2. CASE pos = i  BY <2>1, <2>2, <3>1, <3>2
    <3>3. CASE pos < i
      <4>1. Comp(s, es[pos].price, es[i].price)  BY <3>1, <3>3 DEF Sorted, n
      <4>2. es[pos].price \in Int /\ es[i].price \in Int /\ p \in Int  BY <1>1, <3>1, TicksAreInts
      <4>3. Comp(s, es[pos].price, p)  BY <2>2, <4>1, <4>2, CompOrders
      <4>4. QED  BY <2>1, <3>1, <4>3
    <3>4. QED  BY <3>1, <3>2, <3>3
  <2>3. ASSUME NEW i \in 1..n PROVE Comp(s, es[i].price, p) <=> i <= pos - 1
    <3>1. i <= pos - 1 => i \in 1..(pos - 1)  BY <1>1, <2>1
    <3>2. ~(i <= pos - 1) => i > pos - 1  BY <1>1, <2>1
    <3>3. QED  BY <2>1, <2>2, <3>1, <3>2
  <2>4. pos - 1 \in 0..n  BY <1>1, <2>1
  <2>5. QED  BY <2>3, <2>4 DEF Leading, pos
<1>3. ASSUME NEW i \in 1..n PROVE Leading(s, es, es[i].price) = i - 1
  <2> DEFINE c == Leading(s, es, es[i].price)
  <2>1. c \in 0..n /\ \A j \in 1..n : Comp(s, es[j].price, es[i].price) <=> j <= c
    BY <1>1, <1>2
  <2> HIDE DEF c
  <2>2. ~(i <= c)
    <3>1. es[i].price \in Int  BY <1>1, TicksAreInts
    <3>2. ~Comp(s, es[i].price, es[i].price)  BY <3>1, CompOrders
    <3>3. QED  BY <2>1, <3>2
  <2>3. \A j \in 1..n : j < i => j <= c  BY <2>1 DEF Sorted, n
  <2>4. i - 1 \in 1..n => i - 1 <= c  BY <1>1, <2>3
  <2>5. c = i - 1  BY <1>1, <2>1, <2>2, <2>4
  <2>6. QED  BY <2>5 DEF c
<1>4. QED  BY <1>2, <1>3

\* The ticks before a tick are the prices of the leading levels, and the last of
\* them is that of the last of these.
LEMMA BeforeIs ==
  ASSUME BookRight(data, entries, index, locator, meta), NEW t \in Side,
         NEW es, es = entries[t], NEW p \in Ticks, NEW c, c = Leading(t, es, p)
  PROVE  LET B == Abstract!Before(t, p) IN
         /\ c = 0 => B = {}
         /\ c # 0 => /\ B # {}
                     /\ (CHOOSE q \in B : \A r \in B : r = q \/ Abstract!Better(t, r, q)) = es[c].price
<1> DEFINE B == Abstract!Before(t, p)
           Hindmost(q) == \A r \in B : r = q \/ Abstract!Better(t, r, q)
<1>1. es \in Seq(Level) /\ Sorted(t, es) /\ Flat(t, es, index[t])  BY DEF BookRight, Flat
<1>2. Len(es) \in Nat /\ \A i \in 1..Len(es) : es[i].price \in Ticks /\ es[i].price \in Int
  BY <1>1, FlatHas, TicksAreInts
<1>3. c \in 0..Len(es) /\ \A i \in 1..Len(es) : Comp(t, es[i].price, p) <=> i <= c
  BY <1>1, LeadingIs
<1>4. \A q, r : Abstract!Better(t, q, r) <=> Comp(t, q, r)  BY DEF Abstract!Better, Comp
<1>5. \A q : q \in B <=> q \in Ticks /\ QueueAt(t, q) # <<>> /\ Comp(t, q, p)
  BY <1>4 DEF Abstract!Before
<1> HIDE DEF B
<1>6. \A q : q \in B <=> \E i \in 1..c : es[i].price = q
  <2>1. \A q : QueueAt(t, q) # <<>> <=> \E i \in 1..Len(es) : es[i].price = q  BY QueueWhere
  <2>2. \A i \in 1..c : i \in 1..Len(es) /\ i <= c  BY <1>2, <1>3
  <2>3. ASSUME NEW q \in B PROVE \E i \in 1..c : es[i].price = q
    <3>1. PICK i \in 1..Len(es) : es[i].price = q  BY <1>5, <2>1
    <3>2. i <= c  BY <1>3, <1>5, <3>1
    <3>3. i \in 1..c  BY <1>2, <1>3, <3>2
    <3>4. QED  BY <3>1, <3>3
  <2>4. ASSUME NEW i \in 1..c PROVE es[i].price \in B
    <3>1. Comp(t, es[i].price, p) /\ es[i].price \in Ticks  BY <1>2, <1>3, <2>2
    <3>2. QueueAt(t, es[i].price) # <<>>  BY <2>1, <2>2
    <3>3. QED  BY <1>5, <3>1, <3>2
  <2>5. QED  BY <2>3, <2>4
<1>7. ASSUME c = 0 PROVE B = {}
  <2>1. 1..c = {}  BY <1>7
  <2>2. QED  BY <1>6, <2>1
<1>8. ASSUME c # 0 PROVE B # {} /\ (CHOOSE q \in B : Hindmost(q)) = es[c].price
  <2> DEFINE l == es[c].price
  <2>1. c \in 1..c /\ c \in 1..Len(es)  BY <1>2, <1>3, <1>8
  <2>2. l \in B  BY <1>6, <2>1
  <2>3. Hindmost(l)
    <3>1. ASSUME NEW r \in B PROVE r = l \/ Abstract!Better(t, r, l)
      <4>1. PICK i \in 1..c : es[i].price = r  BY <1>6
      <4>2. i \in 1..Len(es) /\ (i = c \/ i < c)  BY <1>2, <1>3, <4>1
      <4>3. i < c => Comp(t, r, l)  BY <1>1, <2>1, <4>1, <4>2 DEF Sorted
      <4>4. QED  BY <1>4, <4>1, <4>2, <4>3
    <3>2. QED  BY <3>1
  <2>4. ASSUME NEW q \in B, Hindmost(q) PROVE q = l
    <3>1. SUFFICES ASSUME q # l PROVE FALSE  OBVIOUS
    <3>2. Comp(t, l, q) /\ Comp(t, q, l)  BY <1>4, <2>2, <2>3, <2>4, <3>1
    <3>3. q \in Int /\ l \in Int
      <4>1. q \in Ticks /\ l \in Ticks  BY <1>5, <2>2
      <4>2. QED  BY <4>1, TicksAreInts
    <3>4. Comp(t, l, l) /\ ~Comp(t, l, l)  BY <3>2, <3>3, CompOrders
    <3>5. QED  BY <3>4
  <2> HIDE DEF Hindmost, l
  <2>5. (CHOOSE q \in B : Hindmost(q)) = l  BY <2>2, <2>3, <2>4
  <2>6. QED  BY <2>2, <2>5 DEF l
<1>9. QED  BY <1>7, <1>8 DEF B

\* What rests before a tick is what rests at the levels before it.
LEMMA AheadIs ==
  ASSUME BookRight(data, entries, index, locator, meta), NEW t \in Side,
         NEW es, es = entries[t], NEW A, A[0] = 0,
         \A i \in 1..Len(es) : A[i] = A[i - 1] + Abstract!Depth(QueueAt(t, es[i].price))
  PROVE  \A p \in Ticks : Abstract!Ahead(t)[p] = A[Leading(t, es, p)]
<1> DEFINE n == Len(es)
           c(p) == Leading(t, es, p)
           B(p) == Abstract!Before(t, p)
           End(p) == CHOOSE q \in B(p) : \A r \in B(p) : r = q \/ Abstract!Better(t, r, q)
           Body(g) == [p \in Ticks |-> IF B(p) = {} THEN 0
                                       ELSE g[End(p)] + Abstract!Depth(Queues[t][End(p)])]
           m == Abstract!Ahead(t)
           h == [p \in Ticks |-> A[c(p)]]
<1>1. es \in Seq(Level) /\ Sorted(t, es) /\ Flat(t, es, index[t])  BY DEF BookRight, Flat
<1>2. n \in Nat /\ \A i \in 1..n : es[i].price \in Ticks  BY <1>1, FlatHas
<1>3. /\ \A p \in Ticks : c(p) \in 0..n
      /\ \A i \in 1..n : c(es[i].price) = i - 1
  BY <1>1, LeadingIs
<1>4. \A p \in Ticks : /\ c(p) = 0 => B(p) = {}
                       /\ c(p) # 0 => B(p) # {} /\ End(p) = es[c(p)].price
  <2>1. ASSUME NEW p \in Ticks
        PROVE  /\ c(p) = 0 => B(p) = {}
               /\ c(p) # 0 => B(p) # {} /\ End(p) = es[c(p)].price
    BY BeforeIs
  <2> HIDE DEF c, B, End
  <2>2. QED  BY <2>1
<1>5. m = CHOOSE g : g = Body(g)  BY DEF Abstract!Ahead, Queues
<1> HIDE DEF m, c, B, End, n
<1>6. ASSUME NEW g, NEW p \in Ticks
      PROVE  Body(g)[p] = IF c(p) = 0 THEN 0
                          ELSE g[es[c(p)].price] + Abstract!Depth(QueueAt(t, es[c(p)].price))
  <2>1. Body(g)[p] = IF B(p) = {} THEN 0 ELSE g[End(p)] + Abstract!Depth(Queues[t][End(p)])
    OBVIOUS
  <2> HIDE DEF Body
  <2>2. c(p) # 0 => c(p) \in 1..n  BY <1>2, <1>3
  <2>3. c(p) # 0 => Queues[t][End(p)] = QueueAt(t, es[c(p)].price)  BY <1>2, <1>4, <2>2 DEF Queues
  <2>4. QED  BY <1>4, <2>1, <2>3
<1>7. h = Body(h)
  <2>1. ASSUME NEW p \in Ticks PROVE h[p] = Body(h)[p]
    <3> DEFINE k == c(p)
               e == es[k].price
    <3>1. h[p] = A[k]  OBVIOUS
    <3>2. CASE k = 0  BY <1>6, <3>1, <3>2
    <3>3. CASE k # 0
      <4>1. k \in 1..n /\ e \in Ticks /\ c(e) = k - 1  BY <1>2, <1>3, <3>3
      <4>2. h[e] = A[k - 1]  BY <4>1
      <4>3. A[k] = A[k - 1] + Abstract!Depth(QueueAt(t, e))  BY <4>1 DEF n
      <4>4. Body(h)[p] = h[e] + Abstract!Depth(QueueAt(t, e))  BY <1>6, <3>3
      <4> HIDE DEF h, k, e, Body
      <4>5. QED  BY <3>1, <4>2, <4>3, <4>4
    <3>4. QED  BY <3>2, <3>3
  <2>2. Body(h) = [p \in Ticks |-> Body(h)[p]] /\ h = [p \in Ticks |-> h[p]]  OBVIOUS
  <2> HIDE DEF Body, h
  <2>3. QED  BY <2>1, <2>2
<1>8. m = Body(m)
  <2> HIDE DEF Body, h
  <2>1. (CHOOSE g : g = Body(g)) = Body(CHOOSE g : g = Body(g))  BY <1>7
  <2>2. QED  BY <1>5, <2>1
<1> DEFINE T == {k \in 0..n : \A p \in Ticks : c(p) = k => m[p] = A[k]}
<1>9. \A p \in Ticks : m[p] = IF c(p) = 0 THEN 0
                              ELSE m[es[c(p)].price] + Abstract!Depth(QueueAt(t, es[c(p)].price))
  <2> HIDE DEF Body
  <2>1. QED  BY <1>6, <1>8
<1>10. 0 \in T
  <2>1. \A p \in Ticks : c(p) = 0 => m[p] = A[0]  BY <1>9
  <2>2. QED  BY <1>2, <2>1
<1>11. ASSUME NEW k \in 0..n, k < n, k \in T PROVE k + 1 \in T
  <2> DEFINE i == k + 1
             e == es[i].price
  <2>1. i \in 1..n /\ i \in 0..n /\ i # 0 /\ i - 1 = k  BY <1>2, <1>11
  <2>2. e \in Ticks /\ c(e) = k  BY <1>2, <1>3, <2>1
  <2>3. m[e] = A[k]  BY <1>11, <2>2
  <2>4. A[i] = A[k] + Abstract!Depth(QueueAt(t, e))  BY <2>1 DEF n
  <2>5. \A p \in Ticks : c(p) = i => m[p] = A[i]  BY <1>9, <2>1, <2>3, <2>4
  <2>6. QED  BY <2>1, <2>5
<1> HIDE DEF T
<1>12. \A k \in 0..n : k \in T  BY <1>2, <1>10, <1>11, UpTo
<1>13. \A p \in Ticks : m[p] = A[c(p)]  BY <1>3, <1>12 DEF T
<1>14. QED  BY <1>13 DEF m, c

\* The nodes that stand at a price are acquired ones.
LEMMA StandsIn ==
  ASSUME BookRight(data, entries, index, locator, meta)
  PROVE  \A t \in Side : \A p : LET q == Standing(Shelf(entries[t], index[t]), p) IN
           q \in Seq(Nodes) /\ \A i \in 1..Len(q) : q[i] \in DOMAIN data
<1> SUFFICES ASSUME NEW t \in Side, NEW p
             PROVE  LET q == Standing(Shelf(entries[t], index[t]), p) IN
                    q \in Seq(Nodes) /\ \A i \in 1..Len(q) : q[i] \in DOMAIN data
  OBVIOUS
<1> DEFINE B == ByPrice(entries, index)
<1>1. B \in [Side -> Shelves] /\ B[t] = Shelf(entries[t], index[t])  BY ByPriceIs
<1>2. PoolRests(data, B)  BY DEF BookRight, Shelved
<1> HIDE DEF B
<1> DEFINE q == Standing(B[t], p)
<1>3. CASE p \in DOMAIN B[t]
  <2>1. B[t] \in Shelves  BY <1>1
  <2>2. q = B[t][p].queue /\ q \in Seq(Nodes)  BY <1>3, <2>1, ShelfHas DEF Standing
  <2>3. QED  BY <1>1, <1>2, <1>3, <2>2 DEF PoolRests
<1>4. CASE p \notin DOMAIN B[t]
  <2>1. q = <<>>  BY <1>4 DEF Standing
  <2>2. q \in Seq(Nodes) /\ Len(q) = 0  BY <2>1
  <2>3. QED  BY <1>1, <2>2
<1>5. QED  BY <1>3, <1>4

\* The queues of orders hold orders, and what they show is a number.
LEMMA QueuesHold ==
  ASSUME BookRight(data, entries, index, locator, meta), NEW t \in Side, NEW p
  PROVE  QueueAt(t, p) \in Seq(Order) /\ Abstract!Depth(QueueAt(t, p)) \in Int
<1> DEFINE q == Standing(Shelf(entries[t], index[t]), p)
<1>1. q \in Seq(Nodes) /\ \A i \in 1..Len(q) : q[i] \in DOMAIN data  BY StandsIn
<1>2. data \in Pools  BY DEF BookRight, Shelved
<1>3. QueueAt(t, p) = OrdersIn(data, q)  BY QueuesNow DEF QueueIn
<1> HIDE DEF q
<1>4. \A i \in 1..Len(q) : data[q[i]] \in Order  BY <1>1, <1>2, PoolHas
<1>5. OrdersIn(data, q) \in Seq(Order)
  <2>1. OrdersIn(data, q) \in [1..Len(q) -> Order]  BY <1>4 DEF OrdersIn
  <2>2. Len(q) \in Nat  BY <1>1
  <2>3. QED  BY <2>1, <2>2
<1>6. QueueAt(t, p) \in Seq(Order)  BY <1>3, <1>5
<1>7. Abstract!Depth(QueueAt(t, p)) \in Int
  <2> DEFINE x == QueueAt(t, p)
  <2>1. Len(x) \in 0..Len(x) /\ x \in Seq(Order)  BY <1>6
  <2> HIDE DEF x
  <2>2. Abstract!Depth(x) \in Int  BY <2>1, PrefixIs
  <2>3. QED  BY <2>2 DEF x
<1>8. QED  BY <1>6, <1>7

\* Nothing is left of no orders, and nothing executed.
LEMMA NoOrders ==
  ASSUME NEW left \in Int, NEW p
  PROVE  Abstract!Remainder(<<>>, left)[Len(<<>>)] = <<>> /\ Abstract!Executed(<<>>, left, p, Len(<<>>)) = {}
<1>1. <<>> \in Seq(Order) /\ Len(<<>>) = 0  OBVIOUS
<1>2. Abstract!Remainder(<<>>, left)[0] = <<>>  BY <1>1, RemainderIs
<1>3. Abstract!Executed(<<>>, left, p, 0) = {}
  <2>1. 1..0 = {}  OBVIOUS
  <2>2. {j \in 1..0 : Abstract!Given(<<>>, left, j) > 0} = {}  BY <2>1
  <2>3. QED  BY <2>2 DEF Abstract!Executed
<1>4. QED  BY <1>1, <1>2, <1>3

\* What the limit book leaves of the orders at tick p, and what it executes there.
LeftBy(t, p, quantity) ==
  Abstract!Remainder(QueueAt(t, p), quantity - Abstract!Ahead(t)[p])[Len(QueueAt(t, p))]
SoldBy(t, p, quantity) ==
  Abstract!Executed(QueueAt(t, p), quantity - Abstract!Ahead(t)[p], p, Len(QueueAt(t, p)))

\* The sweep at work: what it has done after the prices it visits.
SweepStart(t, quantity) ==
  [remaining |-> quantity, data |-> data, locator |-> locator, fills |-> <<>>, fb |-> FlatBook(t)]
SweepEnd(t, quantity, prices) == FillLevels(SweepStart(t, quantity), prices)[Len(prices)]

\* The depths of the levels of a side, best first.
Depths(t) == [i \in 1..Len(entries[t]) |-> Abstract!Depth(QueueAt(t, entries[t][i].price))]

\* The depths add up.
LEMMA DepthsIs ==
  ASSUME BookRight(data, entries, index, locator, meta), NEW t \in Side
  PROVE  LET A == Running(Depths(t)) IN
         /\ Len(entries[t]) \in Nat
         /\ A[0] = 0 /\ \A i \in 0..Len(entries[t]) : A[i] \in Int
         /\ \A i \in 1..Len(entries[t]) :
              /\ Abstract!Depth(QueueAt(t, entries[t][i].price)) \in Int
              /\ A[i] = A[i - 1] + Abstract!Depth(QueueAt(t, entries[t][i].price))
<1> DEFINE n == Len(entries[t])
           d == Depths(t)
<1>1. n \in Nat
  <2>1. Flat(t, entries[t], index[t])  BY DEF BookRight
  <2>2. QED  BY <2>1, FlatHas
<1>2. \A i \in 1..n : Abstract!Depth(QueueAt(t, entries[t][i].price)) \in Int  BY QueuesHold
<1>3. d \in Seq(Int) /\ Len(d) = n
      /\ \A i \in 1..n : d[i] = Abstract!Depth(QueueAt(t, entries[t][i].price))
  <2>1. d \in [1..n -> Int]  BY <1>2 DEF Depths
  <2>2. d \in Seq(Int) /\ Len(d) = n  BY <1>1, <2>1
  <2>3. QED  BY <2>2 DEF Depths
<1> HIDE DEF d, n
<1>4. /\ Running(d) \in [0..n -> Int] /\ Running(d)[0] = 0
      /\ \A i \in 1..n : Running(d)[i] = Running(d)[i - 1] + d[i]
  BY <1>3, RunningIs
<1>5. QED  BY <1>1, <1>2, <1>3, <1>4 DEF d, n

\* The sweep has done what the limit book does at the prices it visits.
LEMMA SweepDone ==
  ASSUME BookRight(data, entries, index, locator, meta), NEW s \in Side, NEW limit \in Int,
         NEW quantity \in Nat, NEW t, t = Opposite(s), NEW prices, prices = Reachable(s, limit)
  PROVE  LevelsDone(SweepEnd(t, quantity, prices), SweepStart(t, quantity), ByPrice(entries, index),
                    t, prices, Running(Depths(t)), quantity, Len(prices))
<1> DEFINE B == ByPrice(entries, index)
           es == entries[t]
           idx == index[t]
           start == SweepStart(t, quantity)
           A == Running(Depths(t))
<1>1. t \in Side  BY OppositeIs
<1>2. Shelved(data, B, locator) /\ Tracks(data, meta)  BY DEF BookRight
<1>3. data \in Pools /\ locator \in Tables /\ meta \in Remainders  BY <1>2 DEF Shelved, Tracks
<1>4. Flat(t, es, idx) /\ (\A i \in 1..Len(es) : es[i].queue # <<>>)  BY <1>1 DEF BookRight
<1>5. B \in [Side -> Shelves] /\ WithSide(B, t, Shelf(es, idx)) = B  BY <1>1, ByPriceIs
<1>6. /\ start.remaining = quantity /\ start.data = data /\ start.locator = locator
      /\ start.fills = <<>> /\ start.fb.entries = es /\ start.fb.index = idx
  BY DEF FlatBook, SweepStart
<1>7. start \in Rounds
  <2>1. es \in Seq(Level) /\ idx \in Indices  BY <1>4, IndexIs
  <2>2. start = [remaining |-> quantity, data |-> data, locator |-> locator, fills |-> <<>>,
                 fb |-> [entries |-> es, index |-> idx]]
    BY DEF FlatBook, SweepStart
  <2>3. <<>> \in Seq(Fill)  OBVIOUS
  <2> HIDE DEF start, es, idx
  <2>4. QED  BY <1>3, <2>1, <2>2, <2>3, RoundIs
<1>8. After(meta, <<>>) = meta
  <2>1. <<>> \in Seq(Fill) /\ Len(<<>>) = 0  OBVIOUS
  <2>2. Reductions(meta, <<>>)[0] = meta  BY <1>3, <2>1, ReductionsIs
  <2>3. QED  BY <2>1, <2>2 DEF After
<1>9. /\ prices \in Seq(Ticks) /\ \A i, j \in 1..Len(prices) : prices[i] = prices[j] => i = j
      /\ \A i \in 1..Len(prices) : prices[i] \in DOMAIN idx
  BY <1>4, ReachableIs
<1>10. /\ Len(prices) \in 0..Len(es) /\ \A i \in 1..Len(prices) : prices[i] = es[i].price
  BY <1>4, ReachableAll
<1>11. /\ Len(es) \in Nat /\ A[0] = 0 /\ \A i \in 0..Len(es) : A[i] \in Int
       /\ \A i \in 1..Len(es) : /\ Abstract!Depth(QueueAt(t, es[i].price)) \in Int
                                /\ A[i] = A[i - 1] + Abstract!Depth(QueueAt(t, es[i].price))
  BY <1>1, DepthsIs
<1>12. \A p : QueueAt(t, p) = QueueIn(data, Shelf(es, idx), p)  BY <1>1, QueuesNow
<1> HIDE DEF start, es, idx, B, A
<1>13. RoundRight(start, B, t, meta)
  BY <1>2, <1>4, <1>5, <1>6, <1>7, <1>8 DEF RoundRight
<1>14. \A i \in 1..Len(prices) : prices[i] \in DOMAIN start.fb.index  BY <1>6, <1>9
<1>15. \A i \in 0..Len(prices) : A[i] \in Int  BY <1>10, <1>11
<1>16. \A i \in 1..Len(prices) :
         LET depth == Abstract!Depth(QueueIn(start.data, Shelf(start.fb.entries, start.fb.index), prices[i]))
         IN depth \in Int /\ A[i] = A[i - 1] + depth
  <2>1. \A i \in 1..Len(prices) : i \in 1..Len(es)  BY <1>10, <1>11
  <2>2. QED  BY <1>6, <1>10, <1>11, <1>12, <2>1
<1>17. LevelsDone(FillLevels(start, prices)[Len(prices)], start, B, t, prices, A, quantity, Len(prices))
  BY <1>1, <1>3, <1>5, <1>6, <1>9, <1>11, <1>13, <1>14, <1>15, <1>16, LevelsSwept
<1>18. QED  BY <1>17 DEF SweepEnd, start, B, A

\* The i-th price the sweep visits and the limit book: the same is left and the
\* same is executed.
LEMMA SameAtLevel ==
  ASSUME BookRight(data, entries, index, locator, meta), NEW t \in Side, NEW quantity \in Nat,
         NEW es, es = entries[t], NEW prices, NEW i \in 1..Len(es), prices[i] = es[i].price
  PROVE  LET A == Running(Depths(t))
             f == Shelf(es, index[t])
         IN /\ LeftAt(data, f, prices, A, quantity, i) = LeftBy(t, es[i].price, quantity)
            /\ SoldAt(data, f, prices, A, quantity, i) = SoldBy(t, es[i].price, quantity)
<1> DEFINE A == Running(Depths(t))
           f == Shelf(es, index[t])
           p == es[i].price
<1>1. /\ A[0] = 0
      /\ \A j \in 1..Len(es) : A[j] = A[j - 1] + Abstract!Depth(QueueAt(t, es[j].price))
  BY DepthsIs
<1>2. es \in Seq(Level) /\ Sorted(t, es) /\ Flat(t, es, index[t])  BY DEF BookRight, Flat
<1>3. p \in Ticks  BY <1>2, FlatHas
<1>4. Leading(t, es, p) = i - 1  BY <1>2, LeadingIs
<1> HIDE DEF A, p
<1>5. \A q \in Ticks : Abstract!Ahead(t)[q] = A[Leading(t, es, q)]  BY <1>1, AheadIs
<1>6. Abstract!Ahead(t)[p] = A[i - 1]  BY <1>3, <1>4, <1>5
<1>7. QueueAt(t, p) = QueueIn(data, f, p)  BY QueuesNow
<1>8. prices[i] = p  BY DEF p
<1> HIDE DEF f
<1>9. LeftAt(data, f, prices, A, quantity, i) = LeftBy(t, p, quantity)
  BY <1>6, <1>7, <1>8 DEF LeftAt, LeftBy
<1>10. SoldAt(data, f, prices, A, quantity, i) = SoldBy(t, p, quantity)
  BY <1>6, <1>7, <1>8 DEF SoldAt, SoldBy
<1>11. QED  BY <1>9, <1>10 DEF A, f, p

\* At a tick without orders the limit book leaves none and executes nothing.
LEMMA NothingBy ==
  ASSUME BookRight(data, entries, index, locator, meta), NEW t \in Side, NEW quantity \in Nat,
         NEW p \in Ticks, QueueAt(t, p) = <<>>
  PROVE  LeftBy(t, p, quantity) = <<>> /\ SoldBy(t, p, quantity) = {}
<1> DEFINE A == Running(Depths(t))
           es == entries[t]
           left == quantity - Abstract!Ahead(t)[p]
<1>1. /\ A[0] = 0 /\ \A i \in 0..Len(es) : A[i] \in Int
      /\ \A j \in 1..Len(es) : A[j] = A[j - 1] + Abstract!Depth(QueueAt(t, es[j].price))
  BY DepthsIs
<1>2. es \in Seq(Level) /\ Sorted(t, es)  BY DEF BookRight, Flat
<1>3. Leading(t, es, p) \in 0..Len(es)  BY <1>2, LeadingIs
<1> HIDE DEF A
<1>4. Abstract!Ahead(t)[p] = A[Leading(t, es, p)]
  <2>1. es = entries[t]  OBVIOUS
  <2> HIDE DEF es
  <2>2. QED  BY <1>1, <2>1, AheadIs
<1>5. left \in Int  BY <1>1, <1>3, <1>4
<1>6. LeftBy(t, p, quantity) = Abstract!Remainder(<<>>, left)[Len(<<>>)]  BY DEF LeftBy
<1>7. SoldBy(t, p, quantity) = Abstract!Executed(<<>>, left, p, Len(<<>>))  BY DEF SoldBy
<1> HIDE DEF left
<1>8. QED  BY <1>5, <1>6, <1>7, NoOrders

\* The sweep leaves the queues that the limit book leaves and executes what it
\* executes.
LEMMA SweepDoes ==
  ASSUME BookRight(data, entries, index, locator, meta), NEW s \in Side, NEW limit \in Int,
         NEW quantity \in Nat, NEW t, t = Opposite(s), NEW end,
         end = SweepEnd(t, quantity, Reachable(s, limit))
  PROVE  LET g == Shelf(end.fb.entries, end.fb.index) IN
         /\ \A p \in Ticks : QueueIn(end.data, g, p) =
              IF Accepts(s, limit, p) THEN LeftBy(t, p, quantity) ELSE QueueAt(t, p)
         /\ \A p : QueueIn(end.data, Shelf(entries[s], index[s]), p) = QueueAt(s, p)
         /\ ToSet(end.fills) =
              UNION {SoldBy(t, p, quantity) : p \in {q \in Ticks : Accepts(s, limit, q)}}
<1> DEFINE B == ByPrice(entries, index)
           es == entries[t]
           f == Shelf(es, index[t])
           g == Shelf(end.fb.entries, end.fb.index)
           A == Running(Depths(t))
           prices == Reachable(s, limit)
           k == Len(prices)
           start == SweepStart(t, quantity)
           sold(i) == SoldAt(data, f, prices, A, quantity, i)
           left(i) == LeftAt(data, f, prices, A, quantity, i)
<1>1. t \in Side /\ s # t  BY OppositeIs
<1>2. LevelsDone(end, start, B, t, prices, A, quantity, k)  BY SweepDone
<1>3. /\ start.data = data /\ start.fills = <<>>
      /\ start.fb.entries = es /\ start.fb.index = index[t]
  BY DEF FlatBook, SweepStart
<1>4. B[s] = Shelf(entries[s], index[s])  BY DEF ByPrice
<1> HIDE DEF B, start, A, prices, g
<1>5. /\ \A i \in 1..k : QueueIn(end.data, g, prices[i]) = left(i)
      /\ \A r : (\A i \in 1..k : r # prices[i]) => QueueIn(end.data, g, r) = QueueIn(data, f, r)
      /\ \A r : QueueIn(end.data, B[s], r) = QueueIn(data, B[s], r)
      /\ ToSet(end.fills) = ToSet(<<>>) \cup UNION {sold(i) : i \in 1..k}
  <2> HIDE DEF es, k
  <2>1. /\ \A i \in 1..k : QueueIn(end.data, g, prices[i]) = left(i)
        /\ \A r : (\A i \in 1..k : r # prices[i]) => QueueIn(end.data, g, r) = QueueIn(data, f, r)
        /\ \A u \in Side : u # t => \A r : QueueIn(end.data, B[u], r) = QueueIn(data, B[u], r)
        /\ ToSet(end.fills) = ToSet(<<>>) \cup UNION {sold(i) : i \in 1..k}
    BY <1>2, <1>3 DEF LevelsDone, g
  <2>2. QED  BY <1>1, <2>1
<1>6. ToSet(<<>>) = {}  BY DEF ToSet
<1>7. Flat(t, es, index[t])  BY <1>1 DEF BookRight
<1>8. Len(es) \in Nat /\ \A i \in 1..Len(es) : es[i].price \in Ticks  BY <1>7, FlatHas
<1>9. /\ k \in 0..Len(es)
      /\ \A i \in 1..k : prices[i] = es[i].price /\ Accepts(s, limit, es[i].price)
      /\ \A i \in 1..Len(es) : Accepts(s, limit, es[i].price) => i \in 1..k
  BY <1>7, ReachableAll DEF prices
<1>10. /\ \A p : QueueAt(t, p) = QueueIn(data, f, p)
       /\ \A p : QueueAt(s, p) = QueueIn(data, B[s], p)
  BY <1>1, <1>4, QueuesNow
<1>11. \A p : QueueAt(t, p) # <<>> <=> \E i \in 1..Len(es) : es[i].price = p
  BY <1>1, QueueWhere
<1>12. \A i \in 1..k : left(i) = LeftBy(t, prices[i], quantity) /\ sold(i) = SoldBy(t, prices[i], quantity)
  <2>1. ASSUME NEW i \in 1..k
        PROVE  left(i) = LeftBy(t, prices[i], quantity) /\ sold(i) = SoldBy(t, prices[i], quantity)
    <3>1. i \in 1..Len(es) /\ prices[i] = es[i].price  BY <1>8, <1>9
    <3>2. QED  BY <1>1, <3>1, SameAtLevel DEF A
  <2>2. QED  BY <2>1
<1> HIDE DEF es, f, sold, left, k
<1>13. ASSUME NEW p \in Ticks, Accepts(s, limit, p), \A i \in 1..k : p # prices[i]
       PROVE  QueueAt(t, p) = <<>> /\ LeftBy(t, p, quantity) = <<>> /\ SoldBy(t, p, quantity) = {}
  <2>1. QueueAt(t, p) = <<>>
    <3>1. SUFFICES ASSUME QueueAt(t, p) # <<>> PROVE FALSE  OBVIOUS
    <3>2. PICK i \in 1..Len(es) : es[i].price = p  BY <1>11, <3>1
    <3>3. QED  BY <1>9, <1>13, <3>2
  <2>2. QED  BY <1>1, <2>1, NothingBy
<1>14. \A i \in 1..k : prices[i] \in Ticks /\ Accepts(s, limit, prices[i])  BY <1>8, <1>9
<1>15. ASSUME NEW p \in Ticks
       PROVE  QueueIn(end.data, g, p) = IF Accepts(s, limit, p) THEN LeftBy(t, p, quantity) ELSE QueueAt(t, p)
  <2>1. CASE \E i \in 1..k : p = prices[i]  BY <1>5, <1>12, <1>14, <2>1
  <2>2. CASE \A i \in 1..k : p # prices[i]  BY <1>5, <1>10, <1>13, <2>2
  <2>3. QED  BY <2>1, <2>2
<1>16. UNION {sold(i) : i \in 1..k} = UNION {SoldBy(t, p, quantity) : p \in {q \in Ticks : Accepts(s, limit, q)}}
  <2> DEFINE U == UNION {sold(i) : i \in 1..k}
             V == UNION {SoldBy(t, p, quantity) : p \in {q \in Ticks : Accepts(s, limit, q)}}
  <2>1. \A X : X \in U <=> \E i \in 1..k : X \in sold(i)  OBVIOUS
  <2>2. \A X : X \in V <=> \E p \in Ticks : Accepts(s, limit, p) /\ X \in SoldBy(t, p, quantity)
    OBVIOUS
  <2> HIDE DEF U, V
  <2>3. \A X : X \in U => X \in V  BY <1>12, <1>14, <2>1, <2>2
  <2>4. ASSUME NEW X, X \in V PROVE X \in U
    <3>1. PICK p \in Ticks : Accepts(s, limit, p) /\ X \in SoldBy(t, p, quantity)  BY <2>2, <2>4
    <3>2. PICK i \in 1..k : p = prices[i]  BY <1>13, <3>1
    <3>3. QED  BY <1>12, <2>1, <3>1, <3>2
  <2>5. U = V  BY <2>3, <2>4
  <2>6. QED  BY <2>5 DEF U, V
<1>17. QED  BY <1>4, <1>5, <1>6, <1>10, <1>15, <1>16 DEF g

\* execute_order sweeps the limit book.
LEMMA ExecuteSweeps ==
  ASSUME BookRight(data, entries, index, locator, meta),
         NEW s \in Side, NEW raw \in RawPrices \cup {0}, NEW size \in Sizes,
         ExecuteOrder(s, raw, size)
  PROVE  Abstract!Next
<1> DEFINE t == Opposite(s)
           limit == IF raw > 0 THEN ToTicks(raw) ELSE 0
           quantity == Qty(size)
           end == SweepEnd(t, quantity, Reachable(s, limit))
           g == Shelf(end.fb.entries, end.fb.index)
           opp == Abstract!Opposite(s)
           Left(p) == Abstract!Remainder(Queues[opp][p], quantity - Abstract!Ahead(opp)[p])
                        [Len(Queues[opp][p])]
           Sold(p) == Abstract!Executed(Queues[opp][p], quantity - Abstract!Ahead(opp)[p], p,
                                        Len(Queues[opp][p]))
<1>1. t \in Side /\ s # t /\ \A u \in Side : u = s \/ u = t
  <2>1. t \in Side /\ s # t  BY OppositeIs
  <2>2. QED  BY <2>1 DEF Side
<1>2. limit \in {0} \cup Ticks /\ limit \in Int
  <2>1. CASE raw > 0
    <3>1. raw \in RawPrices  BY <2>1
    <3>2. limit \in Ticks  BY <2>1, <3>1 DEF Ticks
    <3> HIDE DEF limit
    <3>3. QED  BY <3>2, TicksAreInts
  <2>2. CASE ~(raw > 0)  BY <2>2
  <2>3. QED  BY <2>1, <2>2
<1>3. quantity \in Nat /\ quantity \in Quantities
  BY QtyIs, SizesAssumption, QuantitiesAssumption
<1>4. /\ data' = end.data /\ fills' = end.fills
      /\ entries' = [entries EXCEPT ![t] = end.fb.entries]
      /\ index' = [index EXCEPT ![t] = end.fb.index]
  BY DEF ExecuteOrder, Match, SweepEnd, SweepStart
<1>5. BookRight(data', entries', index', locator', meta')  BY ExecuteKeeps
<1> HIDE DEF t, limit, quantity, end
<1>6. entries = [u \in Side |-> entries[u]] /\ index = [u \in Side |-> index[u]]
  BY DEF BookRight
<1>7. /\ entries'[t] = end.fb.entries /\ index'[t] = end.fb.index
      /\ entries'[s] = entries[s] /\ index'[s] = index[s]
  BY <1>1, <1>4, <1>6
<1>8. /\ \A p \in Ticks : QueueIn(end.data, g, p) =
           IF Accepts(s, limit, p) THEN LeftBy(t, p, quantity) ELSE QueueAt(t, p)
      /\ \A p : QueueIn(end.data, Shelf(entries[s], index[s]), p) = QueueAt(s, p)
      /\ ToSet(end.fills) =
           UNION {SoldBy(t, p, quantity) : p \in {q \in Ticks : Accepts(s, limit, q)}}
  BY <1>2, <1>3, SweepDoes DEF t, end
<1>9. \A u \in Side : \A p : QueueAt(u, p)' = QueueIn(data', Shelf(entries'[u], index'[u]), p)
  BY <1>5, QueuesNext
<1>10. /\ \A p \in Ticks : QueueAt(t, p)' =
            IF Accepts(s, limit, p) THEN LeftBy(t, p, quantity) ELSE QueueAt(t, p)
       /\ \A p : QueueAt(s, p)' = QueueAt(s, p)
  BY <1>1, <1>4, <1>7, <1>8, <1>9
<1> HIDE DEF g
<1>11. \A p : Abstract!Accepts(s, limit, p) <=> Accepts(s, limit, p)
  BY DEF Abstract!Accepts, Accepts
<1>12. opp = t  BY DEF Abstract!Opposite, Opposite, t
<1>13. \A p \in Ticks : Queues[opp][p] = QueueAt(t, p)  BY <1>1, <1>12 DEF Queues
<1> HIDE DEF opp
<1>14. \A p \in Ticks : Left(p) = LeftBy(t, p, quantity) /\ Sold(p) = SoldBy(t, p, quantity)
  BY <1>12, <1>13 DEF LeftBy, SoldBy
<1> HIDE DEF Left, Sold
<1>15. Queues' = [Queues EXCEPT ![opp] = [p \in Ticks |-> IF Abstract!Accepts(s, limit, p) THEN Left(p)
                                                         ELSE Queues[opp][p]]]
  <2> DEFINE F == [p \in Ticks |-> IF Abstract!Accepts(s, limit, p) THEN Left(p) ELSE Queues[opp][p]]
  <2>1. Queues = [u \in Side |-> Queues[u]] /\ \A u \in Side : Queues[u] = [p \in Ticks |-> QueueAt(u, p)]
    BY DEF Queues
  <2>2. Queues' = [u \in Side |-> Queues'[u]] /\ \A u \in Side : Queues'[u] = [p \in Ticks |-> QueueAt(u, p)']
    BY DEF Queues
  <2>3. Queues'[s] = Queues[s]
    <3>1. Queues'[s] = [p \in Ticks |-> QueueAt(s, p)']  BY <2>2
    <3>2. Queues[s] = [p \in Ticks |-> QueueAt(s, p)]  BY <2>1
    <3>3. QED  BY <1>10, <3>1, <3>2
  <2>4. Queues'[t] = F
    <3>1. Queues'[t] = [p \in Ticks |-> QueueAt(t, p)']  BY <1>1, <2>2
    <3>2. \A p \in Ticks : QueueAt(t, p)' = IF Abstract!Accepts(s, limit, p) THEN Left(p) ELSE Queues[opp][p]
      BY <1>10, <1>11, <1>13, <1>14
    <3>3. QED  BY <3>1, <3>2
  <2> HIDE DEF F
  <2>5. \A u \in Side : Queues'[u] = [Queues EXCEPT ![opp] = F][u]
    BY <1>1, <1>12, <2>1, <2>3, <2>4
  <2>6. [Queues EXCEPT ![opp] = F] = [u \in Side |-> [Queues EXCEPT ![opp] = F][u]]
    BY <2>1
  <2>7. Queues' = [Queues EXCEPT ![opp] = F]  BY <2>2, <2>5, <2>6
  <2>8. QED  BY <2>7 DEF F
<1>16. ToSet(fills') = UNION {Sold(p) : p \in {q \in Ticks : Abstract!Accepts(s, limit, q)}}
  <2>1. {q \in Ticks : Abstract!Accepts(s, limit, q)} = {q \in Ticks : Accepts(s, limit, q)}
    BY <1>11
  <2>2. ToSet(fills') = UNION {SoldBy(t, p, quantity) : p \in {q \in Ticks : Abstract!Accepts(s, limit, q)}}
    BY <1>4, <1>8, <2>1
  <2>3. \A p \in {q \in Ticks : Abstract!Accepts(s, limit, q)} : Sold(p) = SoldBy(t, p, quantity)
    BY <1>14
  <2>4. {Sold(p) : p \in {q \in Ticks : Abstract!Accepts(s, limit, q)}}
        = {SoldBy(t, p, quantity) : p \in {q \in Ticks : Abstract!Accepts(s, limit, q)}}
    BY <2>3
  <2>5. QED  BY <2>2, <2>4
<1>17. Abstract!Sweep(s, limit, quantity)
  BY <1>15, <1>16 DEF Abstract!Sweep, Queues, Left, Sold, opp
<1>18. s \in Abstract!Side  BY DEF Abstract!Side, Side
<1>19. QED  BY <1>2, <1>3, <1>17, <1>18 DEF Abstract!Next

-----------------------------------------------------------------------------
(* The other calls of the two books *)

\* One queue of the limit book changes.
LEMMA QueuePut ==
  ASSUME NEW s \in Side, NEW p \in Ticks, NEW x, QueueAt(s, p)' = x,
         \A u \in Side : \A r : u # s \/ r # p => QueueAt(u, r)' = QueueAt(u, r)
  PROVE  Queues' = [Queues EXCEPT ![s][p] = x]
<1> DEFINE F == [Queues EXCEPT ![s][p] = x]
<1>1. Queues = [u \in Side |-> Queues[u]] /\ \A u \in Side : Queues[u] = [r \in Ticks |-> QueueAt(u, r)]
  BY DEF Queues
<1>2. Queues' = [u \in Side |-> Queues'[u]] /\ \A u \in Side : Queues'[u] = [r \in Ticks |-> QueueAt(u, r)']
  BY DEF Queues
<1>3. /\ F = [u \in Side |-> F[u]] /\ F[s] = [Queues[s] EXCEPT ![p] = x]
      /\ \A u \in Side : u # s => F[u] = Queues[u]
  BY <1>1
<1> HIDE DEF F
<1>4. \A u \in Side : u # s => Queues'[u] = F[u]
  <2>1. ASSUME NEW u \in Side, u # s PROVE Queues'[u] = F[u]
    <3>1. Queues'[u] = [r \in Ticks |-> QueueAt(u, r)']  BY <1>2
    <3>2. Queues[u] = [r \in Ticks |-> QueueAt(u, r)]  BY <1>1
    <3>3. \A r \in Ticks : QueueAt(u, r)' = QueueAt(u, r)  BY <2>1
    <3>4. Queues'[u] = Queues[u]  BY <3>1, <3>2, <3>3
    <3>5. QED  BY <1>3, <2>1, <3>4
  <2>2. QED  BY <2>1
<1>5. Queues'[s] = F[s]
  <2>1. Queues'[s] = [r \in Ticks |-> QueueAt(s, r)']  BY <1>2
  <2>2. Queues[s] = [r \in Ticks |-> QueueAt(s, r)]  BY <1>1
  <2>3. \A r \in Ticks : QueueAt(s, r)' = IF r = p THEN x ELSE QueueAt(s, r)  OBVIOUS
  <2>4. [Queues[s] EXCEPT ![p] = x] = [r \in Ticks |-> IF r = p THEN x ELSE QueueAt(s, r)]
    BY <2>2
  <2>5. QED  BY <1>3, <2>1, <2>3, <2>4
<1>6. \A u \in Side : Queues'[u] = F[u]  BY <1>4, <1>5
<1>7. Queues' = F  BY <1>2, <1>3, <1>6
<1>8. QED  BY <1>7 DEF F

\* levelFor changes no queue.
LEMMA OpenStands ==
  ASSUME NEW s \in Side, NEW es, NEW idx, Flat(s, es, idx), NEW p \in Ticks,
         NEW fb, fb = LevelFor(s, [entries |-> es, index |-> idx], p)
  PROVE  \A r : Standing(Shelf(fb.entries, fb.index), r) = Standing(Shelf(es, idx), r)
<1> DEFINE f == Shelf(es, idx)
           g == Shelf(fb.entries, fb.index)
<1>1. CASE p \in DOMAIN idx
  <2>1. fb = [entries |-> es, index |-> idx]  BY <1>1 DEF LevelFor
  <2>2. fb.entries = es /\ fb.index = idx  BY <2>1
  <2>3. QED  BY <2>2
<1>2. CASE p \notin DOMAIN idx
  <2>1. g = Placed(f, p, EmptyLevel(p))  BY <1>2, LevelForIs
  <2>2. DOMAIN f = DOMAIN idx  BY ShelfOfFlat
  <2>3. EmptyLevel(p).queue = <<>>  BY DEF EmptyLevel
  <2> HIDE DEF f, g
  <2>4. \A r : Standing(g, r) = Standing(f, r)  BY <1>2, <2>1, <2>2, <2>3 DEF Standing, Placed
  <2>5. QED  BY <2>4 DEF f, g
<1>3. QED  BY <1>1, <1>2

\* enqueue_order puts its node at the end of one queue and changes no other.
LEMMA EnqueueStands ==
  ASSUME BookRight(data, entries, index, locator, meta),
         NEW id \in Ids, NEW s \in Side, NEW raw \in RawPrices \ {0}, NEW size \in Sizes,
         NEW node \in Nodes, Enqueue(id, s, raw, size, node), NEW p, p = ToTicks(raw)
  PROVE  /\ data' = Acquire(data, node, [id |-> id, qty |-> Qty(size)]) /\ node \notin DOMAIN data
         /\ fills' = <<>> /\ p \in Ticks /\ Qty(size) \in Nat
         /\ \A u \in Side : u # s => entries'[u] = entries[u] /\ index'[u] = index[u]
         /\ \A r : Standing(Shelf(entries'[s], index'[s]), r) =
              IF r = p THEN Append(Standing(Shelf(entries[s], index[s]), p), node)
              ELSE Standing(Shelf(entries[s], index[s]), r)
<1> DEFINE fb == LevelFor(s, [entries |-> entries[s], index |-> index[s]], p)
           es == fb.entries
           idx == fb.index
           pos == idx[p]
           e == Shelf(entries[s], index[s])
           f == Shelf(es, idx)
           level == LevelAppend(es[pos], node, Qty(size))
           es2 == [es EXCEPT ![pos] = level]
<1>1. /\ entries = [u \in Side |-> entries[u]] /\ index = [u \in Side |-> index[u]]
      /\ Flat(s, entries[s], index[s]) /\ \A i \in 1..Len(entries[s]) : entries[s][i].queue # <<>>
      /\ Shelved(data, ByPrice(entries, index), locator)
  BY DEF BookRight
<1>2. p \in Ticks  BY DEF Ticks
<1>3. Qty(size) \in Nat  BY QtyIs, SizesAssumption
<1>4. /\ data' = Acquire(data, node, [id |-> id, qty |-> Qty(size)]) /\ node \notin DOMAIN data
      /\ fills' = <<>>
      /\ entries' = [entries EXCEPT ![s] = es2]
      /\ index' = [index EXCEPT ![s] = idx]
  BY DEF Enqueue, AddLimitOrder, FlatBook
<1>5. WithSide(ByPrice(entries, index), s, e) = ByPrice(entries, index) /\ ByPrice(entries, index) \in [Side -> Shelves]
  BY ByPriceIs
<1>6. Flat(s, es, idx) /\ p \in DOMAIN idx
  BY <1>1, <1>2, <1>5, OpenKeeps
<1>7. \A r : Standing(f, r) = Standing(e, r)  BY <1>1, <1>2, OpenStands
<1> HIDE DEF fb, es, idx, e
<1>8. /\ DOMAIN f = DOMAIN idx /\ f[p] = es[pos] /\ es[pos] \in Level /\ es[pos].price = p
  BY <1>6, ShelfOfFlat, FlatHas
<1> HIDE DEF f, pos
<1>9. level \in Level /\ level.price = p /\ level.queue = Append(es[pos].queue, node)
  BY <1>3, <1>8, LevelAppendIs
<1> HIDE DEF level
<1>10. Shelf(es2, idx) = Placed(f, p, level)  BY <1>6, <1>9, FlatWrite DEF pos, f
<1> HIDE DEF es2
<1>11. entries'[s] = es2 /\ index'[s] = idx
       /\ \A u \in Side : u # s => entries'[u] = entries[u] /\ index'[u] = index[u]
  BY <1>1, <1>4
<1>12. \A r : Standing(Placed(f, p, level), r) = IF r = p THEN level.queue ELSE Standing(f, r)
  BY DEF Standing, Placed
<1>13. Standing(f, p) = es[pos].queue  BY <1>6, <1>8 DEF Standing
<1>14. \A r : Standing(Shelf(es2, idx), r) = IF r = p THEN Append(Standing(e, p), node) ELSE Standing(e, r)
  BY <1>7, <1>9, <1>10, <1>12, <1>13
<1>15. QED  BY <1>2, <1>3, <1>4, <1>11, <1>14 DEF e

\* A new order of the pool joins the orders of a queue, or does not.
LEMMA OrdersAcquire ==
  ASSUME NEW D \in Pools, NEW q \in Seq(Nodes), \A i \in 1..Len(q) : q[i] \in DOMAIN D,
         NEW n \in Nodes, n \notin DOMAIN D, NEW o \in Order
  PROVE  /\ OrdersIn(Acquire(D, n, o), q) = OrdersIn(D, q)
         /\ OrdersIn(Acquire(D, n, o), Append(q, n)) = Append(OrdersIn(D, q), o)
<1> DEFINE E == Acquire(D, n, o)
           l == Len(q)
           more == Append(q, n)
<1>1. E[n] = o /\ \A m \in DOMAIN D : E[m] = D[m]  BY AcquireIs
<1> HIDE DEF E
<1>2. \A i \in 1..l : E[q[i]] = D[q[i]]  BY <1>1
<1>3. OrdersIn(E, q) = OrdersIn(D, q)  BY <1>2 DEF OrdersIn
<1>4. /\ l \in Nat /\ more \in Seq(Nodes) /\ Len(more) = l + 1 /\ more[l + 1] = n
      /\ \A i \in 1..l : more[i] = q[i]
  OBVIOUS
<1>5. \A i \in 1..l : D[q[i]] \in Order  BY PoolHas
<1>6. OrdersIn(D, q) \in Seq(Order) /\ Len(OrdersIn(D, q)) = l
      /\ \A i \in 1..l : OrdersIn(D, q)[i] = D[q[i]]
  <2>1. OrdersIn(D, q) \in [1..l -> Order]  BY <1>5 DEF OrdersIn
  <2>2. OrdersIn(D, q) \in Seq(Order) /\ Len(OrdersIn(D, q)) = l  BY <1>4, <2>1
  <2>3. QED  BY <2>2 DEF OrdersIn
<1> HIDE DEF more, l
<1>7. OrdersIn(E, more) \in Seq(Order) /\ Len(OrdersIn(E, more)) = l + 1
      /\ OrdersIn(E, more)[l + 1] = o /\ \A i \in 1..l : OrdersIn(E, more)[i] = D[q[i]]
  <2> DEFINE x == OrdersIn(E, more)
  <2>1. x = [k \in 1..(l + 1) |-> E[more[k]]]  BY <1>4 DEF OrdersIn
  <2>2. l + 1 \in 1..(l + 1) /\ \A i \in 1..l : i \in 1..(l + 1)  BY <1>4
  <2>3. \A i \in 1..(l + 1) : i \in 1..l \/ i = l + 1  BY <1>4
  <2> HIDE DEF x
  <2>4. x[l + 1] = o /\ \A i \in 1..l : x[i] = D[q[i]]  BY <1>1, <1>2, <1>4, <2>1, <2>2
  <2>5. x \in [1..(l + 1) -> Order]  BY <1>5, <2>1, <2>3, <2>4
  <2>6. x \in Seq(Order) /\ Len(x) = l + 1  BY <1>4, <2>5
  <2>7. QED  BY <2>4, <2>6 DEF x
<1>8. OrdersIn(E, more) = Append(OrdersIn(D, q), o)  BY <1>6, <1>7, AppendIs
<1>9. QED  BY <1>3, <1>8 DEF E, more

\* enqueue_order adds to the limit book.
LEMMA EnqueueAdds ==
  ASSUME BookRight(data, entries, index, locator, meta),
         NEW id \in Ids, NEW s \in Side, NEW raw \in RawPrices \ {0}, NEW size \in Sizes,
         NEW node \in Nodes, Enqueue(id, s, raw, size, node)
  PROVE  Abstract!Next
<1> DEFINE p == ToTicks(raw)
           o == [id |-> id, qty |-> Qty(size)]
           Old(u, r) == Standing(Shelf(entries[u], index[u]), r)
           New(u, r) == Standing(Shelf(entries'[u], index'[u]), r)
<1>1. /\ data' = Acquire(data, node, o) /\ node \notin DOMAIN data
      /\ fills' = <<>> /\ p \in Ticks /\ Qty(size) \in Nat
      /\ \A u \in Side : u # s => entries'[u] = entries[u] /\ index'[u] = index[u]
      /\ \A r : New(s, r) = IF r = p THEN Append(Old(s, p), node) ELSE Old(s, r)
  BY EnqueueStands
<1>2. o \in Order  BY <1>1 DEF Order
<1>3. data \in Pools  BY DEF BookRight, Shelved
<1>4. \A u \in Side : \A r : Old(u, r) \in Seq(Nodes) /\ \A i \in 1..Len(Old(u, r)) : Old(u, r)[i] \in DOMAIN data
  BY StandsIn
<1>5. BookRight(data', entries', index', locator', meta')  BY EnqueueKeeps
<1> HIDE DEF o
<1>6. \A u \in Side : \A r : QueueAt(u, r) = OrdersIn(data, Old(u, r))
  BY QueuesNow DEF QueueIn
<1>7. \A u \in Side : \A r : QueueAt(u, r)' = OrdersIn(data', New(u, r))
  BY <1>5, QueuesNext DEF QueueIn
<1>8. \A u \in Side : \A r : u # s \/ r # p => New(u, r) = Old(u, r)  BY <1>1
<1> HIDE DEF Old, New, p
<1>9. ASSUME NEW u \in Side, NEW r
      PROVE  /\ OrdersIn(data', Old(u, r)) = OrdersIn(data, Old(u, r))
             /\ OrdersIn(data', Append(Old(u, r), node)) = Append(OrdersIn(data, Old(u, r)), o)
  BY <1>1, <1>2, <1>3, <1>4, OrdersAcquire
<1>10. QueueAt(s, p)' = Append(QueueAt(s, p), o)
  <2> DEFINE q == Old(s, p)
  <2>1. New(s, p) = Append(q, node)  BY <1>1
  <2>2. OrdersIn(data', Append(q, node)) = Append(OrdersIn(data, q), o)  BY <1>9
  <2>3. QueueAt(s, p)' = OrdersIn(data', New(s, p))  BY <1>7
  <2>4. QueueAt(s, p) = OrdersIn(data, q)  BY <1>6
  <2> HIDE DEF q
  <2>5. QED  BY <2>1, <2>2, <2>3, <2>4
<1>11. \A u \in Side : \A r : u # s \/ r # p => QueueAt(u, r)' = QueueAt(u, r)
  BY <1>6, <1>7, <1>8, <1>9
<1>12. Queues' = [Queues EXCEPT ![s][p] = Append(QueueAt(s, p), o)]
  BY <1>1, <1>10, <1>11, QueuePut
<1>13. Queues[s][p] = QueueAt(s, p)  BY <1>1 DEF Queues
<1>14. Queues' = [Queues EXCEPT ![s][p] = Append(@, o)]  BY <1>12, <1>13
<1>15. ToSet(fills') = {}  BY <1>1 DEF ToSet
<1>16. Abstract!Add(id, s, p, Qty(size))  BY <1>14, <1>15 DEF Abstract!Add, Queues, o
<1>17. s \in Abstract!Side  BY DEF Abstract!Side, Side
<1>18. Qty(size) \in Quantities  BY QuantitiesAssumption
<1>19. QED  BY <1>1, <1>16, <1>17, <1>18 DEF Abstract!Next

\* Node n, which the locator of id leads to, leaves its queue; no other changes.
Unlinks(id, s, p, n) ==
  LET q == Standing(Shelf(entries[s], index[s]), p)
      Old(u, r) == Standing(Shelf(entries[u], index[u]), r)
      New(u, r) == Standing(Shelf(entries'[u], index'[u]), r)
  IN /\ s \in Side /\ p \in Ticks /\ n \in DOMAIN data /\ data[n].id = id
     /\ IsInjective(q) /\ q = ByPrice(entries, index)[s][p].queue
     /\ p \in DOMAIN ByPrice(entries, index)[s]
     /\ data' = Release(data, n) /\ fills' = <<>>
     /\ \A u \in Side : u # s => entries'[u] = entries[u] /\ index'[u] = index[u]
     /\ \E k \in 1..Len(q) : q[k] = n /\
          \A r : New(s, r) = IF r = p THEN RemoveAt(q, k) ELSE Old(s, r)

\* cancel_order unlinks one node from its queue and changes no other queue.
LEMMA CancelStands ==
  ASSUME BookRight(data, entries, index, locator, meta),
         NEW id \in Ids, Cancel(id), NEW s, s = locator[id].side, NEW p, p = locator[id].price,
         NEW n, n = locator[id].node
  PROVE  Unlinks(id, s, p, n)
<1> DEFINE es == entries[s]
           idx == index[s]
           pos == idx[p]
           B == ByPrice(entries, index)
           f == Shelf(es, idx)
           q == Standing(f, p)
           old == es[pos]
           level == LevelRemove(old, n, data[n].qty)
           es1 == [es EXCEPT ![pos] = level]
           fb == EraseIfEmpty([entries |-> es1, index |-> idx], p)
           E == Release(data, n)
           M == Forget(locator, id)
<1>1. Shelved(data, B, locator) /\ Tracks(data, meta)
      /\ entries = [u \in Side |-> entries[u]] /\ index = [u \in Side |-> index[u]]
  BY DEF BookRight
<1>2. /\ data \in Pools /\ B \in [Side -> Shelves] /\ locator \in Tables
      /\ LocatorsLead(data, B, locator) /\ UniqueFound(data, locator)
  BY <1>1 DEF Shelved
<1>3. locator[id] \in Located /\ s \in Side /\ p \in Ticks /\ n \in Nodes
  <2>1. locator[id].active  BY DEF Cancel
  <2>2. QED  BY <1>2, <2>1, LocatorIs
<1>4. /\ data' = E /\ fills' = <<>>
      /\ entries' = [entries EXCEPT ![s] = fb.entries]
      /\ index' = [index EXCEPT ![s] = fb.index]
  <2> DEFINE fb0 == [FlatBook(s) EXCEPT !.entries[pos] = LevelRemove(@, n, data[n].qty)]
  <2>1. fb0 = [entries |-> es1, index |-> idx]  BY DEF FlatBook
  <2>2. /\ data' = E /\ fills' = <<>>
        /\ entries' = [entries EXCEPT ![s] = EraseIfEmpty(fb0, p).entries]
        /\ index' = [index EXCEPT ![s] = EraseIfEmpty(fb0, p).index]
    BY DEF Cancel
  <2> HIDE DEF fb0, es1
  <2>3. QED  BY <2>1, <2>2
<1>5. Flat(s, es, idx) /\ (\A i \in 1..Len(es) : es[i].queue # <<>>)
  BY <1>3 DEF BookRight
<1>6. B[s] = f /\ DOMAIN B[s] = DOMAIN idx /\ WithSide(B, s, f) = B
  BY <1>3, ByPriceIs
<1>7. /\ p \in DOMAIN B[s] /\ data[n].id = id
      /\ \E k \in 1..Len(B[s][p].queue) : B[s][p].queue[k] = n
  BY <1>2, <1>3 DEF LocatorsLead
<1>8. q = B[s][p].queue  BY <1>6, <1>7 DEF Standing
<1> HIDE DEF B, E, M, fb, q, es, idx
<1>9. PICK k \in 1..Len(B[s][p].queue) : B[s][p].queue[k] = n  BY <1>7
<1>10. /\ IsInjective(B[s][p].queue) /\ n \in DOMAIN data
       /\ data[n].qty \in Nat /\ data[n].qty <= B[s][p].total
  BY <1>1, <1>3, <1>7, <1>9, ShelvedHas
<1>11. /\ p \in DOMAIN idx /\ B[s][p] = old /\ old \in Level /\ old.price = p
       /\ pos \in 1..Len(es) /\ es \in Seq(Level) /\ f \in Shelves
  BY <1>5, <1>6, <1>7, ShelfOfFlat, FlatHas, IndexIs
<1> HIDE DEF pos, old, f
<1>12. /\ level \in Level /\ level.price = p /\ level.queue = RemoveAt(old.queue, k)
       /\ old.total = level.total + data[n].qty
  BY <1>9, <1>10, <1>11, LevelRemoveIs
<1> HIDE DEF level
<1>13. /\ Flat(s, es1, idx) /\ Len(es1) = Len(es)
       /\ Shelf(es1, idx) = Placed(f, p, level)
  BY <1>5, <1>11, <1>12, FlatWrite DEF pos, f
<1>14. \A i \in 1..Len(es1) : i # idx[p] => es1[i].queue # <<>>
  <2>1. \A i \in 1..Len(es) : i # pos => es1[i] = es[i]  BY <1>11
  <2> HIDE DEF es1
  <2>2. QED  BY <1>5, <1>13, <2>1 DEF pos
<1> HIDE DEF es1
<1>15. Shelved(E, WithSide(B, s, Shelf(es1, idx)), M)
  <2>1. Shelved(E, Put(B, s, p, level), M)
    BY <1>1, <1>3, <1>7, <1>9, <1>11, <1>12, ShelvedRemove DEF E, M
  <2> DEFINE g == Shelf(es1, idx)
  <2>2. g = Placed(f, p, level)  BY <1>13
  <2> HIDE DEF g
  <2>3. Put(WithSide(B, s, f), s, p, level) = WithSide(B, s, g)  BY <1>2, <1>3, <1>11, <2>2, WithPut
  <2>4. QED  BY <1>6, <2>1, <2>3 DEF g
<1>16. \A r : Standing(Shelf(fb.entries, fb.index), r) = Standing(Shelf(es1, idx), r)
  <2>1. p \in DOMAIN idx /\ Flat(s, es1, idx) /\ B \in [Side -> Shelves] /\ s \in Side
    BY <1>2, <1>3, <1>11, <1>13
  <2> DEFINE rest == EraseIfEmpty([entries |-> es1, index |-> idx], p)
             es2 == rest.entries
             idx2 == rest.index
  <2>2. /\ rest = [entries |-> es2, index |-> idx2] /\ Flat(s, es2, idx2)
        /\ \A i \in 1..Len(es2) : es2[i].queue # <<>>
        /\ Shelved(E, WithSide(B, s, Shelf(es2, idx2)), M)
        /\ \A r \in DOMAIN idx : r # p => r \in DOMAIN idx2
        /\ \A r : Standing(Shelf(es2, idx2), r) = Standing(Shelf(es1, idx), r)
    BY <1>14, <1>15, <2>1, EraseKeeps
  <2>3. QED  BY <2>2 DEF fb
<1>17. \A r : Standing(Placed(f, p, level), r) = IF r = p THEN level.queue ELSE Standing(f, r)
  BY DEF Standing, Placed
<1>18. entries'[s] = fb.entries /\ index'[s] = fb.index
       /\ \A u \in Side : u # s => entries'[u] = entries[u] /\ index'[u] = index[u]
  BY <1>1, <1>3, <1>4
<1>19. \A r : Standing(Shelf(entries'[s], index'[s]), r) = IF r = p THEN RemoveAt(q, k) ELSE Standing(f, r)
  BY <1>8, <1>11, <1>12, <1>13, <1>16, <1>17, <1>18
<1>20. k \in 1..Len(q) /\ q[k] = n  BY <1>8, <1>9
<1>21. QED  BY <1>3, <1>4, <1>7, <1>8, <1>10, <1>18, <1>19, <1>20 DEF Unlinks, q, f, es, idx, E, B

\* An order leaves the orders of its queue.
LEMMA OrdersRelease ==
  ASSUME NEW D \in Pools, NEW q \in Seq(Nodes), IsInjective(q), \A i \in 1..Len(q) : q[i] \in DOMAIN D,
         NEW k \in 1..Len(q)
  PROVE  /\ OrdersIn(Release(D, q[k]), RemoveAt(q, k)) = RemoveAt(OrdersIn(D, q), k)
         /\ DOMAIN OrdersIn(D, q) = 1..Len(q) /\ OrdersIn(D, q)[k] = D[q[k]]
<1> DEFINE E == Release(D, q[k])
           l == Len(q)
           less == RemoveAt(q, k)
           orders == OrdersIn(D, q)
           x == OrdersIn(E, less)
           y == RemoveAt(orders, k)
<1>1. l \in Nat /\ DOMAIN q = 1..l /\ k \in 1..l  OBVIOUS
<1>2. \A m \in DOMAIN D : m # q[k] => E[m] = D[m]  BY ReleaseIs
<1>3. \A i \in 1..l : i # k => E[q[i]] = D[q[i]]
  <2> HIDE DEF E
  <2>1. \A i \in 1..l : i # k => q[i] # q[k]  BY <1>1 DEF IsInjective
  <2>2. QED  BY <1>2, <2>1
<1>4. /\ less \in Seq(Nodes) /\ Len(less) = l - 1
      /\ \A i \in 1..(l - 1) : less[i] = IF i < k THEN q[i] ELSE q[i + 1]
  BY RemoveAtIs
<1>5. orders \in Seq(Order) /\ Len(orders) = l /\ \A i \in 1..l : orders[i] = D[q[i]]
  <2>1. \A i \in 1..l : D[q[i]] \in Order  BY PoolHas
  <2>2. orders \in [1..l -> Order]  BY <2>1 DEF OrdersIn
  <2>3. orders \in Seq(Order) /\ Len(orders) = l  BY <1>1, <2>2
  <2>4. QED  BY <2>3 DEF OrdersIn
<1> HIDE DEF E, less, orders
<1>6. /\ y \in Seq(Order) /\ Len(y) = l - 1
      /\ \A i \in 1..(l - 1) : y[i] = IF i < k THEN orders[i] ELSE orders[i + 1]
  <2>1. k \in 1..Len(orders)  BY <1>1, <1>5
  <2> HIDE DEF l
  <2>2. QED  BY <1>5, <2>1, RemoveAtIs
<1>7. x = [i \in 1..(l - 1) |-> E[less[i]]]  BY <1>4 DEF OrdersIn
<1> HIDE DEF l, x, y
<1>8. \A i \in 1..(l - 1) : E[less[i]] = y[i]
  <2>1. ASSUME NEW i \in 1..(l - 1) PROVE E[less[i]] = y[i]
    <3>1. CASE i < k
      <4>1. i \in 1..l /\ i # k  BY <1>1, <3>1
      <4>2. less[i] = q[i] /\ y[i] = orders[i]  BY <1>4, <1>6, <3>1
      <4>3. QED  BY <1>3, <1>5, <4>1, <4>2
    <3>2. CASE ~(i < k)
      <4>1. i + 1 \in 1..l /\ i + 1 # k  BY <1>1, <3>2
      <4>2. less[i] = q[i + 1] /\ y[i] = orders[i + 1]  BY <1>4, <1>6, <3>2
      <4>3. QED  BY <1>3, <1>5, <4>1, <4>2
    <3>3. QED  BY <3>1, <3>2
  <2>2. QED  BY <2>1
<1>9. y = [i \in 1..(l - 1) |-> y[i]]  BY <1>6
<1>10. x = y  BY <1>7, <1>8, <1>9
<1>11. DOMAIN orders = 1..l /\ orders[k] = D[q[k]]  BY <1>1, <1>5
<1>12. QED  BY <1>10, <1>11 DEF x, y, E, less, orders, l

\* The limit book removes elements as the library does.
LEMMA RemovesSame == \A q, k : Abstract!RemoveAt(q, k) = RemoveAt(q, k)
BY DEF Abstract!RemoveAt, RemoveAt

\* cancel_order of the order the locator leads to cancels it in the limit book.
LEMMA CancelRemovesAt ==
  ASSUME BookRight(data, entries, index, locator, meta),
         NEW id \in Ids, Cancel(id), meta' = Popped(meta, id),
         NEW s, s = locator[id].side, NEW p, p = locator[id].price,
         NEW n, n = locator[id].node
  PROVE  Abstract!Next
<1> DEFINE B == ByPrice(entries, index)
           Old(u, r) == Standing(Shelf(entries[u], index[u]), r)
           New(u, r) == Standing(Shelf(entries'[u], index'[u]), r)
           q == Old(s, p)
<1>1. /\ s \in Side /\ p \in Ticks /\ n \in DOMAIN data /\ data[n].id = id
      /\ IsInjective(q) /\ q = B[s][p].queue /\ p \in DOMAIN B[s]
      /\ data' = Release(data, n) /\ fills' = <<>>
      /\ \A u \in Side : u # s => entries'[u] = entries[u] /\ index'[u] = index[u]
      /\ \E k \in 1..Len(q) : q[k] = n /\
           \A r : New(s, r) = IF r = p THEN RemoveAt(q, k) ELSE Old(s, r)
  <2>1. Unlinks(id, s, p, n)  BY CancelStands
  <2>2. QED  BY <2>1 DEF Unlinks
<1>2. data \in Pools /\ Shelved(data, B, locator)  BY DEF BookRight, Shelved
<1>3. \A u \in Side : \A r : Old(u, r) \in Seq(Nodes) /\ \A i \in 1..Len(Old(u, r)) : Old(u, r)[i] \in DOMAIN data
  BY StandsIn
<1>4. BookRight(data', entries', index', locator', meta')  BY CancelKeeps
<1>5. \A u \in Side : \A r : QueueAt(u, r) = OrdersIn(data, Old(u, r))
  BY QueuesNow DEF QueueIn
<1>6. \A u \in Side : \A r : QueueAt(u, r)' = OrdersIn(data', New(u, r))
  BY <1>4, QueuesNext DEF QueueIn
<1>7. \A u \in Side : \A r : B[u] = Shelf(entries[u], index[u])  BY DEF ByPrice
<1>8. \A u \in Side : \A r : u # s \/ r # p => New(u, r) = Old(u, r)  BY <1>1
<1>9. PICK k \in 1..Len(q) : q[k] = n /\ New(s, p) = RemoveAt(q, k)  BY <1>1
<1>10. \A u \in Side : \A r : u # s \/ r # p =>
         OrdersIn(data', Old(u, r)) = OrdersIn(data, Old(u, r))
  <2> DEFINE E == Release(data, n)
  <2>1. \A m \in DOMAIN data : m # n => E[m] = data[m]  BY <1>2, ReleaseIs
  <2>2. OnlyIn(B[s][p].queue, E, data)
    <3> HIDE DEF E, q
    <3>1. ASSUME NEW m \in DOMAIN data, \A i \in 1..Len(q) : m # q[i] PROVE E[m] = data[m]
      BY <1>9, <2>1, <3>1
    <3>2. QED  BY <1>1, <3>1 DEF OnlyIn
  <2> HIDE DEF E, B
  <2>3. OthersSame(E, data, B, s, p)  BY <1>1, <1>2, <2>2, OthersStay
  <2>4. \A u \in Side : \A r : u # s \/ r # p =>
          OrdersIn(E, Standing(B[u], r)) = OrdersIn(data, Standing(B[u], r))
    BY <2>3 DEF OthersSame
  <2>5. data' = E  BY <1>1 DEF E
  <2>6. QED  BY <1>7, <2>4, <2>5
<1> DEFINE orders == QueueAt(s, p)
<1>11. \A u \in Side : \A r : u # s \/ r # p => QueueAt(u, r)' = QueueAt(u, r)
  <2> HIDE DEF Old, New
  <2>1. QED  BY <1>5, <1>6, <1>8, <1>10
<1>12. /\ OrdersIn(Release(data, q[k]), RemoveAt(q, k)) = RemoveAt(OrdersIn(data, q), k)
       /\ DOMAIN OrdersIn(data, q) = 1..Len(q) /\ OrdersIn(data, q)[k] = data[q[k]]
  <2>1. q \in Seq(Nodes) /\ IsInjective(q) /\ \A i \in 1..Len(q) : q[i] \in DOMAIN data  BY <1>1, <1>3
  <2> HIDE DEF q
  <2>2. QED  BY <1>2, <2>1, OrdersRelease
<1>13. orders = OrdersIn(data, q)  BY <1>1, <1>5
<1>14. QueueAt(s, p)' = OrdersIn(data', RemoveAt(q, k))
  <2>1. QueueAt(s, p)' = OrdersIn(data', New(s, p))  BY <1>1, <1>6
  <2>2. QED  BY <1>9, <2>1
<1> HIDE DEF q, orders, Old, New, B
<1>15. QueueAt(s, p)' = RemoveAt(orders, k)  BY <1>1, <1>9, <1>12, <1>13, <1>14
<1>16. k \in DOMAIN orders /\ orders[k].id = id  BY <1>1, <1>9, <1>12, <1>13
<1>17. Queues' = [Queues EXCEPT ![s][p] = RemoveAt(orders, k)]
  BY <1>1, <1>11, <1>15, QueuePut
<1>18. Queues[s][p] = orders  BY <1>1 DEF Queues, orders
<1>19. Queues' = [Queues EXCEPT ![s][p] = Abstract!RemoveAt(@, k)]  BY <1>17, <1>18, RemovesSame
<1>20. k \in DOMAIN Queues[s][p] /\ Queues[s][p][k].id = id  BY <1>16, <1>18
<1>21. ToSet(fills') = {}  BY <1>1 DEF ToSet
<1>22. s \in Abstract!Side  BY <1>1 DEF Abstract!Side, Side
<1>23. Abstract!Cancel(id)
  <2>1. \E u \in Abstract!Side, r \in Ticks : \E i \in DOMAIN Queues[u][r] :
          /\ Queues[u][r][i].id = id
          /\ Queues' = [Queues EXCEPT ![u][r] = Abstract!RemoveAt(@, i)]
    BY <1>1, <1>19, <1>20, <1>22
  <2>2. QED  BY <1>21, <2>1 DEF Abstract!Cancel, Queues
<1>24. QED  BY <1>23 DEF Abstract!Next

\* cancel_order of an order that rests cancels it in the limit book.
LEMMA CancelRemoves ==
  ASSUME BookRight(data, entries, index, locator, meta),
         NEW id \in Ids, Cancel(id), meta' = Popped(meta, id)
  PROVE  Abstract!Next
<1>1. PICK s : s = locator[id].side  OBVIOUS
<1>2. PICK p : p = locator[id].price  OBVIOUS
<1>3. PICK n : n = locator[id].node  OBVIOUS
<1>4. QED  BY <1>1, <1>2, <1>3, CancelRemovesAt

\* A cancel that finds no order is refused by the limit book.
LEMMA UnknownRefuses ==
  ASSUME BookRight(data, entries, index, locator, meta),
         NEW id \in Ids, Unknown(id), fills' = <<>>,
         UNCHANGED <<data, entries, index, locator>>
  PROVE  Abstract!Next
<1> DEFINE B == ByPrice(entries, index)
           Old(u, r) == Standing(Shelf(entries[u], index[u]), r)
<1>1. Shelved(data, B, locator)  BY DEF BookRight
<1>2. /\ data \in Pools /\ locator \in Tables
      /\ LocatorsLead(data, B, locator) /\ UniqueFound(data, locator)
  BY <1>1 DEF Shelved
<1>3. locator[id] \notin Located
  <2>1. SUFFICES ASSUME locator[id] \in Located PROVE FALSE  OBVIOUS
  <2>2. locator[id].active /\ locator[id].side \in Side  BY <1>2, <2>1, LocatorIs
  <2>3. locator[id].price \notin DOMAIN index[locator[id].side]  BY <2>2 DEF Unknown
  <2>4. locator[id].price \in DOMAIN B[locator[id].side]  BY <1>2, <2>1 DEF LocatorsLead
  <2>5. DOMAIN B[locator[id].side] = DOMAIN index[locator[id].side]  BY <2>2, ByPriceIs
  <2>6. QED  BY <2>3, <2>4, <2>5
<1>4. id \in UniqueIds => \A x \in DOMAIN data : data[x].id # id
  BY <1>2, <1>3 DEF UniqueFound
<1>5. \A u \in Side : \A r : Old(u, r) \in Seq(Nodes) /\ \A i \in 1..Len(Old(u, r)) : Old(u, r)[i] \in DOMAIN data
  BY StandsIn
<1>6. \A u \in Side : \A r : QueueAt(u, r) = OrdersIn(data, Old(u, r))
  BY QueuesNow DEF QueueIn
<1> HIDE DEF Old, B
<1>7. \A u \in Side : \A r : /\ DOMAIN QueueAt(u, r) = 1..Len(Old(u, r))
                             /\ \A i \in 1..Len(Old(u, r)) : QueueAt(u, r)[i] = data[Old(u, r)[i]]
  BY <1>6 DEF OrdersIn
<1>8. id \in UniqueIds => \A u \in Side, r \in Ticks : \A i \in DOMAIN QueueAt(u, r) : QueueAt(u, r)[i].id # id
  BY <1>4, <1>5, <1>7
<1>9. \A u \in Side, r \in Ticks : Queues[u][r] = QueueAt(u, r)  BY DEF Queues
<1>10. id \in UniqueIds =>
         \A u \in Abstract!Side, r \in Ticks : \A i \in DOMAIN Queues[u][r] : Queues[u][r][i].id # id
  BY <1>8, <1>9 DEF Abstract!Side, Side
<1>11. Queues' = Queues  BY DEF Queues, QueueAt
<1>12. ToSet(fills') = {}  BY DEF ToSet
<1>13. Abstract!Refuse(id)  BY <1>10, <1>11, <1>12 DEF Abstract!Refuse, Queues
<1>14. QED  BY <1>13 DEF Abstract!Next

-----------------------------------------------------------------------------
(* The refinement *)

\* The empty book is the empty limit book.
LEMMA StartsEmpty ==
  ASSUME NativeInit
  PROVE  Abstract!Init
<1>1. entries = [s \in Side |-> <<>>] /\ fills = <<>>  BY DEF NativeInit, Init
<1>2. DOMAIN <<>> = {}  OBVIOUS
<1>3. \A s \in Side : \A p : QueueAt(s, p) = <<>>  BY <1>1, <1>2 DEF QueueAt
<1>4. Queues = [s \in Abstract!Side |-> [p \in Ticks |-> <<>>]]
  BY <1>3 DEF Queues, Abstract!Side, Side
<1>5. ToSet(fills) = {}  BY <1>1 DEF ToSet
<1>6. QED  BY <1>4, <1>5 DEF Abstract!Init, Queues

\* Every step of the book is a step of the limit book, or none.
LEMMA StepsImplement ==
  ASSUME BookInv, [NativeNext]_nativeVars
  PROVE  [Abstract!Next]_(Abstract!vars)
<1>1. BookRight(data, entries, index, locator, meta)  BY DEF BookInv
<1>2. ASSUME NEW id \in Ids, NEW s \in Side, NEW raw \in RawPrices \ {0}, NEW size \in Sizes,
             NEW node \in Nodes, Enqueue(id, s, raw, size, node)
      PROVE  Abstract!Next
  BY <1>1, <1>2, EnqueueAdds
<1>3. ASSUME NEW id \in Ids, CancelOrder(id) PROVE Abstract!Next
  <2>1. meta' = Popped(meta, id)  BY <1>3 DEF CancelOrder
  <2>2. CASE Cancel(id)  BY <1>1, <2>1, <2>2, CancelRemoves
  <2>3. CASE Unknown(id) /\ fills' = <<>> /\ UNCHANGED <<data, entries, index, locator>>
    BY <1>1, <2>3, UnknownRefuses
  <2>4. QED  BY <1>3, <2>2, <2>3 DEF CancelOrder
<1>4. ASSUME NEW s \in Side, NEW raw \in RawPrices \cup {0}, NEW size \in Sizes,
             ExecuteOrder(s, raw, size)
      PROVE  Abstract!Next
  BY <1>1, <1>4, ExecuteSweeps
<1>5. CASE UNCHANGED nativeVars
  <2>1. data' = data /\ entries' = entries /\ fills' = fills  BY <1>5 DEF nativeVars, vars
  <2>2. Queues' = Queues /\ ToSet(fills') = ToSet(fills)  BY <2>1 DEF Queues, QueueAt
  <2>3. QED  BY <2>2 DEF Abstract!vars, Queues
<1>6. QED  BY <1>2, <1>3, <1>4, <1>5 DEF NativeNext

\* The C++ book and its adapter implement the limit book: the levels, the pool and
\* the locator table hold a queue of orders for each side and price, in arrival
\* order; enqueue_order puts an order at the end of one; cancel_order takes the
\* named one out, or changes nothing; and what execute_order's loop over levels and
\* nodes executes is, order by order, what price-time priority gives
\* (OrderBook.cpp:15-150, order_book.py, CppOrderBook).
THEOREM PriorityHolds == NativeSpec => ImplementsLimitBook
<1>1. NativeInit => BookInv  BY BookInit
<1>2. BookInv /\ [NativeNext]_nativeVars => BookInv'  BY BookStep
<1>3. NativeInit => Abstract!Init  BY StartsEmpty
<1>4. BookInv /\ [NativeNext]_nativeVars => [Abstract!Next]_(Abstract!vars)  BY StepsImplement
<1>5. QED  BY <1>1, <1>2, <1>3, <1>4, PTL DEF NativeSpec, ImplementsLimitBook, Abstract!Spec

=============================================================================
