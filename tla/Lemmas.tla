------------------------------- MODULE Lemmas -------------------------------
(***************************************************************************)
(* What the proofs about loops, sequences and sums rest on: induction over *)
(* the naturals for sets and functions, the runs of loops written as       *)
(* recursive functions, and what operations of the libraries return.       *)
(***************************************************************************)
EXTENDS Series, SequencesExt, SequenceTheorems, FiniteSetTheorems,
        WellFoundedInduction, TLAPS

-----------------------------------------------------------------------------
(* Induction *)

\* A nonempty set of naturals has a least element.
LEMMA LeastNatural ==
  ASSUME NEW T \in SUBSET Nat, T # {}
  PROVE  \E x \in T : \A y \in T : x <= y
<1> DEFINE R == {p \in Nat \X Nat : p[1] < p[2]}
<1>1. IsWellFoundedOn(R, Nat)
  BY NatLessThanWellFounded DEF OpToRel
<1> HIDE DEF R
<1>2. PICK x \in T : \A y \in T : ~(<<y, x>> \in R)
  BY <1>1, WFMin
<1>3. \A y \in T : ~(y < x)  BY <1>2 DEF R
<1>4. QED  BY <1>3

\* The longest leading run of members of T among the first n numbers.
LEMMA LongestRun ==
  ASSUME NEW n \in Nat, NEW T
  PROVE  \E k \in 0..n : (\A j \in 1..k : j \in T) /\ (k < n => k + 1 \notin T)
<1> DEFINE S == {k \in 0..n : k < n => k + 1 \notin T}
<1>1. S \in SUBSET Nat /\ n \in S  OBVIOUS
<1>2. PICK x \in S : \A y \in S : x <= y  BY <1>1, LeastNatural
<1>3. \A j \in 1..x : j \in T
  <2> SUFFICES ASSUME NEW j \in 1..x PROVE j \in T  OBVIOUS
  <2>1. j - 1 \in 0..n /\ ~(x <= j - 1) /\ (j - 1) + 1 = j  BY <1>2
  <2>2. j - 1 \notin S  BY <1>2, <2>1
  <2>3. QED  BY <2>1, <2>2
<1>4. QED  BY <1>2, <1>3

\* A set that holds zero, and with each number below n the next one, holds
\* every number up to n: what a loop of n rounds preserves holds at its end.
LEMMA UpTo ==
  ASSUME NEW n \in Nat, NEW T, 0 \in T,
         \A i \in 0..n : i < n /\ i \in T => i + 1 \in T
  PROVE  \A i \in 0..n : i \in T
<1> DEFINE Bad == {i \in 0..n : i \notin T}
<1>1. SUFFICES ASSUME Bad # {} PROVE FALSE  OBVIOUS
<1>2. Bad \in SUBSET Nat  OBVIOUS
<1>3. PICK x \in Bad : \A y \in Bad : x <= y  BY <1>1, <1>2, LeastNatural
<1>4. x \in 0..n /\ x # 0  OBVIOUS
<1>5. x - 1 \in 0..n /\ x - 1 < n /\ (x - 1) + 1 = x /\ ~(x <= x - 1)  BY <1>4
<1>6. x - 1 \in T  BY <1>3, <1>5
<1>7. x \in T  BY <1>5, <1>6
<1>8. QED  BY <1>7

\* f is the run of a loop of n rounds: the state after each of them.
IsRun(f, n, base, step) == f[0] = base /\ \A i \in 1..n : f[i] = step[i][f[i - 1]]

\* A loop has a run, if every round leads from a state to a state.
LEMMA LoopRuns ==
  ASSUME NEW n \in Nat, NEW S, NEW base \in S, NEW step \in [1..n -> [S -> S]]
  PROVE  \E f \in [0..n -> S] : IsRun(f, n, base, step)
<1> DEFINE T == {k \in 0..n : \E f \in [0..k -> S] : IsRun(f, k, base, step)}
<1>1. 0 \in T
  <2> DEFINE g == [i \in 0..0 |-> base]
  <2>1. g \in [0..0 -> S]  OBVIOUS
  <2>2. IsRun(g, 0, base, step)  BY DEF IsRun
  <2> HIDE DEF g
  <2>3. QED  BY <2>1, <2>2
<1>2. ASSUME NEW k \in 0..n, k < n, k \in T PROVE k + 1 \in T
  <2>1. PICK f \in [0..k -> S] : IsRun(f, k, base, step)  BY <1>2
  <2> DEFINE g == [i \in 0..(k + 1) |-> IF i = k + 1 THEN step[k + 1][f[k]] ELSE f[i]]
  <2>2. k + 1 \in 1..n /\ f[k] \in S  BY <1>2
  <2>3. step[k + 1][f[k]] \in S  BY <2>2
  <2>4. g \in [0..(k + 1) -> S]
    <3>1. \A i \in 0..(k + 1) : i # k + 1 => i \in 0..k  OBVIOUS
    <3>2. QED  BY <2>3, <3>1
  <2>5. g[0] = base  BY <2>1 DEF IsRun
  <2>6. ASSUME NEW i \in 1..(k + 1) PROVE g[i] = step[i][g[i - 1]]
    <3>1. i - 1 \in 0..k /\ i - 1 # k + 1  OBVIOUS
    <3>2. g[i - 1] = f[i - 1]  BY <3>1
    <3>3. CASE i = k + 1
      <4>1. i - 1 = k  BY <3>3
      <4>2. QED  BY <3>2, <3>3, <4>1
    <3>4. CASE i # k + 1
      <4>1. i \in 1..k /\ i \in 0..(k + 1)  BY <3>4
      <4>2. QED  BY <2>1, <3>2, <3>4, <4>1 DEF IsRun
    <3>5. QED  BY <3>3, <3>4
  <2> HIDE DEF g
  <2>7. IsRun(g, k + 1, base, step)  BY <2>5, <2>6 DEF IsRun
  <2>8. QED  BY <1>2, <2>2, <2>4, <2>7
<1> HIDE DEF T
<1>3. \A i \in 0..n : i \in T  BY <1>1, <1>2, UpTo
<1>4. QED  BY <1>3 DEF T

\* What each round of a loop keeps: if every round leads from a state that is
\* good before it to one that is good after it, the loop has a run, through good
\* states only.
LEMMA LoopKeeps ==
  ASSUME NEW n \in Nat, NEW S, NEW Good \in [0..n -> SUBSET S], NEW base, NEW turn,
         base \in Good[0],
         \A i \in 1..n : \A x \in Good[i - 1] : turn[i][x] \in Good[i]
  PROVE  \E f \in [0..n -> S] : IsRun(f, n, base, turn) /\ \A i \in 0..n : f[i] \in Good[i]
<1> DEFINE safe == [i \in 1..n |-> [x \in S |-> IF x \in Good[i - 1] THEN turn[i][x] ELSE base]]
<1>1. base \in S  OBVIOUS
<1>2. safe \in [1..n -> [S -> S]]
  <2>1. ASSUME NEW i \in 1..n, NEW x \in S
        PROVE  (IF x \in Good[i - 1] THEN turn[i][x] ELSE base) \in S
    <3>1. i \in 0..n  OBVIOUS
    <3>2. CASE x \in Good[i - 1]  BY <3>1, <3>2
    <3>3. QED  BY <1>1, <3>2
  <2>2. QED  BY <2>1
<1>3. PICK f \in [0..n -> S] : IsRun(f, n, base, safe)
  <2> HIDE DEF safe
  <2>1. QED  BY <1>1, <1>2, LoopRuns
<1>4. f[0] = base /\ \A i \in 1..n : f[i] = safe[i][f[i - 1]]  BY <1>3 DEF IsRun
<1>5. \A i \in 1..n : f[i - 1] \in Good[i - 1] => f[i] = turn[i][f[i - 1]]
  <2>1. ASSUME NEW i \in 1..n, f[i - 1] \in Good[i - 1] PROVE f[i] = turn[i][f[i - 1]]
    <3>1. i - 1 \in 0..n  OBVIOUS
    <3>2. f[i - 1] \in S  BY <3>1
    <3>3. QED  BY <1>4, <2>1, <3>2
  <2>2. QED  BY <2>1
<1> HIDE DEF safe
<1>6. \A i \in 0..n : f[i] \in Good[i]
  <2> DEFINE T == {i \in 0..n : f[i] \in Good[i]}
  <2>1. 0 \in T  BY <1>4
  <2>2. ASSUME NEW i \in 0..n, i < n, i \in T PROVE i + 1 \in T
    <3>1. i + 1 \in 1..n /\ i + 1 \in 0..n /\ (i + 1) - 1 = i  BY <2>2
    <3>2. f[i] \in Good[i]  BY <2>2
    <3>3. f[i + 1] = turn[i + 1][f[i]]  BY <1>5, <3>1, <3>2
    <3>4. turn[i + 1][f[i]] \in Good[i + 1]  BY <3>1, <3>2
    <3>5. QED  BY <3>1, <3>3, <3>4
  <2> HIDE DEF T
  <2>3. \A i \in 0..n : i \in T  BY <2>1, <2>2, UpTo
  <2>4. QED  BY <2>3 DEF T
<1>7. \A i \in 1..n : f[i] = turn[i][f[i - 1]]
  <2>1. \A i \in 1..n : i - 1 \in 0..n  OBVIOUS
  <2>2. QED  BY <1>5, <1>6, <2>1
<1>8. QED  BY <1>4, <1>6, <1>7 DEF IsRun

-----------------------------------------------------------------------------
(* Numbers *)

\* The larger of two numbers, as FiniteSetsExt chooses it.
LEMMA TheLarger ==
  ASSUME NEW a \in Int, NEW b \in Int
  PROVE  Max({a, b}) = IF a >= b THEN a ELSE b
<1> DEFINE S == {a, b}
           m == IF a >= b THEN a ELSE b
<1>1. m \in S /\ (\A y \in S : m >= y) /\ \A y \in S : y \in Int  OBVIOUS
<1> HIDE DEF S, m
<1>2. Max(S) \in S /\ \A y \in S : Max(S) >= y
  <2>1. \E x \in S : \A y \in S : x >= y  BY <1>1
  <2>2. QED  BY <2>1 DEF Max
<1>3. Max(S) >= m /\ m >= Max(S) /\ Max(S) \in Int /\ m \in Int  BY <1>1, <1>2
<1>4. QED  BY <1>3 DEF S, m

\* The smaller of two numbers.
LEMMA TheSmaller ==
  ASSUME NEW a \in Int, NEW b \in Int
  PROVE  Min({a, b}) = IF a <= b THEN a ELSE b
<1> DEFINE S == {a, b}
           m == IF a <= b THEN a ELSE b
<1>1. m \in S /\ (\A y \in S : m <= y) /\ \A y \in S : y \in Int  OBVIOUS
<1> HIDE DEF S, m
<1>2. Min(S) \in S /\ \A y \in S : Min(S) <= y
  <2>1. \E x \in S : \A y \in S : x =< y  BY <1>1
  <2>2. QED  BY <2>1 DEF Min
<1>3. Min(S) <= m /\ m <= Min(S) /\ Min(S) \in Int /\ m \in Int  BY <1>1, <1>2
<1>4. QED  BY <1>3 DEF S, m

\* A factor that is not negative keeps an order.
LEMMA ProductOrder ==
  ASSUME NEW a \in Int, NEW b \in Int, NEW c \in Nat, a <= b
  PROVE  a * c <= b * c
<1>1. (b - a) * c >= 0  OBVIOUS
<1>2. (b - a) * c = b * c - a * c  OBVIOUS
<1>3. a * c \in Int /\ b * c \in Int  OBVIOUS
<1>4. QED  BY <1>1, <1>2, <1>3

\* A positive factor can be cancelled.
LEMMA ProductCancel ==
  ASSUME NEW a \in Int, NEW b \in Int, NEW c \in Nat \ {0}, a * c <= b * c
  PROVE  a <= b
<1>1. SUFFICES ASSUME a >= b + 1 PROVE FALSE  OBVIOUS
<1>2. (b + 1) * c <= a * c  BY <1>1, ProductOrder
<1>3. (b + 1) * c = b * c + c  OBVIOUS
<1>4. a * c \in Int /\ b * c \in Int /\ c >= 1  OBVIOUS
<1>5. QED  BY <1>2, <1>3, <1>4

-----------------------------------------------------------------------------
(* Sequences *)

\* What is left of a sequence without its k-th element.
LEMMA RemoveAtIs ==
  ASSUME NEW S, NEW q \in Seq(S), NEW k \in 1..Len(q)
  PROVE  /\ RemoveAt(q, k) \in Seq(S)
         /\ Len(RemoveAt(q, k)) = Len(q) - 1
         /\ \A i \in 1..(Len(q) - 1) : RemoveAt(q, k)[i] = IF i < k THEN q[i] ELSE q[i + 1]
<1> DEFINE n == Len(q)
           a == SubSeq(q, 1, k - 1)
           b == SubSeq(q, k + 1, n)
<1>1. n \in Nat /\ k \in Int /\ 1 <= k /\ k <= n  OBVIOUS
<1>2. a \in Seq(S) /\ Len(a) = k - 1 /\ \A i \in 1..(k - 1) : a[i] = q[i]
  <2>1. \A i \in 1..(k - 1) : q[i] \in S  BY <1>1
  <2>2. QED  BY <1>1, <2>1, SubSeqProperties
<1>3. b \in Seq(S) /\ Len(b) = n - k /\ \A i \in 1..(n - k) : b[i] = q[k + i]
  <2>1. \A i \in (k + 1)..n : q[i] \in S  BY <1>1
  <2>2. QED  BY <1>1, <2>1, SubSeqProperties
<1> HIDE DEF n, a, b
<1>4. /\ a \o b \in Seq(S) /\ Len(a \o b) = n - 1
      /\ \A i \in 1..(n - 1) : (a \o b)[i] = IF i < k THEN a[i] ELSE b[i - (k - 1)]
  <2>1. /\ a \o b \in Seq(S) /\ Len(a \o b) = Len(a) + Len(b)
        /\ \A i \in 1..(Len(a) + Len(b)) :
             (a \o b)[i] = IF i <= Len(a) THEN a[i] ELSE b[i - Len(a)]
    BY <1>2, <1>3, ConcatProperties
  <2>2. Len(a) + Len(b) = n - 1  BY <1>1, <1>2, <1>3
  <2>3. \A i \in 1..(n - 1) : i <= Len(a) <=> i < k  BY <1>1, <1>2
  <2>4. QED  BY <1>2, <2>1, <2>2, <2>3
<1>5. \A i \in 1..(n - 1) : (a \o b)[i] = IF i < k THEN q[i] ELSE q[i + 1]
  <2>1. ASSUME NEW i \in 1..(n - 1) PROVE (a \o b)[i] = IF i < k THEN q[i] ELSE q[i + 1]
    <3>1. CASE i < k  BY <1>1, <1>2, <1>4, <3>1
    <3>2. CASE ~(i < k)
      <4>1. i - (k - 1) \in 1..(n - k) /\ k + (i - (k - 1)) = i + 1  BY <1>1, <3>2
      <4>2. b[i - (k - 1)] = q[i + 1]  BY <1>3, <4>1
      <4>3. QED  BY <1>4, <3>2, <4>2
    <3>3. QED  BY <3>1, <3>2
  <2>2. QED  BY <2>1
<1>6. RemoveAt(q, k) = a \o b  BY DEF RemoveAt, a, b, n
<1>7. QED  BY <1>4, <1>5, <1>6 DEF n

\* The elements of a sequence from the k-th on.
LEMMA TailFrom ==
  ASSUME NEW S, NEW s \in Seq(S), NEW k \in 1..(Len(s) + 1)
  PROVE  /\ SubSeq(s, k, Len(s)) \in Seq(S)
         /\ Len(SubSeq(s, k, Len(s))) = Len(s) - k + 1
         /\ \A i \in 1..(Len(s) - k + 1) : SubSeq(s, k, Len(s))[i] = s[k + i - 1]
<1>1. Len(s) \in Nat  OBVIOUS
<1>2. \A i \in k..Len(s) : s[i] \in S  BY <1>1
<1>3. QED  BY <1>1, <1>2, SubSeqProperties

\* A sequence that goes on with one more element.
LEMMA AppendIs ==
  ASSUME NEW S, NEW s \in Seq(S), NEW e \in S, NEW t \in Seq(S),
         Len(t) = Len(s) + 1, t[Len(s) + 1] = e, \A i \in 1..Len(s) : t[i] = s[i]
  PROVE  t = Append(s, e)
<1>1. /\ Append(s, e) \in Seq(S) /\ Len(Append(s, e)) = Len(s) + 1 /\ Len(s) \in Nat
      /\ \A i \in 1..(Len(s) + 1) : Append(s, e)[i] = IF i <= Len(s) THEN s[i] ELSE e
  OBVIOUS
<1>2. \A i \in 1..Len(t) : t[i] = Append(s, e)[i]
  <2> SUFFICES ASSUME NEW i \in 1..Len(t) PROVE t[i] = Append(s, e)[i]  OBVIOUS
  <2>1. i \in 1..Len(s) \/ i = Len(s) + 1  BY <1>1
  <2>2. QED  BY <1>1, <2>1
<1>3. QED  BY <1>1, <1>2, SeqEqual

\* What the latest values of a sequence are.
LEMMA LatestIs ==
  ASSUME NEW S, NEW s \in Seq(S), NEW w \in Nat
  PROVE  LET l == Latest(s, w) IN
         /\ l \in Seq(S) /\ Len(l) = IF Len(s) < w THEN Len(s) ELSE w
         /\ \A k \in 1..Len(l) : l[k] = s[Len(s) - Len(l) + k]
<1> DEFINE m == IF Len(s) < w THEN Len(s) ELSE w
<1>1. Len(s) \in Nat /\ m \in Nat /\ m <= Len(s)  OBVIOUS
<1>2. Latest(s, w) = [k \in 1..m |-> s[Len(s) - m + k]]  BY DEF Latest
<1>3. \A k \in 1..m : s[Len(s) - m + k] \in S
  <2>1. \A j \in 1..Len(s) : s[j] \in S  OBVIOUS
  <2>2. \A k \in 1..m : Len(s) - m + k \in 1..Len(s)  BY <1>1
  <2>3. QED  BY <2>1, <2>2
<1> DEFINE l == Latest(s, w)
           d == Len(s) - m
<1>4. l = [k \in 1..m |-> s[d + k]] /\ \A k \in 1..m : s[d + k] \in S  BY <1>2, <1>3
<1> HIDE DEF l, d, m
<1>5. l \in Seq(S) /\ Len(l) = m /\ \A k \in 1..m : l[k] = s[d + k]  BY <1>1, <1>4
<1>6. QED  BY <1>5 DEF l, d, m

\* A window that takes in a value and lets go of its first one when it is full
\* holds the latest values.
LEMMA LatestSlides ==
  ASSUME NEW S, NEW s \in Seq(S), NEW e \in S, NEW w \in Nat \ {0}
  PROVE  LET more == Append(Latest(s, w), e) IN
         /\ more \in Seq(S) /\ more # <<>>
         /\ Latest(Append(s, e), w) = IF Len(more) > w THEN Tail(more) ELSE more
<1> DEFINE n == Len(s)
           m == IF n < w THEN n ELSE w
           more == Append(Latest(s, w), e)
           all == Append(s, e)
           now == IF Len(more) > w THEN Tail(more) ELSE more
           size == IF n + 1 < w THEN n + 1 ELSE w
<1>1. n \in Nat /\ m \in Nat /\ m <= n /\ size \in Nat /\ size <= n + 1  OBVIOUS
<1>2. /\ all \in Seq(S) /\ Len(all) = n + 1
      /\ \A i \in 1..(n + 1) : all[i] = IF i <= n THEN s[i] ELSE e
  OBVIOUS
<1>3. /\ Latest(s, w) \in Seq(S) /\ Len(Latest(s, w)) = m
      /\ \A k \in 1..m : Latest(s, w)[k] = s[n - m + k]
  <2> DEFINE l == Latest(s, w)
  <2>1. w \in Nat  OBVIOUS
  <2>2. /\ l \in Seq(S) /\ Len(l) = IF Len(s) < w THEN Len(s) ELSE w
        /\ \A k \in 1..Len(l) : l[k] = s[Len(s) - Len(l) + k]
    BY <2>1, LatestIs
  <2> HIDE DEF l
  <2>3. Len(l) = m  BY <2>2
  <2>4. QED  BY <2>2, <2>3 DEF l
<1>4. /\ more \in Seq(S) /\ Len(more) = m + 1
      /\ \A k \in 1..(m + 1) : more[k] = IF k <= m THEN s[n - m + k] ELSE e
  <2> DEFINE l == Latest(s, w)
  <2>1. l \in Seq(S) /\ Len(l) = m /\ \A k \in 1..m : l[k] = s[n - m + k]  BY <1>3
  <2> HIDE DEF l, m, n
  <2>2. /\ Append(l, e) \in Seq(S) /\ Len(Append(l, e)) = m + 1
        /\ \A k \in 1..(m + 1) : Append(l, e)[k] = IF k <= m THEN l[k] ELSE e
    BY <1>1, <2>1
  <2>3. \A k \in 1..(m + 1) : k <= m => k \in 1..m  BY <1>1
  <2>4. \A k \in 1..(m + 1) : Append(l, e)[k] = IF k <= m THEN s[n - m + k] ELSE e
    BY <2>1, <2>2, <2>3
  <2>5. QED  BY <2>2, <2>4 DEF l
<1> HIDE DEF all, more, size, m
<1>5. more # <<>> /\ Tail(more) \in Seq(S) /\ Len(Tail(more)) = m
      /\ \A k \in 1..m : Tail(more)[k] = more[k + 1]
  <2>1. more # <<>>  BY <1>1, <1>4
  <2>2. QED  BY <1>1, <1>4, <2>1, HeadTailProperties
<1>6. /\ Latest(all, w) \in Seq(S) /\ Len(Latest(all, w)) = size
      /\ \A k \in 1..size : Latest(all, w)[k] = all[n + 1 - size + k]
  <2> DEFINE l == Latest(all, w)
  <2>1. all \in Seq(S) /\ w \in Nat  BY <1>2
  <2>2. /\ l \in Seq(S) /\ Len(l) = IF Len(all) < w THEN Len(all) ELSE w
        /\ \A k \in 1..Len(l) : l[k] = all[Len(all) - Len(l) + k]
    BY <2>1, LatestIs
  <2> HIDE DEF l
  <2>3. Len(l) = size /\ Len(all) = n + 1  BY <1>2, <2>2 DEF size
  <2>4. QED  BY <2>2, <2>3 DEF l
<1>7. now \in Seq(S) /\ Len(now) = size
  BY <1>1, <1>4, <1>5 DEF size, m
<1>8. \A k \in 1..size : now[k] = Latest(all, w)[k]
  <2> SUFFICES ASSUME NEW k \in 1..size PROVE now[k] = Latest(all, w)[k]  OBVIOUS
  <2> DEFINE j == n + 1 - size + k
  <2>1. Latest(all, w)[k] = all[j] /\ j \in 1..(n + 1)  BY <1>1, <1>6
  <2>2. all[j] = IF j <= n THEN s[j] ELSE e  BY <1>2, <2>1
  <2>3. CASE n < w
    <3>1. m = n /\ size = n + 1 /\ now = more /\ j = k /\ k \in 1..(m + 1) /\ n - m + k = k
      BY <1>1, <1>4, <2>3 DEF size, m
    <3>2. more[k] = IF k <= m THEN s[n - m + k] ELSE e  BY <1>4, <3>1
    <3>3. QED  BY <2>1, <2>2, <3>1, <3>2
  <2>4. CASE ~(n < w)
    <3>1. /\ m = w /\ size = w /\ k \in 1..m /\ k + 1 \in 1..(m + 1)
          /\ n - m + (k + 1) = j /\ (k + 1 <= m <=> j <= n)
      <4>1. size = w /\ m = w  BY <1>1, <2>4 DEF size, m
      <4>2. QED  BY <1>1, <4>1
    <3>a. now = Tail(more)  BY <1>1, <1>4, <3>1
    <3>2. now[k] = more[k + 1]  BY <1>5, <3>1, <3>a
    <3>3. more[k + 1] = IF k + 1 <= m THEN s[n - m + (k + 1)] ELSE e  BY <1>4, <3>1
    <3>4. QED  BY <2>1, <2>2, <3>1, <3>2, <3>3
  <2>5. QED  BY <2>3, <2>4
<1> HIDE DEF now
<1>9. now = Latest(all, w)  BY <1>6, <1>7, <1>8, SeqEqual
<1>10. QED  BY <1>4, <1>5, <1>9 DEF now, more, all

\* The same for numbers.
LEMMA LatestNumbers ==
  ASSUME NEW s \in Seq(Int), NEW e \in Int, NEW w \in Nat, w # 0
  PROVE  LET more == Append(Latest(s, w), e) IN
         /\ more \in Seq(Int) /\ more # <<>>
         /\ Latest(Append(s, e), w) = IF Len(more) > w THEN Tail(more) ELSE more
<1>1. w \in Nat \ {0}  OBVIOUS
<1>2. QED  BY <1>1, LatestSlides

\* One more number that counts, or one that does not.
LEMMA CountOne ==
  ASSUME NEW n \in Nat, NEW A \in SUBSET (1..n)
  PROVE  /\ Cardinality(A) \in Nat
         /\ Cardinality(A \cup {n + 1}) = Cardinality(A) + 1
<1>1. IsFiniteSet(1..n)  BY FS_Interval
<1>2. IsFiniteSet(A)  BY <1>1, FS_Subset
<1>3. n + 1 \notin A  OBVIOUS
<1>4. QED  BY <1>2, <1>3, FS_CardinalityType, FS_AddElement

-----------------------------------------------------------------------------
(* Sums *)

\* Running adds one number after the other.
LEMMA RunningIs ==
  ASSUME NEW numbers \in Seq(Int)
  PROVE  /\ Running(numbers) \in [0..Len(numbers) -> Int]
         /\ Running(numbers)[0] = 0
         /\ \A i \in 1..Len(numbers) :
              Running(numbers)[i] = Running(numbers)[i - 1] + numbers[i]
<1> DEFINE n == Len(numbers)
           turn == [i \in 1..n |-> [sum \in Int |-> sum + numbers[i]]]
           Body(g) == [i \in 0..n |-> IF i = 0 THEN 0 ELSE g[i - 1] + numbers[i]]
           m == Running(numbers)
<1>1. n \in Nat  OBVIOUS
<1>2. turn \in [1..n -> [Int -> Int]]
  <2>1. \A i \in 1..n : numbers[i] \in Int  OBVIOUS
  <2>2. QED  BY <2>1
<1> HIDE DEF n, turn
<1>3. PICK f \in [0..n -> Int] : IsRun(f, n, 0, turn)
  <2>1. 0 \in Int  OBVIOUS
  <2>2. QED  BY <1>1, <1>2, <2>1, LoopRuns
<1>4. f = Body(f)
  <2>1. ASSUME NEW i \in 1..n PROVE f[i] = f[i - 1] + numbers[i]
    <3>1. i - 1 \in 0..n  BY <1>1
    <3>2. f[i - 1] \in Int  BY <3>1
    <3>3. QED  BY <1>3, <3>2 DEF turn, IsRun
  <2>2. \A i \in 0..n : i # 0 => i \in 1..n  BY <1>1
  <2>3. \A i \in 0..n : f[i] = Body(f)[i]  BY <1>3, <2>1, <2>2 DEF IsRun
  <2>4. QED  BY <2>3
<1>5. m = CHOOSE g : g = Body(g)  BY DEF Running, n
<1>6. m = Body(m)
  <2> HIDE DEF Body, m
  <2>1. (CHOOSE g : g = Body(g)) = Body(CHOOSE g : g = Body(g))  BY <1>4
  <2>2. QED  BY <1>5, <2>1
<1> HIDE DEF m
<1>7. m[0] = 0 /\ \A i \in 1..n : m[i] = m[i - 1] + numbers[i]
  <2>1. 0 \in 0..n /\ \A i \in 1..n : i \in 0..n /\ i # 0  BY <1>1
  <2>2. QED  BY <1>6, <2>1
<1>8. \A i \in 0..n : m[i] \in Int
  <2> DEFINE T == {i \in 0..n : m[i] \in Int}
  <2>1. 0 \in T  BY <1>1, <1>7
  <2>2. ASSUME NEW i \in 0..n, i < n, i \in T PROVE i + 1 \in T
    <3>1. i + 1 \in 1..n /\ i + 1 \in 0..n /\ (i + 1) - 1 = i  BY <1>1, <2>2
    <3>2. m[i + 1] = m[i] + numbers[i + 1]  BY <1>7, <3>1
    <3>3. numbers[i + 1] \in Int  BY <3>1 DEF n
    <3>4. QED  BY <2>2, <3>1, <3>2, <3>3
  <2> HIDE DEF T
  <2>3. \A i \in 0..n : i \in T  BY <1>1, <2>1, <2>2, UpTo
  <2>4. QED  BY <2>3 DEF T
<1>9. m \in [0..n -> Int]  BY <1>6, <1>8
<1>10. QED  BY <1>7, <1>9 DEF m, n

\* Running says nothing of the numbers that come later.
LEMMA RunningSame ==
  ASSUME NEW one \in Seq(Int), NEW other \in Seq(Int), NEW n \in Nat,
         n <= Len(one), n <= Len(other), \A i \in 1..n : one[i] = other[i]
  PROVE  Running(one)[n] = Running(other)[n]
<1> DEFINE a == Running(one)
           b == Running(other)
           T == {i \in 0..n : a[i] = b[i]}
<1>1. /\ a[0] = 0 /\ b[0] = 0
      /\ \A i \in 1..Len(one) : a[i] = a[i - 1] + one[i]
      /\ \A i \in 1..Len(other) : b[i] = b[i - 1] + other[i]
  BY RunningIs
<1> HIDE DEF a, b
<1>2. 0 \in T  BY <1>1
<1>3. ASSUME NEW i \in 0..n, i < n, i \in T PROVE i + 1 \in T
  <2>1. /\ i + 1 \in 1..n /\ i + 1 \in 0..n /\ i + 1 - 1 = i
        /\ i + 1 \in 1..Len(one) /\ i + 1 \in 1..Len(other)
    BY <1>3
  <2>2. a[i + 1] = a[i] + one[i + 1] /\ b[i + 1] = b[i] + other[i + 1]  BY <1>1, <2>1
  <2>3. QED  BY <1>3, <2>1, <2>2
<1> HIDE DEF T
<1>4. \A i \in 0..n : i \in T  BY <1>2, <1>3, UpTo
<1>5. QED  BY <1>4 DEF T, a, b

\* One more number adds to the total.
LEMMA TotalAppend ==
  ASSUME NEW numbers \in Seq(Int), NEW number \in Int
  PROVE  /\ Total(Append(numbers, number)) = Total(numbers) + number
         /\ Total(numbers) \in Int
<1> DEFINE more == Append(numbers, number)
           n == Len(numbers)
<1>1. /\ n \in Nat /\ more \in Seq(Int) /\ Len(more) = n + 1 /\ more[n + 1] = number
      /\ \A i \in 1..n : more[i] = numbers[i]
  OBVIOUS
<1> HIDE DEF more
<1>2. Running(more)[n + 1] = Running(more)[n] + number
  <2>1. n + 1 \in 1..Len(more) /\ n + 1 - 1 = n  BY <1>1
  <2>2. QED  BY <1>1, <2>1, RunningIs
<1>3. Running(more)[n] = Running(numbers)[n]
  <2>1. n <= Len(more) /\ n <= Len(numbers)  BY <1>1
  <2>2. QED  BY <1>1, <2>1, RunningSame
<1>4. Running(numbers)[n] \in Int
  <2>1. n \in 0..Len(numbers)  BY <1>1
  <2>2. QED  BY <2>1, RunningIs
<1>5. QED  BY <1>1, <1>2, <1>3, <1>4 DEF Total, more

\* Nothing adds up to nothing.
LEMMA TotalEmpty == Total(<<>>) = 0
<1>1. <<>> \in Seq(Int) /\ Len(<<>>) = 0  OBVIOUS
<1>2. Running(<<>>)[0] = 0  BY <1>1, RunningIs
<1>3. QED  BY <1>1, <1>2 DEF Total

\* A total is a number.
LEMMA TotalType ==
  ASSUME NEW numbers \in Seq(Int)
  PROVE  Total(numbers) \in Int
<1>1. 0 \in Int  OBVIOUS
<1>2. QED  BY <1>1, TotalAppend

\* What is left of a total without the first number.
LEMMA TotalTail ==
  ASSUME NEW numbers \in Seq(Int), numbers # <<>>
  PROVE  Total(Tail(numbers)) = Total(numbers) - numbers[1]
<1> DEFINE rest == Tail(numbers)
           a == Running(numbers)
           b == Running(rest)
           n == Len(rest)
           T == {i \in 0..n : a[i + 1] = b[i] + numbers[1]}
<1>1. /\ rest \in Seq(Int) /\ n = Len(numbers) - 1
      /\ \A i \in 1..n : rest[i] = numbers[i + 1]
  BY HeadTailProperties
<1>2. n \in Nat /\ Len(numbers) = n + 1  BY <1>1
<1> HIDE DEF rest, n
<1>3. /\ a \in [0..Len(numbers) -> Int] /\ a[0] = 0
      /\ \A i \in 1..Len(numbers) : a[i] = a[i - 1] + numbers[i]
  BY RunningIs
<1>4. /\ b \in [0..n -> Int] /\ b[0] = 0
      /\ \A i \in 1..n : b[i] = b[i - 1] + rest[i]
  <2>1. rest \in Seq(Int)  BY <1>1
  <2>2. QED  BY <2>1, RunningIs DEF n
<1> HIDE DEF a, b
<1>5. 0 \in T
  <2>1. 1 \in 1..Len(numbers) /\ 1 - 1 = 0 /\ numbers[1] \in Int  BY <1>2
  <2>2. a[1] = a[0] + numbers[1]  BY <1>3, <2>1
  <2>3. QED  BY <1>2, <1>3, <1>4, <2>1, <2>2
<1>6. ASSUME NEW i \in 0..n, i < n, i \in T PROVE i + 1 \in T
  <2>1. /\ i + 1 \in 1..n /\ i + 1 \in 0..n /\ (i + 1) - 1 = i
        /\ i + 2 \in 1..Len(numbers) /\ (i + 2) - 1 = i + 1 /\ (i + 1) + 1 = i + 2
        /\ 1 \in 1..Len(numbers)
    BY <1>2, <1>6
  <2>2. /\ a[i + 2] = a[i + 1] + numbers[i + 2]
        /\ b[i + 1] = b[i] + rest[i + 1] /\ rest[i + 1] = numbers[i + 2]
    BY <1>1, <1>3, <1>4, <2>1
  <2>3. numbers[i + 2] \in Int /\ numbers[1] \in Int /\ b[i] \in Int  BY <1>4, <2>1
  <2>4. a[i + 1] = b[i] + numbers[1]  BY <1>6
  <2>5. QED  BY <2>1, <2>2, <2>3, <2>4
<1> HIDE DEF T
<1>7. \A i \in 0..n : i \in T  BY <1>2, <1>5, <1>6, UpTo
<1>8. a[n + 1] = b[n] + numbers[1] /\ b[n] \in Int /\ numbers[1] \in Int
  BY <1>2, <1>4, <1>7 DEF T
<1>9. Total(numbers) = a[n + 1] /\ Total(rest) = b[n]  BY <1>2 DEF Total, a, b, n
<1>10. QED  BY <1>8, <1>9 DEF rest

\* Totals follow their numbers: a multiple less another number each.
LEMMA TotalLinear ==
  ASSUME NEW f \in Seq(Int), NEW g \in Seq(Int), NEW h \in Seq(Int), NEW p \in Int,
         Len(g) = Len(f), Len(h) = Len(f), \A i \in 1..Len(f) : h[i] = p * f[i] - g[i]
  PROVE  Total(h) = p * Total(f) - Total(g)
<1> DEFINE a == Running(f)
           b == Running(g)
           c == Running(h)
           n == Len(f)
           T == {i \in 0..n : c[i] = p * a[i] - b[i]}
<1>1. n \in Nat  OBVIOUS
<1>2. /\ a \in [0..n -> Int] /\ a[0] = 0 /\ \A i \in 1..n : a[i] = a[i - 1] + f[i]
      /\ b \in [0..n -> Int] /\ b[0] = 0 /\ \A i \in 1..n : b[i] = b[i - 1] + g[i]
      /\ c \in [0..n -> Int] /\ c[0] = 0 /\ \A i \in 1..n : c[i] = c[i - 1] + h[i]
  BY RunningIs
<1> HIDE DEF a, b, c
<1>3. 0 \in T  BY <1>1, <1>2
<1>4. ASSUME NEW i \in 0..n, i < n, i \in T PROVE i + 1 \in T
  <2>1. i + 1 \in 1..n /\ i + 1 \in 0..n /\ (i + 1) - 1 = i  BY <1>1, <1>4
  <2>2. /\ a[i + 1] = a[i] + f[i + 1] /\ b[i + 1] = b[i] + g[i + 1]
        /\ c[i + 1] = c[i] + h[i + 1] /\ h[i + 1] = p * f[i + 1] - g[i + 1]
    BY <1>2, <2>1
  <2>3. /\ a[i] \in Int /\ b[i] \in Int /\ c[i] \in Int
        /\ f[i + 1] \in Int /\ g[i + 1] \in Int /\ h[i + 1] \in Int
    <3>1. /\ \A j \in 1..n : f[j] \in Int /\ g[j] \in Int /\ h[j] \in Int
      OBVIOUS
    <3>2. QED  BY <1>2, <2>1, <3>1
  <2>4. p * (a[i] + f[i + 1]) = p * a[i] + p * f[i + 1]  BY <2>3
  <2>5. p * a[i] \in Int /\ p * f[i + 1] \in Int  BY <2>3
  <2>6. c[i] = p * a[i] - b[i]  BY <1>4
  <2>7. c[i + 1] = p * a[i + 1] - b[i + 1]
    <3> DEFINE x == p * a[i]
               y == p * f[i + 1]
               z == p * a[i + 1]
    <3>1. /\ z = x + y /\ x \in Int /\ y \in Int
          /\ c[i] = x - b[i] /\ h[i + 1] = y - g[i + 1]
          /\ b[i + 1] = b[i] + g[i + 1] /\ c[i + 1] = c[i] + h[i + 1]
      BY <2>2, <2>4, <2>5, <2>6
    <3> HIDE DEF x, y, z
    <3>2. c[i + 1] = z - b[i + 1]  BY <2>3, <3>1
    <3>3. QED  BY <3>2 DEF z
  <2>8. QED  BY <2>1, <2>7
<1> HIDE DEF T
<1>5. \A i \in 0..n : i \in T  BY <1>1, <1>3, <1>4, UpTo
<1>6. c[n] = p * a[n] - b[n]  BY <1>1, <1>5 DEF T
<1>7. QED  BY <1>6 DEF Total, a, b, c, n

\* Numbers that are not negative add up to one that is not.
LEMMA TotalAtLeastZero ==
  ASSUME NEW numbers \in Seq(Nat)
  PROVE  Total(numbers) \in Nat
<1> DEFINE n == Len(numbers)
           a == Running(numbers)
           T == {i \in 0..n : a[i] >= 0}
<1>1. n \in Nat /\ numbers \in Seq(Int)  OBVIOUS
<1>2. a \in [0..n -> Int] /\ a[0] = 0 /\ \A i \in 1..n : a[i] = a[i - 1] + numbers[i]
  BY <1>1, RunningIs
<1> HIDE DEF a
<1>3. 0 \in T  BY <1>1, <1>2
<1>4. ASSUME NEW i \in 0..n, i < n, i \in T PROVE i + 1 \in T
  <2>1. i + 1 \in 1..n /\ i + 1 \in 0..n /\ (i + 1) - 1 = i  BY <1>1, <1>4
  <2>2. a[i + 1] = a[i] + numbers[i + 1] /\ numbers[i + 1] \in Nat /\ a[i] \in Int /\ a[i] >= 0
    BY <1>2, <1>4, <2>1
  <2>3. QED  BY <2>1, <2>2
<1> HIDE DEF T
<1>5. \A i \in 0..n : i \in T  BY <1>1, <1>3, <1>4, UpTo
<1>6. a[n] >= 0 /\ a[n] \in Int  BY <1>1, <1>2, <1>5 DEF T
<1>7. QED  BY <1>6 DEF Total, a

\* One number over and over.
LEMMA TotalConstant ==
  ASSUME NEW numbers \in Seq(Int), NEW e \in Int, \A i \in 1..Len(numbers) : numbers[i] = e
  PROVE  Total(numbers) = Len(numbers) * e
<1> DEFINE n == Len(numbers)
           a == Running(numbers)
           T == {i \in 0..n : a[i] = i * e}
<1>1. n \in Nat  OBVIOUS
<1>2. a \in [0..n -> Int] /\ a[0] = 0 /\ \A i \in 1..n : a[i] = a[i - 1] + numbers[i]
  BY RunningIs
<1> HIDE DEF a
<1>3. 0 \in T  BY <1>1, <1>2
<1>4. ASSUME NEW i \in 0..n, i < n, i \in T PROVE i + 1 \in T
  <2>1. i + 1 \in 1..n /\ i + 1 \in 0..n /\ (i + 1) - 1 = i  BY <1>1, <1>4
  <2>2. a[i + 1] = a[i] + numbers[i + 1] /\ numbers[i + 1] = e /\ a[i] = i * e
    BY <1>2, <1>4, <2>1
  <2>3. (i + 1) * e = i * e + e  OBVIOUS
  <2>4. QED  BY <2>1, <2>2, <2>3
<1> HIDE DEF T
<1>5. \A i \in 0..n : i \in T  BY <1>1, <1>3, <1>4, UpTo
<1>6. QED  BY <1>1, <1>5 DEF Total, a, T

=============================================================================
