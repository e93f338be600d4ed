------------------------------- MODULE Series -------------------------------
(* Series of numbers: their sums, written as recursive functions, and their
   latest values.                                                            *)
EXTENDS Integers, Sequences

\* The sum of the first n numbers, for every n.
Running(numbers) ==
  LET sum[n \in 0..Len(numbers)] == IF n = 0 THEN 0 ELSE sum[n - 1] + numbers[n]
  IN sum

Total(numbers) == Running(numbers)[Len(numbers)]

\* The last `window` values, or all if there are fewer.
Latest(values, window) ==
  LET size == IF Len(values) < window THEN Len(values) ELSE window
  IN [k \in 1..size |-> values[Len(values) - size + k]]

=============================================================================
