----------------------------- MODULE Percentiles -----------------------------
(***************************************************************************)
(* The percentiles of the latencies, percentile_us of the microbenchmark   *)
(* and percentile of the ImageNet benchmark.  v is the sorted vector, a    *)
(* function on 0 .. n - 1; a percentile is a hundredth of the result, so   *)
(* that interpolation is exact: the rounding of double is left out.        *)
(***************************************************************************)
EXTENDS Integers

\* The place of a percentile in the vector: a whole part and its hundredths.
Idx(n, pct)  == pct * (n - 1)
Low(n, pct)  == Idx(n, pct) \div 100
Frac(n, pct) == Idx(n, pct) % 100

\* The interpolation between two values.
Between(a, b, frac) == a * (100 - frac) + b * frac

\* percentile_us: hi is the next index up, if idx is not a whole one.
PercentileUs(v, n, pct) ==
    LET lo == Low(n, pct)
        hi == IF Frac(n, pct) = 0 THEN lo ELSE lo + 1
    IN  IF lo = hi THEN v[lo] * 100 ELSE Between(v[lo], v[hi], Frac(n, pct))

\* percentile: hi is the next index, but for the last one.
High(n, pct) == IF Low(n, pct) + 1 < n - 1 THEN Low(n, pct) + 1 ELSE n - 1

Percentile(v, n, pct) == Between(v[Low(n, pct)], v[High(n, pct)], Frac(n, pct))

Sorted(v, n) == \A i, j \in 0 .. n - 1 : i <= j => v[i] <= v[j]
=============================================================================
