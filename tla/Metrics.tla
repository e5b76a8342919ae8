------------------------------- MODULE Metrics -------------------------------
(***************************************************************************)
(* backend/app/metrics.py: counters of executed commands, the latest       *)
(* latencies, and their percentiles for /metrics.                          *)
(***************************************************************************)
EXTENDS Integers, Sequences, SequencesExt, FiniteSets

CONSTANTS MaxSamples   \* _MAX_SAMPLES

ASSUME MetricsAssumption == MaxSamples \in Nat \ {0}

VARIABLES
  samples,   \* self._samples, a deque with maxlen
  total,     \* self._total
  failed     \* self._failed

metrics == <<samples, total, failed>>

MetricsInit ==
  /\ samples = <<>>
  /\ total = 0
  /\ failed = 0

\* Mutant of Kept: the deque stops taking samples when it is full.
KeptFirst(q, ms) == IF Len(q) < MaxSamples THEN Append(q, ms) ELSE q

\* deque.append: at maxlen the oldest goes.
Kept(q, ms) == IF Len(q) < MaxSamples THEN Append(q, ms) ELSE Append(Tail(q), ms)

record(ms, fails) ==
  /\ samples' = Kept(samples, ms)
  /\ total' = total + 1
  /\ failed' = failed + (IF fails THEN 1 ELSE 0)

forget ==
  /\ samples' = <<>>
  /\ total' = 0
  /\ failed' = 0

\* max(1, min(n, ceil(p / 100 * n))).
Rank(p, n) ==
  LET ceil == (p * n + 99) \div 100
  IN  IF ceil < 1 THEN 1 ELSE IF ceil > n THEN n ELSE ceil

\* The samples up to i in sorted(s), which keeps the order of equal ones.
UpTo(s, i) == {j \in DOMAIN s : s[j] < s[i] \/ (s[j] = s[i] /\ j <= i)}

Ascending(s) ==
  LET at(k) == CHOOSE i \in DOMAIN s : Cardinality(UpTo(s, i)) = k
  IN  [k \in DOMAIN s |-> s[at(k)]]

\* sum(samples).
Total(s) == FoldLeft(LAMBDA a, b : a + b, 0, s)

snapshot ==
  LET sorted == Ascending(samples)
      n == Len(sorted)
      pct(p) == sorted[Rank(p, n)]
  IN  IF n = 0 THEN [count |-> 0, sum |-> 0, p50 |-> 0, p95 |-> 0, p99 |-> 0, max |-> 0]
      ELSE [count |-> n, sum |-> Total(sorted),
            p50 |-> pct(50), p95 |-> pct(95), p99 |-> pct(99), max |-> sorted[n]]
=============================================================================
