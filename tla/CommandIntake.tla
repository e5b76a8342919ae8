---------------------------- MODULE CommandIntake ----------------------------
(***************************************************************************)
(* on_git_command of backend/app/ws/handlers.py around its awaits, for the *)
(* students of all rooms: what the rate limiter lets through, and what     *)
(* executor.run records of it.  A student is a key of the limiter, with    *)
(* one connection, whose endpoint handles one command after the other.     *)
(***************************************************************************)
EXTENDS RateLimiter, Metrics, FiniteSets

VARIABLES
  stage,   \* of a student's command: "none", "starting", "running"
  since,   \* start of its execution
  ran      \* history: the executions recorded since the last reset

intake == <<stage, since, ran>>

Latest(n) == SubSeq(ran, Len(ran) - n + 1, Len(ran))

\* Too many commands: an ERROR, and the endpoint reads on.
Command(key) ==
  /\ stage[key] = "none"
  /\ Allow(key)
  /\ stage' = [stage EXCEPT ![key] = IF admitted'[key] = admitted[key] THEN @ ELSE "starting"]
  /\ UNCHANGED <<since, ran, metrics>>

\* The sandbox does not start, or the command is not valid: nothing is recorded.
Drops(key) ==
  /\ stage[key] = "starting"
  /\ stage' = [stage EXCEPT ![key] = "none"]
  /\ UNCHANGED <<vars, metrics, since, ran>>

Begins(key) ==
  /\ stage[key] = "starting"
  /\ stage' = [stage EXCEPT ![key] = "running"]
  /\ since' = [since EXCEPT ![key] = now]
  /\ UNCHANGED <<vars, metrics, ran>>

\* exec returns; the refresh of the graph is not part of the latency.
Returns(key, fails) ==
  /\ stage[key] = "running"
  /\ stage' = [stage EXCEPT ![key] = "none"]
  /\ record(now - since[key], fails)
  /\ ran' = Append(ran, [ms |-> now - since[key], fails |-> fails])
  /\ UNCHANGED <<vars, since>>

\* exec times out or breaks: nothing is recorded.
Raises(key) ==
  /\ stage[key] = "running"
  /\ stage' = [stage EXCEPT ![key] = "none"]
  /\ UNCHANGED <<vars, metrics, since, ran>>

\* The clock, and the resets of the limiter and of the metrics.
Clock == Tick /\ UNCHANGED <<metrics, intake>>

Forgiven(keys) == Reset(keys) /\ UNCHANGED <<metrics, intake>>

Forgotten ==
  /\ forget
  /\ ran' = <<>>
  /\ UNCHANGED <<vars, stage, since>>

IntakeInit ==
  /\ Init /\ MetricsInit
  /\ stage = [key \in Keys |-> "none"]
  /\ since = [key \in Keys |-> 0]
  /\ ran = <<>>

IntakeNext ==
  \/ \E key \in Keys :
       \/ Command(key) \/ Drops(key) \/ Begins(key) \/ Raises(key)
       \/ \E fails \in BOOLEAN : Returns(key, fails)
       \/ Forgiven({key})
  \/ Clock \/ Forgiven(Keys) \/ Forgotten

IntakeSpec == IntakeInit /\ [][IntakeNext]_<<vars, metrics, intake>>

-----------------------------------------------------------------------------
\* The p-th percentile of the latencies of q by its definition: the least one
\* that p per cent of them do not exceed.
Percentile(q, p) ==
  LET upTo(ms) == Cardinality({i \in DOMAIN q : q[i].ms <= ms})
      enough == {q[i].ms : i \in {j \in DOMAIN q : 100 * upTo(q[j].ms) >= p * Len(q)}}
  IN  CHOOSE ms \in enough : \A other \in enough : ms <= other

(***************************************************************************)
(* /metrics tells the truth about the executions that returned, in         *)
(* whatever order they did and however many: the counters count them all,  *)
(* and the statistics are those of the latest MaxSamples of them.          *)
(***************************************************************************)
SnapshotIsOfRuns ==
  LET n == IF Len(ran) < MaxSamples THEN Len(ran) ELSE MaxSamples
      last == Latest(n)
      lasted == {last[i].ms : i \in DOMAIN last}
  IN  /\ total = Len(ran)
      /\ failed = Cardinality({i \in DOMAIN ran : ran[i].fails})
      /\ snapshot.count = n
      /\ n > 0 =>
           /\ snapshot.p50 = Percentile(last, 50)
           /\ snapshot.p95 = Percentile(last, 95)
           /\ snapshot.p99 = Percentile(last, 99)
           /\ snapshot.max \in lasted /\ \A ms \in lasted : ms <= snapshot.max
=============================================================================
