------------------------------- MODULE Probes -------------------------------
(***************************************************************************)
(* The dependency probes behind the health endpoints                       *)
(* (lib/health/probes.ts): what memoizeProbe remembers, and what the       *)
(* results and the readiness gate make of an answer.                       *)
(*                                                                         *)
(* A result is [status, at], at the time it came in.  A memo is the value  *)
(* last resolved (NoResult at first), the time it expires, and since when  *)
(* a probe has been in flight (NotProbing when there is none).             *)
(***************************************************************************)
EXTENDS Integers

CONSTANTS
  ProbeTTL,      \* PROBE_CACHE_TTL_MS
  ProbeTimeout   \* the timeout of each component's probe

Components == {"db", "cache", "storage"}

\* Readiness does not depend on S3.
Required == {"db", "cache"}

NoResult == [status |-> "none", at |-> 0]

NotProbing == -1

NewMemo == [value |-> NoResult, expires |-> 0, since |-> NotProbing]

\* Faulty variant: a success is served for ever.
FreshForEver(memo, ts) == memo.value.status = "ok"

\* Only a success is served again.
Fresh(memo, ts) == memo.value.status = "ok" /\ ts < memo.expires

\* A call that finds no fresh value joins the probe in flight or starts one.
Called(memo, ts) ==
  IF Fresh(memo, ts) \/ memo.since # NotProbing THEN memo ELSE [memo EXCEPT !.since = ts]

\* The TTL counts from the end of the probe.
Expires(memo, status, ts) == IF status = "ok" THEN ts + ProbeTTL ELSE memo.expires

Resolved(memo, status, ts) ==
  [value |-> [status |-> status, at |-> ts], expires |-> Expires(memo, status, ts),
   since |-> NotProbing]

\* runWithTimeout: the timer may fire from then on.
TimeIsUp(memo, c, ts) == memo.since # NotProbing /\ ts >= memo.since + ProbeTimeout[c]

AnyFail(results) == \E c \in Required : results[c].status = "fail"

\* GET /health/ready
AggregateReadiness(shuttingDown, results) == IF shuttingDown \/ AnyFail(results) THEN 503 ELSE 200

\* GET /health; degraded is reserved, so that its status is the same.
BuildOverallBody(shuttingDown, results) ==
  LET status == IF shuttingDown \/ AnyFail(results) THEN "down" ELSE "ok"
  IN  IF status = "down" THEN 503 ELSE 200

\* GET /health/startup
BuildStartupBody(started) == IF started THEN 200 ELSE 503

\* GET /health/db, /health/cache and /health/storage
BuildComponentBody(status) == IF status = "ok" THEN 200 ELSE 503

=============================================================================
