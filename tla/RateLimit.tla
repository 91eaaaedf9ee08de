------------------------------ MODULE RateLimit ------------------------------
(***************************************************************************)
(* The sliding-window rate limiter (src/src/lib/rate-limit): which layers  *)
(* a request counts in, what the Lua script does with the two counters of  *)
(* a layer, and what a denial tells the client.                            *)
(*                                                                         *)
(* Redis runs the script in one step, so a counter is what the calls made  *)
(* of it in their order.  A layer is [name, limit, window, cost], its      *)
(* counters bs a function from <<name, start of the window>> to their      *)
(* value n and the time until which Redis keeps them.  nowMs is the time   *)
(* the process read before its first layer, at the time Redis runs the     *)
(* script.  The script's doubles are exact rationals here.                 *)
(***************************************************************************)
EXTENDS Integers, Sequences, FiniteSets

CONSTANT None  \* an option a route leaves out

NoCounters == [k \in {} |-> [n |-> 0, until |-> 0]]

\* SET of a key of Redis: db with the value at key.
Put(db, key, value) == [k \in DOMAIN db \cup {key} |-> IF k = key THEN value ELSE db[k]]

WindowStart(nowMs, window) == (nowMs \div window) * window

RateLimitKey(layer, start) == <<layer.name, start>>

\* GET of a counter, 0 when there is none.
Count(bs, key, at) == IF key \in DOMAIN bs /\ at < bs[key].until THEN bs[key].n ELSE 0

-----------------------------------------------------------------------------
(* The script                                                              *)

\* prev * (1 - elapsed / window) + curr, times window.
ComputeEstimate(prev, curr, elapsed, window) == prev * (window - elapsed) + curr * window

NotNegative(n) == IF n < 0 THEN 0 ELSE n

Decide(estimate, elapsed, layer) ==
  LET allowed == estimate + layer.cost * layer.window <= layer.limit * layer.window
      charge  == IF allowed THEN layer.cost * layer.window ELSE 0
      left    == layer.limit * layer.window - estimate - charge
  IN  [allowed |-> allowed,
       remaining |-> NotNegative(left \div layer.window),
       resetIn |-> layer.window - elapsed]

\* Faulty variant: a counter is gone when its own window and no other has passed.
KeptOneWindow(at, window) == at + window

\* PEXPIRE: the next window must still find this one's counter.
Kept(at, window) == at + 2 * window

Charged(bs, layer, key, at) ==
  Put(bs, key, [n |-> Count(bs, key, at) + layer.cost, until |-> Kept(at, layer.window)])

Consume(bs, layer, nowMs, at) ==
  LET curr    == RateLimitKey(layer, WindowStart(nowMs, layer.window))
      prev    == RateLimitKey(layer, WindowStart(nowMs, layer.window) - layer.window)
      elapsed == nowMs % layer.window
      result  == Decide(ComputeEstimate(Count(bs, prev, at), Count(bs, curr, at), elapsed,
                                        layer.window), elapsed, layer)
  IN  [result |-> result, counters |-> IF result.allowed THEN Charged(bs, layer, curr, at) ELSE bs]

-----------------------------------------------------------------------------
(* Layers of a request                                                     *)

HealthPaths == {"/health", "/health/live", "/health/ready", "/health/startup", "/health/db",
                "/health/cache"}

\* /docs and what is below it; preflights never count.
ShouldSkipRateLimit(method, path) == method = "OPTIONS" \/ path \in HealthPaths \cup {"/docs"}

\* defaults: the windows [limit, window] of the global and of the route's own
\* layer; route: perIp, perUser (windows or None), purposes (a sequence of
\* [name, limit, window]) and the cost.
ResolveLayerConfig(defaults, route, routeId, hasUser) ==
  LET cost == IF route.cost = None THEN 1 ELSE route.cost
      Layer(name, w) == [name |-> name, limit |-> w.limit, window |-> w.window, cost |-> cost]
      perUser == IF hasUser /\ route.perUser # None
                 THEN <<Layer(<<"route-user", routeId>>, route.perUser)>> ELSE <<>>
  IN  <<Layer(<<"global", "ip">>, defaults.global),
        Layer(<<"route-ip", routeId>>,
              IF route.perIp = None THEN defaults.perIp ELSE route.perIp)>>
      \o perUser
      \o [i \in DOMAIN route.purposes |->
            Layer(<<"purpose", route.purposes[i].name>>, route.purposes[i])]

-----------------------------------------------------------------------------
(* Headers of a decision.  decisions: results with their layer, the last   *)
(* one the denial if there is one.                                         *)

Tightest(decisions) ==
  CHOOSE d \in DOMAIN decisions :
    \A other \in DOMAIN decisions :
      LET best == decisions[d]
          next == decisions[other]
      IN  \/ best.result.remaining < next.result.remaining
          \/ /\ best.result.remaining = next.result.remaining
             /\ \/ best.layer.limit < next.layer.limit
                \/ best.layer.limit = next.layer.limit /\ d <= other

Denied(decisions) == {d \in DOMAIN decisions : ~decisions[d].result.allowed}

\* The unit of time is the second; None is a header that is not set.
BuildRateLimitHeaders(decisions, nowMs) ==
  LET best   == decisions[Tightest(decisions)]
      resets == {decisions[d].result.resetIn : d \in Denied(decisions)}
      longest == CHOOSE s \in resets : \A other \in resets : other <= s
  IN  [limit |-> best.layer.limit, remaining |-> best.result.remaining,
       reset |-> nowMs + best.result.resetIn,
       retryAfter |-> IF resets = {} THEN None ELSE longest,
       layer |-> IF resets = {} THEN None ELSE best.layer.name]

-----------------------------------------------------------------------------
(* Properties                                                              *)

\* A call reaches a layer when Redis runs its script; lag is how long before
\* that the process had read the clock.
Asked(call) == call.at - call.lag

InOrder(calls) == /\ \A i \in DOMAIN calls : calls[i].lag <= calls[i].at
                  /\ \A i, j \in DOMAIN calls : i <= j => calls[i].at <= calls[j].at

\* What the script said to each of the calls, and the counters after it.
Ran(layer, calls) ==
  LET past[i \in 0 .. Len(calls)] ==
        IF i = 0 THEN [result |-> None, counters |-> NoCounters]
        ELSE Consume(past[i - 1].counters, layer, Asked(calls[i]), calls[i].at)
  IN  past

\* The limit is kept whatever the order in which Redis runs the scripts.  In
\* none of the fixed windows are more calls let in than the limit, unless one was
\* so late that the window's counter was gone (its own window and the next one
\* were over).  A stretch as long as a window that begins inside one, at any of the
\* times, may have more, up to but not including twice the limit, if every script
\* ran in the window its process had read (spec 010 2.2 promises a tenth more, see
\* Server's LimiterPromises).  Once a whole window without calls has passed, the next is let in.
HistoryHolds(layer, calls, times) ==
  LET past     == Ran(layer, calls)
      W        == layer.window
      Start(i) == WindowStart(Asked(calls[i]), W)
      admitted == {i \in 1 .. Len(calls) : past[i].result.allowed}
      Used(S)  == Cardinality({i \in admitted : Asked(calls[i]) \in S}) * layer.cost
      free     == WindowStart(calls[Len(calls)].at, W) + 2 * W
  IN  /\ \A i \in admitted :
           (\A j \in admitted : Start(j) = Start(i) => calls[j].at < Start(j) + 2 * W) =>
             Used(Start(i) .. Start(i) + W - 1) <= layer.limit
      /\ (\A i \in 1 .. Len(calls) : calls[i].at < Start(i) + W) =>
           \A t \in times : Used(t .. t + W - 1) * W <= layer.limit * (2 * W - 1)
      /\ Consume(past[Len(calls)].counters, layer, free, free).result.allowed

\* All ways four calls reach a layer, and layers of different shapes.
Histories == {calls \in [1 .. 4 -> [at : 0 .. 6, lag : {0, 1, 3}]] : InOrder(calls)}

SampleLayers == {[name |-> "orders", limit |-> l[1], window |-> l[2], cost |-> l[3]] :
                   l \in {<<1, 2, 1>>, <<2, 2, 1>>, <<2, 3, 1>>, <<5, 3, 2>>}}

\* HistoryHolds of each of them.
EveryHistoryHolds ==
  \A layer \in SampleLayers, calls \in Histories : HistoryHolds(layer, calls, 0 .. 6)

=============================================================================
