------------------------------- MODULE Server -------------------------------
(***************************************************************************)
(* One process of the server and the Redis beside it: what every request   *)
(* passes through before and after its handler (content negotiation,       *)
(* Idempotency-Key, schema, rate limit, replay or handler, storing of the  *)
(* answer), the health probes, and the life of the process from SIGTERM or *)
(* a crash to its next start.                                              *)
(*                                                                         *)
(* A request waits, and others run, at each await: one call of the script  *)
(* per layer, the lookup, the handler, the save, the pings.  A handler is  *)
(* an answer or a thrown error here; the other modules are about what it   *)
(* does.  Requests come in one after the other, 1 first; all of them come  *)
(* from one address and, when they carry a token, from one account.        *)
(***************************************************************************)
EXTENDS RateLimit, Errors, Probes, SequencesExt

CONSTANTS
  N,             \* requests, at most
  Setups,        \* what the clients send and what goes wrong: see SetupOK
  Defaults,      \* windows of the global and of the default layer
  Routes,        \* config.rateLimit of every path
  ReplyTTL,      \* TTL_SEC_24H of a stored answer
  Grace,         \* SHUTDOWN_DRAIN_GRACE_MS
  ForceExit,     \* FORCE_EXIT_MS
  Thrown,        \* what a handler may throw
  Horizon        \* bound: the model's last instant

VARIABLES
  setup,     \* load: what each request is; mode: RATE_LIMIT_FAILURE_MODE, or
             \*   RATE_LIMIT_DISABLED; faults: what may go wrong in this behaviour
  clock,
  server,    \* phase; since: when draining began; code: of the exit; starts: starts so far
  script,    \* Redis has the script loaded
  counters,  \* Redis: of the rate limiter
  replies,   \* Redis: stored answers by storage key
  memos,     \* the process: memoizeProbe of each component
  req        \* the requests' progress

vars == <<setup, clock, server, script, counters, replies, memos, req>>

Requests == DOMAIN setup.load

BodyMethods == {"POST", "PUT", "PATCH"}

\* A request as sent.  user: with a valid token; wrong: what its head or its
\* body fails: content negotiation, the form of the key, the schema, or None.
Inbound == [method : BodyMethods \cup {"GET", "OPTIONS"},
            path : DOMAIN Routes \cup HealthPaths \cup {"/health/storage"},
            key : {"k1", "k2", None}, body : {"b1", "b2", None}, user : BOOLEAN,
            wrong : {"media", "key", "schema", None}]

Faults == {"redis", "throw", "ping", "signal", "crash", "flush", "redis restart"}

SetupOK(s) ==
  /\ s.load \in Seq(Inbound) /\ Len(s.load) <= N
  /\ s.mode \in {"open", "closed", "disabled"}
  /\ s.faults \subseteq Faults

Quota == [limit : Nat, window : Nat \ {0}]
Purpose == [name : STRING, limit : Nat, window : Nat \ {0}]

Route == [off : BOOLEAN, cost : (Nat \ {0}) \cup {None}, perIp : Quota \cup {None},
          perUser : Quota \cup {None}, purposes : Seq(Purpose)]

\* A purpose is a constant of the source, so that the routes that share its
\* counters (order-create, order-lifecycle) share its window.
ASSUME ServerAssumption ==
  /\ N \in Nat /\ Horizon \in Nat /\ ReplyTTL \in Nat \ {0} /\ ProbeTTL \in Nat \ {0}
  /\ \A s \in Setups : SetupOK(s)
  /\ Defaults \in [global : Quota, perIp : Quota]
  /\ Routes \in [DOMAIN Routes -> Route]
  /\ \A p, q \in DOMAIN Routes :
       \A a \in ToSet(Routes[p].purposes), b \in ToSet(Routes[q].purposes) :
         a.name = b.name => a.window = b.window

PCs == {"new", "limit", "lookup", "handle", "save", "ping", "done", "cut"}

Statuses == {0, 200, 201, 503} \cup {StatusOfThrown(t) : t \in DOMAIN AppErrorStatus}

(* asked: nowMs of the rate limiter, or when a probe came in; layer: the   *)
(* one it is at; got: results of the pings it awaits; from: the request    *)
(* whose stored answer it was given, itself when it stored one.            *)
(* History: admitted, every layer let it in; open, the limiter failed open;*)
(* wiped, Redis lost its counters; late, a layer ran after the counters of *)
(* its window could be gone; blind, its lookup failed; stored, what became *)
(* of its save, and of the entry since.                                    *)
Progress == [pc : PCs, status : Statuses, asked : Nat, layer : Nat \ {0},
             got : [Components -> [status : {"none", "ok", "fail"}, at : Nat]], from : 0 .. N,
             admitted : BOOLEAN, open : BOOLEAN, wiped : BOOLEAN, late : BOOLEAN,
             blind : BOOLEAN, stored : {"none", "won", "lost", "failed", "gone"}]

TypeOK ==
  /\ SetupOK(setup)
  /\ clock \in 0 .. Horizon
  /\ server \in [phase : {"up", "draining", "closing", "exited"}, since : 0 .. Horizon,
                 code : 0 .. 1, starts : 1 .. 2]
  /\ script \in BOOLEAN
  /\ \A k \in DOMAIN counters :
       counters[k].n \in Nat \ {0} /\ counters[k].until \in Nat /\ counters[k].until > clock
  /\ \A k \in DOMAIN replies :
       replies[k].from \in Requests /\ replies[k].until \in Nat /\ replies[k].until > clock
  /\ memos \in [Components -> [value : [status : {"none", "ok", "fail"}, at : Nat],
                               expires : Nat, since : NotProbing .. Horizon]]
  /\ req \in [Requests -> Progress]

New == [pc |-> "new", status |-> 0, asked |-> 0, layer |-> 1,
        got |-> [c \in Components |-> NoResult], from |-> 0, admitted |-> FALSE, open |-> FALSE,
        wiped |-> FALSE, late |-> FALSE, blind |-> FALSE, stored |-> "none"]

Up(starts) == [phase |-> "up", since |-> 0, code |-> 0, starts |-> starts]

NoReplies == [k \in {} |-> [from |-> 0, hash |-> None, until |-> 0]]

\* The process has just begun to listen: plugins registered, script loaded.
Init ==
  /\ setup \in Setups
  /\ clock = 0
  /\ server = Up(1)
  /\ script = TRUE
  /\ counters = NoCounters
  /\ replies = NoReplies
  /\ memos = [c \in Components |-> NewMemo]
  /\ req = [r \in Requests |-> New]

-----------------------------------------------------------------------------
(* Helpers                                                                 *)

Sent(r) == setup.load[r]

Faulted(fault) == fault \in setup.faults

Becomes(r, q) == req' = [req EXCEPT ![r] = q]

At(q, pc) == [q EXCEPT !.pc = pc]

\* A request that is over is only remembered as far as it was let in.
Over(q) ==
  IF q.admitted THEN [q EXCEPT !.layer = 1, !.blind = FALSE]
  ELSE New

Answered(q, status) == [Over(q) EXCEPT !.pc = "done", !.status = status]

Open(r) == req[r].pc \notin {"new", "done", "cut"}

Serving == server.phase # "exited"

Layers(r) ==
  ResolveLayerConfig(Defaults, Routes[Sent(r).path], Sent(r).path, Sent(r).user)

Keyed(r) == Sent(r).method \in BodyMethods /\ Sent(r).key # None

\* computeEndpointId leaves the body out, computeRequestId does not.
StorageKey(r) == <<Sent(r).method, Sent(r).path, Sent(r).key>>

RequestHash(r) == <<Sent(r).method, Sent(r).path, Sent(r).body>>

\* After the rate limiter: the preHandler of the idempotency plugin, if any.
Entered(r, q) == [At(q, IF Keyed(r) THEN "lookup" ELSE "handle") EXCEPT !.layer = 1]

-----------------------------------------------------------------------------
(* A request comes in                                                      *)

\* The memoized probes a health endpoint calls.
Awaited(r) ==
  CASE Sent(r).path \in {"/health/ready", "/health"} -> Required
    [] Sent(r).path = "/health/storage" -> {"storage"}
    [] OTHER -> {}

\* Diagnostics that share no probe.
ComponentOf == [path \in {"/health/db", "/health/cache"} |->
                  IF path = "/health/db" THEN "db" ELSE "cache"]

\* What is thrown before the preHandlers, in the order of the hooks; a key
\* counts only for a method with a body.  Health paths pass all of them, and a
\* preflight the first.
ThrownEarly(r) ==
  CASE Sent(r).wrong = "media" /\ Sent(r).method # "OPTIONS" -> "UnsupportedMediaTypeError"
    [] Sent(r).wrong = "key" /\ Sent(r).method \in BodyMethods -> IdempotencyKeyInvalid
    [] Sent(r).wrong = "schema" -> "validation"
    [] OTHER -> None

\* The listener is open until close() and the requests before have come in.
Arrives(r) ==
  /\ server.phase \in {"up", "draining"}
  /\ req[r].pc = "new"
  /\ \A s \in Requests : s < r => req[s].pc # "new"
  /\ UNCHANGED <<setup, clock, server, script, counters, replies>>

OnRequest(r) ==
  /\ Arrives(r)
  /\ Sent(r).path \notin HealthPaths \cup {"/health/storage"}
  /\ IF ThrownEarly(r) # None THEN Becomes(r, Answered(req[r], StatusOfThrown(ThrownEarly(r))))
     ELSE IF \/ setup.mode = "disabled"
             \/ ShouldSkipRateLimit(Sent(r).method, Sent(r).path)
             \/ Routes[Sent(r).path].off
     THEN Becomes(r, Entered(r, req[r]))
     ELSE Becomes(r, [At(req[r], "limit") EXCEPT !.asked = clock])
  /\ UNCHANGED memos

-----------------------------------------------------------------------------
(* The rate limiter: a script call per layer                               *)

AtLayer(r) == Layers(r)[req[r].layer]

Consumed(r) == Consume(counters, AtLayer(r), req[r].asked, clock)

IsLate(r) ==
  clock >= WindowStart(req[r].asked, AtLayer(r).window) + 2 * AtLayer(r).window

Limiting(r) ==
  /\ Serving /\ req[r].pc = "limit"
  /\ UNCHANGED <<setup, clock, server, script, replies, memos>>

\* Faulty variant: the first layer that lets the request in is the last one asked.
NextLayerNone(r, q) == Entered(r, [q EXCEPT !.admitted = TRUE])

NextLayer(r, q) ==
  IF q.layer < Len(Layers(r)) THEN [q EXCEPT !.layer = @ + 1]
  ELSE Entered(r, [q EXCEPT !.admitted = TRUE])

LayerAllows(r) ==
  /\ Limiting(r) /\ script
  /\ Consumed(r).result.allowed
  /\ counters' = Consumed(r).counters
  /\ Becomes(r, NextLayer(r, [req[r] EXCEPT !.late = @ \/ IsLate(r)]))

LayerDenies(r) ==
  /\ Limiting(r) /\ script
  /\ ~Consumed(r).result.allowed
  /\ Becomes(r, Answered(req[r], StatusOfThrown("TooManyRequestsError")))
  /\ UNCHANGED counters

\* EVALSHA fails: the script is gone, or the connection is, perhaps after the
\* script ran.  The remaining layers are not asked.
LayerFails(r) ==
  /\ Limiting(r)
  /\ \/ UNCHANGED counters /\ (~script \/ Faulted("redis"))
     \/ counters' = Consumed(r).counters /\ script /\ Faulted("redis")
  /\ Becomes(r, IF setup.mode = "open"
                THEN Entered(r, [req[r] EXCEPT !.open = TRUE, !.admitted = TRUE])
                ELSE Answered(req[r], StatusOfThrown("ServiceUnavailableError")))

-----------------------------------------------------------------------------
(* Idempotency: lookup, handler, save                                      *)

Serves(r, pc) ==
  /\ Serving /\ req[r].pc = pc
  /\ UNCHANGED <<setup, clock, server, script, counters, memos>>

Replay(r) ==
  /\ Serves(r, "lookup")
  /\ StorageKey(r) \in DOMAIN replies
  /\ LET hit == replies[StorageKey(r)]
     IN  Becomes(r, IF hit.hash = RequestHash(r)
                    THEN [Answered(req[r], 201) EXCEPT !.from = hit.from]
                    ELSE Answered(req[r], StatusOfThrown(IdempotencyKeyConflict)))
  /\ UNCHANGED replies

\* No answer is stored, or the lookup fails and the store reports none.
Miss(r) ==
  /\ Serves(r, "lookup")
  /\ \/ StorageKey(r) \notin DOMAIN replies /\ Becomes(r, At(req[r], "handle"))
     \/ Faulted("redis") /\ Becomes(r, [At(req[r], "handle") EXCEPT !.blind = TRUE])
  /\ UNCHANGED replies

\* The handler, and onSend when there is nothing to store: no key, no 2xx.
Handle(r) ==
  /\ Serves(r, "handle")
  /\ \/ Becomes(r, IF Keyed(r) THEN At(req[r], "save") ELSE Answered(req[r], 201))
     \/ Faulted("throw") /\ \E t \in Thrown : Becomes(r, Answered(req[r], StatusOfThrown(t)))
  /\ UNCHANGED replies

Entry(r, until) == [from |-> r, hash |-> RequestHash(r), until |-> until]

\* Faulty variant: the TTL is taken for an instant.
StoredUntilTTL(r) ==
  IF StorageKey(r) \in DOMAIN replies THEN replies
  ELSE Put(replies, StorageKey(r), Entry(r, ReplyTTL))

\* Faulty variant: SET without NX.
StoredOver(r) == Put(replies, StorageKey(r), Entry(r, clock + ReplyTTL))

\* SET EX NX
Stored(r) ==
  IF StorageKey(r) \in DOMAIN replies THEN replies
  ELSE Put(replies, StorageKey(r), Entry(r, clock + ReplyTTL))

Saved(r, stored) == [Answered(req[r], 201) EXCEPT !.stored = stored, !.from = r]

Save(r) ==
  /\ Serves(r, "save")
  /\ \/ /\ replies' = Stored(r)
        /\ Becomes(r, Saved(r, IF StorageKey(r) \in DOMAIN replies THEN "lost" ELSE "won"))
     \/ /\ Faulted("redis")
        /\ replies' \in {replies, Stored(r)}
        /\ Becomes(r, Saved(r, "failed"))

-----------------------------------------------------------------------------
(* Health                                                                  *)

\* The memoized probes are called; a fresh value is there at once.
ProbeAsks(r) ==
  /\ Arrives(r)
  /\ Awaited(r) # {}
  /\ memos' = [c \in Components |->
                IF c \in Awaited(r) THEN Called(memos[c], clock) ELSE memos[c]]
  /\ Becomes(r, [At(req[r], "ping") EXCEPT
       !.asked = clock,
       !.got = [c \in Components |->
                  IF c \in Awaited(r) /\ Fresh(memos[c], clock) THEN memos[c].value
                  ELSE NoResult]])

\* A ping ends: everyone who waits for the component gets the result.
Resolve(c, status) ==
  /\ memos' = [memos EXCEPT ![c] = Resolved(@, status, clock)]
  /\ req' = [r \in Requests |->
               IF req[r].pc = "ping" /\ c \in Awaited(r) /\ req[r].got[c] = NoResult
               THEN [req[r] EXCEPT !.got[c] = [status |-> status, at |-> clock]] ELSE req[r]]
  /\ UNCHANGED <<setup, clock, server, script, counters, replies>>

PingEnds(c) ==
  /\ Serving /\ memos[c].since # NotProbing
  /\ \/ Resolve(c, "ok")
     \/ Faulted("ping") /\ Resolve(c, "fail")
     \/ TimeIsUp(memos[c], c, clock) /\ Resolve(c, "fail")

\* The gate is read when the results are there.
HealthStatus(r) ==
  LET shuttingDown == server.phase # "up"
  IN  CASE Sent(r).path = "/health" -> BuildOverallBody(shuttingDown, req[r].got)
        [] Sent(r).path = "/health/ready" -> AggregateReadiness(shuttingDown, req[r].got)
        [] Sent(r).path = "/health/storage" -> BuildComponentBody(req[r].got["storage"].status)

HealthAnswers(r) ==
  /\ Serves(r, "ping") /\ Awaited(r) # {}
  /\ \A c \in Awaited(r) : req[r].got[c] # NoResult
  /\ Becomes(r, Answered(req[r], HealthStatus(r)))
  /\ UNCHANGED replies

\* Liveness and startup look at the process only: whoever listens has started.
FlagAnswers(r) ==
  /\ Arrives(r)
  /\ Sent(r).path \in {"/health/live", "/health/startup"}
  /\ Becomes(r, Answered(req[r], BuildStartupBody(Serving)))
  /\ UNCHANGED memos

ComponentAsks(r) ==
  /\ Arrives(r)
  /\ Sent(r).path \in DOMAIN ComponentOf
  /\ Becomes(r, [At(req[r], "ping") EXCEPT !.asked = clock])
  /\ UNCHANGED memos

\* A ping of its own, with a timer of its own.
ComponentAnswers(r) ==
  /\ Serves(r, "ping") /\ Awaited(r) = {}
  /\ LET late == clock >= req[r].asked + ProbeTimeout[ComponentOf[Sent(r).path]]
     IN  \E status \in {"ok"} \cup IF late \/ Faulted("ping") THEN {"fail"} ELSE {} :
           Becomes(r, Answered(req[r], BuildComponentBody(status)))
  /\ UNCHANGED replies

-----------------------------------------------------------------------------
(* Time and Redis                                                          *)

\* A stored answer that is gone stays so for the request that stored it.
Forgets(keys, q, r) ==
  IF q.stored = "won" /\ StorageKey(r) \in keys THEN [q EXCEPT !.stored = "gone"] ELSE q

Tick ==
  /\ clock < Horizon
  /\ clock' = clock + 1
  /\ LET over == {k \in DOMAIN replies : replies[k].until <= clock + 1}
         kept == {k \in DOMAIN counters : counters[k].until > clock + 1}
     IN  /\ replies' = [k \in DOMAIN replies \ over |-> replies[k]]
         /\ counters' = [k \in kept |-> counters[k]]
         /\ req' = [r \in Requests |-> Forgets(over, req[r], r)]
  /\ UNCHANGED <<setup, server, script, memos>>

\* Redis loses all keys.
Wiped ==
  /\ counters' = NoCounters
  /\ replies' = NoReplies
  /\ req' = [r \in Requests |->
               [Forgets(DOMAIN replies, req[r], r) EXCEPT
                  !.wiped = @ \/ Open(r) \/ req[r].admitted]]
  /\ UNCHANGED <<setup, clock, server, memos>>

\* POST /cms/system/flush-redis: FLUSHDB leaves the script.
FlushRedis == Faulted("flush") /\ Wiped /\ UNCHANGED script

\* A restart does not, and evalsha has no second try.
RedisRestarts == Faulted("redis restart") /\ Wiped /\ script' = FALSE

-----------------------------------------------------------------------------
(* The process.  Nothing of a request survives it.                         *)

Cut == [r \in Requests |-> IF Open(r) THEN At(Over(req[r]), "cut") ELSE req[r]]

Exits(code) ==
  /\ server' = [server EXCEPT !.phase = "exited", !.since = 0, !.code = code]
  /\ memos' = [c \in Components |-> NewMemo]
  /\ req' = Cut
  /\ UNCHANGED <<setup, clock, script, counters, replies>>

\* SIGTERM, SIGINT or an unhandled rejection, once; late enough ones only
\* whose timers fire before the Horizon.
Shutdown ==
  /\ Faulted("signal")
  /\ server.phase = "up"
  /\ clock + ForceExit <= Horizon
  /\ server' = [server EXCEPT !.phase = "draining", !.since = clock]
  /\ UNCHANGED <<setup, clock, script, counters, replies, memos, req>>

CloseStarts ==
  /\ server.phase = "draining" /\ clock >= server.since + Grace
  /\ server' = [server EXCEPT !.phase = "closing"]
  /\ UNCHANGED <<setup, clock, script, counters, replies, memos, req>>

\* close() waits for the requests in flight, then for the plugins.
Closed ==
  /\ server.phase = "closing"
  /\ \A r \in Requests : ~Open(r)
  /\ \E code \in 0 .. 1 : Exits(code)

\* Faulty variant: a close() that has begun is trusted to end.
ForceExitsEarly == server.phase = "draining" /\ clock >= server.since + ForceExit /\ Exits(1)

ForceExits ==
  server.phase \in {"draining", "closing"} /\ clock >= server.since + ForceExit /\ Exits(1)

\* uncaughtException
Crash == Faulted("crash") /\ Serving /\ Exits(1)

\* The supervisor starts it once more.
Restart ==
  /\ server.phase = "exited" /\ server.starts = 1
  /\ server' = Up(2)
  /\ script' = TRUE
  /\ UNCHANGED <<setup, clock, counters, replies, memos, req>>

-----------------------------------------------------------------------------
(* Specification                                                           *)

Request(r) ==
  OnRequest(r) \/ LayerAllows(r) \/ LayerDenies(r) \/ LayerFails(r) \/ Replay(r) \/ Miss(r)
  \/ Handle(r) \/ Save(r) \/ ProbeAsks(r) \/ HealthAnswers(r) \/ FlagAnswers(r)
  \/ ComponentAsks(r) \/ ComponentAnswers(r)

Process == Shutdown \/ CloseStarts \/ Closed \/ ForceExits \/ Crash \/ Restart

Next ==
  \/ \E r \in Requests : Request(r)
  \/ \E c \in Components : PingEnds(c)
  \/ Tick \/ FlushRedis \/ RedisRestarts
  \/ Process

\* Time passes and timers fire.  No request need ever make another step.
Fairness == WF_vars(Tick) /\ WF_vars(CloseStarts) /\ WF_vars(Closed) /\ WF_vars(ForceExits)

Spec == Init /\ [][Next]_vars /\ Fairness

-----------------------------------------------------------------------------
(* Properties                                                              *)

Counted ==
  {r \in Requests : req[r].admitted /\ ~req[r].open /\ ~req[r].wiped /\ ~req[r].late}

Window(r, layer) == WindowStart(req[r].asked, layer.window)

\* The requests of one window that got past the limiter are no more than any
\* of their layers lets in, across requests in flight together, a restart of
\* the process and calls Redis ran without an answer arriving; left aside are
\* those let by while Redis failed, those whose counters it lost, and those so
\* late that the counters of their window were over.
LayersHold ==
  LET layers == [r \in Counted |-> ToSet(Layers(r))]
  IN  \A r \in Counted : \A layer \in layers[r] :
        LET same == {s \in Counted : layer \in layers[s] /\ Window(s, layer) = Window(r, layer)}
        IN  Cardinality(same) * layer.cost <= layer.limit

\* However the scripts of one layer's calls run, each of its fixed windows lets in
\* no more than the limit, no stretch across two of them as many as twice that,
\* and an idle window frees the layer.  These counters see few histories, so
\* HistoryHolds is asked of all short ones.
LimitHolds == counters # NoCounters => EveryHistoryHolds

LooksUp(r) == req[r].pc = "lookup" /\ req'[r].pc \in {"handle", "done"} /\ ~req'[r].blind

Twins(r, stored) ==
  {s \in Requests : Keyed(s) /\ StorageKey(s) = StorageKey(r) /\ req[s].stored = stored}

LookedUp(r) ==
  LET kept  == Twins(r, "won")
      maybe == kept \cup Twins(r, "failed")
  IN  /\ Cardinality(kept) <= 1
      /\ req'[r].pc = "handle" => kept = {}
      /\ req'[r].pc = "done" =>
           \E s \in IF kept = {} THEN maybe ELSE kept :
             IF RequestHash(s) = RequestHash(r)
             THEN req'[r].status = req[s].status /\ req'[r].from = s
             ELSE req'[r].status = 422 /\ req'[r].from = 0

\* A retry is answered with what its handler said the first time, or 422 if it
\* differs, once one answer was stored: never more than one is, until Redis
\* loses it.  Its handler runs again only when none was, because no earlier
\* request with the key had come that far or its save was lost.
RetriesReplayed == [][\A r \in Requests : LooksUp(r) => LookedUp(r)]_vars

ProbeAnswered(r) == Awaited(r) # {} /\ req[r].pc = "ping" /\ req'[r].pc = "done"

Stopping(r) == server.phase # "up" /\ Sent(r).path # "/health/storage"

Truthful(r) ==
  LET Since(status, t) ==
        {c \in Awaited(r) : req[r].got[c].status = status /\ req[r].got[c].at > t}
  IN  IF req'[r].status = 200
      THEN ~Stopping(r) /\ Since("ok", req[r].asked - ProbeTTL) = Awaited(r)
      ELSE Stopping(r) \/ Since("fail", req[r].asked - 1) # {}

\* "Ready" means that every dependency asked for answered no longer ago than
\* the cache lasts, counted from the request, and that nobody has asked the
\* process to stop; "not ready" means that it is stopping or that a dependency
\* failed since the request came in: an earlier failure is never served again.
\* Of S3 alone the same is said, stopping or not.
ReadinessHonest == [][\A r \in Requests : ProbeAnswered(r) => Truthful(r)]_vars

\* A process asked to stop stops, whatever its requests and pings wait for.
Drains == (server.phase = "draining") ~> (server.phase = "exited")

-----------------------------------------------------------------------------
(* What a comment and a document promise of the limiter and the code does  *)
(* not keep: the property of a run that expects a violation.               *)

\* Nobody else calls and the client waits as long as its Retry-After says: the
\* layer that denied it lets it in.
Clears(r) ==
  LET denial == [layer |-> AtLayer(r), result |-> Consumed(r).result]
      again  == req[r].asked + BuildRateLimitHeaders(<<denial>>, req[r].asked).retryAfter
  IN  Consume(counters, AtLayer(r), again, again).result.allowed

\* headers.ts: "the client backs off enough to clear them all".
RetryAfterClears == \A r \in Requests : LayerDenies(r) /\ req[r].asked = clock => Clears(r)

\* The scripts ran in the windows their processes had read: Redis keeps a counter
\* for two windows after its last call.
InTime(layer) ==
  \A s \in Requests : RateLimitKey(layer, Window(s, layer)) \in DOMAIN counters =>
    counters[RateLimitKey(layer, Window(s, layer))].until < Window(s, layer) + 3 * layer.window

\* Spec 010 2.2: where two windows meet the error is below a tenth, so that no
\* stretch as long as a window has more than a tenth over the limit.
ErrorUnderTenth ==
  \A r \in Counted : \A layer \in ToSet(Layers(r)) :
    LET stretch == {s \in Counted : /\ layer \in ToSet(Layers(s))
                                   /\ req[s].asked - req[r].asked \in 0 .. layer.window - 1}
    IN  InTime(layer) => Cardinality(stretch) * layer.cost * 10 <= layer.limit * 11

\* No behaviour breaks both promises, so one that does refutes each of them.
LimiterPromises == [][RetryAfterClears \/ ErrorUnderTenth]_vars

-----------------------------------------------------------------------------
(* The inductive invariant behind the safety properties above.             *)

Routed(r) == Sent(r).path \in DOMAIN Routes

\* What a request at each point of its way knows of itself.
Placed(r, q) ==
  /\ q.asked <= clock
  /\ q.pc = "new" => q = New
  /\ q.pc # "done" => q.from = 0
  /\ q.pc = "limit" => Routed(r) /\ q.layer \in DOMAIN Layers(r) /\ ~q.admitted
  /\ q.admitted => Routed(r)
  /\ q.pc \in {"lookup", "save"} \/ q.stored # "none" => Keyed(r)
  /\ q.stored # "none" => q.pc = "done" /\ q.status = 201 /\ q.from = r

\* A result a probe waited for is a success within the TTL or a failure since.
Heard(r, q) ==
  q.pc = "ping" =>
    \A c \in Awaited(r) : q.got[c] # NoResult =>
      \/ q.got[c].status = "ok" /\ q.got[c].at > q.asked - ProbeTTL
      \/ q.got[c].status = "fail" /\ q.got[c].at >= q.asked

MemosInv ==
  \A c \in Components :
    memos[c].value.status = "ok" => memos[c].expires = memos[c].value.at + ProbeTTL

\* An entry of k, and the request that stored it.
EntryOf(k, s) ==
  /\ Keyed(s) /\ StorageKey(s) = k /\ replies[k].from = s /\ replies[k].hash = RequestHash(s)
  /\ req[s].stored \in {"won", "failed"}

RepliesInv ==
  /\ \A k \in DOMAIN replies : EntryOf(k, replies[k].from)
  /\ \A s \in Requests : req[s].stored = "won" =>
       StorageKey(s) \in DOMAIN replies /\ replies[StorageKey(s)].from = s

\* The layers that have counted q, a state of r, in counters it can rely on.
Passed(r, q) ==
  IF (q.admitted \/ q.pc = "limit") /\ ~q.open /\ ~q.wiped /\ ~q.late
  THEN {Layers(r)[i] : i \in {j \in DOMAIN Layers(r) : q.admitted \/ j < q.layer}}
  ELSE {}

Counting(layer, start) ==
  {s \in Requests : layer \in Passed(s, req[s]) /\ Window(s, layer) = start}

\* A window that may still be asked for has a counter that counts them all.
Fits(layer, start) ==
  LET key == RateLimitKey(layer, start)
      sum == Cardinality(Counting(layer, start)) * layer.cost
  IN  /\ sum <= layer.limit
      /\ clock < start + 2 * layer.window =>
           /\ key \in DOMAIN counters
           /\ counters[key].n >= sum /\ counters[key].until >= start + 2 * layer.window

CountersInv ==
  \A r \in Requests : \A layer \in Passed(r, req[r]) : Fits(layer, Window(r, layer))

Inv ==
  /\ TypeOK
  /\ \A r \in Requests : Placed(r, req[r]) /\ Heard(r, req[r])
  /\ MemosInv /\ RepliesInv /\ CountersInv

=============================================================================
