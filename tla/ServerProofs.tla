---------------------------- MODULE ServerProofs ----------------------------
(***************************************************************************)
(* Proofs about the server: no window of a rate-limit layer admits more    *)
(* than its limit, a retry gets the answer its handler gave first, and     *)
(* readiness says what the dependencies said, for every set of clients,    *)
(* routes and failures.  The histories of calls of one layer, which the    *)
(* model checker enumerates up to four calls, come last: there the calls   *)
(* are as many and lie as they like.                                       *)
(*                                                                         *)
(* Everything rests on Inv.  Its parts speak of different variables, so    *)
(* each has a lemma that says which change of a request and of Redis keeps *)
(* it (PlacedMove, RepliesMove, CountersMove, ...), and the lemma of an    *)
(* action shows that the action is such a change.                          *)
(***************************************************************************)
EXTENDS Server, FiniteSetTheorems, SequenceTheorems, TLAPS

-----------------------------------------------------------------------------
(* Operators                                                               *)

\* Every thrown error has a status of its own class.
LEMMA ThrownStatus ==
  ASSUME NEW t
  PROVE  StatusOfThrown(t) \in Statuses
<1>1. ResolveAppError(t) \in DOMAIN AppErrorStatus
  BY DEF ResolveAppError, MapPrismaError, PrismaCodes, AppErrorStatus
<1>2. ResolveAppError(ResolveAppError(t)) = ResolveAppError(t)
  BY <1>1 DEF ResolveAppError
<1>3. StatusOfThrown(t) = StatusOfThrown(ResolveAppError(t))
  BY <1>2 DEF StatusOfThrown
<1> QED
  BY <1>1, <1>3 DEF Statuses

\* 422 is what a key used for another body is answered.
LEMMA ConflictStatus == StatusOfThrown(IdempotencyKeyConflict) = 422
BY DEF StatusOfThrown, ToProblem, ResolveAppError, IdempotencyKeyConflict, AppErrorStatus

\* A window begins before what happens in it.
LEMMA WindowBegins ==
  ASSUME NEW t \in Nat, NEW w \in Nat \ {0}
  PROVE  WindowStart(t, w) \in Int /\ WindowStart(t, w) <= t
<1> DEFINE d == t \div w
           m == t % w
<1>1. /\ d \in Int /\ m \in 0 .. w - 1
      /\ t = w * d + m
  OBVIOUS
<1>2. WindowStart(t, w) = d * w
  BY DEF WindowStart
<1> HIDE DEF d, m
<1>3. d * w = w * d /\ d * w \in Int
  BY <1>1
<1> DEFINE x == w * d
<1> HIDE DEF x
<1> QED
  BY <1>1, <1>2, <1>3 DEF x

-----------------------------------------------------------------------------
(* The layers of a request                                                 *)

LayerOK(layer) ==
  layer.limit \in Nat /\ layer.window \in Nat \ {0} /\ layer.cost \in Nat \ {0}

\* Where the name and the window of a layer of path p come from.
LayerOf(p, layer) ==
  \/ layer.name = <<"global", "ip">> /\ layer.window = Defaults.global.window
  \/ /\ layer.name = <<"route-ip", p>>
     /\ layer.window = (IF Routes[p].perIp = None THEN Defaults.perIp ELSE Routes[p].perIp).window
  \/ layer.name = <<"route-user", p>> /\ layer.window = Routes[p].perUser.window
  \/ \E a \in ToSet(Routes[p].purposes) :
       layer.name = <<"purpose", a.name>> /\ layer.window = a.window

\* resolveLayerConfig: at least two layers, each well formed and of a known kind.
LEMMA ResolvedLayers ==
  ASSUME NEW p \in DOMAIN Routes, NEW u \in BOOLEAN
  PROVE  LET ls == ResolveLayerConfig(Defaults, Routes[p], p, u)
         IN  /\ Len(ls) \in Nat \ {0} /\ DOMAIN ls = 1 .. Len(ls)
             /\ \A i \in DOMAIN ls : LayerOK(ls[i]) /\ LayerOf(p, ls[i])
<1> DEFINE route == Routes[p]
           cost == IF route.cost = None THEN 1 ELSE route.cost
           L(name, w) == [name |-> name, limit |-> w.limit, window |-> w.window, cost |-> cost]
           ip == IF route.perIp = None THEN Defaults.perIp ELSE route.perIp
           one == L(<<"global", "ip">>, Defaults.global)
           two == L(<<"route-ip", p>>, ip)
           user == L(<<"route-user", p>>, route.perUser)
           users == IF u /\ route.perUser # None THEN <<user>> ELSE <<>>
           pur(i) == L(<<"purpose", route.purposes[i].name>>, route.purposes[i])
           purs == [i \in DOMAIN route.purposes |-> pur(i)]
           Good == {x \in {one, two, user} \cup {pur(i) : i \in DOMAIN route.purposes} :
                      LayerOK(x) /\ LayerOf(p, x)}
           ls == <<one, two>> \o users \o purs
<1>1. /\ route \in Route /\ Defaults \in [global : Quota, perIp : Quota]
  BY ServerAssumption
<1>2. cost \in Nat \ {0}
  BY <1>1 DEF Route
<1>3. one \in Good
  BY <1>1, <1>2 DEF LayerOK, LayerOf, Quota
<1>4. two \in Good
  <2>1. ip \in Quota
    BY <1>1 DEF Route
  <2> QED
    BY <1>2, <2>1 DEF LayerOK, LayerOf, Quota
<1>5. users \in Seq(Good)
  <2>1. CASE u /\ route.perUser # None
    <3>1. user \in Good
      BY <1>1, <1>2, <2>1 DEF Route, LayerOK, LayerOf, Quota
    <3> QED
      BY <2>1, <3>1
  <2>2. CASE ~(u /\ route.perUser # None)
    BY <2>2
  <2> QED
    BY <2>1, <2>2
<1>6. purs \in Seq(Good)
  <2>1. route.purposes \in Seq(Purpose)
    BY <1>1 DEF Route
  <2>2. ASSUME NEW i \in DOMAIN route.purposes
        PROVE  pur(i) \in Good
    <3>1. route.purposes[i] \in Purpose /\ route.purposes[i] \in ToSet(route.purposes)
      BY <2>1 DEF ToSet
    <3>2. LayerOK(pur(i))
      BY <1>2, <3>1 DEF LayerOK, Purpose
    <3>3. LayerOf(p, pur(i))
      BY <3>1 DEF LayerOf
    <3> QED
      BY <3>2, <3>3
  <2>3. Len(route.purposes) \in Nat /\ DOMAIN route.purposes = 1 .. Len(route.purposes)
    BY <2>1
  <2> HIDE DEF pur, Good
  <2> QED
    BY <2>2, <2>3
<1>7. ls = ResolveLayerConfig(Defaults, Routes[p], p, u)
  BY DEF ResolveLayerConfig
<1> HIDE DEF Good, one, two, users, purs
<1>8. <<one, two>> \in Seq(Good) /\ Len(<<one, two>>) = 2
  BY <1>3, <1>4
<1>9. ls \in Seq(Good) /\ Len(ls) = 2 + Len(users) + Len(purs)
  BY <1>5, <1>6, <1>8
<1>10. Len(ls) \in Nat \ {0} /\ DOMAIN ls = 1 .. Len(ls)
  BY <1>5, <1>6, <1>9
<1>11. \A x \in Good : LayerOK(x) /\ LayerOf(p, x)
  BY DEF Good
<1> HIDE DEF ls
<1>12. \A i \in DOMAIN ls : LayerOK(ls[i]) /\ LayerOf(p, ls[i])
  BY <1>9, <1>10, <1>11
<1> QED
  BY <1>7, <1>10, <1>12

\* Layers that share their counters share their window.
LEMMA OneWindow ==
  ASSUME NEW p \in DOMAIN Routes, NEW q \in DOMAIN Routes, NEW a, NEW b,
         LayerOf(p, a), LayerOf(q, b), a.name = b.name
  PROVE  a.window = b.window
<1>1. CASE a.name[1] = "purpose"
  <2>1. PICK x \in ToSet(Routes[p].purposes) : a.name = <<"purpose", x.name>> /\ a.window = x.window
    BY <1>1 DEF LayerOf
  <2>2. PICK y \in ToSet(Routes[q].purposes) : b.name = <<"purpose", y.name>> /\ b.window = y.window
    BY <1>1 DEF LayerOf
  <2>3. <<"purpose", x.name>> = <<"purpose", y.name>>
    BY <2>1, <2>2
  <2>4. x.name = y.name
    BY <2>3
  <2> QED
    BY <2>1, <2>2, <2>4, ServerAssumption
<1>2. CASE a.name[1] # "purpose"
  BY <1>2 DEF LayerOf
<1> QED
  BY <1>1, <1>2

-----------------------------------------------------------------------------
(* Nothing changes what the clients send                                   *)

\* The requests and what is derived from how they were sent are constant.
LEMMA SetupFixed ==
  ASSUME setup' = setup
  PROVE  /\ Requests' = Requests
         /\ \A r : /\ Sent(r)' = Sent(r) /\ Layers(r)' = Layers(r) /\ Awaited(r)' = Awaited(r)
                   /\ (Keyed(r) <=> Keyed(r)') /\ (Routed(r) <=> Routed(r)')
                   /\ StorageKey(r)' = StorageKey(r) /\ RequestHash(r)' = RequestHash(r)
         /\ \A r, q : Passed(r, q)' = Passed(r, q)
<1>1. Requests' = Requests
  BY DEF Requests
<1>2. \A r : Sent(r)' = Sent(r)
  BY DEF Sent
<1>3. \A r : Layers(r)' = Layers(r)
  BY <1>2 DEF Layers
<1>4. \A r : Awaited(r)' = Awaited(r)
  BY <1>2 DEF Awaited
<1>5. \A r : (Keyed(r) <=> Keyed(r)') /\ (Routed(r) <=> Routed(r)')
  BY <1>2 DEF Keyed, Routed
<1>6. \A r : StorageKey(r)' = StorageKey(r) /\ RequestHash(r)' = RequestHash(r)
  BY <1>2 DEF StorageKey, RequestHash
<1>7. \A r, q : Passed(r, q)' = Passed(r, q)
  BY <1>3 DEF Passed
<1> QED
  BY <1>1, <1>2, <1>3, <1>4, <1>5, <1>6, <1>7

\* The requests are numbered, and there are at most N.
LEMMA RequestNumbers ==
  ASSUME TypeOK
  PROVE  /\ Requests \subseteq 1 .. N /\ IsFiniteSet(Requests)
         /\ \A r \in Requests : Sent(r) \in Inbound
<1>1. setup.load \in Seq(Inbound) /\ Len(setup.load) <= N
  BY DEF TypeOK, SetupOK
<1>2. Requests = 1 .. Len(setup.load)
  BY <1>1 DEF Requests
<1>3. IsFiniteSet(1 .. Len(setup.load))
  BY <1>1, FS_Interval
<1> QED
  BY <1>1, <1>2, <1>3, ServerAssumption DEF Sent

\* The layers of a request that is counted are well formed.
LEMMA LayersFit ==
  ASSUME TypeOK, NEW r \in Requests, Routed(r)
  PROVE  /\ Len(Layers(r)) \in Nat \ {0} /\ DOMAIN Layers(r) = 1 .. Len(Layers(r))
         /\ \A i \in DOMAIN Layers(r) :
              LayerOK(Layers(r)[i]) /\ LayerOf(Sent(r).path, Layers(r)[i])
<1>1. Sent(r).path \in DOMAIN Routes /\ Sent(r).user \in BOOLEAN
  BY RequestNumbers DEF Routed, Inbound
<1> QED
  BY <1>1, ResolvedLayers DEF Layers

\* So are the layers it has passed.
LEMMA PassedFit ==
  ASSUME TypeOK, NEW r \in Requests, NEW q \in Progress, Placed(r, q), NEW layer \in Passed(r, q)
  PROVE  /\ LayerOK(layer) /\ LayerOf(Sent(r).path, layer) /\ Routed(r)
         /\ WindowStart(q.asked, layer.window) \in Int
         /\ WindowStart(q.asked, layer.window) <= clock
<1>1. Routed(r)
  BY DEF Passed, Placed
<1>2. LayerOK(layer) /\ LayerOf(Sent(r).path, layer)
  BY <1>1, LayersFit DEF Passed
<1>3. q.asked \in Nat /\ q.asked <= clock /\ clock \in Nat
  BY ServerAssumption DEF Progress, Placed, TypeOK
<1>4. layer.window \in Nat \ {0}
  BY <1>2 DEF LayerOK
<1> DEFINE start == WindowStart(q.asked, layer.window)
<1>5. start \in Int /\ start <= q.asked
  BY <1>3, <1>4, WindowBegins
<1> HIDE DEF start
<1>6. start <= clock
  BY <1>3, <1>5
<1> QED
  BY <1>1, <1>2, <1>5, <1>6 DEF start

-----------------------------------------------------------------------------
(* A request that ends, or goes on, by itself                              *)

\* p follows q, without a stored answer and without a layer more.
Follows(r, q, p) ==
  /\ p \in Progress /\ Placed(r, p) /\ Heard(r, p) /\ p.stored = "none"
  /\ Passed(r, p) \subseteq Passed(r, q)
  /\ Passed(r, p) # {} => p.asked = q.asked

\* New is a state of every request.
LEMMA NewProgress ==
  ASSUME TypeOK
  PROVE  New \in Progress
BY ServerAssumption DEF New, Progress, PCs, Statuses, NoResult, Components

Ended(q, pc, status) == [Over(q) EXCEPT !.pc = pc, !.status = status]

\* Over forgets all of a request that was not let in.
LEMMA OverFollows ==
  ASSUME TypeOK, NEW r \in Requests, NEW q \in Progress, Placed(r, q), q.pc # "done",
         NEW pc \in {"done", "cut"}, NEW status \in Statuses
  PROVE  /\ Follows(r, q, Ended(q, pc, status)) /\ Ended(q, pc, status).pc = pc
         /\ Ended(q, pc, status).status = status /\ Ended(q, pc, status).from = 0
<1> DEFINE o == Over(q)
           p == Ended(q, pc, status)
<1>1. /\ o \in Progress /\ o.stored = "none" /\ o.from = 0 /\ o.asked <= clock
      /\ o.layer = 1
  <2>1. CASE q.admitted
    <3>1. o = [q EXCEPT !.layer = 1, !.blind = FALSE]
      BY <2>1 DEF Over
    <3>2. q.stored = "none" /\ q.from = 0 /\ q.asked <= clock
      BY DEF Placed, Progress
    <3>3. o \in Progress
      <4>1. [q EXCEPT !.layer = 1] \in Progress
        BY DEF Progress
      <4>2. \A x \in Progress : [x EXCEPT !.blind = FALSE] \in Progress
        BY DEF Progress
      <4>3. o = [[q EXCEPT !.layer = 1] EXCEPT !.blind = FALSE]
        BY <3>1 DEF Progress
      <4> QED
        BY <4>1, <4>2, <4>3
    <3>4. o.stored = q.stored /\ o.from = q.from /\ o.asked = q.asked /\ o.layer = 1
      BY <3>1 DEF Progress
    <3> QED
      BY <3>2, <3>3, <3>4
  <2>2. CASE ~q.admitted
    <3>1. o = New
      BY <2>2 DEF Over
    <3>2. 0 <= clock
      BY ServerAssumption DEF TypeOK
    <3> QED
      BY <3>1, <3>2, NewProgress DEF New
  <2> QED
    BY <2>1, <2>2
<1>2. /\ o.admitted => q.admitted /\ Routed(r) /\ o.asked = q.asked
      /\ o.admitted => (o.open <=> q.open) /\ (o.wiped <=> q.wiped) /\ (o.late <=> q.late)
  BY DEF Over, Placed, Progress, New
<1>3. p = [o EXCEPT !.pc = pc, !.status = status]
  BY DEF Ended
<1> HIDE DEF o, p
<1>4. /\ p \in Progress /\ p.pc = pc /\ p.status = status /\ p.stored = "none" /\ p.from = 0
      /\ p.asked = o.asked /\ (p.admitted <=> o.admitted) /\ (p.open <=> o.open)
      /\ (p.wiped <=> o.wiped) /\ (p.late <=> o.late) /\ p.layer = 1
  BY <1>1, <1>3 DEF Progress, PCs
<1>5. Placed(r, p) /\ Heard(r, p)
  BY <1>1, <1>2, <1>4 DEF Placed, Heard
<1>6. Passed(r, p) \subseteq Passed(r, q) /\ (Passed(r, p) # {} => p.asked = q.asked)
  BY <1>2, <1>4 DEF Passed
<1> QED
  BY <1>4, <1>5, <1>6 DEF Follows, p

\* An answer ends a request.
LEMMA AnsweredFollows ==
  ASSUME TypeOK, NEW r \in Requests, NEW q \in Progress, Placed(r, q), q.pc # "done",
         NEW status \in Statuses
  PROVE  /\ Follows(r, q, Answered(q, status))
         /\ Answered(q, status).pc = "done" /\ Answered(q, status).status = status
         /\ Answered(q, status).from = 0
<1>1. Answered(q, status) = Ended(q, "done", status)
  BY DEF Answered, Ended
<1> QED
  BY <1>1, OverFollows

-----------------------------------------------------------------------------
(* One request moves                                                       *)

\* What a request knows of itself stays true as time passes.
LEMMA PlacedLater ==
  ASSUME setup' = setup, clock \in Nat, clock' \in Nat, clock <= clock'
  PROVE  \A r : \A q \in Progress :
           (Placed(r, q) => Placed(r, q)') /\ (Heard(r, q) => Heard(r, q)')
<1> SUFFICES ASSUME NEW r, NEW q \in Progress
             PROVE  (Placed(r, q) => Placed(r, q)') /\ (Heard(r, q) => Heard(r, q)')
  OBVIOUS
<1>1. /\ Layers(r)' = Layers(r) /\ Awaited(r)' = Awaited(r)
      /\ (Keyed(r) <=> Keyed(r)') /\ (Routed(r) <=> Routed(r)')
  BY SetupFixed
<1>2. q.asked \in Nat
  BY DEF Progress
<1>3. q.asked <= clock => q.asked <= clock'
  BY <1>2
<1> QED
  BY <1>1, <1>3 DEF Placed, Heard

\* The others stay where they are.
LEMMA LocalMove ==
  ASSUME Inv, NEW r \in Requests, NEW p \in Progress, Placed(r, p), Heard(r, p),
         setup' = setup, clock' = clock, Becomes(r, p)
  PROVE  /\ req' \in [Requests' -> Progress] /\ req'[r] = p
         /\ \A s \in Requests \ {r} : req'[s] = req[s]
         /\ \A s \in Requests' : Placed(s, req[s])' /\ Heard(s, req[s])'
<1>1. /\ req \in [Requests -> Progress] /\ clock \in Nat /\ Requests' = Requests
      /\ \A s \in Requests : Placed(s, req[s]) /\ Heard(s, req[s])
  BY SetupFixed, ServerAssumption DEF Inv, TypeOK
<1>2. req' = [req EXCEPT ![r] = p]
  BY DEF Becomes
<1>3. \A s : \A q \in Progress :
        (Placed(s, q) => Placed(s, q)') /\ (Heard(s, q) => Heard(s, q)')
  BY <1>1, PlacedLater
<1>4. /\ req' \in [Requests -> Progress] /\ req'[r] = p
      /\ \A s \in Requests \ {r} : req'[s] = req[s]
  BY <1>1, <1>2
<1>5. ASSUME NEW s \in Requests
      PROVE  Placed(s, req[s])' /\ Heard(s, req[s])'
  <2>1. \E q \in Progress : req'[s] = q /\ Placed(s, q) /\ Heard(s, q)
    BY <1>1, <1>4
  <2>2. PICK q \in Progress : req'[s] = q /\ Placed(s, q) /\ Heard(s, q)
    BY <2>1
  <2>3. Placed(s, q)' /\ Heard(s, q)'
    BY <1>3, <2>2
  <2> QED
    BY <2>2, <2>3 DEF Placed, Heard
<1> QED
  BY <1>1, <1>4, <1>5

\* Who stored an answer does not move.
LEMMA RepliesMove ==
  ASSUME TypeOK, RepliesInv, setup' = setup, replies' = replies,
         \A s \in Requests : req'[s].stored = req[s].stored
  PROVE  RepliesInv'
<1>1. /\ Requests' = Requests
      /\ \A s : /\ StorageKey(s)' = StorageKey(s) /\ RequestHash(s)' = RequestHash(s)
                /\ (Keyed(s) <=> Keyed(s)')
  BY SetupFixed
<1>2. \A k \in DOMAIN replies : EntryOf(k, replies[k].from)
  BY DEF RepliesInv
<1>3. \A k \in DOMAIN replies' : EntryOf(k, replies[k].from)'
  BY <1>1, <1>2 DEF EntryOf, TypeOK
<1>4. \A s \in Requests' : req'[s].stored = "won" =>
        /\ StorageKey(s)' \in DOMAIN replies'
        /\ replies'[StorageKey(s)'].from = s
  BY <1>1 DEF RepliesInv
<1> QED
  BY <1>3, <1>4 DEF RepliesInv

\* The counter of a window that may still be asked for loses nothing.
KeyKept(layer, start) ==
  LET key == RateLimitKey(layer, start)
  IN  /\ clock' < start + 2 * layer.window
      /\ key \in DOMAIN counters /\ counters[key].until >= start + 2 * layer.window
      => /\ key \in DOMAIN counters' /\ counters'[key].n >= counters[key].n
         /\ counters'[key].n \in Nat
         /\ counters'[key].until >= start + 2 * layer.window

\* A window that counts no more requests and keeps its counter is as full as it was.
LEMMA FitsStay ==
  ASSUME TypeOK, setup' = setup, clock' \in Nat, clock <= clock',
         NEW layer, LayerOK(layer), NEW start \in Int, Fits(layer, start),
         Counting(layer, start)' \subseteq Counting(layer, start), KeyKept(layer, start)
  PROVE  Fits(layer, start)'
<1> DEFINE key == RateLimitKey(layer, start)
           S == Counting(layer, start)
           T == Counting(layer, start)'
           m == Cardinality(S)
           n == Cardinality(T)
           c == layer.cost
           end == start + 2 * layer.window
<1>1. m \in Nat /\ n \in Nat /\ n <= m
  <2>1. IsFiniteSet(S)
    <3>1. IsFiniteSet(Requests) /\ S \subseteq Requests
      BY RequestNumbers DEF Counting
    <3> QED
      BY <3>1, FS_Subset
  <2> QED
    BY <2>1, FS_Subset, FS_CardinalityType
<1>2. c \in Nat /\ layer.limit \in Nat /\ end \in Int /\ clock \in Nat
  BY ServerAssumption DEF LayerOK, TypeOK
<1>3. /\ m * c <= layer.limit
      /\ clock < end => /\ key \in DOMAIN counters
                        /\ counters[key].n >= m * c /\ counters[key].until >= end
  BY DEF Fits
<1>4. clock' < end /\ key \in DOMAIN counters /\ counters[key].until >= end
      => /\ key \in DOMAIN counters' /\ counters'[key].n >= counters[key].n
         /\ counters'[key].n \in Nat /\ counters'[key].until >= end
  BY DEF KeyKept
<1>5. key \in DOMAIN counters => counters[key].n \in Nat
  BY DEF TypeOK
<1> HIDE DEF key, m, n, c, end
<1>6. n * c <= m * c /\ n * c \in Nat /\ m * c \in Nat
  <2>1. n * c <= m * c
    BY <1>1, <1>2
  <2> QED
    BY <1>1, <1>2, <2>1
<1>7. n * c <= layer.limit
  BY <1>2, <1>3, <1>6
<1>8. ASSUME clock' < end
      PROVE  key \in DOMAIN counters' /\ counters'[key].n >= n * c /\ counters'[key].until >= end
  <2>1. clock < end
    BY <1>2, <1>8
  <2> QED
    BY <1>3, <1>4, <1>5, <1>6, <1>8, <2>1
<1> QED
  BY <1>7, <1>8 DEF Fits, key, n, c, end, T

\* No layer more, and the same time.
Narrows(s) ==
  /\ Passed(s, req'[s]) \subseteq Passed(s, req[s])
  /\ Passed(s, req'[s]) # {} => req'[s].asked = req[s].asked

\* Requests that have passed no layer more are counted nowhere anew.
LEMMA CountingNarrows ==
  ASSUME setup' = setup, NEW layer, NEW start, NEW S,
         \A s \in Requests : s \in S \/ Narrows(s)
  PROVE  Counting(layer, start)' \subseteq Counting(layer, start) \cup S
<1>1. Requests' = Requests /\ \A s, q : Passed(s, q)' = Passed(s, q)
  BY SetupFixed
<1> SUFFICES ASSUME NEW s \in Requests, s \notin S, layer \in Passed(s, req[s])',
                    Window(s, layer)' = start
             PROVE  s \in Counting(layer, start)
  BY <1>1 DEF Counting
<1>2. Passed(s, req[s])' = Passed(s, req'[s])
  BY <1>1 DEF Passed
<1>3. layer \in Passed(s, req[s]) /\ req'[s].asked = req[s].asked
  BY <1>2 DEF Narrows
<1> QED
  BY <1>3 DEF Counting, Window

\* What a request has passed fits, and began before now.
LEMMA CountedFit ==
  ASSUME Inv, NEW s \in Requests, NEW layer \in Passed(s, req[s])
  PROVE  /\ LayerOK(layer) /\ LayerOf(Sent(s).path, layer) /\ Routed(s)
         /\ Window(s, layer) \in Int /\ Window(s, layer) <= clock
         /\ Fits(layer, Window(s, layer))
<1>1. TypeOK /\ req[s] \in Progress /\ Placed(s, req[s])
  BY DEF Inv, TypeOK
<1>2. Fits(layer, Window(s, layer))
  BY DEF Inv, CountersInv
<1> QED
  BY <1>1, <1>2, PassedFit DEF Window

\* The limits stay kept if no request passes a layer and no counter is lost.
LEMMA CountersMove ==
  ASSUME Inv, setup' = setup, clock' \in Nat, clock <= clock',
         \A s \in Requests : Narrows(s),
         \A s \in Requests : \A layer \in Passed(s, req[s]) : KeyKept(layer, Window(s, layer))
  PROVE  CountersInv'
<1>1. Requests' = Requests /\ \A s, q : Passed(s, q)' = Passed(s, q)
  BY SetupFixed
<1> SUFFICES ASSUME NEW s \in Requests, NEW layer \in Passed(s, req[s])'
             PROVE  Fits(layer, Window(s, layer))'
  BY <1>1 DEF CountersInv
<1>2. Passed(s, req[s])' = Passed(s, req'[s])
  BY <1>1 DEF Passed
<1>3. layer \in Passed(s, req[s]) /\ req'[s].asked = req[s].asked
  BY <1>2 DEF Narrows
<1> DEFINE start == Window(s, layer)
<1>4. start' = start
  BY <1>3 DEF Window
<1>5. LayerOK(layer) /\ start \in Int /\ Fits(layer, start)
  BY <1>3, CountedFit
<1>6. KeyKept(layer, start)
  BY <1>3
<1> HIDE DEF start
<1>7. Counting(layer, start)' \subseteq Counting(layer, start)
  <2>1. \A t \in Requests : t \in {} \/ Narrows(t)
    OBVIOUS
  <2>2. \A x : Counting(layer, x)' \subseteq Counting(layer, x) \cup {}
    BY <2>1, CountingNarrows
  <2> QED
    BY <1>4, <2>2 DEF Counting
<1>8. TypeOK
  BY DEF Inv
<1>9. Fits(layer, start)'
  BY <1>4, <1>5, <1>6, <1>7, <1>8, FitsStay DEF Fits, Counting
<1> QED
  BY <1>9 DEF start

-----------------------------------------------------------------------------
(* The counters                                                            *)

CountersTyped ==
  \A k \in DOMAIN counters :
    counters[k].n \in Nat \ {0} /\ counters[k].until \in Nat /\ counters[k].until > clock

\* A counter that is kept is all of it kept.
LEMMA KeptSame ==
  ASSUME TypeOK, counters' = counters
  PROVE  \A layer, start : KeyKept(layer, start)
BY DEF KeyKept, TypeOK

\* The layer a request is at, its window and the window's counter.
LEMMA AtLayerFit ==
  ASSUME Inv, NEW r \in Requests, req[r].pc = "limit"
  PROVE  /\ LayerOK(AtLayer(r)) /\ LayerOf(Sent(r).path, AtLayer(r)) /\ Routed(r)
         /\ Window(r, AtLayer(r)) \in Int /\ Window(r, AtLayer(r)) <= clock
         /\ req[r].layer \in 1 .. Len(Layers(r)) /\ ~req[r].admitted
         /\ Len(Layers(r)) \in Nat /\ DOMAIN Layers(r) = 1 .. Len(Layers(r))
<1>1. /\ TypeOK /\ req[r] \in Progress /\ Placed(r, req[r]) /\ clock \in Nat
  BY ServerAssumption DEF Inv, TypeOK
<1>2. /\ Routed(r) /\ req[r].layer \in DOMAIN Layers(r) /\ ~req[r].admitted
      /\ req[r].asked \in Nat /\ req[r].asked <= clock
  BY <1>1 DEF Placed, Progress
<1>3. /\ LayerOK(AtLayer(r)) /\ LayerOf(Sent(r).path, AtLayer(r))
      /\ req[r].layer \in 1 .. Len(Layers(r))
      /\ Len(Layers(r)) \in Nat /\ DOMAIN Layers(r) = 1 .. Len(Layers(r))
  BY <1>1, <1>2, LayersFit DEF AtLayer
<1> DEFINE start == Window(r, AtLayer(r))
<1>4. start \in Int /\ start <= req[r].asked
  BY <1>2, <1>3, WindowBegins DEF Window, LayerOK
<1> HIDE DEF start
<1>5. start <= clock
  BY <1>1, <1>2, <1>4
<1> QED
  BY <1>2, <1>3, <1>4, <1>5 DEF start

\* SLIDING_WINDOW_LUA: a call that is let in is counted in its window, keeps
\* the counter until the next window is over, and leaves room in the limit.
LEMMA ConsumedCounts ==
  ASSUME Inv, NEW r \in Requests, req[r].pc = "limit", Consumed(r).result.allowed
  PROVE  LET layer == AtLayer(r)
             key   == RateLimitKey(layer, Window(r, layer))
             n     == Count(counters, key, clock)
         IN  /\ n \in Nat /\ n + layer.cost <= layer.limit
             /\ Consumed(r).counters =
                  Put(counters, key, [n |-> n + layer.cost, until |-> clock + 2 * layer.window])
<1> DEFINE layer == AtLayer(r)
           now == req[r].asked
           W == layer.window
           key == RateLimitKey(layer, Window(r, layer))
           before == RateLimitKey(layer, Window(r, layer) - W)
           n == Count(counters, key, clock)
           p == Count(counters, before, clock)
           e == now % W
           c == layer.cost
           lim == layer.limit
<1>1. /\ LayerOK(layer) /\ now \in Nat
  BY AtLayerFit DEF Inv, TypeOK, Progress
<1>2. W \in Nat \ {0} /\ c \in Nat \ {0} /\ lim \in Nat
  BY <1>1 DEF LayerOK
<1>3. \A k : Count(counters, k, clock) \in Nat
  BY DEF Inv, TypeOK, Count
<1>4. n \in Nat /\ p \in Nat
  BY <1>3
<1>5. e \in 0 .. W - 1
  BY <1>1, <1>2
<1>6. Consumed(r) = Consume(counters, layer, now, clock)
  BY DEF Consumed
<1>7. /\ Consume(counters, layer, now, clock).result
           = Decide(ComputeEstimate(p, n, e, W), e, layer)
      /\ Consume(counters, layer, now, clock).result.allowed =>
           Consume(counters, layer, now, clock).counters = Charged(counters, layer, key, clock)
  BY DEF Consume, Window
<1>8. Decide(ComputeEstimate(p, n, e, W), e, layer).allowed
        <=> (p * (W - e) + n * W) + c * W <= lim * W
  BY DEF Decide, ComputeEstimate
<1>9. Charged(counters, layer, key, clock) =
        Put(counters, key, [n |-> n + c, until |-> clock + 2 * W])
  BY DEF Charged, Kept
<1>10. Consumed(r).counters = Put(counters, key, [n |-> n + c, until |-> clock + 2 * W])
  BY <1>6, <1>7, <1>9
<1>11. (p * (W - e) + n * W) + c * W <= lim * W
  BY <1>6, <1>7, <1>8
<1> HIDE DEF W, key, n, p, e, c, lim
<1>12. p * (W - e) \in Nat
  BY <1>2, <1>4, <1>5
<1>13. n * W + c * W <= lim * W
  <2> DEFINE x == p * (W - e)
             y == n * W
             z == c * W
             l == lim * W
  <2>1. x \in Nat /\ y \in Nat /\ z \in Nat /\ l \in Nat /\ x + y + z <= l
    BY <1>2, <1>4, <1>11, <1>12
  <2> HIDE DEF x, y, z, l
  <2>2. y + z <= l
    BY <2>1
  <2> QED
    BY <2>2 DEF y, z, l
<1>14. (n + c) * W <= lim * W
  BY <1>2, <1>4, <1>13
<1>15. n + c <= lim
  <2> SUFFICES ASSUME n + c > lim PROVE FALSE
    BY <1>2, <1>4
  <2> DEFINE d == n + c - lim
  <2>1. d \in Nat \ {0}
    BY <1>2, <1>4
  <2>2. (n + c) * W = lim * W + d * W
    BY <1>2, <1>4
  <2> HIDE DEF d
  <2>3. d * W > 0
    BY <1>2, <2>1
  <2> QED
    BY <1>2, <1>4, <1>14, <2>1, <2>2, <2>3
<1> QED
  BY <1>4, <1>10, <1>15 DEF W, key, n, c, lim

\* A call of the script takes nothing from any window, answered or not.
LEMMA ChargedKeeps ==
  ASSUME Inv, NEW r \in Requests, req[r].pc = "limit", clock' = clock,
         counters' \in {counters, Consumed(r).counters}
  PROVE  /\ CountersTyped'
         /\ \A s \in Requests : \A layer \in Passed(s, req[s]) : KeyKept(layer, Window(s, layer))
<1>1. TypeOK /\ CountersTyped /\ clock \in Nat
  BY ServerAssumption DEF Inv, TypeOK, CountersTyped
<1>2. CASE counters' = counters
  BY <1>1, <1>2, KeptSame DEF CountersTyped
<1>3. CASE counters' # counters
  <2> DEFINE L == AtLayer(r)
             mine == RateLimitKey(L, Window(r, L))
             n == Count(counters, mine, clock)
             entry == [n |-> n + L.cost, until |-> clock + 2 * L.window]
  <2>1. Consumed(r).result.allowed
    BY <1>3 DEF Consumed, Consume
  <2>2. n \in Nat /\ counters' = Put(counters, mine, entry)
    BY <1>3, <2>1, ConsumedCounts
  <2>3. /\ L.limit \in Nat /\ L.window \in Nat \ {0} /\ L.cost \in Nat \ {0}
        /\ LayerOf(Sent(r).path, L) /\ Routed(r)
    BY AtLayerFit DEF LayerOK
  <2>4. entry.n = n + L.cost /\ entry.until = clock + 2 * L.window
    OBVIOUS
  <2>5. mine \in DOMAIN counters => n = counters[mine].n
    BY <1>1 DEF Count, CountersTyped
  <2> HIDE DEF n, entry, mine
  <2>6. /\ DOMAIN counters' = DOMAIN counters \cup {mine} /\ counters'[mine] = entry
        /\ \A k \in DOMAIN counters \ {mine} : counters'[k] = counters[k]
    BY <2>2 DEF Put
  <2>7. entry.n \in Nat \ {0} /\ entry.until \in Nat /\ entry.until > clock /\ entry.n >= n
    BY <1>1, <2>2, <2>3, <2>4
  <2>8. CountersTyped'
    <3> SUFFICES ASSUME NEW k \in DOMAIN counters'
                 PROVE  /\ counters'[k].n \in Nat \ {0} /\ counters'[k].until \in Nat
                        /\ counters'[k].until > clock
      BY DEF CountersTyped
    <3>1. CASE k = mine
      BY <2>6, <2>7, <3>1
    <3>2. CASE k # mine
      BY <1>1, <2>6, <3>2 DEF CountersTyped
    <3> QED
      BY <3>1, <3>2
  <2>9. ASSUME NEW s \in Requests, NEW layer \in Passed(s, req[s])
        PROVE  KeyKept(layer, Window(s, layer))
    <3> DEFINE start == Window(s, layer)
               key == RateLimitKey(layer, start)
    <3>1. /\ layer.window \in Nat \ {0} /\ LayerOf(Sent(s).path, layer) /\ Routed(s)
          /\ start \in Int /\ start <= clock
      BY CountedFit DEF LayerOK
    <3> SUFFICES ASSUME key \in DOMAIN counters, counters[key].until >= start + 2 * layer.window
                 PROVE  /\ key \in DOMAIN counters' /\ counters'[key].n >= counters[key].n
                        /\ counters'[key].n \in Nat
                        /\ counters'[key].until >= start + 2 * layer.window
      BY DEF KeyKept
    <3>2. CASE key # mine
      <4>1. counters'[key] = counters[key] /\ key \in DOMAIN counters'
        BY <2>6, <3>2
      <4> QED
        BY <1>1, <4>1 DEF CountersTyped
    <3>3. CASE key = mine
      <4>1. layer.name = L.name
        BY <3>3 DEF RateLimitKey, mine
      <4>2. layer.window = L.window
        BY <2>3, <3>1, <4>1, OneWindow DEF Routed
      <4>3. entry.until >= start + 2 * layer.window
        BY <1>1, <2>4, <3>1, <4>2
      <4>4. counters'[key] = entry /\ counters[key].n = n /\ key \in DOMAIN counters'
        BY <2>5, <2>6, <3>3
      <4> QED
        BY <2>7, <4>3, <4>4
    <3> QED
      BY <3>2, <3>3
  <2> QED
    BY <2>8, <2>9
<1> QED
  BY <1>2, <1>3

-----------------------------------------------------------------------------
(* The steps of a request                                                  *)

Memos == [Components -> [value : [status : {"none", "ok", "fail"}, at : Nat],
                         expires : Nat, since : NotProbing .. Horizon]]

\* Nothing is stored yet for a request that is on its way.
LEMMA NothingStored ==
  ASSUME Inv, NEW r \in Requests, req[r].pc # "done"
  PROVE  /\ TypeOK /\ req[r] \in Progress /\ Placed(r, req[r]) /\ Heard(r, req[r])
         /\ req[r].stored = "none" /\ req[r].from = 0
BY DEF Inv, TypeOK, Placed

\* A request that follows itself changes nothing for the others, whatever the
\* limiter and the probes note of it.
LEMMA FollowsStep ==
  ASSUME Inv, NEW r \in Requests, req[r].pc # "done", NEW p, Follows(r, req[r], p), Becomes(r, p),
         setup' = setup, clock' = clock, server' = server, script' = script, replies' = replies,
         memos' \in Memos, MemosInv', CountersTyped',
         \A s \in Requests : \A layer \in Passed(s, req[s]) : KeyKept(layer, Window(s, layer))
  PROVE  Inv'
<1>1. TypeOK /\ Requests' = Requests /\ req[r].stored = "none" /\ clock \in Nat
  BY NothingStored, SetupFixed, ServerAssumption DEF TypeOK
<1>2. /\ p \in Progress /\ Placed(r, p) /\ Heard(r, p) /\ p.stored = "none"
      /\ Passed(r, p) \subseteq Passed(r, req[r])
      /\ Passed(r, p) # {} => p.asked = req[r].asked
  BY DEF Follows
<1>3. /\ req' \in [Requests' -> Progress] /\ req'[r] = p
      /\ \A s \in Requests \ {r} : req'[s] = req[s]
      /\ \A s \in Requests' : Placed(s, req[s])' /\ Heard(s, req[s])'
  BY <1>2, LocalMove
<1>4. RepliesInv'
  <2>1. \A s \in Requests : req'[s].stored = req[s].stored
    BY <1>1, <1>2, <1>3
  <2> QED
    BY <1>1, <2>1, RepliesMove DEF Inv
<1>5. CountersInv'
  <2>1. \A s \in Requests : Narrows(s)
    BY <1>2, <1>3 DEF Narrows
  <2>2. clock' \in Nat /\ clock <= clock'
    BY <1>1
  <2> QED
    BY <2>1, <2>2, CountersMove
<1>6. TypeOK'
  BY <1>1, <1>3 DEF TypeOK, Memos, CountersTyped, SetupOK
<1> QED
  BY <1>3, <1>4, <1>5, <1>6 DEF Inv

\* Steps that leave the limiter and the probes alone.
LEMMA QuietStep ==
  ASSUME Inv, NEW r \in Requests, req[r].pc # "done", NEW p, Follows(r, req[r], p), Becomes(r, p),
         UNCHANGED <<setup, clock, server, script, counters, replies, memos>>
  PROVE  Inv'
<1>1. TypeOK
  BY DEF Inv
<1>2. memos' \in Memos /\ MemosInv'
  BY DEF Inv, TypeOK, Memos, MemosInv
<1>3. CountersTyped'
  BY <1>1 DEF TypeOK, CountersTyped
<1>4. \A s \in Requests : \A layer \in Passed(s, req[s]) : KeyKept(layer, Window(s, layer))
  BY <1>1, KeptSame
<1> QED
  BY <1>2, <1>3, <1>4, FollowsStep

\* What comes after the limiter counts in every layer, or in none.
LEMMA EnteredPlaced ==
  ASSUME TypeOK, NEW r \in Requests, NEW q \in Progress, q.asked <= clock, q.from = 0,
         q.stored = "none", q.admitted => Routed(r)
  PROVE  /\ Entered(r, q) \in Progress /\ Placed(r, Entered(r, q)) /\ Heard(r, Entered(r, q))
         /\ Entered(r, q).stored = "none" /\ Entered(r, q).asked = q.asked
         /\ Passed(r, Entered(r, q)) =
              IF q.admitted /\ ~q.open /\ ~q.wiped /\ ~q.late
              THEN {Layers(r)[i] : i \in DOMAIN Layers(r)} ELSE {}
<1> DEFINE pc == IF Keyed(r) THEN "lookup" ELSE "handle"
           x == [q EXCEPT !.pc = pc]
           p == Entered(r, q)
<1>1. p = [x EXCEPT !.layer = 1]
  BY DEF Entered, At
<1>2. pc \in {"lookup", "handle"} /\ (pc = "lookup" => Keyed(r))
  OBVIOUS
<1> HIDE DEF pc, p
<1>3. /\ x \in Progress /\ x.pc = pc /\ x.stored = "none" /\ x.from = 0 /\ x.asked = q.asked
      /\ (x.admitted <=> q.admitted) /\ (x.open <=> q.open) /\ (x.wiped <=> q.wiped)
      /\ (x.late <=> q.late)
  BY <1>2 DEF Progress, PCs
<1> HIDE DEF x
<1>4. /\ p \in Progress /\ p.pc = pc /\ p.stored = "none" /\ p.from = 0 /\ p.asked = q.asked
      /\ (p.admitted <=> q.admitted) /\ (p.open <=> q.open) /\ (p.wiped <=> q.wiped)
      /\ (p.late <=> q.late)
  BY <1>1, <1>3 DEF Progress
<1>5. Placed(r, p) /\ Heard(r, p)
  BY <1>2, <1>4 DEF Placed, Heard
<1>6. Passed(r, p) = IF q.admitted /\ ~q.open /\ ~q.wiped /\ ~q.late
                     THEN {Layers(r)[i] : i \in DOMAIN Layers(r)} ELSE {}
  <2>1. p.pc # "limit"
    BY <1>2, <1>4
  <2>2. CASE q.admitted
    <3>1. {j \in DOMAIN Layers(r) : p.admitted \/ j < p.layer} = DOMAIN Layers(r)
      BY <1>4, <2>2
    <3> QED
      BY <1>4, <2>1, <2>2, <3>1 DEF Passed
  <2>3. CASE ~q.admitted
    BY <1>4, <2>1, <2>3 DEF Passed
  <2> QED
    BY <2>2, <2>3
<1> QED
  BY <1>4, <1>5, <1>6 DEF p

\* A request that has just come in, before its hooks.
LEMMA ArrivesNew ==
  ASSUME Inv, NEW r \in Requests, Arrives(r)
  PROVE  /\ TypeOK /\ req[r] = New /\ req[r] \in Progress /\ Placed(r, req[r]) /\ clock \in Nat
         /\ req[r].pc = "new" /\ Sent(r) \in Inbound
         /\ UNCHANGED <<setup, clock, server, script, counters, replies>>
<1>1. req[r].pc = "new" /\ UNCHANGED <<setup, clock, server, script, counters, replies>>
  BY DEF Arrives
<1>2. TypeOK /\ clock \in Nat /\ Sent(r) \in Inbound
  BY RequestNumbers, ServerAssumption DEF Inv, TypeOK
<1> QED
  BY <1>1, <1>2, NothingStored DEF Placed

LEMMA OnRequestStep ==
  ASSUME Inv, NEW r \in Requests, OnRequest(r)
  PROVE  Inv'
<1>1. Arrives(r) /\ UNCHANGED memos
  BY DEF OnRequest
<1>2. /\ TypeOK /\ req[r] = New /\ req[r] \in Progress /\ Placed(r, req[r]) /\ clock \in Nat
      /\ req[r].pc # "done" /\ Sent(r) \in Inbound
      /\ UNCHANGED <<setup, clock, server, script, counters, replies, memos>>
  BY <1>1, ArrivesNew
<1> DEFINE asks == [At(req[r], "limit") EXCEPT !.asked = clock]
<1>3. PICK p : /\ Becomes(r, p)
               /\ \/ p = Answered(req[r], StatusOfThrown(ThrownEarly(r)))
                  \/ p = Entered(r, req[r])
                  \/ p = asks
  BY DEF OnRequest
<1>4. CASE p = Answered(req[r], StatusOfThrown(ThrownEarly(r)))
  <2>1. Follows(r, req[r], p)
    BY <1>2, <1>4, ThrownStatus, AnsweredFollows
  <2> QED
    BY <1>2, <1>3, <2>1, QuietStep
<1>5. CASE p = Entered(r, req[r])
  <2>1. /\ req[r].asked <= clock /\ req[r].from = 0 /\ req[r].stored = "none" /\ ~req[r].admitted
    BY <1>2 DEF New
  <2>2. Follows(r, req[r], p)
    BY <1>2, <1>5, <2>1, EnteredPlaced DEF Follows
  <2> QED
    BY <1>2, <1>3, <2>2, QuietStep
<1>6. CASE p = asks
  <2>1. Routed(r)
    BY <1>2 DEF OnRequest, Inbound, Routed
  <2>2. 1 \in DOMAIN Layers(r) /\ DOMAIN Layers(r) \subseteq Nat \ {0}
    BY <1>2, <2>1, LayersFit
  <2>3. asks = [[New EXCEPT !.pc = "limit"] EXCEPT !.asked = clock]
    BY <1>2 DEF At
  <2>4. [New EXCEPT !.pc = "limit"] \in Progress
    BY <1>2, NewProgress DEF Progress, PCs
  <2>5. asks \in Progress
    BY <1>2, <2>3, <2>4 DEF Progress
  <2>6. /\ asks.pc = "limit" /\ asks.layer = 1 /\ asks.asked = clock /\ asks.from = 0
        /\ asks.stored = "none" /\ ~asks.admitted
    BY <2>3 DEF New
  <2> HIDE DEF asks
  <2>7. Placed(r, asks) /\ Heard(r, asks)
    BY <1>2, <2>1, <2>2, <2>6 DEF Placed, Heard
  <2>8. Passed(r, asks) = {}
    BY <2>2, <2>6 DEF Passed
  <2>9. Follows(r, req[r], p)
    BY <1>6, <2>5, <2>6, <2>7, <2>8 DEF Follows
  <2> QED
    BY <1>2, <1>3, <2>9, QuietStep
<1> QED
  BY <1>3, <1>4, <1>5, <1>6

\* The steps of the limiter that let nobody in, or let in without counting.
LEMMA UncountedStep ==
  ASSUME Inv, NEW r \in Requests, Limiting(r), counters' \in {counters, Consumed(r).counters},
         NEW p, Follows(r, req[r], p), Becomes(r, p)
  PROVE  Inv'
<1>1. /\ req[r].pc = "limit" /\ clock' = clock
      /\ UNCHANGED <<setup, clock, server, script, replies, memos>>
  BY DEF Limiting
<1>2. /\ CountersTyped'
      /\ \A s \in Requests : \A layer \in Passed(s, req[s]) : KeyKept(layer, Window(s, layer))
  BY <1>1, ChargedKeeps
<1>3. memos' \in Memos /\ MemosInv'
  BY <1>1 DEF Inv, TypeOK, Memos, MemosInv
<1> QED
  BY <1>1, <1>2, <1>3, FollowsStep

\* A denied request is counted by none of its layers any more.
LEMMA LayerDeniesStep ==
  ASSUME Inv, NEW r \in Requests, LayerDenies(r)
  PROVE  Inv'
<1>1. Limiting(r) /\ counters' = counters /\ req[r].pc = "limit"
  BY DEF LayerDenies, Limiting
<1> DEFINE p == Answered(req[r], StatusOfThrown("TooManyRequestsError"))
<1>2. Becomes(r, p)
  BY DEF LayerDenies
<1>3. Follows(r, req[r], p)
  BY <1>1, NothingStored, ThrownStatus, AnsweredFollows
<1> HIDE DEF p
<1> QED
  BY <1>1, <1>2, <1>3, UncountedStep

\* Nor is one let in by a limiter that fails open.
LEMMA LayerFailsStep ==
  ASSUME Inv, NEW r \in Requests, LayerFails(r)
  PROVE  Inv'
<1>1. Limiting(r) /\ counters' \in {counters, Consumed(r).counters} /\ req[r].pc = "limit"
  BY DEF LayerFails, Limiting
<1> DEFINE q == [req[r] EXCEPT !.open = TRUE, !.admitted = TRUE]
           p == Answered(req[r], StatusOfThrown("ServiceUnavailableError"))
<1>2. Becomes(r, Entered(r, q)) \/ Becomes(r, p)
  BY DEF LayerFails
<1>3. Follows(r, req[r], p)
  BY <1>1, NothingStored, ThrownStatus, AnsweredFollows
<1>4. Follows(r, req[r], Entered(r, q))
  <2>1. /\ TypeOK /\ req[r] \in Progress /\ req[r].stored = "none" /\ req[r].from = 0
        /\ req[r].asked <= clock /\ Routed(r)
    BY <1>1, NothingStored, AtLayerFit DEF Placed
  <2>2. q \in Progress
    <3>1. [req[r] EXCEPT !.open = TRUE] \in Progress
      BY <2>1 DEF Progress
    <3>2. \A x \in Progress : [x EXCEPT !.admitted = TRUE] \in Progress
      BY DEF Progress
    <3>3. q = [[req[r] EXCEPT !.open = TRUE] EXCEPT !.admitted = TRUE]
      BY <2>1 DEF Progress
    <3> QED
      BY <3>1, <3>2, <3>3
  <2>3. q.asked <= clock /\ q.from = 0 /\ q.stored = "none" /\ q.open = TRUE
    BY <2>1 DEF Progress
  <2> HIDE DEF q
  <2>4. /\ Entered(r, q) \in Progress /\ Placed(r, Entered(r, q)) /\ Heard(r, Entered(r, q))
        /\ Entered(r, q).stored = "none" /\ Passed(r, Entered(r, q)) = {}
    BY <2>1, <2>2, <2>3, EnteredPlaced
  <2> QED
    BY <2>4 DEF Follows
<1> HIDE DEF p, q
<1> QED
  BY <1>1, <1>2, <1>3, <1>4, UncountedStep

\* The layer that lets a request in is the one it has passed now, unless the
\* script ran too late to count.
LEMMA NextLayerPasses ==
  ASSUME Inv, NEW r \in Requests, req[r].pc = "limit",
         NEW p, p = NextLayer(r, [req[r] EXCEPT !.late = @ \/ IsLate(r)])
  PROVE  /\ p \in Progress /\ Placed(r, p) /\ Heard(r, p) /\ p.stored = "none"
         /\ p.asked = req[r].asked
         /\ Passed(r, p) \subseteq Passed(r, req[r]) \cup {AtLayer(r)}
         /\ Passed(r, p) # {} => ~IsLate(r)
<1> DEFINE q == [req[r] EXCEPT !.late = @ \/ IsLate(r)]
           ls == Layers(r)
<1>1. /\ TypeOK /\ req[r] \in Progress /\ Placed(r, req[r]) /\ req[r].stored = "none"
      /\ req[r].from = 0 /\ req[r].asked <= clock
  BY NothingStored DEF Placed
<1>2. /\ Routed(r) /\ ~req[r].admitted /\ Len(ls) \in Nat /\ DOMAIN ls = 1 .. Len(ls)
      /\ req[r].layer \in 1 .. Len(ls)
  BY AtLayerFit
<1>3. (req[r].late \/ IsLate(r)) \in BOOLEAN
  BY <1>1 DEF Progress, IsLate
<1>4. /\ q \in Progress /\ q.pc = "limit" /\ q.layer = req[r].layer /\ q.asked = req[r].asked
      /\ q.stored = "none" /\ q.from = 0 /\ ~q.admitted
      /\ (q.open <=> req[r].open) /\ (q.wiped <=> req[r].wiped)
      /\ (q.late <=> req[r].late \/ IsLate(r))
  BY <1>1, <1>2, <1>3 DEF Progress
<1> HIDE DEF q, ls
<1>5. CASE q.layer < Len(ls)
  <2>1. p = [q EXCEPT !.layer = @ + 1]
    BY <1>5 DEF NextLayer, q, ls
  <2>2. /\ p \in Progress /\ p.pc = "limit" /\ p.layer = q.layer + 1 /\ p.asked = q.asked
        /\ p.stored = "none" /\ p.from = 0 /\ ~p.admitted /\ (p.open <=> q.open)
        /\ (p.wiped <=> q.wiped) /\ (p.late <=> q.late)
    BY <1>2, <1>4, <2>1 DEF Progress
  <2>3. Placed(r, p) /\ Heard(r, p)
    BY <1>1, <1>2, <1>4, <1>5, <2>2 DEF Placed, Heard, ls
  <2>4. Passed(r, p) \subseteq Passed(r, req[r]) \cup {AtLayer(r)}
    <3> SUFFICES ASSUME NEW j \in DOMAIN ls, j < p.layer, ~p.open, ~p.wiped, ~p.late
                 PROVE  ls[j] \in Passed(r, req[r]) \cup {AtLayer(r)}
      BY <2>2 DEF Passed, ls
    <3>1. CASE j < req[r].layer
      BY <1>4, <2>2, <3>1 DEF Passed, ls
    <3>2. CASE j = req[r].layer
      BY <3>2 DEF AtLayer, ls
    <3> QED
      BY <1>2, <1>4, <2>2, <3>1, <3>2
  <2>5. Passed(r, p) # {} => ~IsLate(r)
    BY <1>4, <2>2 DEF Passed
  <2> QED
    BY <1>4, <2>2, <2>3, <2>4, <2>5
<1>6. CASE ~(q.layer < Len(ls))
  <2> DEFINE x == [q EXCEPT !.admitted = TRUE]
  <2>1. p = Entered(r, x)
    BY <1>6 DEF NextLayer, q, ls
  <2>2. /\ x \in Progress /\ x.admitted = TRUE /\ x.asked = q.asked /\ x.from = 0
        /\ x.stored = "none" /\ (x.open <=> q.open) /\ (x.wiped <=> q.wiped)
        /\ (x.late <=> q.late)
    BY <1>4 DEF Progress
  <2> HIDE DEF x
  <2>3. /\ p \in Progress /\ Placed(r, p) /\ Heard(r, p) /\ p.stored = "none" /\ p.asked = q.asked
        /\ Passed(r, p) = IF ~q.open /\ ~q.wiped /\ ~q.late
                          THEN {ls[i] : i \in DOMAIN ls} ELSE {}
    BY <1>1, <1>2, <1>4, <2>1, <2>2, EnteredPlaced DEF ls
  <2>4. Passed(r, p) \subseteq Passed(r, req[r]) \cup {AtLayer(r)}
    <3> SUFFICES ASSUME NEW j \in DOMAIN ls, ~q.open, ~q.wiped, ~q.late
                 PROVE  ls[j] \in Passed(r, req[r]) \cup {AtLayer(r)}
      BY <2>3
    <3>1. CASE j < req[r].layer
      BY <1>4, <3>1 DEF Passed, ls
    <3>2. CASE j = req[r].layer
      BY <3>2 DEF AtLayer, ls
    <3> QED
      BY <1>2, <1>4, <1>6, <3>1, <3>2
  <2>5. Passed(r, p) # {} => ~IsLate(r)
    BY <1>4, <2>3
  <2> QED
    BY <1>4, <2>3, <2>4, <2>5
<1> QED
  BY <1>5, <1>6

\* The counter of the window a request is at has counted who passed it before.
LEMMA CountedBefore ==
  ASSUME Inv, NEW r \in Requests, req[r].pc = "limit", ~IsLate(r)
  PROVE  LET layer == AtLayer(r)
             start == Window(r, layer)
         IN  /\ Cardinality(Counting(layer, start)) * layer.cost
                  <= Count(counters, RateLimitKey(layer, start), clock)
             /\ clock < start + 2 * layer.window
<1> DEFINE layer == AtLayer(r)
           start == Window(r, layer)
           key == RateLimitKey(layer, start)
           S == Counting(layer, start)
<1>1. /\ layer.window \in Nat \ {0} /\ layer.cost \in Nat \ {0} /\ start \in Int /\ clock \in Nat
  BY AtLayerFit, ServerAssumption DEF LayerOK, Inv, TypeOK
<1>2. clock < start + 2 * layer.window
  BY <1>1 DEF IsLate, Window
<1>3. Count(counters, key, clock) \in Nat
  BY DEF Count, Inv, TypeOK
<1>4. CASE S = {}
  <2>1. Cardinality(S) * layer.cost = 0
    BY <1>1, <1>4, FS_EmptySet
  <2> QED
    BY <1>2, <1>3, <2>1
<1>5. CASE S # {}
  <2>1. PICK s \in S : TRUE
    BY <1>5
  <2>2. s \in Requests /\ layer \in Passed(s, req[s]) /\ Window(s, layer) = start
    BY <2>1 DEF Counting
  <2>3. Fits(layer, start)
    BY <2>2, CountedFit
  <2>4. /\ key \in DOMAIN counters
        /\ counters[key].n >= Cardinality(S) * layer.cost
    BY <1>2, <2>3 DEF Fits
  <2>5. Count(counters, key, clock) = counters[key].n
    BY <2>4 DEF Count, Inv, TypeOK
  <2>6. Count(counters, key, clock) >= Cardinality(S) * layer.cost
    BY <2>4, <2>5
  <2> HIDE DEF layer, start, key, S
  <2>7. Cardinality(S) * layer.cost <= Count(counters, key, clock)
    BY <2>6
  <2> QED
    BY <1>2, <2>7 DEF layer, start, key, S
<1> QED
  BY <1>4, <1>5

\* The window that counts one more has room for it: a script sees in its
\* counter everyone who passed, and leaves a counter that has the next one too.
LEMMA OneMoreFits ==
  ASSUME Inv, NEW r \in Requests, req[r].pc = "limit", ~IsLate(r), Consumed(r).result.allowed,
         counters' = Consumed(r).counters, setup' = setup, clock' = clock,
         NEW layer, layer = AtLayer(r), NEW start, start = Window(r, layer),
         Counting(layer, start)' \subseteq Counting(layer, start) \cup {r}
  PROVE  Fits(layer, start)'
<1> DEFINE key == RateLimitKey(layer, start)
           S == Counting(layer, start)
           T == Counting(layer, start)'
           m == Cardinality(S)
           k == Cardinality(T)
           c == layer.cost
           n == Count(counters, key, clock)
           end == start + 2 * layer.window
           entry == [n |-> n + c, until |-> clock + 2 * layer.window]
<1>1. /\ layer.window \in Nat \ {0} /\ c \in Nat \ {0} /\ layer.limit \in Nat
      /\ start \in Int /\ start <= clock /\ clock \in Nat /\ end \in Int
  BY AtLayerFit, ServerAssumption DEF LayerOK, Inv, TypeOK
<1>2. m * c <= n
  BY CountedBefore
<1>3. n \in Nat /\ n + c <= layer.limit /\ counters' = Put(counters, key, entry)
  BY ConsumedCounts
<1>4. m \in Nat /\ k \in Nat /\ k <= m + 1
  <2>1. IsFiniteSet(S) /\ IsFiniteSet(S \cup {r}) /\ Cardinality(S \cup {r}) <= m + 1
    <3>1. IsFiniteSet(Requests) /\ S \subseteq Requests
      BY RequestNumbers DEF Counting, Inv
    <3>2. IsFiniteSet(S)
      BY <3>1, FS_Subset
    <3>3. /\ IsFiniteSet(S \cup {r})
          /\ Cardinality(S \cup {r}) = m \/ Cardinality(S \cup {r}) = m + 1
      BY <3>2, FS_AddElement
    <3>4. m \in Nat
      BY <3>2, FS_CardinalityType
    <3> HIDE DEF m
    <3> QED
      BY <3>2, <3>3, <3>4
  <2>2. m \in Nat /\ k \in Nat /\ Cardinality(S \cup {r}) \in Nat /\ k <= Cardinality(S \cup {r})
    BY <2>1, FS_Subset, FS_CardinalityType
  <2> HIDE DEF m, k
  <2> QED
    BY <2>1, <2>2
<1>5. entry.n = n + c /\ entry.until = clock + 2 * layer.window
  OBVIOUS
<1> HIDE DEF key, S, m, k, c, n, entry
<1>6. key \in DOMAIN counters' /\ counters'[key] = entry
  BY <1>3 DEF Put
<1>7. k * c <= n + c
  <2>1. k * c <= (m + 1) * c
    BY <1>1, <1>4
  <2>2. (m + 1) * c = m * c + c /\ m * c \in Nat /\ k * c \in Nat
    BY <1>1, <1>4
  <2> DEFINE x == m * c
             y == k * c
             z == (m + 1) * c
  <2>3. x \in Nat /\ y \in Nat /\ z = x + c /\ y <= z /\ x <= n
    BY <1>2, <2>1, <2>2
  <2> HIDE DEF x, y, z
  <2>4. y <= n + c
    BY <1>1, <1>3, <2>3
  <2> QED
    BY <2>4 DEF y
<1>8. k * c <= layer.limit
  <2>1. k * c \in Nat
    BY <1>1, <1>4
  <2> DEFINE y == k * c
  <2> HIDE DEF y
  <2>2. y <= layer.limit
    BY <1>1, <1>3, <1>7, <2>1 DEF y
  <2> QED
    BY <2>2 DEF y
<1>9. counters'[key].n >= k * c /\ counters'[key].until >= end
  <2>1. entry.until >= end
    BY <1>1, <1>5
  <2>2. entry.n >= k * c
    BY <1>5, <1>7
  <2> QED
    BY <1>6, <2>1, <2>2
<1> QED
  BY <1>6, <1>8, <1>9 DEF Fits, key, k, c

\* Whom a layer lets in has room in its window, and leaves the others theirs.
LEMMA LayerAllowsStep ==
  ASSUME Inv, NEW r \in Requests, LayerAllows(r)
  PROVE  Inv'
<1>1. /\ req[r].pc = "limit" /\ Consumed(r).result.allowed /\ counters' = Consumed(r).counters
      /\ UNCHANGED <<setup, clock, server, script, replies, memos>>
  BY DEF LayerAllows, Limiting
<1> DEFINE p == NextLayer(r, [req[r] EXCEPT !.late = @ \/ IsLate(r)])
           mine == AtLayer(r)
<1>2. Becomes(r, p)
  BY DEF LayerAllows
<1>3. /\ p \in Progress /\ Placed(r, p) /\ Heard(r, p) /\ p.stored = "none"
      /\ p.asked = req[r].asked
      /\ Passed(r, p) \subseteq Passed(r, req[r]) \cup {mine}
      /\ Passed(r, p) # {} => ~IsLate(r)
  BY <1>1, NextLayerPasses
<1> HIDE DEF p
<1>4. /\ TypeOK /\ req[r].stored = "none" /\ clock \in Nat /\ Requests' = Requests
      /\ \A s, q : Passed(s, q)' = Passed(s, q)
  BY <1>1, NothingStored, SetupFixed, ServerAssumption DEF TypeOK
<1>5. /\ req' \in [Requests' -> Progress] /\ req'[r] = p
      /\ \A s \in Requests \ {r} : req'[s] = req[s]
      /\ \A s \in Requests' : Placed(s, req[s])' /\ Heard(s, req[s])'
  BY <1>1, <1>2, <1>3, LocalMove
<1>6. /\ CountersTyped'
      /\ \A s \in Requests : \A layer \in Passed(s, req[s]) : KeyKept(layer, Window(s, layer))
  BY <1>1, ChargedKeeps
<1>7. RepliesInv'
  <2>1. \A s \in Requests : req'[s].stored = req[s].stored
    BY <1>3, <1>4, <1>5
  <2> QED
    BY <1>1, <1>4, <2>1, RepliesMove DEF Inv
<1>8. ASSUME NEW s \in Requests, NEW layer \in Passed(s, req'[s]),
             NEW start, start = WindowStart(req'[s].asked, layer.window)
      PROVE  Fits(layer, start)'
  <2>3. \A t \in Requests : t \in {r} \/ Narrows(t)
    BY <1>5 DEF Narrows
  <2>4. Counting(layer, start)' \subseteq Counting(layer, start) \cup {r}
    BY <1>1, <2>3, CountingNarrows
  <2>5. CASE r \in Counting(layer, start)' /\ r \notin Counting(layer, start)
    <3>1. layer \in Passed(r, p) /\ WindowStart(p.asked, layer.window) = start
      <4>1. layer \in Passed(r, req[r])' /\ Window(r, layer)' = start
        BY <2>5 DEF Counting
      <4>2. Passed(r, req[r])' = Passed(r, req'[r])
        BY <1>4 DEF Passed
      <4> QED
        BY <1>5, <4>1, <4>2 DEF Window
    <3>2. ~IsLate(r) /\ layer = mine /\ start = Window(r, layer)
      BY <1>3, <2>5, <3>1 DEF Counting, Window
    <3> QED
      BY <1>1, <2>4, <3>2, OneMoreFits
  <2>6. CASE ~(r \in Counting(layer, start)' /\ r \notin Counting(layer, start))
    <3>1. Counting(layer, start)' \subseteq Counting(layer, start)
      BY <2>4, <2>6
    <3>2. s \in Counting(layer, start)'
      BY <1>4, <1>8 DEF Counting, Window, Passed
    <3>3. s \in Counting(layer, start)
      BY <3>1, <3>2
    <3>4. layer \in Passed(s, req[s]) /\ Window(s, layer) = start
      BY <3>3 DEF Counting
    <3>5. LayerOK(layer) /\ start \in Int /\ Fits(layer, start) /\ KeyKept(layer, start)
      BY <1>6, <3>4, CountedFit
    <3> QED
      BY <1>1, <1>4, <3>1, <3>5, FitsStay
  <2> QED
    BY <2>5, <2>6
<1>9. CountersInv'
  <2> SUFFICES ASSUME NEW s \in Requests, NEW layer \in Passed(s, req[s])'
               PROVE  Fits(layer, Window(s, layer))'
    BY <1>4 DEF CountersInv
  <2>1. layer \in Passed(s, req'[s])
    BY <1>4 DEF Passed
  <2>2. \A start : start = WindowStart(req'[s].asked, layer.window) => Fits(layer, start)'
    BY <1>8, <2>1
  <2> QED
    BY <2>2 DEF Fits, Counting, Window
<1>10. TypeOK' /\ MemosInv'
  BY <1>1, <1>4, <1>5, <1>6 DEF TypeOK, CountersTyped, SetupOK, Inv, MemosInv
<1> QED
  BY <1>5, <1>7, <1>9, <1>10 DEF Inv

-----------------------------------------------------------------------------
(* Idempotency                                                             *)

\* A request goes on to its handler, or from there to the save.
LEMMA GoesOn ==
  ASSUME Inv, NEW r \in Requests, req[r].pc \in {"lookup", "handle"},
         NEW pc \in {"handle", "save"}, pc = "save" => Keyed(r), NEW blind \in BOOLEAN
  PROVE  Follows(r, req[r], [At(req[r], pc) EXCEPT !.blind = blind])
<1> DEFINE q == req[r]
           x == [q EXCEPT !.pc = pc]
           p == [x EXCEPT !.blind = blind]
<1>1. /\ TypeOK /\ q \in Progress /\ Placed(r, q) /\ q.stored = "none" /\ q.from = 0
      /\ q.pc \in {"lookup", "handle"}
  BY NothingStored
<1>2. p = [At(req[r], pc) EXCEPT !.blind = blind]
  BY DEF At
<1> HIDE DEF q
<1>3. /\ x \in Progress /\ x.pc = pc /\ x.stored = "none" /\ x.from = 0 /\ x.asked = q.asked
      /\ (x.admitted <=> q.admitted) /\ (x.open <=> q.open) /\ (x.wiped <=> q.wiped)
      /\ (x.late <=> q.late)
  BY <1>1 DEF Progress, PCs
<1> HIDE DEF x
<1>4. /\ p \in Progress /\ p.pc = pc /\ p.stored = "none" /\ p.from = 0 /\ p.asked = q.asked
      /\ (p.admitted <=> q.admitted) /\ (p.open <=> q.open) /\ (p.wiped <=> q.wiped)
      /\ (p.late <=> q.late)
  BY <1>3 DEF Progress
<1> HIDE DEF p
<1>5. Placed(r, p) /\ Heard(r, p)
  BY <1>1, <1>4 DEF Placed, Heard
<1>6. Passed(r, p) \subseteq Passed(r, q)
  BY <1>1, <1>4 DEF Passed
<1> QED
  BY <1>2, <1>4, <1>5, <1>6 DEF Follows, q

\* A stored answer is handed on with the name of who stored it.
LEMMA HandedOn ==
  ASSUME TypeOK, NEW r \in Requests, NEW q \in Progress, Placed(r, q), q.pc # "done",
         NEW from \in Requests
  PROVE  LET p == [Answered(q, 201) EXCEPT !.from = from]
         IN  Follows(r, q, p) /\ p.pc = "done" /\ p.status = 201 /\ p.from = from
<1> DEFINE a == Answered(q, 201)
           p == [a EXCEPT !.from = from]
<1>1. Follows(r, q, a) /\ a.pc = "done" /\ a.status = 201
  BY AnsweredFollows DEF Statuses
<1> HIDE DEF a
<1>2. /\ a \in Progress /\ Placed(r, a) /\ a.stored = "none"
      /\ Passed(r, a) \subseteq Passed(r, q) /\ (Passed(r, a) # {} => a.asked = q.asked)
  BY <1>1 DEF Follows
<1>3. from \in 0 .. N
  BY RequestNumbers, ServerAssumption
<1>4. /\ p \in Progress /\ p.pc = "done" /\ p.stored = "none" /\ p.from = from /\ p.asked = a.asked
      /\ p.status = 201 /\ p.layer = a.layer
      /\ (p.admitted <=> a.admitted) /\ (p.open <=> a.open) /\ (p.wiped <=> a.wiped)
      /\ (p.late <=> a.late)
  BY <1>1, <1>2, <1>3 DEF Progress
<1> HIDE DEF p
<1>5. Placed(r, p) /\ Heard(r, p) /\ Passed(r, p) = Passed(r, a)
  BY <1>1, <1>2, <1>4 DEF Placed, Heard, Passed
<1>6. Follows(r, q, p)
  BY <1>2, <1>4, <1>5 DEF Follows
<1> QED
  BY <1>4, <1>6 DEF a, p

LEMMA ReplayStep ==
  ASSUME Inv, NEW r \in Requests, Replay(r)
  PROVE  Inv'
<1>1. /\ req[r].pc = "lookup" /\ StorageKey(r) \in DOMAIN replies
      /\ UNCHANGED <<setup, clock, server, script, counters, replies, memos>>
  BY DEF Replay, Serves
<1>2. TypeOK /\ req[r] \in Progress /\ Placed(r, req[r])
  BY <1>1, NothingStored
<1> DEFINE hit == replies[StorageKey(r)]
           same == [Answered(req[r], 201) EXCEPT !.from = hit.from]
           other == Answered(req[r], StatusOfThrown(IdempotencyKeyConflict))
<1>3. hit.from \in Requests
  BY <1>1, <1>2 DEF TypeOK
<1>4. Becomes(r, same) \/ Becomes(r, other)
  BY DEF Replay
<1>5. Follows(r, req[r], same)
  BY <1>1, <1>2, <1>3, HandedOn
<1>6. Follows(r, req[r], other)
  BY <1>1, <1>2, ThrownStatus, AnsweredFollows
<1> HIDE DEF same, other
<1> QED
  BY <1>1, <1>4, <1>5, <1>6, QuietStep

LEMMA MissStep ==
  ASSUME Inv, NEW r \in Requests, Miss(r)
  PROVE  Inv'
<1>1. /\ req[r].pc = "lookup"
      /\ UNCHANGED <<setup, clock, server, script, counters, replies, memos>>
  BY DEF Miss, Serves
<1>2. req[r] \in Progress /\ req[r].blind \in BOOLEAN
  BY <1>1, NothingStored DEF Progress
<1> DEFINE p(b) == [At(req[r], "handle") EXCEPT !.blind = b]
<1>3. At(req[r], "handle") = p(req[r].blind)
  BY <1>2 DEF At, Progress
<1>4. Becomes(r, p(req[r].blind)) \/ Becomes(r, p(TRUE))
  BY <1>3 DEF Miss
<1>5. \A b \in BOOLEAN : Follows(r, req[r], p(b))
  BY <1>1, GoesOn
<1> HIDE DEF p
<1> QED
  BY <1>1, <1>2, <1>4, <1>5, QuietStep

LEMMA HandleStep ==
  ASSUME Inv, NEW r \in Requests, Handle(r)
  PROVE  Inv'
<1>1. /\ req[r].pc = "handle"
      /\ UNCHANGED <<setup, clock, server, script, counters, replies, memos>>
  BY DEF Handle, Serves
<1>2. /\ TypeOK /\ req[r] \in Progress /\ Placed(r, req[r]) /\ req[r].blind \in BOOLEAN
  BY <1>1, NothingStored DEF Progress
<1> DEFINE save == [At(req[r], "save") EXCEPT !.blind = req[r].blind]
<1>3. At(req[r], "save") = save
  BY <1>2 DEF At, Progress
<1>4. \/ Keyed(r) /\ Becomes(r, save)
      \/ \E status \in Statuses : Becomes(r, Answered(req[r], status))
  <2>1. 201 \in Statuses
    BY DEF Statuses
  <2> HIDE DEF save
  <2> QED
    BY <1>3, <2>1, ThrownStatus DEF Handle
<1>5. Keyed(r) => Follows(r, req[r], save)
  BY <1>1, <1>2, GoesOn
<1>6. \A status \in Statuses : Follows(r, req[r], Answered(req[r], status))
  BY <1>1, <1>2, AnsweredFollows
<1> HIDE DEF save
<1> QED
  BY <1>1, <1>4, <1>5, <1>6, QuietStep

\* What a save leaves behind: the request over, keyed and its own answer.
LEMMA SavedPlaced ==
  ASSUME Inv, NEW r \in Requests, req[r].pc = "save", NEW stored \in {"won", "lost", "failed"}
  PROVE  LET p == Saved(r, stored)
         IN  /\ p \in Progress /\ Placed(r, p) /\ Heard(r, p) /\ p.stored = stored /\ Keyed(r)
             /\ Passed(r, p) \subseteq Passed(r, req[r])
             /\ Passed(r, p) # {} => p.asked = req[r].asked
<1> DEFINE a == Answered(req[r], 201)
           x == [a EXCEPT !.stored = stored]
           p == [x EXCEPT !.from = r]
<1>1. TypeOK /\ req[r] \in Progress /\ Placed(r, req[r]) /\ Keyed(r)
  BY NothingStored DEF Placed
<1>2. Follows(r, req[r], a) /\ a.pc = "done" /\ a.status = 201
  BY <1>1, AnsweredFollows DEF Statuses
<1>3. p = Saved(r, stored)
  BY DEF Saved
<1> HIDE DEF a
<1>4. /\ a \in Progress /\ Placed(r, a) /\ Passed(r, a) \subseteq Passed(r, req[r])
      /\ Passed(r, a) # {} => a.asked = req[r].asked
  BY <1>2 DEF Follows
<1>5. /\ x \in Progress /\ x.pc = "done" /\ x.stored = stored /\ x.asked = a.asked
      /\ x.status = 201 /\ x.layer = a.layer
      /\ (x.admitted <=> a.admitted) /\ (x.open <=> a.open) /\ (x.wiped <=> a.wiped)
      /\ (x.late <=> a.late)
  BY <1>2, <1>4 DEF Progress
<1> HIDE DEF x
<1>6. r \in 0 .. N
  BY <1>1, RequestNumbers, ServerAssumption
<1>7. /\ p \in Progress /\ p.pc = "done" /\ p.stored = stored /\ p.asked = a.asked
      /\ p.from = r /\ p.status = 201 /\ p.layer = a.layer
      /\ (p.admitted <=> a.admitted) /\ (p.open <=> a.open) /\ (p.wiped <=> a.wiped)
      /\ (p.late <=> a.late)
  BY <1>5, <1>6 DEF Progress
<1> HIDE DEF p
<1>8. Placed(r, p) /\ Heard(r, p) /\ Passed(r, p) = Passed(r, a)
  BY <1>1, <1>2, <1>4, <1>7 DEF Placed, Heard, Passed
<1> QED
  BY <1>1, <1>3, <1>4, <1>7, <1>8

\* An answer is stored for a key that has none, or is not and says so, or it
\* is not known which.
LEMMA SavedReplies ==
  ASSUME TypeOK, RepliesInv, setup' = setup, NEW r \in Requests, Keyed(r), req[r].stored = "none",
         NEW stored \in {"won", "lost", "failed"}, req'[r].stored = stored,
         \A s \in Requests \ {r} : req'[s] = req[s],
         NEW until,
         \/ replies' = replies /\ stored # "won"
         \/ /\ StorageKey(r) \notin DOMAIN replies /\ stored # "lost"
            /\ replies' = Put(replies, StorageKey(r), Entry(r, until))
  PROVE  RepliesInv'
<1>1. /\ Requests' = Requests
      /\ \A s : /\ StorageKey(s)' = StorageKey(s) /\ RequestHash(s)' = RequestHash(s)
                /\ (Keyed(s) <=> Keyed(s)')
  BY SetupFixed
<1>2. \A k \in DOMAIN replies : EntryOf(k, replies[k].from) /\ replies[k].from \in Requests
  BY DEF RepliesInv, TypeOK
<1>3. \A s \in Requests : req[s].stored = "won" =>
        StorageKey(s) \in DOMAIN replies /\ replies[StorageKey(s)].from = s
  BY DEF RepliesInv
<1>4. \A k \in DOMAIN replies : replies[k].from # r
  BY <1>2 DEF EntryOf
<1>5. \A k \in DOMAIN replies : k \in DOMAIN replies' /\ replies'[k] = replies[k]
  BY DEF Put
<1>6. ASSUME NEW k \in DOMAIN replies
      PROVE  EntryOf(k, replies[k].from)'
  <2>1. /\ replies'[k] = replies[k] /\ replies[k].from \in Requests
        /\ req'[replies[k].from] = req[replies[k].from]
    BY <1>2, <1>4, <1>5
  <2> QED
    BY <1>1, <1>2, <2>1 DEF EntryOf
<1>7. CASE replies' = replies /\ stored # "won"
  <2>1. \A s \in Requests' : req'[s].stored = "won" =>
          StorageKey(s)' \in DOMAIN replies' /\ replies'[StorageKey(s)'].from = s
    BY <1>1, <1>3, <1>7
  <2>2. \A k \in DOMAIN replies' : EntryOf(k, replies[k].from)'
    BY <1>6, <1>7
  <2> QED
    BY <2>1, <2>2 DEF RepliesInv
<1>8. CASE /\ StorageKey(r) \notin DOMAIN replies /\ stored # "lost"
           /\ replies' = Put(replies, StorageKey(r), Entry(r, until))
  <2> DEFINE mine == StorageKey(r)
  <2>1. /\ DOMAIN replies' = DOMAIN replies \cup {mine}
        /\ replies'[mine].from = r /\ replies'[mine].hash = RequestHash(r)
    BY <1>8 DEF Put, Entry
  <2>2. ASSUME NEW k, k = mine
        PROVE  EntryOf(k, replies[k].from)'
    BY <1>1, <1>8, <2>1, <2>2 DEF EntryOf
  <2>3. \A s \in Requests' : req'[s].stored = "won" =>
          StorageKey(s)' \in DOMAIN replies' /\ replies'[StorageKey(s)'].from = s
    BY <1>1, <1>3, <1>5, <2>1
  <2>4. \A k \in DOMAIN replies' : EntryOf(k, replies[k].from)'
    <3> HIDE DEF mine
    <3> QED
      BY <1>6, <2>1, <2>2
  <2> QED
    BY <2>3, <2>4 DEF RepliesInv
<1> QED
  BY <1>7, <1>8

LEMMA SaveStep ==
  ASSUME Inv, NEW r \in Requests, Save(r)
  PROVE  Inv'
<1>1. req[r].pc = "save" /\ UNCHANGED <<setup, clock, server, script, counters, memos>>
  BY DEF Save, Serves
<1>2. TypeOK /\ req[r].stored = "none" /\ clock \in Nat /\ Requests' = Requests
  BY <1>1, NothingStored, SetupFixed, ServerAssumption DEF TypeOK
<1> DEFINE mine == StorageKey(r)
           until == clock + ReplyTTL
<1>3. PICK stored \in {"won", "lost", "failed"} :
        /\ Becomes(r, Saved(r, stored))
        /\ \/ replies' = replies /\ stored # "won"
           \/ /\ mine \notin DOMAIN replies /\ stored # "lost"
              /\ replies' = Put(replies, mine, Entry(r, until))
  <2>1. \/ Stored(r) = replies /\ mine \in DOMAIN replies
        \/ Stored(r) = Put(replies, mine, Entry(r, until)) /\ mine \notin DOMAIN replies
    BY DEF Stored
  <2> HIDE DEF mine, until
  <2> QED
    BY <2>1 DEF Save, mine
<1> DEFINE p == Saved(r, stored)
<1>4. /\ p \in Progress /\ Placed(r, p) /\ Heard(r, p) /\ p.stored = stored /\ Keyed(r)
      /\ Passed(r, p) \subseteq Passed(r, req[r])
      /\ Passed(r, p) # {} => p.asked = req[r].asked
  BY <1>1, SavedPlaced
<1>5. Becomes(r, p)
  BY <1>3
<1> HIDE DEF p
<1>6. /\ req' \in [Requests' -> Progress] /\ req'[r] = p
      /\ \A s \in Requests \ {r} : req'[s] = req[s]
      /\ \A s \in Requests' : Placed(s, req[s])' /\ Heard(s, req[s])'
  BY <1>1, <1>4, <1>5, LocalMove
<1>7. RepliesInv'
  BY <1>1, <1>2, <1>3, <1>4, <1>6, SavedReplies DEF Inv
<1>8. CountersInv'
  <2>1. \A s \in Requests : Narrows(s)
    BY <1>4, <1>6 DEF Narrows
  <2>2. \A s \in Requests : \A layer \in Passed(s, req[s]) : KeyKept(layer, Window(s, layer))
    BY <1>1, <1>2, KeptSame
  <2> QED
    BY <1>1, <1>2, <2>1, <2>2, CountersMove
<1>9. \A k \in DOMAIN replies' :
        replies'[k].from \in Requests /\ replies'[k].until \in Nat /\ replies'[k].until > clock
  <2>1. Entry(r, until).from = r /\ Entry(r, until).until = until
    BY DEF Entry
  <2>2. until \in Nat /\ until > clock
    BY <1>2, ServerAssumption
  <2>3. \A k \in DOMAIN replies :
          replies[k].from \in Requests /\ replies[k].until \in Nat /\ replies[k].until > clock
    BY <1>2 DEF TypeOK
  <2> HIDE DEF until, mine
  <2> QED
    BY <1>3, <2>1, <2>2, <2>3 DEF Put
<1>10. TypeOK'
  BY <1>1, <1>2, <1>6, <1>9 DEF TypeOK, SetupOK
<1> QED
  BY <1>1, <1>6, <1>7, <1>8, <1>10 DEF Inv, MemosInv

-----------------------------------------------------------------------------
(* Health                                                                  *)

Result == [status : {"none", "ok", "fail"}, at : Nat]

\* A probe begins with nothing but results that are still fresh.
LEMMA AsksFollows ==
  ASSUME Inv, NEW r \in Requests, Arrives(r), NEW got \in [Components -> Result],
         \A c \in Awaited(r) : got[c] # NoResult =>
           got[c].status = "ok" /\ got[c].at > clock - ProbeTTL,
         NEW p, p = [At(req[r], "ping") EXCEPT !.asked = clock, !.got = got]
  PROVE  Follows(r, req[r], p)
<1>1. TypeOK /\ req[r] = New /\ New \in Progress /\ clock \in Nat
  BY ArrivesNew
<1> DEFINE x == [New EXCEPT !.pc = "ping"]
           y == [x EXCEPT !.asked = clock]
           z == [y EXCEPT !.got = got]
<1>2. z = p
  BY <1>1 DEF At
<1>3. x \in Progress /\ x.pc = "ping" /\ x.from = 0 /\ x.stored = "none" /\ ~x.admitted
  BY <1>1 DEF New, Progress, PCs
<1> HIDE DEF x
<1>4. /\ y \in Progress /\ y.pc = "ping" /\ y.from = 0 /\ y.stored = "none" /\ ~y.admitted
      /\ y.asked = clock
  BY <1>1, <1>3 DEF Progress
<1> HIDE DEF y
<1>5. /\ z \in Progress /\ z.pc = "ping" /\ z.from = 0 /\ z.stored = "none" /\ ~z.admitted
      /\ z.asked = clock /\ z.got = got
  BY <1>4 DEF Progress, Result
<1> HIDE DEF z
<1>6. Placed(r, z) /\ Heard(r, z) /\ Passed(r, z) = {}
  BY <1>1, <1>5 DEF Placed, Heard, Passed
<1> QED
  BY <1>2, <1>5, <1>6 DEF Follows

\* Calling the probes changes only since when one is in flight.
LEMMA ProbeAsksStep ==
  ASSUME Inv, NEW r \in Requests, ProbeAsks(r)
  PROVE  Inv'
<1>1. Arrives(r)
  BY DEF ProbeAsks
<1>2. /\ TypeOK /\ req[r].pc # "done" /\ memos \in Memos /\ MemosInv
      /\ UNCHANGED <<setup, clock, server, script, counters, replies>>
  BY <1>1, ArrivesNew DEF Inv, TypeOK, Memos
<1> DEFINE got == [c \in Components |->
                     IF c \in Awaited(r) /\ Fresh(memos[c], clock) THEN memos[c].value
                     ELSE NoResult]
           p == [At(req[r], "ping") EXCEPT !.asked = clock, !.got = got]
<1>3. /\ clock \in 0 .. Horizon /\ clock \in Nat /\ Horizon \in Nat /\ NotProbing = -1
      /\ ProbeTTL \in Nat
  BY <1>2, ServerAssumption DEF TypeOK, NotProbing
<1>4. ASSUME NEW c \in Components
      PROVE  /\ Called(memos[c], clock) \in [value : Result, expires : Nat,
                                             since : NotProbing .. Horizon]
             /\ Called(memos[c], clock).value = memos[c].value
             /\ Called(memos[c], clock).expires = memos[c].expires
             /\ memos[c].value \in Result /\ got[c] \in Result
             /\ got[c] # NoResult => got[c].status = "ok" /\ got[c].at > clock - ProbeTTL
  <2>1. memos[c] \in [value : Result, expires : Nat, since : NotProbing .. Horizon]
    BY <1>2 DEF Memos, Result
  <2>2. clock \in NotProbing .. Horizon
    BY <1>3
  <2>3. /\ Called(memos[c], clock) \in [value : Result, expires : Nat,
                                        since : NotProbing .. Horizon]
        /\ Called(memos[c], clock).value = memos[c].value
        /\ Called(memos[c], clock).expires = memos[c].expires
    BY <2>1, <2>2 DEF Called
  <2>4. memos[c].value.status = "ok" => memos[c].expires = memos[c].value.at + ProbeTTL
    BY <1>2 DEF MemosInv
  <2>5. got[c] \in {memos[c].value, NoResult} /\ NoResult \in Result
    BY DEF NoResult, Result
  <2>6. got[c] # NoResult =>
          memos[c].value.status = "ok" /\ clock < memos[c].expires /\ got[c] = memos[c].value
    BY DEF Fresh
  <2> HIDE DEF got
  <2>7. got[c] # NoResult => got[c].status = "ok" /\ got[c].at > clock - ProbeTTL
    BY <1>3, <2>1, <2>4, <2>6 DEF Result
  <2> QED
    BY <2>1, <2>3, <2>5, <2>7
<1>5. got \in [Components -> Result]
  BY <1>4
<1>6. Becomes(r, p)
  BY DEF ProbeAsks
<1>7. Awaited(r) \subseteq Components
  BY DEF Awaited, Required, Components
<1>8. memos' \in Memos /\ MemosInv'
  <2>1. /\ memos' = [c \in Components |->
                       IF c \in Awaited(r) THEN Called(memos[c], clock) ELSE memos[c]]
        /\ Memos = [Components -> [value : Result, expires : Nat, since : NotProbing .. Horizon]]
    BY DEF ProbeAsks, Memos, Result
  <2>2. \A c \in Components : memos'[c] \in {Called(memos[c], clock), memos[c]}
    BY <2>1
  <2>3. \A c \in Components :
          /\ memos'[c] \in [value : Result, expires : Nat, since : NotProbing .. Horizon]
          /\ memos'[c].value = memos[c].value /\ memos'[c].expires = memos[c].expires
    BY <1>2, <1>4, <2>1, <2>2
  <2>4. memos' \in Memos
    BY <2>1, <2>3
  <2> QED
    BY <1>2, <2>3, <2>4 DEF MemosInv
<1> HIDE DEF got
<1>9. Follows(r, req[r], p)
  BY <1>1, <1>4, <1>5, <1>7, AsksFollows
<1>10. /\ CountersTyped'
       /\ \A s \in Requests : \A layer \in Passed(s, req[s]) : KeyKept(layer, Window(s, layer))
  BY <1>2, KeptSame DEF TypeOK, CountersTyped
<1> HIDE DEF p
<1> QED
  BY <1>2, <1>6, <1>8, <1>9, <1>10, FollowsStep

\* A diagnostic waits for a ping of its own.
LEMMA ComponentAsksStep ==
  ASSUME Inv, NEW r \in Requests, ComponentAsks(r)
  PROVE  Inv'
<1>1. Arrives(r) /\ UNCHANGED memos
  BY DEF ComponentAsks
<1>2. /\ TypeOK /\ req[r] = New /\ New \in Progress /\ req[r].pc # "done"
      /\ UNCHANGED <<setup, clock, server, script, counters, replies, memos>>
  BY <1>1, ArrivesNew
<1> DEFINE got == [c \in Components |-> NoResult]
           p == [At(req[r], "ping") EXCEPT !.asked = clock, !.got = got]
<1>3. got \in [Components -> Result] /\ \A c \in Awaited(r) : got[c] = NoResult
  BY DEF NoResult, Result, Awaited, Required, Components
<1>4. Becomes(r, p)
  <2>1. At(req[r], "ping").got = got
    BY <1>2 DEF New, At
  <2>2. [At(req[r], "ping") EXCEPT !.asked = clock] = p
    BY <1>2, <2>1 DEF New, At
  <2> QED
    BY <2>2 DEF ComponentAsks
<1> HIDE DEF got
<1>5. Follows(r, req[r], p)
  BY <1>1, <1>3, AsksFollows
<1> HIDE DEF p
<1> QED
  BY <1>2, <1>4, <1>5, QuietStep

\* What the probes and the flags make of an answer is a status.
LEMMA HealthStatuses ==
  ASSUME NEW r, Awaited(r) # {}
  PROVE  HealthStatus(r) \in {200, 503}
<1>1. Sent(r).path \in {"/health/ready", "/health", "/health/storage"}
  BY DEF Awaited
<1> QED
  BY <1>1 DEF HealthStatus, BuildOverallBody, AggregateReadiness, BuildComponentBody

LEMMA HealthAnswersStep ==
  ASSUME Inv, NEW r \in Requests, HealthAnswers(r)
  PROVE  Inv'
<1>1. /\ req[r].pc = "ping" /\ Awaited(r) # {} /\ Becomes(r, Answered(req[r], HealthStatus(r)))
      /\ UNCHANGED <<setup, clock, server, script, counters, replies, memos>>
  BY DEF HealthAnswers, Serves
<1>2. HealthStatus(r) \in Statuses
  BY <1>1, HealthStatuses DEF Statuses
<1>3. Follows(r, req[r], Answered(req[r], HealthStatus(r)))
  BY <1>1, <1>2, NothingStored, AnsweredFollows
<1> QED
  BY <1>1, <1>3, QuietStep

LEMMA FlagAnswersStep ==
  ASSUME Inv, NEW r \in Requests, FlagAnswers(r)
  PROVE  Inv'
<1> DEFINE status == BuildStartupBody(Serving)
<1>1. Arrives(r) /\ Becomes(r, Answered(req[r], status)) /\ UNCHANGED memos
  BY DEF FlagAnswers
<1>2. /\ TypeOK /\ req[r] \in Progress /\ Placed(r, req[r]) /\ req[r].pc # "done"
      /\ UNCHANGED <<setup, clock, server, script, counters, replies, memos>>
  BY <1>1, ArrivesNew
<1>3. status \in Statuses
  BY DEF BuildStartupBody, Statuses
<1> HIDE DEF status
<1>4. Follows(r, req[r], Answered(req[r], status))
  BY <1>2, <1>3, AnsweredFollows
<1> QED
  BY <1>1, <1>2, <1>4, QuietStep

LEMMA ComponentAnswersStep ==
  ASSUME Inv, NEW r \in Requests, ComponentAnswers(r)
  PROVE  Inv'
<1>1. /\ req[r].pc = "ping"
      /\ UNCHANGED <<setup, clock, server, script, counters, replies, memos>>
  BY DEF ComponentAnswers, Serves
<1>2. PICK answer : Becomes(r, Answered(req[r], BuildComponentBody(answer)))
  BY DEF ComponentAnswers
<1>3. BuildComponentBody(answer) \in Statuses
  BY DEF BuildComponentBody, Statuses
<1>4. Follows(r, req[r], Answered(req[r], BuildComponentBody(answer)))
  BY <1>1, <1>3, NothingStored, AnsweredFollows
<1> QED
  BY <1>1, <1>2, <1>4, QuietStep

\* Several requests move, and time may have passed.
LEMMA ManyMove ==
  ASSUME TypeOK, setup' = setup, clock' \in Nat, clock <= clock',
         req' \in [Requests -> Progress],
         \A s \in Requests : Placed(s, req'[s]) /\ Heard(s, req'[s])
  PROVE  /\ req' \in [Requests' -> Progress]
         /\ \A s \in Requests' : Placed(s, req[s])' /\ Heard(s, req[s])'
<1>1. Requests' = Requests /\ clock \in Nat
  BY SetupFixed, ServerAssumption DEF TypeOK
<1>2. \A s : \A q \in Progress :
        (Placed(s, q) => Placed(s, q)') /\ (Heard(s, q) => Heard(s, q)')
  BY <1>1, PlacedLater
<1>3. ASSUME NEW s \in Requests
      PROVE  Placed(s, req[s])' /\ Heard(s, req[s])'
  <2>1. \E q \in Progress : req'[s] = q /\ Placed(s, q) /\ Heard(s, q)
    OBVIOUS
  <2>2. PICK q \in Progress : req'[s] = q /\ Placed(s, q) /\ Heard(s, q)
    BY <2>1
  <2>3. Placed(s, q)' /\ Heard(s, q)'
    BY <1>2, <2>2
  <2> QED
    BY <2>2, <2>3 DEF Placed, Heard
<1> QED
  BY <1>1, <1>3

\* q with the result of a ping.
Told(q, c, result) == [q EXCEPT !.got[c] = result]

\* A result is heard by those who wait for it; it is one since they came in.
LEMMA ToldPlaced ==
  ASSUME Inv, NEW s \in Requests, req[s].pc = "ping", NEW c \in Components,
         NEW status \in {"ok", "fail"},
         NEW p, p = Told(req[s], c, [status |-> status, at |-> clock])
  PROVE  /\ p \in Progress /\ Placed(s, p) /\ Heard(s, p) /\ p.stored = req[s].stored
         /\ Passed(s, p) \subseteq Passed(s, req[s]) /\ p.asked = req[s].asked
<1> DEFINE q == req[s]
           result == [status |-> status, at |-> clock]
           got == [q.got EXCEPT ![c] = result]
           z == [q EXCEPT !.got = got]
<1>1. TypeOK /\ q \in Progress /\ Placed(s, q) /\ Heard(s, q) /\ clock \in Nat /\ q.pc = "ping"
  BY ServerAssumption DEF Inv, TypeOK
<1>2. z = p
  BY <1>1 DEF Told, Progress
<1>3. result \in Result /\ result.status = status /\ result.at = clock
  BY <1>1 DEF Result
<1> HIDE DEF q, result
<1>4. /\ got \in [Components -> Result] /\ got[c] = result
      /\ \A d \in Components \ {c} : got[d] = q.got[d]
  BY <1>1, <1>3 DEF Progress, Result
<1> HIDE DEF got
<1>5. /\ z \in Progress /\ z.pc = "ping" /\ z.from = q.from /\ z.stored = q.stored
      /\ z.asked = q.asked /\ z.got = got /\ z.status = q.status
      /\ (z.admitted <=> q.admitted) /\ (z.open <=> q.open) /\ (z.wiped <=> q.wiped)
      /\ (z.late <=> q.late)
  BY <1>1, <1>4 DEF Progress, Result
<1> HIDE DEF z
<1>6. Placed(s, z)
  BY <1>1, <1>5 DEF Placed
<1>7. Heard(s, z)
  <2> SUFFICES ASSUME NEW d \in Awaited(s), z.got[d] # NoResult
               PROVE  \/ z.got[d].status = "ok" /\ z.got[d].at > z.asked - ProbeTTL
                      \/ z.got[d].status = "fail" /\ z.got[d].at >= z.asked
    BY DEF Heard
  <2>1. d \in Components
    BY DEF Awaited, Required, Components
  <2>2. q.asked \in Nat /\ q.asked <= clock /\ ProbeTTL \in Nat \ {0}
    BY <1>1, ServerAssumption DEF Progress, Placed
  <2>3. CASE d = c
    BY <1>1, <1>3, <1>4, <1>5, <2>2, <2>3
  <2>4. CASE d # c
    BY <1>1, <1>4, <1>5, <2>1, <2>4 DEF Heard
  <2> QED
    BY <2>3, <2>4
<1>8. Passed(s, z) \subseteq Passed(s, q)
  BY <1>5 DEF Passed
<1> QED
  BY <1>2, <1>5, <1>6, <1>7, <1>8 DEF q

\* The end of a ping is told to all who wait, and remembered.
LEMMA PingEndsStep ==
  ASSUME Inv, NEW c \in Components, PingEnds(c)
  PROVE  Inv'
<1>1. PICK status \in {"ok", "fail"} : Resolve(c, status)
  BY DEF PingEnds
<1> DEFINE result == [status |-> status, at |-> clock]
           Waits(s) == req[s].pc = "ping" /\ c \in Awaited(s) /\ req[s].got[c] = NoResult
<1>2. /\ UNCHANGED <<setup, clock, server, script, counters, replies>>
      /\ memos' = [memos EXCEPT ![c] = Resolved(memos[c], status, clock)]
      /\ req' = [s \in Requests |-> IF Waits(s) THEN Told(req[s], c, result) ELSE req[s]]
  BY <1>1 DEF Resolve, Told
<1>3. /\ TypeOK /\ req \in [Requests -> Progress] /\ clock \in Nat /\ memos \in Memos
      /\ \A s \in Requests : Placed(s, req[s]) /\ Heard(s, req[s])
  BY ServerAssumption DEF Inv, TypeOK, Memos
<1>4. ASSUME NEW s \in Requests
      PROVE  /\ req'[s] \in Progress /\ Placed(s, req'[s]) /\ Heard(s, req'[s])
             /\ req'[s].stored = req[s].stored /\ Narrows(s)
  <2>1. CASE Waits(s)
    <3>1. req'[s] = Told(req[s], c, result)
      BY <1>2, <2>1
    <3>2. req[s].pc = "ping"
      BY <2>1
    <3> QED
      BY <3>1, <3>2, ToldPlaced DEF Narrows
  <2>2. CASE ~Waits(s)
    <3>1. req'[s] = req[s]
      BY <1>2, <2>2
    <3> QED
      BY <1>3, <3>1 DEF Narrows
  <2> QED
    BY <2>1, <2>2
<1>5. req' \in [Requests -> Progress]
  BY <1>2, <1>4
<1>6. RepliesInv'
  BY <1>2, <1>3, <1>4, RepliesMove DEF Inv
<1>7. \A s \in Requests : \A layer \in Passed(s, req[s]) : KeyKept(layer, Window(s, layer))
  BY <1>2, <1>3, KeptSame
<1>8. /\ CountersInv' /\ req' \in [Requests' -> Progress]
      /\ \A s \in Requests' : Placed(s, req[s])' /\ Heard(s, req[s])'
  <2>1. setup' = setup /\ clock' \in Nat /\ clock <= clock'
    BY <1>2, <1>3
  <2>2. CountersInv'
    BY <1>4, <1>7, <2>1, CountersMove
  <2> QED
    BY <1>3, <1>4, <1>5, <2>1, <2>2, ManyMove
<1>9. memos' \in Memos /\ MemosInv'
  <2> DEFINE M == [value : Result, expires : Nat, since : NotProbing .. Horizon]
             m == Resolved(memos[c], status, clock)
  <2>1. Memos = [Components -> M] /\ MemosInv /\ NotProbing \in NotProbing .. Horizon
    BY ServerAssumption DEF Memos, Result, Inv, NotProbing
  <2>2. memos[c] \in M /\ result \in Result
    BY <1>3, <2>1 DEF Result
  <2>3. Expires(memos[c], status, clock) \in Nat
    BY <1>3, <2>2, ServerAssumption DEF Expires
  <2>4. m = [value |-> result, expires |-> Expires(memos[c], status, clock),
             since |-> NotProbing]
    BY DEF Resolved
  <2>5. m \in M /\ (m.value.status = "ok" => m.expires = m.value.at + ProbeTTL)
    BY <2>1, <2>2, <2>3, <2>4 DEF Expires
  <2> HIDE DEF m, M
  <2>6. memos' \in Memos /\ memos'[c] = m /\ \A d \in Components \ {c} : memos'[d] = memos[d]
    BY <1>2, <1>3, <2>1, <2>5 DEF m
  <2> QED
    BY <2>1, <2>5, <2>6 DEF MemosInv
<1>10. TypeOK'
  BY <1>2, <1>3, <1>8, <1>9 DEF TypeOK, Memos, SetupOK
<1> QED
  BY <1>6, <1>8, <1>9, <1>10 DEF Inv

-----------------------------------------------------------------------------
(* Time and Redis                                                          *)

\* Only the fate of a request's stored answer is changed by its loss.
LEMMA ForgetsPlaced ==
  ASSUME Inv, NEW s \in Requests, NEW keys, NEW p, p = Forgets(keys, req[s], s)
  PROVE  /\ p \in Progress /\ Placed(s, p) /\ Heard(s, p)
         /\ p.pc = req[s].pc /\ p.asked = req[s].asked /\ (p.admitted <=> req[s].admitted)
         /\ Passed(s, p) = Passed(s, req[s])
         /\ p.stored = IF req[s].stored = "won" /\ StorageKey(s) \in keys THEN "gone"
                       ELSE req[s].stored
<1> DEFINE q == req[s]
           x == [q EXCEPT !.stored = "gone"]
<1>1. q \in Progress /\ Placed(s, q) /\ Heard(s, q)
  BY DEF Inv, TypeOK
<1>2. CASE req[s].stored = "won" /\ StorageKey(s) \in keys
  <2>1. p = x
    BY <1>2 DEF Forgets
  <2>2. Keyed(s) /\ q.pc = "done" /\ q.status = 201 /\ q.from = s
    BY <1>1, <1>2 DEF Placed
  <2> HIDE DEF q
  <2>3. /\ x \in Progress /\ x.stored = "gone" /\ x.pc = q.pc /\ x.asked = q.asked
        /\ x.status = q.status /\ x.from = q.from /\ x.layer = q.layer
        /\ (x.admitted <=> q.admitted) /\ (x.open <=> q.open) /\ (x.wiped <=> q.wiped)
        /\ (x.late <=> q.late)
    BY <1>1 DEF Progress
  <2> HIDE DEF x
  <2>4. Placed(s, x) /\ Heard(s, x) /\ Passed(s, x) = Passed(s, q)
    BY <1>1, <2>2, <2>3 DEF Placed, Heard, Passed
  <2> QED
    BY <1>2, <2>1, <2>3, <2>4 DEF q
<1>3. CASE ~(req[s].stored = "won" /\ StorageKey(s) \in keys)
  BY <1>1, <1>3 DEF Forgets
<1> QED
  BY <1>2, <1>3

\* Who stored an answer that is gone is told so.
LEMMA RepliesForgotten ==
  ASSUME TypeOK, RepliesInv, setup' = setup, NEW keys,
         replies' = [k \in DOMAIN replies \ keys |-> replies[k]],
         \A s \in Requests :
           req'[s].stored = IF req[s].stored = "won" /\ StorageKey(s) \in keys THEN "gone"
                            ELSE req[s].stored
  PROVE  RepliesInv'
<1>1. /\ Requests' = Requests
      /\ \A s : /\ StorageKey(s)' = StorageKey(s) /\ RequestHash(s)' = RequestHash(s)
                /\ (Keyed(s) <=> Keyed(s)')
  BY SetupFixed
<1>2. \A k \in DOMAIN replies : EntryOf(k, replies[k].from) /\ replies[k].from \in Requests
  BY DEF RepliesInv, TypeOK
<1>3. ASSUME NEW k \in DOMAIN replies'
      PROVE  EntryOf(k, replies[k].from)'
  <2>1. k \in DOMAIN replies /\ k \notin keys /\ replies'[k] = replies[k]
    BY <1>3
  <2>2. StorageKey(replies[k].from) = k
    BY <1>2, <2>1 DEF EntryOf
  <2>3. req'[replies[k].from].stored = req[replies[k].from].stored
    BY <1>2, <2>1, <2>2
  <2> QED
    BY <1>1, <1>2, <2>1, <2>3 DEF EntryOf
<1>4. ASSUME NEW s \in Requests, req'[s].stored = "won"
      PROVE  StorageKey(s) \in DOMAIN replies' /\ replies'[StorageKey(s)].from = s
  <2>1. req[s].stored = "won" /\ StorageKey(s) \notin keys
    BY <1>4
  <2> QED
    BY <2>1 DEF RepliesInv
<1>5. \A s \in Requests' : req'[s].stored = "won" =>
        StorageKey(s)' \in DOMAIN replies' /\ replies'[StorageKey(s)'].from = s
  BY <1>1, <1>4
<1> QED
  BY <1>3, <1>5 DEF RepliesInv

\* Time takes what is over: no window that may still be asked for.
LEMMA TickStep ==
  ASSUME Inv, Tick
  PROVE  Inv'
<1> DEFINE over == {k \in DOMAIN replies : replies[k].until <= clock + 1}
           kept == {k \in DOMAIN counters : counters[k].until > clock + 1}
<1>1. /\ clock < Horizon /\ clock' = clock + 1
      /\ replies' = [k \in DOMAIN replies \ over |-> replies[k]]
      /\ counters' = [k \in kept |-> counters[k]]
      /\ req' = [s \in Requests |-> Forgets(over, req[s], s)]
      /\ UNCHANGED <<setup, server, script, memos>>
  BY DEF Tick
<1>2. /\ TypeOK /\ RepliesInv /\ MemosInv /\ clock \in 0 .. Horizon /\ Horizon \in Nat
      /\ \A k \in DOMAIN counters : counters[k].n \in Nat \ {0} /\ counters[k].until \in Nat
      /\ \A k \in DOMAIN replies : replies[k].from \in Requests /\ replies[k].until \in Nat
  BY ServerAssumption DEF Inv, TypeOK
<1>3. clock' \in 0 .. Horizon /\ clock' \in Nat /\ clock <= clock'
  BY <1>1, <1>2
<1>4. \A k \in DOMAIN replies' : /\ replies'[k].from \in Requests /\ replies'[k].until \in Nat
                                 /\ replies'[k].until > clock'
  BY <1>1, <1>2
<1>5. \A k \in DOMAIN counters' : /\ counters'[k].n \in Nat \ {0} /\ counters'[k].until \in Nat
                                  /\ counters'[k].until > clock'
  BY <1>1, <1>2
<1>6. ASSUME NEW s \in Requests
      PROVE  /\ req'[s] \in Progress /\ Placed(s, req'[s]) /\ Heard(s, req'[s]) /\ Narrows(s)
             /\ req'[s].stored = IF req[s].stored = "won" /\ StorageKey(s) \in over THEN "gone"
                                 ELSE req[s].stored
  <2>1. req'[s] = Forgets(over, req[s], s)
    BY <1>1
  <2> HIDE DEF over
  <2> QED
    BY <2>1, ForgetsPlaced DEF Narrows
<1>7. req' \in [Requests -> Progress]
  BY <1>1, <1>6
<1>8. ASSUME NEW s \in Requests, NEW layer \in Passed(s, req[s])
      PROVE  KeyKept(layer, Window(s, layer))
  <2> DEFINE start == Window(s, layer)
             end == start + 2 * layer.window
             key == RateLimitKey(layer, start)
  <2>1. end \in Int
    BY CountedFit DEF LayerOK
  <2> HIDE DEF end, key, start
  <2>2. ASSUME clock' < end, key \in DOMAIN counters, counters[key].until >= end
        PROVE  key \in DOMAIN counters' /\ counters'[key] = counters[key]
    BY <1>1, <1>2, <1>3, <2>1, <2>2
  <2>3. KeyKept(layer, start)
    <3>1. key \in DOMAIN counters => counters[key].n \in Nat
      BY <1>2
    <3> QED
      BY <2>2, <3>1 DEF KeyKept, end, key
  <2> QED
    BY <2>3 DEF start
<1> HIDE DEF over, kept
<1>9. RepliesInv'
  BY <1>1, <1>2, <1>6, RepliesForgotten
<1>10. CountersInv'
  BY <1>1, <1>3, <1>6, <1>8, CountersMove
<1>11. /\ req' \in [Requests' -> Progress]
       /\ \A s \in Requests' : Placed(s, req[s])' /\ Heard(s, req[s])'
  BY <1>1, <1>2, <1>3, <1>6, <1>7, ManyMove
<1>12. TypeOK' /\ MemosInv'
  <2>1. Requests' = Requests
    BY <1>1, SetupFixed
  <2> QED
    BY <1>1, <1>2, <1>3, <1>4, <1>5, <1>11, <2>1 DEF TypeOK, MemosInv, SetupOK
<1> QED
  BY <1>9, <1>10, <1>11, <1>12 DEF Inv

\* A request whose counters Redis lost is counted nowhere.
LEMMA WipedPlaced ==
  ASSUME Inv, NEW s \in Requests, NEW p,
         p = [Forgets(DOMAIN replies, req[s], s) EXCEPT !.wiped = @ \/ Open(s) \/ req[s].admitted]
  PROVE  /\ p \in Progress /\ Placed(s, p) /\ Heard(s, p) /\ Passed(s, p) = {}
         /\ p.stored = IF req[s].stored = "won" /\ StorageKey(s) \in DOMAIN replies THEN "gone"
                       ELSE req[s].stored
<1> DEFINE q == Forgets(DOMAIN replies, req[s], s)
           wiped == q.wiped \/ Open(s) \/ req[s].admitted
           x == [q EXCEPT !.wiped = wiped]
<1>1. /\ q \in Progress /\ Placed(s, q) /\ Heard(s, q)
      /\ q.pc = req[s].pc /\ (q.admitted <=> req[s].admitted)
      /\ q.stored = IF req[s].stored = "won" /\ StorageKey(s) \in DOMAIN replies THEN "gone"
                    ELSE req[s].stored
  BY ForgetsPlaced
<1>2. x = p
  OBVIOUS
<1>3. wiped \in BOOLEAN /\ (q.admitted \/ q.pc = "limit" => wiped)
  BY <1>1 DEF Open, Progress
<1>4. q.pc = "new" => ~wiped
  BY <1>1 DEF Open, Placed, New
<1> HIDE DEF q, wiped
<1>5. /\ x \in Progress /\ x.stored = q.stored /\ x.pc = q.pc /\ x.asked = q.asked
      /\ x.status = q.status /\ x.from = q.from /\ x.layer = q.layer /\ x.got = q.got
      /\ (x.admitted <=> q.admitted) /\ (x.wiped <=> wiped)
  BY <1>1, <1>3 DEF Progress
<1>6. ASSUME q.pc = "new"
      PROVE  x = q
  <2>1. q = New /\ ~New.wiped /\ wiped \in BOOLEAN /\ ~wiped
    BY <1>1, <1>3, <1>4, <1>6 DEF Placed, New
  <2>2. wiped = New.wiped
    BY <2>1 DEF New
  <2> QED
    BY <2>1, <2>2 DEF New
<1> HIDE DEF x
<1>7. Placed(s, x) /\ Heard(s, x) /\ Passed(s, x) = {}
  BY <1>1, <1>3, <1>5, <1>6 DEF Placed, Heard, Passed
<1> QED
  BY <1>1, <1>2, <1>5, <1>7

LEMMA WipedStep ==
  ASSUME Inv, Wiped, script' \in BOOLEAN
  PROVE  Inv'
<1>1. /\ counters' = NoCounters /\ replies' = NoReplies
      /\ req' = [s \in Requests |->
                   [Forgets(DOMAIN replies, req[s], s) EXCEPT
                      !.wiped = @ \/ Open(s) \/ req[s].admitted]]
      /\ UNCHANGED <<setup, clock, server, memos>>
  BY DEF Wiped
<1>2. TypeOK /\ RepliesInv /\ MemosInv /\ clock \in Nat /\ Requests' = Requests
  BY <1>1, SetupFixed, ServerAssumption DEF Inv, TypeOK
<1>3. ASSUME NEW s \in Requests
      PROVE  /\ req'[s] \in Progress /\ Placed(s, req'[s]) /\ Heard(s, req'[s])
             /\ Passed(s, req'[s]) = {}
             /\ req'[s].stored = IF req[s].stored = "won" /\ StorageKey(s) \in DOMAIN replies
                                 THEN "gone" ELSE req[s].stored
  <2>1. req'[s] = [Forgets(DOMAIN replies, req[s], s) EXCEPT
                     !.wiped = @ \/ Open(s) \/ req[s].admitted]
    BY <1>1
  <2> QED
    BY <2>1, WipedPlaced
<1>4. req' \in [Requests -> Progress]
  BY <1>1, <1>3
<1>5. /\ req' \in [Requests' -> Progress]
      /\ \A s \in Requests' : Placed(s, req[s])' /\ Heard(s, req[s])'
  <2>1. setup' = setup /\ clock' \in Nat /\ clock <= clock'
    BY <1>1, <1>2
  <2> QED
    BY <1>2, <1>3, <1>4, <2>1, ManyMove
<1>6. RepliesInv'
  <2> DEFINE keys == DOMAIN replies
  <2>1. replies' = [k \in DOMAIN replies \ keys |-> replies[k]]
    BY <1>1 DEF NoReplies
  <2>2. \A s \in Requests :
          req'[s].stored = IF req[s].stored = "won" /\ StorageKey(s) \in keys THEN "gone"
                           ELSE req[s].stored
    BY <1>3
  <2>3. setup' = setup
    BY <1>1
  <2> HIDE DEF keys
  <2> QED
    BY <1>2, <2>1, <2>2, <2>3, RepliesForgotten
<1>7. CountersInv'
  <2>1. \A s, q : Passed(s, q)' = Passed(s, q)
    BY <1>1, SetupFixed
  <2>2. \A s \in Requests : Passed(s, req[s])' = {}
    BY <1>3, <2>1 DEF Passed
  <2> QED
    BY <1>2, <2>2 DEF CountersInv
<1>8. TypeOK' /\ MemosInv'
  BY <1>1, <1>2, <1>5 DEF TypeOK, MemosInv, SetupOK, NoCounters, NoReplies
<1> QED
  BY <1>5, <1>6, <1>7, <1>8 DEF Inv

-----------------------------------------------------------------------------
(* The process                                                             *)

Servers == [phase : {"up", "draining", "closing", "exited"}, since : 0 .. Horizon,
            code : 0 .. 1, starts : 1 .. 2]

\* What the process alone goes through, and a step of nobody's.
LEMMA ProcessMove ==
  ASSUME Inv, UNCHANGED <<setup, clock, counters, replies, memos, req>>,
         server' \in Servers, script' \in BOOLEAN
  PROVE  Inv'
<1>1. /\ TypeOK /\ RepliesInv /\ MemosInv /\ clock \in Nat /\ req \in [Requests -> Progress]
      /\ Requests' = Requests /\ setup' = setup /\ clock' \in Nat /\ clock <= clock'
  BY SetupFixed, ServerAssumption DEF Inv, TypeOK
<1>2. RepliesInv'
  BY <1>1, RepliesMove
<1>3. CountersInv'
  <2>1. \A s \in Requests : Narrows(s)
    BY DEF Narrows
  <2>2. \A s \in Requests : \A layer \in Passed(s, req[s]) : KeyKept(layer, Window(s, layer))
    BY <1>1, KeptSame
  <2> QED
    BY <1>1, <2>1, <2>2, CountersMove
<1>4. \A s \in Requests' : Placed(s, req[s])' /\ Heard(s, req[s])'
  <2>1. \A s \in Requests : Placed(s, req'[s]) /\ Heard(s, req'[s])
    BY DEF Inv
  <2> QED
    BY <1>1, <2>1, ManyMove
<1>5. TypeOK' /\ MemosInv'
  BY <1>1 DEF TypeOK, MemosInv, SetupOK, Servers
<1> QED
  BY <1>2, <1>3, <1>4, <1>5 DEF Inv

\* A request that is cut off is over.
LEMMA CutFollows ==
  ASSUME Inv, NEW s \in Requests, Open(s)
  PROVE  Follows(s, req[s], At(Over(req[s]), "cut"))
<1> DEFINE q == req[s]
           o == Over(q)
<1>1. TypeOK /\ q \in Progress /\ Placed(s, q) /\ q.pc # "done"
  BY DEF Inv, TypeOK, Open
<1>2. o.status \in Statuses
  <2>1. q.status \in Statuses /\ 0 \in Statuses
    BY <1>1 DEF Progress, Statuses
  <2> HIDE DEF q
  <2>2. CASE q.admitted
    BY <1>1, <2>1, <2>2 DEF Over, Progress
  <2>3. CASE ~q.admitted
    BY <2>1, <2>3 DEF Over, New
  <2> QED
    BY <2>2, <2>3
<1>3. At(o, "cut") = Ended(q, "cut", o.status)
  BY DEF At, Ended
<1> HIDE DEF q, o
<1>4. Follows(s, q, Ended(q, "cut", o.status))
  BY <1>1, <1>2, OverFollows DEF q
<1> QED
  BY <1>3, <1>4 DEF q, o

\* The process ends, and with it what its requests wait for.
LEMMA ExitsStep ==
  ASSUME Inv, NEW code \in 0 .. 1, Exits(code)
  PROVE  Inv'
<1>1. /\ server' = [server EXCEPT !.phase = "exited", !.since = 0, !.code = code]
      /\ memos' = [c \in Components |-> NewMemo] /\ req' = Cut
      /\ UNCHANGED <<setup, clock, script, counters, replies>>
  BY DEF Exits
<1>2. /\ TypeOK /\ RepliesInv /\ clock \in Nat /\ server \in Servers /\ Horizon \in Nat
      /\ Requests' = Requests /\ setup' = setup /\ clock' \in Nat /\ clock <= clock'
  BY <1>1, SetupFixed, ServerAssumption DEF Inv, TypeOK, Servers
<1>3. ASSUME NEW s \in Requests
      PROVE  /\ req'[s] \in Progress /\ Placed(s, req'[s]) /\ Heard(s, req'[s]) /\ Narrows(s)
             /\ req'[s].stored = req[s].stored
  <2>1. CASE Open(s)
    <3>1. req'[s] = At(Over(req[s]), "cut")
      BY <1>1, <2>1 DEF Cut
    <3>2. Follows(s, req[s], req'[s])
      BY <2>1, <3>1, CutFollows
    <3>3. req[s].stored = "none"
      BY <2>1, NothingStored DEF Open
    <3> QED
      BY <3>2, <3>3 DEF Follows, Narrows
  <2>2. CASE ~Open(s)
    <3>1. req'[s] = req[s]
      BY <1>1, <2>2 DEF Cut
    <3> QED
      BY <1>2, <3>1 DEF Narrows, Inv, TypeOK
  <2> QED
    BY <2>1, <2>2
<1>4. req' \in [Requests -> Progress]
  BY <1>1, <1>3 DEF Cut
<1>5. RepliesInv'
  BY <1>1, <1>2, <1>3, RepliesMove
<1>6. CountersInv'
  <2>1. \A s \in Requests : \A layer \in Passed(s, req[s]) : KeyKept(layer, Window(s, layer))
    BY <1>1, <1>2, KeptSame
  <2> QED
    BY <1>2, <1>3, <2>1, CountersMove
<1>7. /\ req' \in [Requests' -> Progress]
      /\ \A s \in Requests' : Placed(s, req[s])' /\ Heard(s, req[s])'
  BY <1>2, <1>3, <1>4, ManyMove
<1>8. memos' \in Memos /\ MemosInv'
  BY <1>1, <1>2 DEF Memos, MemosInv, NewMemo, NoResult, NotProbing
<1>9. server' \in Servers
  <2> DEFINE x == [server EXCEPT !.phase = "exited"]
             y == [x EXCEPT !.since = 0]
             z == [y EXCEPT !.code = code]
  <2>1. x \in Servers
    BY <1>2 DEF Servers
  <2>2. 0 \in 0 .. Horizon
    BY <1>2
  <2>3. server' = z
    BY <1>1
  <2> HIDE DEF x
  <2>4. y \in Servers
    BY <2>1, <2>2 DEF Servers
  <2> HIDE DEF y
  <2> QED
    BY <2>3, <2>4 DEF Servers
<1>10. TypeOK'
  BY <1>1, <1>2, <1>7, <1>8, <1>9 DEF TypeOK, SetupOK, Memos, Servers
<1> QED
  BY <1>5, <1>6, <1>7, <1>8, <1>10 DEF Inv

LEMMA ProcessStep ==
  ASSUME Inv, Process
  PROVE  Inv'
<1>1. /\ server \in Servers /\ script \in BOOLEAN /\ clock \in 0 .. Horizon /\ Horizon \in Nat
  BY ServerAssumption DEF Inv, TypeOK, Servers
<1>2. CASE Shutdown
  <2>1. server' \in Servers /\ script' = script
    BY <1>1, <1>2 DEF Shutdown, Servers
  <2> QED
    BY <1>1, <1>2, <2>1, ProcessMove DEF Shutdown
<1>3. CASE CloseStarts
  <2>1. server' \in Servers /\ script' = script
    BY <1>1, <1>3 DEF CloseStarts, Servers
  <2> QED
    BY <1>1, <1>3, <2>1, ProcessMove DEF CloseStarts
<1>4. CASE Restart
  <2>1. server' \in Servers /\ script' \in BOOLEAN
    BY <1>1, <1>4 DEF Restart, Up, Servers
  <2> QED
    BY <1>4, <2>1, ProcessMove DEF Restart
<1>5. CASE Closed
  BY <1>5, ExitsStep DEF Closed
<1>6. CASE ForceExits
  BY <1>6, ExitsStep DEF ForceExits
<1>7. CASE Crash
  BY <1>7, ExitsStep DEF Crash
<1> QED
  BY <1>2, <1>3, <1>4, <1>5, <1>6, <1>7 DEF Process

-----------------------------------------------------------------------------
(* The invariant                                                           *)

LEMMA InitInv == Init => Inv
<1> SUFFICES ASSUME Init PROVE Inv
  OBVIOUS
<1>1. /\ setup \in Setups /\ clock = 0 /\ server = Up(1) /\ script = TRUE
      /\ counters = NoCounters /\ replies = NoReplies /\ memos = [c \in Components |-> NewMemo]
      /\ req = [r \in Requests |-> New]
  BY DEF Init
<1>2. New \in Progress
  BY ServerAssumption DEF New, Progress, PCs, Statuses, NoResult, Components
<1>3. SetupOK(setup) /\ Horizon \in Nat
  BY <1>1, ServerAssumption
<1>4. DOMAIN counters = {} /\ DOMAIN replies = {}
  BY <1>1 DEF NoCounters, NoReplies
<1>5. memos \in Memos /\ MemosInv
  BY <1>1, <1>3 DEF Memos, MemosInv, NewMemo, NoResult, NotProbing
<1>6. TypeOK
  <2>1. server \in Servers
    BY <1>1, <1>3 DEF Up, Servers
  <2>2. clock \in 0 .. Horizon
    BY <1>1, <1>3
  <2> QED
    BY <1>1, <1>2, <1>3, <1>4, <1>5, <2>1, <2>2 DEF TypeOK, Servers, Memos
<1>7. /\ New.pc = "new" /\ New.stored = "none" /\ New.from = 0 /\ New.asked = 0 /\ ~New.admitted
  BY DEF New
<1>8. \A r \in Requests : /\ Placed(r, req[r]) /\ Heard(r, req[r]) /\ Passed(r, req[r]) = {}
                          /\ req[r].stored = "none"
  BY <1>1, <1>7 DEF Placed, Heard, Passed
<1>9. RepliesInv
  BY <1>4, <1>8 DEF RepliesInv
<1>10. CountersInv
  BY <1>8 DEF CountersInv
<1> QED
  BY <1>5, <1>6, <1>8, <1>9, <1>10 DEF Inv

LEMMA RequestStep ==
  ASSUME Inv, NEW r \in Requests, Request(r)
  PROVE  Inv'
BY OnRequestStep, LayerAllowsStep, LayerDeniesStep, LayerFailsStep, ReplayStep, MissStep,
   HandleStep, SaveStep, ProbeAsksStep, HealthAnswersStep, FlagAnswersStep, ComponentAsksStep,
   ComponentAnswersStep DEF Request

LEMMA NextInv == Inv /\ [Next]_vars => Inv'
<1> SUFFICES ASSUME Inv, [Next]_vars PROVE Inv'
  OBVIOUS
<1>1. CASE UNCHANGED vars
  <2>1. server \in Servers /\ script \in BOOLEAN
    BY DEF Inv, TypeOK, Servers
  <2> QED
    BY <1>1, <2>1, ProcessMove DEF vars
<1>2. CASE FlushRedis \/ RedisRestarts
  <2>1. script' \in BOOLEAN
    BY <1>2, Zenon DEF FlushRedis, RedisRestarts, Inv, TypeOK
  <2> QED
    BY <1>2, <2>1, WipedStep, Zenon DEF FlushRedis, RedisRestarts
<1>3. CASE \E r \in Requests : Request(r)
  BY <1>3, RequestStep
<1>4. CASE \E c \in Components : PingEnds(c)
  BY <1>4, PingEndsStep
<1>5. CASE Tick
  BY <1>5, TickStep
<1>6. CASE Process
  BY <1>6, ProcessStep
<1> QED
  BY <1>1, <1>2, <1>3, <1>4, <1>5, <1>6 DEF Next

\* The inductive invariant.
THEOREM InvCorrect == Spec => []Inv
<1>1. Init => Inv
  BY InitInv
<1>2. Inv /\ [Next]_vars => Inv'
  BY NextInv
<1> QED
  BY <1>1, <1>2, PTL DEF Spec

-----------------------------------------------------------------------------
(* Who moves a request                                                     *)

\* An action of a request moves no other.
LEMMA RequestBecomes ==
  ASSUME NEW s, Request(s)
  PROVE  \E q : Becomes(s, q)
<1>1. CASE OnRequest(s)
  BY <1>1 DEF OnRequest
<1>2. CASE LayerAllows(s) \/ LayerDenies(s) \/ LayerFails(s)
  BY <1>2 DEF LayerAllows, LayerDenies, LayerFails
<1>3. CASE Replay(s) \/ Miss(s) \/ Handle(s) \/ Save(s)
  BY <1>3 DEF Replay, Miss, Handle, Save
<1>4. CASE ProbeAsks(s) \/ ComponentAsks(s) \/ HealthAnswers(s) \/ FlagAnswers(s)
           \/ ComponentAnswers(s)
  BY <1>4 DEF ProbeAsks, ComponentAsks, HealthAnswers, FlagAnswers, ComponentAnswers
<1> QED
  BY <1>1, <1>2, <1>3, <1>4 DEF Request

\* Whoever comes further and is not cut off does so by an action of its own.
LEMMA OwnMove ==
  ASSUME Inv, Next, NEW r \in Requests, req'[r].pc # req[r].pc, req'[r].pc # "cut"
  PROVE  Request(r)
<1>1. req \in [Requests -> Progress] /\ req[r] \in Progress
  BY DEF Inv, TypeOK
<1>2. ASSUME NEW s \in Requests, Request(s)
      PROVE  s = r
  BY <1>1, <1>2, RequestBecomes DEF Becomes
<1>3. ASSUME NEW c \in Components, PingEnds(c)
      PROVE  FALSE
  <2>1. PICK status \in {"ok", "fail"} : Resolve(c, status)
    BY <1>3 DEF PingEnds
  <2>2. \/ req'[r] = req[r]
        \/ req'[r] = [req[r] EXCEPT !.got[c] = [status |-> status, at |-> clock]]
    BY <2>1 DEF Resolve
  <2>3. req'[r].pc = req[r].pc
    BY <1>1, <2>2 DEF Progress
  <2> QED
    BY <2>3
<1>4. ASSUME Tick
      PROVE  FALSE
  <2>1. PICK keys : req'[r] = Forgets(keys, req[r], r)
    BY <1>4 DEF Tick
  <2> QED
    BY <2>1, ForgetsPlaced
<1>5. ASSUME Wiped
      PROVE  FALSE
  <2> DEFINE q == Forgets(DOMAIN replies, req[r], r)
             wiped == q.wiped \/ Open(r) \/ req[r].admitted
  <2>1. req'[r] = [q EXCEPT !.wiped = wiped]
    BY <1>5 DEF Wiped
  <2>2. q \in Progress /\ q.pc = req[r].pc
    BY ForgetsPlaced
  <2> HIDE DEF q, wiped
  <2> QED
    BY <2>1, <2>2 DEF Progress
<1>6. ASSUME Process
      PROVE  FALSE
  <2>1. CASE Shutdown \/ CloseStarts \/ Restart
    BY <2>1 DEF Shutdown, CloseStarts, Restart
  <2>2. CASE Closed \/ ForceExits \/ Crash
    <3>1. req' = Cut
      BY <2>2 DEF Closed, ForceExits, Crash, Exits
    <3>2. CASE Open(r)
      <4>1. req'[r] = At(Over(req[r]), "cut")
        BY <3>1, <3>2 DEF Cut
      <4>2. Over(req[r]) \in Progress
        <5>1. New \in Progress /\ req[r] \in Progress
          BY NewProgress DEF Inv, TypeOK
        <5> DEFINE x == [req[r] EXCEPT !.layer = 1]
        <5>2. x \in Progress
          BY <5>1 DEF Progress
        <5>3. Over(req[r]) = IF req[r].admitted THEN [x EXCEPT !.blind = FALSE] ELSE New
          BY DEF Over
        <5> HIDE DEF x
        <5> QED
          BY <5>1, <5>2, <5>3 DEF Progress
      <4> QED
        BY <4>1, <4>2 DEF At, Progress
    <3>3. CASE ~Open(r)
      BY <3>1, <3>3 DEF Cut
    <3> QED
      BY <3>2, <3>3
  <2> QED
    BY <1>6, <2>1, <2>2 DEF Process
<1>7. CASE FlushRedis \/ RedisRestarts
  BY <1>5, <1>7, Zenon DEF FlushRedis, RedisRestarts
<1> QED
  BY <1>2, <1>3, <1>4, <1>6, <1>7 DEF Next

\* A lookup ends with a hit or a miss.
LEMMA LookupMove ==
  ASSUME NEW r, Request(r), req[r].pc = "lookup"
  PROVE  Replay(r) \/ Miss(r)
<1>1. CASE OnRequest(r) \/ ProbeAsks(r) \/ FlagAnswers(r) \/ ComponentAsks(r)
  BY <1>1 DEF OnRequest, ProbeAsks, FlagAnswers, ComponentAsks, Arrives
<1>2. CASE LayerAllows(r) \/ LayerDenies(r) \/ LayerFails(r)
  BY <1>2 DEF LayerAllows, LayerDenies, LayerFails, Limiting
<1>3. CASE Handle(r) \/ Save(r) \/ HealthAnswers(r) \/ ComponentAnswers(r)
  BY <1>3 DEF Handle, Save, HealthAnswers, ComponentAnswers, Serves
<1> QED
  BY <1>1, <1>2, <1>3 DEF Request

\* A probe ends with its answer.
LEMMA ProbeMove ==
  ASSUME NEW r, Request(r), req[r].pc = "ping", Awaited(r) # {}
  PROVE  HealthAnswers(r)
<1>1. CASE OnRequest(r) \/ ProbeAsks(r) \/ FlagAnswers(r) \/ ComponentAsks(r)
  BY <1>1 DEF OnRequest, ProbeAsks, FlagAnswers, ComponentAsks, Arrives
<1>2. CASE LayerAllows(r) \/ LayerDenies(r) \/ LayerFails(r)
  BY <1>2 DEF LayerAllows, LayerDenies, LayerFails, Limiting
<1>3. CASE Replay(r) \/ Miss(r) \/ Handle(r) \/ Save(r)
  BY <1>3 DEF Replay, Miss, Handle, Save, Serves
<1>4. CASE ComponentAnswers(r)
  BY <1>4 DEF ComponentAnswers
<1> QED
  BY <1>1, <1>2, <1>3, <1>4 DEF Request

-----------------------------------------------------------------------------
(* What is promised                                                        *)

\* Every variable keeps its type.
THEOREM TypeCorrect == Spec => []TypeOK
<1>1. Inv => TypeOK
  BY DEF Inv
<1> QED BY <1>1, InvCorrect, PTL

\* In no window does a layer of the rate limiter let in more than its limit,
\* however many requests are in flight and whatever happens to the process.
THEOREM LayersCorrect == Spec => []LayersHold
<1>1. ASSUME Inv
      PROVE  LayersHold
  <2>1. TypeOK /\ IsFiniteSet(Requests)
    BY <1>1, RequestNumbers DEF Inv
  <2>2. ASSUME NEW s \in Counted
        PROVE  s \in Requests /\ Passed(s, req[s]) = ToSet(Layers(s))
    BY <2>2 DEF Counted, Passed, ToSet
  <2>3. ASSUME NEW r \in Counted, NEW layer \in ToSet(Layers(r)), NEW same,
               same = {s \in Counted : /\ layer \in ToSet(Layers(s))
                                       /\ Window(s, layer) = Window(r, layer)}
        PROVE  Cardinality(same) * layer.cost <= layer.limit
    <3> DEFINE start == Window(r, layer)
               all == Counting(layer, start)
               m == Cardinality(all)
               n == Cardinality(same)
               c == layer.cost
    <3>1. r \in Requests /\ layer \in Passed(r, req[r])
      BY <2>2
    <3>2. LayerOK(layer) /\ Fits(layer, start)
      BY <1>1, <3>1, CountedFit
    <3>3. same \subseteq all /\ all \subseteq Requests
      BY <2>2, <2>3 DEF Counting
    <3>4. n \in Nat /\ m \in Nat /\ n <= m
      <4>1. IsFiniteSet(all)
        BY <2>1, <3>3, FS_Subset
      <4> HIDE DEF all
      <4> QED
        BY <3>3, <4>1, FS_Subset, FS_CardinalityType
    <3>5. c \in Nat /\ layer.limit \in Nat /\ m * c <= layer.limit
      BY <3>2 DEF LayerOK, Fits
    <3> HIDE DEF n, m, c
    <3>6. n * c <= m * c /\ n * c \in Nat /\ m * c \in Nat
      <4>1. n * c <= m * c
        BY <3>4, <3>5
      <4> QED
        BY <3>4, <3>5, <4>1
    <3>7. n * c <= layer.limit
      BY <3>5, <3>6
    <3> QED
      BY <3>7 DEF n, c
  <2> DEFINE layers == [r \in Counted |-> ToSet(Layers(r))]
             Same(r, layer) == {s \in Counted : /\ layer \in layers[s]
                                                /\ Window(s, layer) = Window(r, layer)}
  <2>4. \A layer : \A r \in Counted : Same(r, layer) =
          {s \in Counted : layer \in ToSet(Layers(s)) /\ Window(s, layer) = Window(r, layer)}
    OBVIOUS
  <2>5. \A r \in Counted : \A layer \in layers[r] :
          Cardinality(Same(r, layer)) * layer.cost <= layer.limit
    BY <2>3, <2>4
  <2> QED
    BY <2>5 DEF LayersHold
<1> QED BY <1>1, InvCorrect, PTL

\* A retry is answered with the stored answer of the handler, the only one
\* there is, or runs its handler because there is none.
THEOREM RetriesCorrect == Spec => RetriesReplayed
<1>1. ASSUME Inv, Next, NEW r \in Requests, LooksUp(r)
      PROVE  LookedUp(r)
  <2> DEFINE key == StorageKey(r)
             kept == Twins(r, "won")
             maybe == kept \cup Twins(r, "failed")
  <2>1. /\ TypeOK /\ req[r] \in Progress /\ Placed(r, req[r]) /\ req[r].pc = "lookup"
        /\ req'[r].pc \in {"handle", "done"} /\ ~req'[r].blind
        /\ RepliesInv
    BY <1>1 DEF LooksUp, Inv, TypeOK
  <2>2. Replay(r) \/ Miss(r)
    <3>1. Request(r)
      BY <1>1, <2>1, OwnMove
    <3> QED
      BY <2>1, <3>1, LookupMove
  <2>3. \A s \in kept : key \in DOMAIN replies /\ s = replies[key].from
    BY <2>1 DEF RepliesInv, Twins
  <2>4. Cardinality(kept) <= 1
    <3>1. kept = {} \/ \E s \in kept : kept = {s}
      BY <2>3
    <3> HIDE DEF kept
    <3>2. Cardinality(kept) = 0 \/ Cardinality(kept) = 1
      BY <3>1, FS_EmptySet, FS_Singleton
    <3> QED
      BY <3>2
  <2>5. CASE Replay(r)
    <3> DEFINE hit == replies[key]
               s == hit.from
    <3>1. key \in DOMAIN replies /\ s \in Requests /\ EntryOf(key, s)
      BY <2>1, <2>5 DEF Replay, RepliesInv, TypeOK
    <3>2. s \in IF kept = {} THEN maybe ELSE kept
      <4>1. s \in maybe
        BY <3>1 DEF EntryOf, Twins
      <4>2. kept # {} => s \in kept
        BY <2>3
      <4> QED
        BY <4>1, <4>2
    <3>3. req[s].status = 201 /\ hit.hash = RequestHash(s)
      BY <1>1, <3>1 DEF EntryOf, Inv, Placed
    <3>4. CASE RequestHash(s) = RequestHash(r)
      <4>1. req'[r] = [Answered(req[r], 201) EXCEPT !.from = s]
        BY <2>1, <2>5, <3>3, <3>4 DEF Replay, Becomes, TypeOK
      <4>2. req'[r].pc = "done" /\ req'[r].status = 201 /\ req'[r].from = s
        BY <2>1, <3>1, <4>1, HandedOn
      <4> HIDE DEF kept, maybe, s, key
      <4> QED
        BY <2>4, <3>2, <3>3, <3>4, <4>2 DEF LookedUp, kept, maybe
    <3>5. CASE RequestHash(s) # RequestHash(r)
      <4>1. req'[r] = Answered(req[r], 422)
        BY <2>1, <2>5, <3>3, <3>5, ConflictStatus DEF Replay, Becomes, TypeOK
      <4>2. req'[r].pc = "done" /\ req'[r].status = 422 /\ req'[r].from = 0
        <5>1. 422 \in Statuses
          BY ThrownStatus, ConflictStatus
        <5> QED
          BY <2>1, <4>1, <5>1, AnsweredFollows
      <4> HIDE DEF kept, maybe, s, key
      <4> QED
        BY <2>4, <3>2, <3>5, <4>2 DEF LookedUp, kept, maybe
    <3> QED
      BY <3>4, <3>5
  <2>6. CASE Miss(r)
    <3>1. \/ key \notin DOMAIN replies /\ req'[r] = At(req[r], "handle")
          \/ req'[r] = [At(req[r], "handle") EXCEPT !.blind = TRUE]
      BY <2>1, <2>6 DEF Miss, Becomes, TypeOK
    <3>2. key \notin DOMAIN replies /\ req'[r].pc = "handle"
      BY <2>1, <3>1 DEF At, Progress
    <3>3. kept = {}
      BY <2>3, <3>2
    <3> QED
      BY <2>4, <3>2, <3>3 DEF LookedUp
  <2> QED
    BY <2>2, <2>5, <2>6
<1>2. Inv /\ [Next]_vars => [\A r \in Requests : LooksUp(r) => LookedUp(r)]_vars
  BY <1>1
<1> QED BY <1>2, InvCorrect, PTL DEF Spec, RetriesReplayed

\* Readiness says what the dependencies said, and that the process is to stop.
THEOREM ReadinessCorrect == Spec => ReadinessHonest
<1>1. ASSUME Inv, Next, NEW r \in Requests, ProbeAnswered(r)
      PROVE  Truthful(r)
  <2> DEFINE got == req[r].got
             asked == req[r].asked
             status == HealthStatus(r)
             Since(said, t) == {c \in Awaited(r) : got[c].status = said /\ got[c].at > t}
  <2>1. /\ TypeOK /\ req[r] \in Progress /\ Placed(r, req[r]) /\ Heard(r, req[r])
        /\ req[r].pc = "ping" /\ req'[r].pc = "done" /\ Awaited(r) # {}
    BY <1>1 DEF ProbeAnswered, Inv, TypeOK
  <2>2. HealthAnswers(r)
    <3>1. Request(r)
      BY <1>1, <2>1, OwnMove
    <3> QED
      BY <2>1, <3>1, ProbeMove
  <2>3. status \in {200, 503} /\ req'[r].status = status
    <3>1. status \in {200, 503}
      BY <2>1, HealthStatuses
    <3>2. status \in Statuses
      BY <3>1 DEF Statuses
    <3>3. req'[r] = Answered(req[r], status)
      BY <2>1, <2>2 DEF HealthAnswers, Becomes, TypeOK
    <3> HIDE DEF status
    <3> QED
      BY <2>1, <3>1, <3>2, <3>3, AnsweredFollows
  <2>4. ASSUME NEW c \in Awaited(r)
        PROVE  \/ got[c].status = "ok" /\ got[c].at > asked - ProbeTTL
               \/ got[c].status = "fail" /\ got[c].at > asked - 1
    <3>1. c \in Components
      BY DEF Awaited, Required, Components
    <3>2. got[c].at \in Nat /\ asked \in Nat /\ got[c] # NoResult
      BY <2>1, <2>2, <3>1 DEF Progress, HealthAnswers
    <3> QED
      BY <2>1, <3>2 DEF Heard
  <2>5. \/ Sent(r).path \in {"/health", "/health/ready"} /\ Awaited(r) = Required
        \/ Sent(r).path = "/health/storage" /\ Awaited(r) = {"storage"}
    BY <2>1 DEF Awaited
  <2>6. status = 200 <=> ~Stopping(r) /\ \A c \in Awaited(r) : got[c].status = "ok"
    <3>1. CASE Sent(r).path \in {"/health", "/health/ready"} /\ Awaited(r) = Required
      <4>1. status = 200 <=> ~(server.phase # "up" \/ AnyFail(got))
        BY <3>1 DEF HealthStatus, BuildOverallBody, AggregateReadiness
      <4>2. AnyFail(got) <=> \E c \in Awaited(r) : got[c].status # "ok"
        BY <2>4, <3>1 DEF AnyFail
      <4> QED
        BY <3>1, <4>1, <4>2 DEF Stopping
    <3>2. CASE Sent(r).path = "/health/storage" /\ Awaited(r) = {"storage"}
      <4>1. status = 200 <=> got["storage"].status = "ok"
        BY <3>2 DEF HealthStatus, BuildComponentBody
      <4> QED
        BY <3>2, <4>1 DEF Stopping
    <3> QED
      BY <2>5, <3>1, <3>2
  <2>7. status = 200 => ~Stopping(r) /\ Since("ok", asked - ProbeTTL) = Awaited(r)
    BY <2>4, <2>6
  <2>8. status # 200 => Stopping(r) \/ Since("fail", asked - 1) # {}
    BY <2>4, <2>6
  <2> HIDE DEF status
  <2> QED
    BY <2>3, <2>7, <2>8 DEF Truthful
<1>2. Inv /\ [Next]_vars => [\A r \in Requests : ProbeAnswered(r) => Truthful(r)]_vars
  BY <1>1
<1> QED BY <1>2, InvCorrect, PTL DEF Spec, ReadinessHonest

-----------------------------------------------------------------------------
(* Induction on the natural numbers, by the least counterexample           *)

\* A set of natural numbers has a least one.
LEMMA LeastNatural ==
  ASSUME NEW T, T \subseteq Nat, T # {}
  PROVE  \E n \in T : \A m \in T : n <= m
<1>1. PICK n \in T : \A m \in T : ~(<<m, n>> \in OpToRel(<, Nat))
  BY NatLessThanWellFounded, WFMin
<1>2. OpToRel(<, Nat) = {ss \in Nat \X Nat : ss[1] < ss[2]}
  BY DEF OpToRel
<1>3. \A m \in T : ~(m < n)
  BY <1>1, <1>2
<1> QED
  BY <1>3

\* A bounded set of natural numbers has a greatest one.
LEMMA GreatestNatural ==
  ASSUME NEW T, NEW n \in Nat, T \subseteq 0 .. n, T # {}
  PROVE  \E m \in T : \A k \in T : k <= m
<1> DEFINE bounds == {m \in Nat : \A k \in T : k <= m}
<1>1. n \in bounds
  OBVIOUS
<1>2. PICK m \in bounds : \A b \in bounds : m <= b
  BY <1>1, LeastNatural
<1>3. CASE m \in T
  BY <1>3
<1>4. CASE m \notin T
  <2>1. m # 0
    <3>1. PICK k \in T : TRUE
      OBVIOUS
    <3> QED
      BY <1>4, <3>1
  <2>2. \A k \in T : k \in Nat /\ k <= m /\ k # m
    BY <1>4
  <2>3. m - 1 \in bounds
    BY <2>1, <2>2
  <2> QED
    BY <1>2, <2>3
<1> QED
  BY <1>3, <1>4

-----------------------------------------------------------------------------
(* A history of calls of one layer.  The counters after it are a recursive *)
(* function of the position; RanUnfolds gives its equation, CounterRight   *)
(* is what every call keeps true of them.                                  *)

\* What the i-th call leaves, when past says what the one before it left.
After(layer, calls, past, i) ==
  IF i = 0 THEN [result |-> None, counters |-> NoCounters]
  ELSE Consume(past[i - 1].counters, layer, Asked(calls[i]), calls[i].at)

\* There is a history as long as the calls.
LEMMA RanExists ==
  ASSUME NEW layer, NEW calls, NEW n \in Nat
  PROVE  \E f : f = [i \in 0 .. n |-> After(layer, calls, f, i)]
<1> DEFINE Long(k) == \E f : f = [i \in 0 .. k |-> After(layer, calls, f, i)]
           T == {k \in Nat : ~Long(k)}
<1>1. CASE T = {}
  BY <1>1
<1>2. CASE T # {}
  <2>1. PICK k \in T : \A m \in T : k <= m
    BY <1>2, LeastNatural
  <2>2. CASE k = 0
    <3> DEFINE f == [i \in 0 .. 0 |-> After(layer, calls, <<>>, 0)]
    <3>1. f = [i \in 0 .. 0 |-> After(layer, calls, f, i)]
      BY DEF After
    <3> QED
      BY <2>1, <2>2, <3>1
  <2>3. CASE k # 0
    <3>1. k - 1 \in Nat /\ k - 1 \notin T
      BY <2>1, <2>3
    <3>2. PICK f : f = [i \in 0 .. k - 1 |-> After(layer, calls, f, i)]
      BY <3>1
    <3> DEFINE g == [i \in 0 .. k |-> IF i = k THEN After(layer, calls, f, k) ELSE f[i]]
    <3>3. ASSUME NEW i \in 0 .. k
          PROVE  g[i] = After(layer, calls, g, i)
      <4>1. CASE i = 0
        <5>1. 0 \in 0 .. k /\ 0 \in 0 .. k - 1 /\ 0 # k
          BY <2>3, <3>1
        <5>2. g[0] = f[0] /\ f[0] = After(layer, calls, f, 0)
          BY <3>2, <5>1
        <5> QED
          BY <4>1, <5>2 DEF After
      <4>2. CASE i # 0
        <5>1. g[i - 1] = f[i - 1]
          BY <4>2
        <5>2. After(layer, calls, f, i) = After(layer, calls, g, i)
          BY <4>2, <5>1 DEF After
        <5>3. i # k => f[i] = After(layer, calls, f, i)
          BY <3>2
        <5> QED
          BY <5>2, <5>3
      <4> QED
        BY <4>1, <4>2
    <3>4. g = [i \in 0 .. k |-> After(layer, calls, g, i)]
      BY <3>3
    <3> QED
      BY <2>1, <3>4
  <2> QED
    BY <2>2, <2>3
<1> QED
  BY <1>1, <1>2

\* Every call finds the counters as the one before left them.
LEMMA RanUnfolds ==
  ASSUME NEW layer, NEW calls, Len(calls) \in Nat
  PROVE  /\ Ran(layer, calls)[0].counters = NoCounters
         /\ \A i \in 1 .. Len(calls) :
              Ran(layer, calls)[i] = Consume(Ran(layer, calls)[i - 1].counters, layer,
                                             Asked(calls[i]), calls[i].at)
<1> DEFINE f == Ran(layer, calls)
<1>1. f = CHOOSE g : g = [i \in 0 .. Len(calls) |-> After(layer, calls, g, i)]
  BY DEF Ran, After
<1>2. f = [i \in 0 .. Len(calls) |-> After(layer, calls, f, i)]
  BY <1>1, RanExists
<1> HIDE DEF f
<1>3. \A i \in 0 .. Len(calls) : f[i] = After(layer, calls, f, i)
  BY <1>2
<1> QED
  BY <1>3 DEF After, f

\* Windows follow each other, and every moment lies in one.
LEMMA WindowOf ==
  ASSUME NEW W \in Nat \ {0}, NEW t \in Nat
  PROVE  /\ WindowStart(t, W) \in Nat
         /\ WindowStart(t, W) <= t /\ t < WindowStart(t, W) + W
         /\ t % W = t - WindowStart(t, W)
         /\ WindowStart(t, W) % W = 0
<1> DEFINE d == t \div W
<1>1. d \in Nat /\ t % W \in 0 .. W - 1 /\ t = W * d + (t % W)
  OBVIOUS
<1>2. WindowStart(t, W) = W * d
  BY <1>1 DEF WindowStart
<1>3. W * d \in Nat
  BY <1>1
<1>4. (W * d) % W = 0
  BY <1>1
<1> HIDE DEF d
<1> QED
  BY <1>1, <1>2, <1>3, <1>4

\* No window begins within another.
LEMMA WindowsApart ==
  ASSUME NEW W \in Nat \ {0}, NEW s \in Int, NEW r \in Int,
         s % W = 0, r % W = 0, s < r + W, r < s + W
  PROVE  s = r
<1> DEFINE c == s \div W
           d == r \div W
<1>1. c \in Int /\ d \in Int /\ s = W * c /\ r = W * d
  OBVIOUS
<1> HIDE DEF c, d
<1>2. c < d + 1
  <2>1. c >= d + 1 => W * c >= W * (d + 1)
    BY <1>1
  <2>2. W * (d + 1) = W * d + W
    BY <1>1
  <2> QED
    BY <1>1, <2>1, <2>2
<1>3. d < c + 1
  <2>1. d >= c + 1 => W * d >= W * (c + 1)
    BY <1>1
  <2>2. W * (c + 1) = W * c + W
    BY <1>1
  <2> QED
    BY <1>1, <2>1, <2>2
<1> QED
  BY <1>1, <1>2, <1>3

\* A multiple of the window keeps being one when windows are added.
LEMMA WindowsNext ==
  ASSUME NEW W \in Nat \ {0}, NEW s \in Int, s % W = 0
  PROVE  /\ (s + W) % W = 0 /\ (s - W) % W = 0 /\ (s + 2 * W) % W = 0
<1> DEFINE c == s \div W
<1>1. c \in Int /\ s = W * c
  OBVIOUS
<1> HIDE DEF c
<1>2. s + W = W * (c + 1) /\ s - W = W * (c - 1) /\ s + 2 * W = W * (c + 2)
  BY <1>1
<1>3. \A k \in Int : (W * k) % W = 0
  OBVIOUS
<1> QED
  BY <1>1, <1>2, <1>3

\* A layer as ResolveLayerConfig makes it, of a cost that fits its limit.
Sound(layer) == LayerOK(layer) /\ layer.cost <= layer.limit

\* Calls of a layer, in the order in which Redis runs their scripts.
History(calls) ==
  /\ calls \in Seq([at : Nat, lag : Nat])
  /\ InOrder(calls)

\* What a script that is let in adds still fits: in the estimate, and in the limit.
LEMMA AllowedFits ==
  ASSUME NEW layer, Sound(layer), NEW bs, NEW now \in Nat, NEW at \in Nat,
         NEW p \in Nat, NEW n \in Nat,
         p = Count(bs, RateLimitKey(layer, WindowStart(now, layer.window) - layer.window), at),
         n = Count(bs, RateLimitKey(layer, WindowStart(now, layer.window)), at)
  PROVE  /\ Consume(bs, layer, now, at).result.allowed
              <=> p * (layer.window - (now % layer.window)) + (n + layer.cost) * layer.window
                     <= layer.limit * layer.window
         /\ Consume(bs, layer, now, at).result.allowed => n + layer.cost <= layer.limit
         /\ Consume(bs, layer, now, at).counters =
              IF Consume(bs, layer, now, at).result.allowed
              THEN Put(bs, RateLimitKey(layer, WindowStart(now, layer.window)),
                       [n |-> n + layer.cost, until |-> at + 2 * layer.window])
              ELSE bs
<1> DEFINE W == layer.window
           c == layer.cost
           L == layer.limit
           e == now % W
           result == Decide(ComputeEstimate(p, n, e, W), e, layer)
<1>1. W \in Nat \ {0} /\ c \in Nat \ {0} /\ L \in Nat
  BY DEF Sound, LayerOK
<1>2. e \in 0 .. W - 1
  BY <1>1
<1>3. /\ Consume(bs, layer, now, at).result = result
      /\ Consume(bs, layer, now, at).counters =
           IF result.allowed
           THEN Put(bs, RateLimitKey(layer, WindowStart(now, W)),
                    [n |-> n + c, until |-> at + 2 * W])
           ELSE bs
  BY DEF Consume, Charged, Kept
<1>4. result.allowed <=> (p * (W - e) + n * W) + c * W <= L * W
  BY DEF Decide, ComputeEstimate
<1> HIDE DEF W, c, L, e, result
<1>5. n * W + c * W = (n + c) * W
  BY <1>1
<1>6. p * (W - e) \in Nat /\ n * W \in Nat /\ c * W \in Nat /\ L * W \in Nat
  <2>1. W - e \in Nat
    BY <1>1, <1>2
  <2> QED
    BY <1>1, <2>1
<1>7. result.allowed <=> p * (W - e) + (n + c) * W <= L * W
  BY <1>4, <1>5, <1>6
<1>8. result.allowed => n + c <= L
  <2>1. result.allowed => (n + c) * W <= L * W
    BY <1>5, <1>6, <1>7
  <2>2. n + c > L => (n + c) * W >= (L + 1) * W
    BY <1>1
  <2>3. (L + 1) * W = L * W + W
    BY <1>1
  <2> QED
    BY <1>1, <1>5, <1>6, <2>1, <2>2, <2>3
<1> QED
  BY <1>3, <1>7, <1>8 DEF W, c, L, e

\* The start of the window a call counts in.
Began(layer, call) == WindowStart(Asked(call), layer.window)

\* A call is asked for in its window, and run no sooner.
LEMMA CallTimes ==
  ASSUME NEW layer, Sound(layer), NEW calls, History(calls), NEW j \in 1 .. Len(calls)
  PROVE  /\ calls[j].at \in Nat /\ Asked(calls[j]) \in Nat /\ Asked(calls[j]) <= calls[j].at
         /\ Began(layer, calls[j]) \in Nat /\ Began(layer, calls[j]) % layer.window = 0
         /\ Began(layer, calls[j]) <= Asked(calls[j])
         /\ Asked(calls[j]) < Began(layer, calls[j]) + layer.window
         /\ Asked(calls[j]) % layer.window = Asked(calls[j]) - Began(layer, calls[j])
         /\ \A i \in 1 .. Len(calls) : i <= j => calls[i].at <= calls[j].at
<1>1. DOMAIN calls = 1 .. Len(calls) /\ calls[j] \in [at : Nat, lag : Nat]
  <2> DEFINE S == [at : Nat, lag : Nat]
  <2>1. calls \in Seq(S)
    BY DEF History
  <2> HIDE DEF S
  <2>2. DOMAIN calls = 1 .. Len(calls) /\ calls[j] \in S
    BY <2>1
  <2> QED
    BY <2>2 DEF S
<1>2. calls[j].at \in Nat /\ calls[j].lag \in Nat /\ calls[j].lag <= calls[j].at
  BY <1>1 DEF History, InOrder
<1>3. Asked(calls[j]) \in Nat /\ Asked(calls[j]) <= calls[j].at
  BY <1>2 DEF Asked
<1>4. \A i \in 1 .. Len(calls) : i <= j => calls[i].at <= calls[j].at
  BY <1>1 DEF History, InOrder
<1> QED
  BY <1>2, <1>3, <1>4, WindowOf DEF Began, Sound, LayerOK

\* The first i calls that were let in in the window that began at s.
LetIn(layer, calls, i, s) ==
  {j \in 1 .. i : Ran(layer, calls)[j].result.allowed /\ Began(layer, calls[j]) = s}

\* They are finitely many, and one call more is one more.
LEMMA LetInFinite ==
  ASSUME NEW layer, NEW calls, NEW i \in Nat, NEW s
  PROVE  LET In == LetIn(layer, calls, i, s)
         IN  /\ IsFiniteSet(In) /\ Cardinality(In) \in Nat
             /\ Cardinality(In \cup {i + 1}) = Cardinality(In) + 1
<1> DEFINE In == LetIn(layer, calls, i, s)
<1>1. In \in SUBSET (1 .. i)
  BY DEF LetIn
<1> HIDE DEF In
<1>2. IsFiniteSet(In)
  <2>1. IsFiniteSet(1 .. i)
    BY FS_Interval
  <2> QED
    BY <1>1, <2>1, FS_Subset
<1>3. i + 1 \notin In
  BY <1>1
<1> QED
  BY <1>2, <1>3, FS_CardinalityType, FS_AddElement DEF In

\* After i calls, the counter of a window exists when the window let one in,
\* outlives the window after the one in which each was run, and, unless one was
\* late, counts them all, within the limit.
CounterRight(layer, calls, i, s) ==
  LET key == RateLimitKey(layer, s)
      bs  == Ran(layer, calls)[i].counters
      In  == LetIn(layer, calls, i, s)
  IN  /\ key \in DOMAIN bs <=> In # {}
      /\ In # {} => /\ bs[key].n \in Nat /\ bs[key].until \in Int
                    /\ \A j \in In : calls[j].at + 2 * layer.window <= bs[key].until
      /\ (\A j \in In : calls[j].at < s + 2 * layer.window) =>
           /\ In # {} => bs[key].n = Cardinality(In) * layer.cost
           /\ Cardinality(In) * layer.cost <= layer.limit

\* What a script reads in such a counter.
LEMMA CounterRead ==
  ASSUME NEW layer, Sound(layer), NEW calls, History(calls),
         NEW i \in 0 .. Len(calls), NEW s \in Int, CounterRight(layer, calls, i, s), NEW at \in Nat
  PROVE  LET n  == Count(Ran(layer, calls)[i].counters, RateLimitKey(layer, s), at)
             In == LetIn(layer, calls, i, s)
         IN  /\ n \in Nat
             /\ In = {} => n = 0
             /\ at < s + 2 * layer.window /\ (\A j \in In : calls[j].at < s + 2 * layer.window) =>
                  n = Cardinality(In) * layer.cost
<1> DEFINE n   == Count(Ran(layer, calls)[i].counters, RateLimitKey(layer, s), at)
           In  == LetIn(layer, calls, i, s)
           bs  == Ran(layer, calls)[i].counters
           key == RateLimitKey(layer, s)
<1>1. n = IF key \in DOMAIN bs /\ at < bs[key].until THEN bs[key].n ELSE 0
  BY DEF Count
<1>2. In \subseteq 1 .. Len(calls) /\ \A j \in In : Began(layer, calls[j]) = s
  BY DEF LetIn
<1>3. ASSUME In # {}, at < s + 2 * layer.window
      PROVE  at < bs[key].until
  <2>1. PICK j \in In : TRUE
    BY <1>3
  <2>2. calls[j].at + 2 * layer.window <= bs[key].until /\ bs[key].until \in Int
    BY <2>1 DEF CounterRight
  <2>3. s <= calls[j].at /\ calls[j].at \in Nat
    BY <1>2, <2>1, CallTimes
  <2>4. 2 * layer.window \in Nat
    BY DEF Sound, LayerOK
  <2> HIDE DEF bs, key
  <2> QED
    BY <1>3, <2>2, <2>3, <2>4
<1>4. In = {} => Cardinality(In) * layer.cost = 0
  BY FS_EmptySet DEF Sound, LayerOK
<1>5. /\ key \in DOMAIN bs <=> In # {}
      /\ In # {} => bs[key].n \in Nat
      /\ (\A j \in In : calls[j].at < s + 2 * layer.window) /\ In # {} =>
            bs[key].n = Cardinality(In) * layer.cost
  BY DEF CounterRight
<1> HIDE DEF n, In, bs, key
<1> QED
  BY <1>1, <1>3, <1>4, <1>5 DEF n, In

\* Every script keeps its counters so.
LEMMA CounterStep ==
  ASSUME NEW layer, Sound(layer), NEW calls, History(calls), NEW i \in 0 .. Len(calls) - 1,
         \A s \in Int : CounterRight(layer, calls, i, s), NEW s \in Int
  PROVE  CounterRight(layer, calls, i + 1, s)
<1> DEFINE W    == layer.window
           c    == layer.cost
           bs   == Ran(layer, calls)[i].counters
           new  == Ran(layer, calls)[i + 1].counters
           ok   == Ran(layer, calls)[i + 1].result.allowed
           call == calls[i + 1]
           b    == Began(layer, call)
           key  == RateLimitKey(layer, s)
           In   == LetIn(layer, calls, i, s)
           n    == Count(bs, RateLimitKey(layer, b), call.at)
<1>1. i \in Nat /\ i + 1 \in 1 .. Len(calls) /\ i \in 0 .. Len(calls) /\ Len(calls) \in Nat
  <2>1. Len(calls) \in Nat
    BY DEF History
  <2> QED
    BY <2>1
<1>2. Ran(layer, calls)[i + 1] = Consume(bs, layer, Asked(call), call.at)
  <2>1. i + 1 - 1 = i
    BY <1>1
  <2> QED
    BY <1>1, <2>1, RanUnfolds
<1>3. /\ call.at \in Nat /\ Asked(call) \in Nat /\ b \in Nat /\ b <= call.at
      /\ \A j \in 1 .. Len(calls) : j <= i + 1 => calls[j].at <= call.at
  <2> DEFINE q == Asked(call)
             x == call.at
  <2>1. /\ x \in Nat /\ q \in Nat /\ q <= x /\ b \in Nat /\ b <= q
        /\ \A j \in 1 .. Len(calls) : j <= i + 1 => calls[j].at <= x
    BY <1>1, CallTimes
  <2> HIDE DEF q, x, b
  <2>2. b <= x
    BY <2>1
  <2> QED
    BY <2>1, <2>2 DEF q, x
<1>4. /\ Count(bs, RateLimitKey(layer, b - W), call.at) \in Nat
      /\ n \in Nat
  <2>1. b \in Int /\ b - W \in Int
    BY <1>3 DEF Sound, LayerOK
  <2> QED
    BY <1>1, <1>3, <2>1, CounterRead
<1>5. /\ ok => n + c <= layer.limit
      /\ new = IF ok
               THEN Put(bs, RateLimitKey(layer, b), [n |-> n + c, until |-> call.at + 2 * W])
               ELSE bs
  <2> HIDE DEF bs, call
  <2> QED
    BY <1>2, <1>3, <1>4, AllowedFits DEF Began
<1>6. CounterRight(layer, calls, i, s)
  OBVIOUS
<1>7. CASE ~(ok /\ b = s)
  <2>1. LetIn(layer, calls, i + 1, s) = In
    <3>1. 1 .. i + 1 = (1 .. i) \cup {i + 1}
      BY <1>1
    <3> QED
      BY <1>7, <3>1 DEF LetIn
  <2>2. (key \in DOMAIN new <=> key \in DOMAIN bs) /\ (key \in DOMAIN bs => new[key] = bs[key])
    <3>1. CASE ~ok
      BY <1>5, <3>1
    <3>2. CASE ok /\ b # s
      <4>1. RateLimitKey(layer, b) # key
        BY <3>2 DEF RateLimitKey
      <4> HIDE DEF bs, key, n, new
      <4> QED
        BY <1>5, <3>2, <4>1 DEF Put
    <3> QED
      BY <1>7, <3>1, <3>2
  <2> QED
    BY <1>6, <2>1, <2>2 DEF CounterRight
<1>8. CASE ok /\ b = s
  <2>1. /\ LetIn(layer, calls, i + 1, s) = In \cup {i + 1}
        /\ Cardinality(In \cup {i + 1}) = Cardinality(In) + 1 /\ Cardinality(In) \in Nat
    <3>1. 1 .. i + 1 = (1 .. i) \cup {i + 1}
      BY <1>1
    <3>2. LetIn(layer, calls, i + 1, s) = In \cup {i + 1}
      BY <1>8, <3>1 DEF LetIn
    <3>3. Cardinality(In \cup {i + 1}) = Cardinality(In) + 1 /\ Cardinality(In) \in Nat
      BY <1>1, LetInFinite
    <3> QED
      BY <3>2, <3>3
  <2>2. key \in DOMAIN new /\ new[key] = [n |-> n + c, until |-> call.at + 2 * W]
    <3> HIDE DEF bs, n, new
    <3> QED
      BY <1>5, <1>8 DEF Put
  <2>3. ASSUME NEW j \in In \cup {i + 1}
        PROVE  calls[j].at + 2 * W <= call.at + 2 * W
    <3>1. j \in 1 .. i + 1
      BY <1>1 DEF LetIn
    <3>2. calls[j].at <= call.at /\ calls[j].at \in Nat
      BY <1>1, <1>3, <3>1, CallTimes
    <3> QED
      BY <1>3, <3>2 DEF Sound, LayerOK
  <2>4. ASSUME \A j \in In \cup {i + 1} : calls[j].at < s + 2 * W
        PROVE  /\ n + c = (Cardinality(In) + 1) * c
               /\ (Cardinality(In) + 1) * c <= layer.limit
    <3>1. call.at < s + 2 * W /\ \A j \in In : calls[j].at < s + 2 * W
      BY <2>4
    <3>2. n = Cardinality(In) * c
      BY <1>1, <1>3, <1>6, <1>8, <3>1, CounterRead
    <3>3. n + c = (Cardinality(In) + 1) * c
      <4>1. c \in Nat
        BY DEF Sound, LayerOK
      <4> HIDE DEF n, c, In
      <4> QED
        BY <2>1, <3>2, <4>1
    <3> QED
      BY <1>5, <1>8, <3>3
  <2>5. n + c \in Nat /\ call.at + 2 * W \in Int
    <3>1. c \in Nat /\ W \in Nat
      BY DEF Sound, LayerOK
    <3> HIDE DEF n, c, call, W
    <3> QED
      BY <1>3, <1>4, <3>1
  <2> HIDE DEF In, key, n, new, call, bs
  <2>6. /\ new[key].n = n + c /\ new[key].until = call.at + 2 * W
    BY <2>2
  <2> QED
    BY <2>1, <2>2, <2>3, <2>4, <2>5, <2>6 DEF CounterRight, key, new
<1> QED
  BY <1>7, <1>8

\* They are so after every history.
LEMMA CounterAlways ==
  ASSUME NEW layer, Sound(layer), NEW calls, History(calls)
  PROVE  \A i \in 0 .. Len(calls) : \A s \in Int : CounterRight(layer, calls, i, s)
<1> DEFINE T == {i \in Nat : i <= Len(calls) /\ ~\A s \in Int : CounterRight(layer, calls, i, s)}
<1>1. Len(calls) \in Nat
  BY DEF History
<1>2. CASE T = {}
  BY <1>1, <1>2
<1>3. CASE T # {}
  <2>1. PICK i \in T : \A j \in T : i <= j
    BY <1>3, LeastNatural
  <2>2. i # 0
    <3>1. ASSUME NEW s \in Int
          PROVE  CounterRight(layer, calls, 0, s)
      <4>1. LetIn(layer, calls, 0, s) = {}
        BY DEF LetIn
      <4>2. Cardinality({}) * layer.cost <= layer.limit
        BY FS_EmptySet DEF Sound, LayerOK
      <4>3. DOMAIN Ran(layer, calls)[0].counters = {}
        BY <1>1, RanUnfolds DEF NoCounters
      <4> QED
        BY <4>1, <4>2, <4>3 DEF CounterRight
    <3> QED
      BY <2>1, <3>1
  <2>3. i - 1 \in 0 .. Len(calls) - 1 /\ i - 1 \in Nat /\ i - 1 \notin T /\ i - 1 + 1 = i
    BY <1>1, <2>1, <2>2
  <2>4. \A s \in Int : CounterRight(layer, calls, i - 1, s)
    BY <1>1, <2>3
  <2>5. \A s \in Int : CounterRight(layer, calls, i - 1 + 1, s)
    BY <2>3, <2>4, CounterStep
  <2> QED
    BY <2>1, <2>3, <2>5
<1> QED
  BY <1>2, <1>3

\* How much of a layer's limit a set of calls has used that were asked for in times.
Used(layer, calls, times) ==
  Cardinality({i \in {j \in 1 .. Len(calls) : Ran(layer, calls)[j].result.allowed} :
                 Asked(calls[i]) \in times}) * layer.cost

\* A call was asked for within a window exactly when it counts in it.
LEMMA WindowHolds ==
  ASSUME NEW layer, Sound(layer), NEW calls, History(calls), NEW j \in 1 .. Len(calls),
         NEW s \in Int, s % layer.window = 0
  PROVE  Asked(calls[j]) \in s .. s + layer.window - 1 <=> Began(layer, calls[j]) = s
<1> DEFINE W == layer.window
           q == Asked(calls[j])
           b == Began(layer, calls[j])
<1>1. /\ W \in Nat \ {0} /\ q \in Nat /\ b \in Nat /\ b % W = 0 /\ b <= q /\ q < b + W
  BY CallTimes DEF Sound, LayerOK
<1>2. s % W = 0
  OBVIOUS
<1> HIDE DEF W, q, b
<1>3. ASSUME q \in s .. s + W - 1
      PROVE  b = s
  <2>1. s < b + W /\ b < s + W /\ b \in Int /\ W \in Nat \ {0}
    BY <1>1, <1>3
  <2>2. b % W = 0
    BY <1>1
  <2> QED
    BY <1>2, <2>1, <2>2, WindowsApart, Zenon
<1> QED
  BY <1>1, <1>3 DEF W, q, b

\* The part of HistoryHolds about single windows.
LEMMA WindowsKeepLimit ==
  ASSUME NEW layer, Sound(layer), NEW calls, History(calls), NEW s \in Nat, s % layer.window = 0,
         \A j \in LetIn(layer, calls, Len(calls), s) : calls[j].at < s + 2 * layer.window
  PROVE  Used(layer, calls, s .. s + layer.window - 1) <= layer.limit
<1>1. Len(calls) \in Nat
  BY DEF History
<1>2. {i \in {j \in 1 .. Len(calls) : Ran(layer, calls)[j].result.allowed} :
         Asked(calls[i]) \in s .. s + layer.window - 1} = LetIn(layer, calls, Len(calls), s)
  BY WindowHolds DEF LetIn
<1>3. CounterRight(layer, calls, Len(calls), s)
  BY <1>1, CounterAlways
<1> QED
  BY <1>2, <1>3 DEF CounterRight, Used

\* What a stretch across two windows can hold: m of the first window's p, and n
\* of the second when the last of these still fitted at e, before the stretch's end.
LEMMA StretchFits ==
  ASSUME NEW W \in Nat \ {0}, NEW L \in Nat, NEW p \in Nat, NEW n \in Nat,
         NEW e \in 0 .. W - 1, p <= L, p * (W - e) + n * W <= L * W
  PROVE  (p + n) * W <= L * (2 * W - 1)
<1>1. p * (W - e) = p * W - p * e /\ (p + n) * W = p * W + n * W
  OBVIOUS
<1>2. p * e <= L * e
  OBVIOUS
<1>3. L * e <= L * (W - 1)
  OBVIOUS
<1>4. L * (2 * W - 1) = L * W + L * (W - 1)
  OBVIOUS
<1>5. p * W \in Nat /\ n * W \in Nat /\ p * e \in Nat /\ L * e \in Nat /\ L * W \in Nat
      /\ L * (W - 1) \in Nat
  OBVIOUS
<1>6. (p + n) * W <= L * W + p * e
  BY <1>1, <1>5
<1> QED
  BY <1>2, <1>3, <1>4, <1>5, <1>6

\* The same when the stretch holds nothing of the second window.
LEMMA OneWindowFits ==
  ASSUME NEW W \in Nat \ {0}, NEW L \in Nat, NEW m \in Nat, m <= L
  PROVE  m * W <= L * (2 * W - 1)
<1>1. m * W <= L * W
  OBVIOUS
<1>2. L * (2 * W - 1) = L * W + L * (W - 1)
  OBVIOUS
<1>3. m * W \in Nat /\ L * W \in Nat /\ L * (W - 1) \in Nat
  OBVIOUS
<1> QED
  BY <1>1, <1>2, <1>3

\* The part of HistoryHolds about stretches that lie across two windows.
LEMMA StretchesKeepLimit ==
  ASSUME NEW layer, Sound(layer), NEW calls, History(calls),
         \A j \in 1 .. Len(calls) : calls[j].at < Began(layer, calls[j]) + layer.window,
         NEW t \in Nat
  PROVE  Used(layer, calls, t .. t + layer.window - 1) * layer.window
           <= layer.limit * (2 * layer.window - 1)
<1> DEFINE W == layer.window
           L == layer.limit
           c == layer.cost
           M == Len(calls)
           s == WindowStart(t, W)
           A == {i \in {j \in 1 .. M : Ran(layer, calls)[j].result.allowed} :
                   Asked(calls[i]) \in t .. t + W - 1}
           First == LetIn(layer, calls, M, s)
           Second == {i \in A : Began(layer, calls[i]) = s + W}
<1>1. W \in Nat \ {0} /\ L \in Nat /\ c \in Nat \ {0} /\ M \in Nat
  BY DEF Sound, LayerOK, History
<1>2. s \in Nat /\ s <= t /\ t < s + W /\ s % W = 0 /\ (s + W) % W = 0 /\ s + W \in Nat
  <2>1. s \in Nat /\ s <= t /\ t < s + W /\ s % W = 0
    BY <1>1, WindowOf
  <2> HIDE DEF s, W
  <2>2. s \in Int /\ W \in Nat \ {0} /\ s % W = 0
    BY <1>1, <2>1
  <2>3. (s + W) % W = 0
    BY <2>2, WindowsNext, Zenon
  <2> QED
    BY <1>1, <2>1, <2>3
<1>3. ASSUME NEW i \in A
      PROVE  i \in First \/ i \in Second
  <2>1. i \in 1 .. M /\ Asked(calls[i]) \in t .. t + W - 1 /\ Ran(layer, calls)[i].result.allowed
    OBVIOUS
  <2>2. Asked(calls[i]) \in s .. s + W - 1 \/ Asked(calls[i]) \in s + W .. s + W + W - 1
    <3> HIDE DEF W, s
    <3> QED
      BY <1>1, <1>2, <2>1
  <2>3. Began(layer, calls[i]) = s \/ Began(layer, calls[i]) = s + W
    BY <1>2, <2>1, <2>2, WindowHolds
  <2> QED
    BY <2>1, <2>3 DEF LetIn
<1>4. /\ IsFiniteSet(First) /\ Cardinality(First) \in Nat
      /\ IsFiniteSet(Second) /\ Cardinality(Second) \in Nat
      /\ IsFiniteSet(A) /\ Cardinality(A) \in Nat
  <2>1. IsFiniteSet(1 .. M)
    BY <1>1, FS_Interval
  <2>2. A \in SUBSET (1 .. M) /\ Second \in SUBSET (1 .. M) /\ First \in SUBSET (1 .. M)
    BY DEF LetIn
  <2> HIDE DEF A, Second, First
  <2> QED
    BY <2>1, <2>2, FS_Subset, FS_CardinalityType
<1>5. Cardinality(A) <= Cardinality(First) + Cardinality(Second)
  <2>1. A \in SUBSET (First \cup Second)
    BY <1>3
  <2> HIDE DEF A, First, Second
  <2>2. /\ IsFiniteSet(First \cup Second)
        /\ Cardinality(First \cup Second)
             = Cardinality(First) + Cardinality(Second) - Cardinality(First \cap Second)
    BY <1>4, FS_Union
  <2>3. Cardinality(First \cap Second) \in Nat
    BY <1>4, FS_Intersection, FS_CardinalityType
  <2>4. Cardinality(A) <= Cardinality(First \cup Second)
    BY <2>1, <2>2, FS_Subset
  <2> QED
    BY <1>4, <2>2, <2>3, <2>4
<1>6. \A i \in 0 .. M : \A r \in Int : CounterRight(layer, calls, i, r)
  BY CounterAlways
<1>7. \A i \in 0 .. M : \A r \in Int : \A j \in LetIn(layer, calls, i, r) :
        calls[j].at < r + W /\ calls[j].at < r + 2 * W
  <2> TAKE i \in 0 .. M, r \in Int
  <2> TAKE j \in LetIn(layer, calls, i, r)
  <2>1. j \in 1 .. M /\ Began(layer, calls[j]) = r
    BY <1>1 DEF LetIn
  <2>2. calls[j].at < r + W /\ calls[j].at \in Nat
    BY <2>1, CallTimes
  <2> HIDE DEF W
  <2> QED
    BY <1>1, <2>2
<1>8. Cardinality(First) * c <= L
  <2>1. M \in 0 .. M /\ s \in Int
    BY <1>1, <1>2
  <2>2. CounterRight(layer, calls, M, s)
    BY <1>6, <2>1
  <2>3. \A j \in First : calls[j].at < s + 2 * W
    BY <1>7, <2>1
  <2> QED
    BY <2>2, <2>3 DEF CounterRight
<1>9. Cardinality(First) * c \in Nat /\ Cardinality(Second) * c \in Nat
  <2> HIDE DEF First, Second, c
  <2> QED
    BY <1>1, <1>4
<1>10. Cardinality(A) * c <= Cardinality(First) * c + Cardinality(Second) * c
  <2> DEFINE a == Cardinality(A)
             b == Cardinality(First) + Cardinality(Second)
  <2>1. Cardinality(A) * c <= (Cardinality(First) + Cardinality(Second)) * c
    <3>1. a \in Nat /\ b \in Nat /\ a <= b
      BY <1>4, <1>5
    <3> HIDE DEF a, b, c
    <3>2. a * c <= b * c
      BY <1>1, <3>1
    <3> QED
      BY <3>2 DEF a, b
  <2> HIDE DEF First, Second, c, A, a, b
  <2>2. (Cardinality(First) + Cardinality(Second)) * c
          = Cardinality(First) * c + Cardinality(Second) * c
    BY <1>1, <1>4
  <2> QED
    BY <2>1, <2>2
<1>11. CASE Second = {}
  <2>1. Cardinality(Second) = 0
    BY <1>11, FS_EmptySet
  <2>2. Cardinality(A) * c <= L /\ Cardinality(A) * c \in Nat
    <3> HIDE DEF First, Second, c, A, L
    <3> QED
      BY <1>1, <1>4, <1>8, <1>9, <1>10, <2>1
  <2>3. (Cardinality(A) * c) * W <= L * (2 * W - 1)
    <3> HIDE DEF A, c, L, W
    <3> QED
      BY <1>1, <2>2, OneWindowFits
  <2> QED
    BY <2>3 DEF Used
<1>12. CASE Second # {}
  <2>1. PICK i \in Second : \A j \in Second : j <= i
    <3>1. Second \subseteq 0 .. M
      BY <1>1
    <3> HIDE DEF Second
    <3> QED
      BY <1>1, <1>12, <3>1, GreatestNatural
  <2> DEFINE call == calls[i]
             e    == Asked(call) % W
             past == Ran(layer, calls)[i - 1].counters
             Rest == LetIn(layer, calls, i - 1, s + W)
  <2>2. /\ i \in 1 .. M /\ i - 1 \in 0 .. M /\ i - 1 \in Nat /\ i - 1 + 1 = i
        /\ Ran(layer, calls)[i].result.allowed
        /\ Began(layer, call) = s + W /\ Asked(call) \in t .. t + W - 1
    BY <1>1, <2>1
  <2>3. /\ call.at \in Nat /\ Asked(call) \in Nat /\ Asked(call) <= call.at
        /\ s + W <= Asked(call) /\ e = Asked(call) - (s + W)
        /\ \A j \in 1 .. M : j <= i => calls[j].at <= call.at
    BY <2>2, CallTimes
  <2>4. e \in 0 .. W - 1 /\ call.at < s + W + W
    <3>1. call.at < s + W + W
      BY <2>2
    <3> DEFINE q == Asked(call)
    <3>2. q \in Nat /\ s + W <= q /\ e = q - (s + W) /\ q \in t .. t + W - 1
      BY <2>2, <2>3
    <3> HIDE DEF W, s, call, e, q
    <3> QED
      BY <1>1, <1>2, <3>1, <3>2
  \* Every call of the first window ran before the last of the second.
  <2>5. LetIn(layer, calls, i - 1, s) = First
    <3>1. ASSUME NEW j \in First
          PROVE  j \in LetIn(layer, calls, i - 1, s)
      <4>1. j \in 1 .. M /\ Began(layer, calls[j]) = s /\ Ran(layer, calls)[j].result.allowed
        BY DEF LetIn
      <4>2. calls[j].at < s + W /\ calls[j].at \in Nat
        BY <4>1, CallTimes
      <4>3. i <= j => calls[i].at <= calls[j].at
        BY <2>2, <4>1, CallTimes
      <4>4. ~(i <= j)
        <5> DEFINE q == Asked(call)
                   x == calls[i].at
                   y == calls[j].at
        <5>1. s + W <= q /\ q <= x /\ q \in Nat /\ x \in Nat /\ y \in Nat /\ y < s + W
              /\ (i <= j => x <= y)
          BY <2>3, <4>2, <4>3
        <5> HIDE DEF W, s, q, x, y
        <5> QED
          BY <1>1, <1>2, <5>1
      <4> QED
        BY <1>1, <2>2, <4>1, <4>4 DEF LetIn
    <3>2. 1 .. i - 1 \subseteq 1 .. M
      BY <1>1, <2>2
    <3>3. LetIn(layer, calls, i - 1, s) \subseteq First
      BY <3>2 DEF LetIn
    <3> QED
      BY <3>1, <3>3
  <2>6. Count(past, RateLimitKey(layer, s), call.at) = Cardinality(First) * c
    <3>1. call.at < s + 2 * W
      <4> DEFINE x == call.at
      <4>1. x \in Nat /\ x < s + W + W
        BY <2>3, <2>4
      <4> HIDE DEF W, s, x
      <4>2. x < s + 2 * W
        BY <1>1, <1>2, <4>1
      <4> QED
        BY <4>2 DEF x
    <3>2. \A j \in LetIn(layer, calls, i - 1, s) : calls[j].at < s + 2 * W
      BY <1>2, <1>7, <2>2
    <3>3. CounterRight(layer, calls, i - 1, s) /\ s \in Int
      BY <1>2, <1>6, <2>2
    <3>4. Count(past, RateLimitKey(layer, s), call.at)
            = Cardinality(LetIn(layer, calls, i - 1, s)) * c
      BY <2>2, <2>3, <3>1, <3>2, <3>3, CounterRead
    <3> QED
      BY <2>5, <3>4
  <2>7. Count(past, RateLimitKey(layer, s + W), call.at) = Cardinality(Rest) * c
    <3>1. call.at < s + W + 2 * W
      <4> DEFINE x == call.at
      <4>1. x \in Nat /\ x < s + W + W
        BY <2>3, <2>4
      <4> HIDE DEF W, s, x
      <4>2. x < s + W + 2 * W
        BY <1>1, <1>2, <4>1
      <4> QED
        BY <4>2 DEF x
    <3>2. \A j \in Rest : calls[j].at < s + W + 2 * W
      BY <1>2, <1>7, <2>2
    <3>3. CounterRight(layer, calls, i - 1, s + W) /\ s + W \in Int
      BY <1>2, <1>6, <2>2
    <3> QED
      BY <2>2, <2>3, <3>1, <3>2, <3>3, CounterRead
  <2>8. Cardinality(Rest) \in Nat /\ Cardinality(Second) <= Cardinality(Rest) + 1
    <3>1. ASSUME NEW j \in Second
          PROVE  j \in Rest \cup {i}
      <4>1. j \in 1 .. M /\ j <= i /\ Began(layer, calls[j]) = s + W
            /\ Ran(layer, calls)[j].result.allowed
        BY <2>1
      <4> QED
        BY <1>1, <2>2, <4>1 DEF LetIn
    <3>2. Second \in SUBSET (Rest \cup {i})
      BY <3>1
    <3>3. /\ IsFiniteSet(Rest) /\ Cardinality(Rest) \in Nat
          /\ Cardinality(Rest \cup {i}) = Cardinality(Rest) + 1
      BY <2>2, LetInFinite
    <3> HIDE DEF Second, Rest
    <3> QED
      BY <3>2, <3>3, FS_AddElement, FS_Subset
  <2>9. (Cardinality(First) * c) * (W - e) + (Cardinality(Rest) * c + c) * W <= L * W
    <3>1. Ran(layer, calls)[i] = Consume(past, layer, Asked(call), call.at)
      BY <1>1, <2>2, RanUnfolds
    <3>2. Consume(past, layer, Asked(call), call.at).result.allowed
      BY <2>2, <3>1
    <3>3. /\ WindowStart(Asked(call), W) = s + W
          /\ WindowStart(Asked(call), W) - W = s
      <4>1. WindowStart(Asked(call), W) = s + W
        BY <2>2 DEF Began
      <4> HIDE DEF W, s, call
      <4> QED
        BY <1>1, <1>2, <4>1
    <3>4. Cardinality(Rest) * c \in Nat
      <4> HIDE DEF c, Rest
      <4> QED
        BY <1>1, <2>8
    <3> DEFINE p == Cardinality(First) * c
               n == Cardinality(Rest) * c
    <3>5. p = Count(past,
                    RateLimitKey(layer, WindowStart(Asked(call), layer.window) - layer.window),
                    call.at)
      BY <2>6, <3>3
    <3>6. n = Count(past, RateLimitKey(layer, WindowStart(Asked(call), layer.window)), call.at)
      BY <2>7, <3>3
    <3>7. p \in Nat /\ n \in Nat
      BY <1>9, <3>4
    <3> HIDE DEF p, n, past, call
    <3>8. p * (layer.window - (Asked(call) % layer.window)) + (n + layer.cost) * layer.window
            <= layer.limit * layer.window
      BY <2>3, <3>2, <3>5, <3>6, <3>7, AllowedFits
    <3> QED
      BY <3>8 DEF p, n
  <2> DEFINE p == Cardinality(First) * c
             r == Cardinality(Rest) * c + c
             n == Cardinality(Second) * c
  <2>10. n <= r /\ r \in Nat /\ n \in Nat /\ p \in Nat /\ p <= L
    <3>1. n \in Nat /\ p \in Nat /\ p <= L
      BY <1>8, <1>9
    <3>2. r = (Cardinality(Rest) + 1) * c /\ r \in Nat
      <4> DEFINE k == Cardinality(Rest)
      <4>1. k \in Nat
        BY <2>8
      <4> HIDE DEF k, c
      <4>2. k * c + c = (k + 1) * c /\ k * c + c \in Nat
        BY <1>1, <4>1
      <4> QED
        BY <4>2 DEF k
    <3>3. n <= (Cardinality(Rest) + 1) * c
      <4> HIDE DEF Rest, c, Second, First
      <4> QED
        BY <1>1, <1>4, <2>8
    <3> QED
      BY <3>1, <3>2, <3>3
  <2>11. (p + r) * W <= L * (2 * W - 1)
    <3> HIDE DEF p, r, W, L, e
    <3> QED
      BY <1>1, <2>4, <2>9, <2>10, StretchFits DEF p, r
  <2>12. Cardinality(A) * c <= p + r /\ Cardinality(A) * c \in Nat
    <3>1. Cardinality(A) * c \in Nat
      <4> HIDE DEF A, c
      <4> QED
        BY <1>1, <1>4
    <3>2. Cardinality(A) * c <= p + n
      BY <1>10
    <3> HIDE DEF p, n, r, A, c
    <3> QED
      BY <2>10, <3>1, <3>2
  <2>13. (Cardinality(A) * c) * W <= L * (2 * W - 1)
    <3> DEFINE a == Cardinality(A) * c
    <3> HIDE DEF p, r, W, L, a
    <3>1. a * W <= (p + r) * W /\ a * W \in Nat /\ (p + r) * W \in Nat /\ L * (2 * W - 1) \in Int
      BY <1>1, <2>10, <2>12 DEF a
    <3> QED
      BY <2>11, <3>1 DEF a
  <2> QED
    BY <2>13 DEF Used
<1> QED
  BY <1>11, <1>12

\* The part of HistoryHolds about a window in which nothing was let in.
LEMMA FreeLetsIn ==
  ASSUME NEW layer, Sound(layer), NEW calls, History(calls), calls # <<>>
  PROVE  LET free == WindowStart(calls[Len(calls)].at, layer.window) + 2 * layer.window
         IN  Consume(Ran(layer, calls)[Len(calls)].counters, layer, free, free).result.allowed
<1> DEFINE W == layer.window
           M == Len(calls)
           last == calls[M].at
           s == WindowStart(last, W)
           free == s + 2 * W
           past == Ran(layer, calls)[M].counters
<1>1. /\ W \in Nat \ {0} /\ layer.cost \in Nat \ {0} /\ layer.limit \in Nat
      /\ layer.cost <= layer.limit
  BY DEF Sound, LayerOK
<1>2. M \in Nat /\ M \in 1 .. M /\ M \in 0 .. M
  BY DEF History
<1>3. last \in Nat
  BY <1>2, CallTimes
<1>4. s \in Nat /\ last < s + W /\ s % W = 0
  BY <1>1, <1>3, WindowOf
<1>5. free \in Nat /\ free % W = 0 /\ free - W = s + W
  <2>1. s \in Int /\ s % W = 0
    BY <1>4
  <2> HIDE DEF s, W
  <2>2. (s + 2 * W) % W = 0
    BY <1>1, <2>1, WindowsNext, Zenon
  <2> QED
    BY <1>1, <1>4, <2>2
<1>6. WindowStart(free, W) = free
  <2>1. WindowStart(free, W) \in Nat /\ WindowStart(free, W) <= free
        /\ free % W = free - WindowStart(free, W)
    BY <1>1, <1>5, WindowOf
  <2> HIDE DEF free, W
  <2> QED
    BY <1>5, <2>1
<1>7. ASSUME NEW r \in Int, r >= s + W
      PROVE  Count(past, RateLimitKey(layer, r), free) = 0
  <2>1. LetIn(layer, calls, M, r) = {}
    <3>1. ASSUME NEW j \in LetIn(layer, calls, M, r)
          PROVE  FALSE
      <4>1. j \in 1 .. M /\ Began(layer, calls[j]) = r /\ j <= M
        BY <1>2 DEF LetIn
      <4> DEFINE q == Asked(calls[j])
                 x == calls[j].at
      <4>2. r <= q /\ q <= x /\ x <= last /\ q \in Nat /\ x \in Nat
        BY <1>2, <4>1, CallTimes
      <4> HIDE DEF s, W, last, q, x
      <4> QED
        BY <1>1, <1>3, <1>4, <1>7, <4>2
    <3> QED
      BY <3>1
  <2>2. CounterRight(layer, calls, M, r)
    BY <1>2, CounterAlways
  <2> QED
    BY <1>2, <1>5, <2>1, <2>2, CounterRead
<1>8. /\ Count(past, RateLimitKey(layer, WindowStart(free, W) - W), free) = 0
      /\ Count(past, RateLimitKey(layer, WindowStart(free, W)), free) = 0
  <2>1. free >= s + W /\ s + W >= s + W /\ free \in Int /\ s + W \in Int
    <3> HIDE DEF s, W
    <3> QED
      BY <1>1, <1>4
  <2>2. Count(past, RateLimitKey(layer, s + W), free) = 0
    BY <1>7, <2>1
  <2>3. Count(past, RateLimitKey(layer, free), free) = 0
    BY <1>7, <2>1
  <2> QED
    BY <1>5, <1>6, <2>2, <2>3
<1>9. 0 * (layer.window - (free % layer.window)) + (0 + layer.cost) * layer.window
        <= layer.limit * layer.window
  <2>1. layer.cost * layer.window <= layer.limit * layer.window
    <3> DEFINE c == layer.cost
               L == layer.limit
    <3> HIDE DEF c, L, W
    <3>1. c * W <= L * W
      BY <1>1 DEF c, L, W
    <3> QED
      BY <3>1 DEF c, L, W
  <2>2. 0 * (layer.window - (free % layer.window)) = 0
    BY <1>1, <1>5
  <2>3. layer.cost * layer.window \in Nat
    BY <1>1
  <2> QED
    BY <1>1, <2>1, <2>2, <2>3
<1> HIDE DEF free, past
<1>10. Consume(past, layer, free, free).result.allowed
  BY <1>5, <1>8, <1>9, AllowedFits
<1> QED
  BY <1>10 DEF free, past

\* The limit is kept in every history of any number of calls, however they lie.
THEOREM HistoriesHold ==
  \A layer, calls :
    Sound(layer) /\ History(calls) /\ calls # <<>> => HistoryHolds(layer, calls, Nat)
<1> SUFFICES ASSUME NEW layer, NEW calls, Sound(layer), History(calls), calls # <<>>
             PROVE  HistoryHolds(layer, calls, Nat)
  OBVIOUS
<1> DEFINE admitted == {i \in 1 .. Len(calls) : Ran(layer, calls)[i].result.allowed}
           W == layer.window
<1>1. ASSUME NEW i \in admitted,
             \A j \in admitted : Began(layer, calls[j]) = Began(layer, calls[i]) =>
               calls[j].at < Began(layer, calls[j]) + 2 * W
      PROVE  Used(layer, calls, Began(layer, calls[i]) .. Began(layer, calls[i]) + W - 1)
               <= layer.limit
  <2> DEFINE s == Began(layer, calls[i])
  <2>1. s \in Nat /\ s % W = 0
    BY CallTimes
  <2>2. \A j \in LetIn(layer, calls, Len(calls), s) : calls[j].at < s + 2 * W
    BY <1>1 DEF LetIn
  <2> HIDE DEF s
  <2> QED
    BY <2>1, <2>2, WindowsKeepLimit DEF s
<1>2. ASSUME \A i \in 1 .. Len(calls) : calls[i].at < Began(layer, calls[i]) + W
      PROVE  \A t \in Nat : Used(layer, calls, t .. t + W - 1) * W <= layer.limit * (2 * W - 1)
  BY <1>2, StretchesKeepLimit
<1>3. LET free == WindowStart(calls[Len(calls)].at, W) + 2 * W
      IN  Consume(Ran(layer, calls)[Len(calls)].counters, layer, free, free).result.allowed
  BY FreeLetsIn
<1> HIDE DEF W
<1> QED
  BY <1>1, <1>2, <1>3 DEF HistoryHolds, Used, Began, W

\* What TLC evaluates of four calls is an instance.
LEMMA FourCallsHold == EveryHistoryHolds
<1>1. ASSUME NEW layer \in SampleLayers, NEW calls \in Histories
      PROVE  HistoryHolds(layer, calls, 0 .. 6)
  <2>1. PICK l \in {<<1, 2, 1>>, <<2, 2, 1>>, <<2, 3, 1>>, <<5, 3, 2>>} :
          layer = [name |-> "orders", limit |-> l[1], window |-> l[2], cost |-> l[3]]
    BY DEF SampleLayers
  <2>2. Sound(layer)
    BY <2>1 DEF Sound, LayerOK
  <2>3. InOrder(calls) /\ calls \in [1 .. 4 -> [at : 0 .. 6, lag : {0, 1, 3}]]
    BY DEF Histories
  <2>4. [at : 0 .. 6, lag : {0, 1, 3}] \subseteq [at : Nat, lag : Nat]
    OBVIOUS
  <2>5. calls \in Seq([at : Nat, lag : Nat]) /\ Len(calls) = 4 /\ calls # <<>>
    <3> DEFINE S == [at : Nat, lag : Nat]
               T == [at : 0 .. 6, lag : {0, 1, 3}]
    <3>1. calls \in [1 .. 4 -> T] /\ T \subseteq S
      BY <2>3, <2>4
    <3> HIDE DEF S, T
    <3>2. calls \in [1 .. 4 -> S]
      BY <3>1
    <3>3. calls \in Seq(S)
      BY <3>2, SeqDef
    <3>4. Len(calls) = 4
      BY <3>2
    <3>5. calls # <<>>
      BY <3>4
    <3> QED
      BY <3>3, <3>4, <3>5 DEF S
  <2>6. HistoryHolds(layer, calls, Nat)
    BY <2>2, <2>3, <2>5, HistoriesHold DEF History
  <2>7. 0 .. 6 \subseteq Nat
    OBVIOUS
  <2> QED
    BY <2>6, <2>7, Zenon DEF HistoryHolds
<1> QED
  BY <1>1 DEF EveryHistoryHolds

\* So the run's property holds in every behaviour, whatever its counters.
THEOREM LimitHoldsCorrect == Spec => []LimitHolds
<1>1. LimitHolds
  BY FourCallsHold DEF LimitHolds
<1> QED
  BY <1>1, PTL

=============================================================================
