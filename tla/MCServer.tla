------------------------------ MODULE MCServer ------------------------------
(* Server on a small instance.  What the clients send and what goes wrong  *)
(* are chosen together, one question at a time: each question has all its  *)
(* interleavings, and their products are not explored.                     *)
EXTENDS Server

Order == [method |-> "POST", path |-> "/orders", key |-> "k1", body |-> "b1", user |-> FALSE,
          wrong |-> None]
OtherBody == [Order EXCEPT !.body = "b2"]
NoKey == [Order EXCEPT !.key = None]
Me == [NoKey EXCEPT !.method = "PATCH", !.path = "/me", !.user = TRUE]
SameKeyThere == [Me EXCEPT !.key = "k1"]
Get(path) == [NoKey EXCEPT !.method = "GET", !.path = path, !.body = None]
Refused(wrong) == [Order EXCEPT !.wrong = wrong]

Setup(mode, load, faults) == [load |-> load, mode |-> mode, faults |-> faults]

\* A retry, the same key for another body, and for another path.
Retries ==
  {Setup("disabled", <<Order, second, third>>, faults) :
     second \in {Order, OtherBody}, third \in {Order, SameKeyThere},
     faults \in {{"flush"}, {"throw", "crash"}, {"redis"}}}

\* More requests than a layer lets in; failures of Redis and a lost script.
Limits ==
  {Setup("closed", <<Me, Get("/charities"), Get("/charities")>>, {})}
  \cup {Setup(way[1], <<NoKey, NoKey>>, way[2]) :
          way \in {<<"closed", {"redis"}>>, <<"open", {"redis"}>>, <<"closed", {"flush"}>>,
                   <<"open", {"redis restart", "crash"}>>}}

\* Probes, and a request, around a dependency's failure and around the end.
Stops ==
  {Setup("disabled", <<Get("/health/ready"), Get(second), Get("/health/live")>>, {"ping"}) :
     second \in {"/health", "/health/ready"}}
  \cup {Setup("disabled", <<Get(paths[1]), Get("/health/storage"), Get(paths[2])>>, {"ping"}) :
           paths \in {<<"/health/db", "/health/storage">>, <<"/health/cache", "/health/startup">>}}
  \cup {Setup("disabled", <<Get("/health/ready"), NoKey, Get("/health")>>, {"signal", "crash"})}

Refusals ==
  {Setup("closed", <<Refused("media"), Refused(wrong), Get(free)>>, {}) :
     wrong \in {"key", "schema"}, free \in {"/docs", "/openapi.json"}}

MCSetups == Retries \cup Limits \cup Stops \cup Refusals

Times(limit, window) == [limit |-> limit, window |-> window]

MCDefaults == [global |-> Times(2, 2), perIp |-> Times(2, 2)]

NoLimits == [off |-> FALSE, cost |-> None, perIp |-> None, perUser |-> None, purposes |-> <<>>]

MCRoutes ==
  [path \in {"/orders", "/me", "/charities", "/docs", "/openapi.json"} |->
     CASE path = "/orders" ->
            [NoLimits EXCEPT !.purposes = <<[name |-> "order-create", limit |-> 1, window |-> 2]>>]
       [] path = "/me" -> [NoLimits EXCEPT !.perUser = Times(1, 3)]
       [] path = "/charities" -> [NoLimits EXCEPT !.perIp = Times(1, 2)]
       [] path = "/docs" -> NoLimits
       [] path = "/openapi.json" -> [NoLimits EXCEPT !.off = TRUE]]

\* For the violation run: four requests of one path, of which the layers let in
\* three in seven seconds and two in four.
PromiseSetups == {Setup("closed", [i \in 1 .. 4 |-> Get("/charities")], {})}

PromiseDefaults == [global |-> Times(3, 7), perIp |-> Times(2, 4)]

PromiseRoutes == [path \in {"/charities"} |-> NoLimits]

MCProbeTimeout == [c \in Components |-> IF c = "cache" THEN 1 ELSE 2]

=============================================================================
