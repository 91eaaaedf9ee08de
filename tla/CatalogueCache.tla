--------------------------- MODULE CatalogueCache ---------------------------
(***************************************************************************)
(* The public catalogue as clients see it: rows in PostgreSQL, the         *)
(* cache-aside layer in Redis (lib/cache, services) and                    *)
(* conditional GETs (ETag, 304).  Readers load on a miss and SET what they *)
(* loaded; administrators commit and then DEL an enumerated set of keys.   *)
(*                                                                         *)
(* A row is its version (updatedAt) and whether the public may see it.     *)
(* Sale items are cached exactly as projects are and are left out; so are  *)
(* the locale and category segments of a key, which every DEL enumerates   *)
(* in full.  The SELECTs of one loader are one read.                       *)
(***************************************************************************)
EXTENDS Naturals

CONSTANTS
  Charities, Projects, Categories,
  CharityOf,     \* the charity of each project
  Keys,          \* the cache keys in play
  Readers,       \* clients, one request at a time each
  Writers,       \* administrators, likewise
  MaxWrites,     \* bound: changes of rows
  NULL

Rows == Charities \cup Projects \cup Categories

Kinds == {"charity", "project", "category"}

\* A detail key per charity and project, a list key per kind.
AllKeys == ({"detail"} \X (Charities \cup Projects)) \cup ({"list"} \X Kinds)

ASSUME CacheAssumption ==
  /\ Charities \cap Projects = {} /\ Charities \cap Categories = {}
  /\ Projects \cap Categories = {}
  /\ CharityOf \in [Projects -> Charities]
  /\ Keys \subseteq AllKeys
  /\ MaxWrites \in Nat
  /\ NULL \notin Keys

VARIABLES
  row,      \* what PostgreSQL holds
  cache,    \* what Redis holds under each key
  reader,   \* the request each client has under way
  held,     \* the response with an ETag each client keeps for its next request
  todo,     \* the keys each administrator's last write has still to DEL
  writes    \* number of changes so far

vars == <<row, cache, reader, held, todo, writes>>

-----------------------------------------------------------------------------
(* What a representation shows                                             *)

\* The rows a key's response is built from.
Shown(k) ==
  IF k[1] = "detail"
  THEN {k[2]} \cup Categories \cup {CharityOf[p] : p \in Projects \cap {k[2]}}
  ELSE CASE k[2] = "charity"  -> Charities \cup Categories
         [] k[2] = "project"  -> Projects \cup Charities \cup Categories
         [] k[2] = "category" -> Categories

\* What the public sees of a row: its version, or nothing (0).
Seen(e) == IF row[e].live THEN row[e].version ELSE 0

Current(k) == [e \in Shown(k) |-> Seen(e)]

\* whereLive, whereLiveWithParent: a detail is a 404 unless it and its charity
\* are live; a list never is.
Found(k) ==
  k[1] = "detail" => \A e \in Shown(k) \ Categories : row[e].live

\* Faulty variant: the parent's updatedAt is not part of a project's ETag.
ETagRowsOwn(k) == IF k[1] = "detail" THEN {k[2]} ELSE Categories

\* The rows whose updatedAt goes into the ETag; lists of charities and projects
\* have none.
ETagRows(k) == IF k[1] = "detail" THEN Shown(k) \ Categories ELSE Categories

Tagged(k) == k[1] = "detail" \/ k[2] = "category"

ETag(k, body) == [e \in ETagRows(k) |-> body[e]]

-----------------------------------------------------------------------------
(* donationCacheKeysFor                                                    *)

\* Faulty variant: a charity's lists are not part of a project list.
DelKeysUncascaded(e) ==
  Keys \cap
    IF e \in Charities THEN {<<"detail", e>>, <<"list", "charity">>}
    ELSE IF e \in Projects THEN {<<"detail", e>>, <<"list", "project">>}
    ELSE {<<"list", "category">>}

DelKeys(e) ==
  Keys \cap
    IF e \in Charities THEN {<<"detail", e>>, <<"list", "charity">>, <<"list", "project">>}
    ELSE IF e \in Projects THEN {<<"detail", e>>, <<"list", "project">>}
    ELSE {<<"list", "category">>}

-----------------------------------------------------------------------------
(* State                                                                   *)

Row == [version : 1..(MaxWrites + 1), live : BOOLEAN]

Body(k) == [Shown(k) -> 0..(MaxWrites + 1)]

\* excused is history: an invalidation of the key failed, or was under way,
\* after the body was loaded and before it was stored; or a publish window
\* opened or closed, of which nobody tells the cache.
Entry(k) == [body : Body(k), excused : BOOLEAN]

IdleReader == [pc |-> "idle", key |-> NULL, got |-> NULL]

\* A client between requests, one whose loader runs, one that is about to SET.
Request ==
  {IdleReader} \cup [pc : {"load"}, key : Keys, got : {NULL}]
    \cup UNION {[pc : {"set"}, key : {k}, got : Entry(k)] : k \in Keys}

Response == UNION {[key : {k}, body : Body(k)] : k \in {k \in Keys : Tagged(k)}}

TypeOK ==
  /\ row \in [Rows -> Row]
  /\ DOMAIN cache = Keys
  /\ \A k \in Keys : cache[k] \in Entry(k) \cup {NULL}
  /\ reader \in [Readers -> Request]
  /\ held \in [Readers -> Response \cup {NULL}]
  /\ todo \in [Writers -> SUBSET Keys]
  /\ writes \in 0..MaxWrites

Init ==
  /\ row = [e \in Rows |-> [version |-> 1, live |-> TRUE]]
  /\ cache = [k \in Keys |-> NULL]
  /\ reader = [r \in Readers |-> IdleReader]
  /\ held = [r \in Readers |-> NULL]
  /\ todo = [w \in Writers |-> {}]
  /\ writes = 0

-----------------------------------------------------------------------------
(* GET of a list or of a detail: withCache, then sendDetail, sendCategories *)
(* or the plain body of a list                                             *)

\* If-None-Match of the client's last tagged response: a 304, on which the client
\* keeps what it holds.
NotModified(r, k, body) ==
  /\ held[r] # NULL
  /\ held[r].key = k
  /\ ETag(k, held[r].body) = ETag(k, body)

Answer(r, k, body) ==
  /\ held' = IF ~Tagged(k) \/ NotModified(r, k, body) THEN held
             ELSE [held EXCEPT ![r] = [key |-> k, body |-> body]]
  /\ reader' = [reader EXCEPT ![r] = IdleReader]

\* Faulty variant: a hit is stored again, to renew its TTL.
HitRenewed(r, k) ==
  /\ reader[r].pc = "idle"
  /\ cache[k] # NULL
  /\ reader' = [reader EXCEPT ![r] = [pc |-> "set", key |-> k, got |-> cache[k]]]
  /\ UNCHANGED <<row, cache, held, todo, writes>>

Hit(r, k) ==
  /\ reader[r].pc = "idle"
  /\ cache[k] # NULL
  /\ Answer(r, k, cache[k].body)
  /\ UNCHANGED <<row, cache, todo, writes>>

\* The GET finds nothing, or fails and is taken for a miss.
Miss(r, k) ==
  /\ reader[r].pc = "idle"
  /\ reader' = [reader EXCEPT ![r] = [pc |-> "load", key |-> k, got |-> NULL]]
  /\ UNCHANGED <<row, cache, held, todo, writes>>

\* Faulty variant: a 404 is cached like any other answer.
LoadNegative(r) ==
  /\ reader[r].pc = "load"
  /\ LET k == reader[r].key
     IN  reader' = [reader EXCEPT
           ![r].pc = "set",
           ![r].got = [body |-> IF Found(k) THEN Current(k) ELSE NULL, excused |-> FALSE]]
  /\ UNCHANGED <<row, cache, held, todo, writes>>

\* The loader; its NotFoundError propagates and nothing is cached.
Load(r) ==
  /\ reader[r].pc = "load"
  /\ LET k == reader[r].key
     IN  \/ /\ Found(k)
            /\ reader' = [reader EXCEPT ![r].pc = "set",
                                        ![r].got = [body |-> Current(k), excused |-> FALSE]]
            /\ UNCHANGED held
         \/ /\ ~Found(k)
            /\ reader' = [reader EXCEPT ![r] = IdleReader]
            /\ held' = [held EXCEPT ![r] = NULL]
  /\ UNCHANGED <<row, cache, todo, writes>>

\* SET key value EX ttl; a failed SET is logged and the answer is sent anyway.
SetCache(r) ==
  /\ reader[r].pc = "set"
  /\ LET k == reader[r].key
     IN  /\ \/ cache' = [cache EXCEPT ![k] = reader[r].got]
            \/ UNCHANGED cache
         /\ Answer(r, k, reader[r].got.body)
  /\ UNCHANGED <<row, todo, writes>>

\* The client goes away or the instance dies.
Drop(r) ==
  /\ reader[r].pc # "idle"
  /\ reader' = [reader EXCEPT ![r] = IdleReader]
  /\ UNCHANGED <<row, cache, held, todo, writes>>

-----------------------------------------------------------------------------
(* Writes of administrators                                                *)

\* A create, update or lifecycle action that changed the row commits.
Commit(w, e, live) ==
  /\ todo[w] = {}
  /\ writes < MaxWrites
  /\ writes' = writes + 1
  /\ row' = [row EXCEPT ![e] = [version |-> @.version + 1, live |-> live]]
  /\ todo' = [todo EXCEPT ![w] = DelKeys(e)]
  /\ UNCHANGED <<cache, reader, held>>

\* Requests for a key of ks that have loaded but not stored yet.
ExcuseReaders(ks) ==
  reader' = [r \in Readers |->
               IF reader[r].pc = "set" /\ reader[r].key \in ks
               THEN [reader[r] EXCEPT !.got.excused = TRUE]
               ELSE reader[r]]

\* One DEL of invalidateDonationEntity's pipeline, which is not a MULTI.
DelKey(w, k) ==
  /\ k \in todo[w]
  /\ cache' = [cache EXCEPT ![k] = NULL]
  /\ ExcuseReaders({k})
  /\ todo' = [todo EXCEPT ![w] = @ \ {k}]
  /\ UNCHANGED <<row, held, writes>>

\* Redis is down for the rest of the pipeline, or the instance dies: no retry.
DelFails(w) ==
  /\ todo[w] # {}
  /\ cache' = [k \in Keys |->
                 IF k \in todo[w] /\ cache[k] # NULL
                 THEN [cache[k] EXCEPT !.excused = TRUE]
                 ELSE cache[k]]
  /\ ExcuseReaders(todo[w])
  /\ todo' = [todo EXCEPT ![w] = {}]
  /\ UNCHANGED <<row, held, writes>>

-----------------------------------------------------------------------------
(* The environment                                                         *)

\* The TTL of a key runs out, or Redis evicts it.
Expire(k) ==
  /\ cache[k] # NULL
  /\ cache' = [cache EXCEPT ![k] = NULL]
  /\ UNCHANGED <<row, reader, held, todo, writes>>

\* The publish window of a charity or a project opens or closes.
WindowPasses(e) ==
  /\ writes < MaxWrites
  /\ writes' = writes + 1
  /\ row' = [row EXCEPT ![e].live = ~@]
  /\ LET ks == {k \in Keys : e \in Shown(k)}
     IN  /\ cache' = [k \in Keys |->
                        IF k \in ks /\ cache[k] # NULL
                        THEN [cache[k] EXCEPT !.excused = TRUE]
                        ELSE cache[k]]
         /\ ExcuseReaders(ks)
  /\ UNCHANGED <<held, todo>>

-----------------------------------------------------------------------------
Read(r) ==
  \/ \E k \in Keys : Hit(r, k) \/ Miss(r, k)
  \/ Load(r) \/ SetCache(r) \/ Drop(r)

Write(w) ==
  \/ \E e \in Rows, live \in BOOLEAN : Commit(w, e, live)
  \/ \E k \in Keys : DelKey(w, k)
  \/ DelFails(w)

Next ==
  \/ \E r \in Readers : Read(r)
  \/ \E w \in Writers : Write(w)
  \/ \E k \in Keys : Expire(k)
  \/ \E e \in Charities \cup Projects : WindowPasses(e)

\* A request that has started is finished or dropped, a pipeline is executed or
\* fails, and every key has a TTL.  No client has to ask and nobody has to write.
Fairness ==
  /\ \A r \in Readers : WF_vars(Load(r) \/ SetCache(r) \/ Drop(r))
  /\ \A w \in Writers : WF_vars((\E k \in Keys : DelKey(w, k)) \/ DelFails(w))
  /\ \A k \in Keys : WF_vars(Expire(k))

Spec == Init /\ [][Next]_vars /\ Fairness

-----------------------------------------------------------------------------
(* Properties                                                              *)

\* Rows that a key shows and whose writes nobody tells it about: its TTL does.
LeftToTTL(k, e) ==
  \/ e \in Categories /\ k # <<"list", "category">>
  \/ e \in Charities /\ k[1] = "detail" /\ k[2] \in Projects

Pending(k) == \E w \in Writers : k \in todo[w]

Fresh(k, body) == \A e \in Shown(k) : ~LeftToTTL(k, e) => body[e] = Seen(e)

Sound(k, entry) == entry.excused \/ Pending(k) \/ Fresh(k, entry.body)

\* A write is visible under every key that shows its row as soon as its DELs are
\* done, whatever readers and other writers do meanwhile.  A stale entry has one of
\* the excuses the cache policy gives: a DEL still under way, a DEL that failed, a
\* load that overlapped a DEL, a publish window, or a row left to the TTL.
Coherent == \A k \in Keys : cache[k] # NULL => Sound(k, cache[k])

\* The inductive invariant behind Coherent: what a reader is about to store is as
\* sound as what is stored.
Inv ==
  /\ TypeOK
  /\ \A e \in Rows : row[e].version <= writes + 1
  /\ Coherent
  /\ \A r \in Readers : reader[r].pc = "set" => Sound(reader[r].key, reader[r].got)

\* Whatever is stale does not renew itself: once the rows rest, the TTL clears
\* every stale entry for good (spec 019 8.4).
CacheSettles ==
  <>[](\A k \in Keys : cache[k] # NULL => cache[k].body = Current(k))

\* Once the rows rest, every answer with an ETag, even a 304, leaves its client
\* with the current state of every row it shows.  The categories of a detail are
\* the exception, see StrongETags.
AnswersSettle ==
  <>[][\A r \in Readers, k \in Keys :
         Tagged(k) /\ (Hit(r, k) \/ (reader[r].key = k /\ SetCache(r))) =>
           \A e \in Shown(k) :
             k[1] = "list" \/ e \notin Categories => held'[r].body[e] = Seen(e)]_vars

-----------------------------------------------------------------------------
(* What a comment of the repository claims and the code does not do.       *)

\* "`buildETag` produces a strong RFC 7232 ETag": equal ETags of one key stand
\* for equal bodies, so that a 304 leaves the client with what a 200 would have
\* sent.
StrongETags ==
  \A r \in Readers :
    reader[r].pc = "set" /\ NotModified(r, reader[r].key, reader[r].got.body) =>
      held[r].body = reader[r].got.body

=============================================================================
