--------------------------- MODULE CatalogueProofs ---------------------------
(***************************************************************************)
(* Theorems about Catalogue, for every set of requests, rows and bodies    *)
(* that satisfies the assumptions of that module.  Most steps take one     *)
(* request from q == req[r] to p, outside every transaction; what p has to *)
(* satisfy is collected in Moves and Quiet.  The steps that write a row,   *)
(* take part in a transaction or set a stamp have lemmas of their own.     *)
(***************************************************************************)
EXTENDS Catalogue, ListsProofs

-----------------------------------------------------------------------------
(* What the helpers return                                                 *)

LEMMA ToSetType ==
  ASSUME NEW s \in Seq(Categories)
  PROVE  ToSet(s) \subseteq Categories
BY DEF ToSet

\* As many live categories as ids given: then all the ids are of live ones.
LEMMA AllLive ==
  ASSUME NEW s \in Seq(Categories), AssertCategoriesLive(s)
  PROVE  \A k \in ToSet(s) : Live(k)
<1> DEFINE n == Len(s)
           live == {k \in ToSet(s) : Live(k)}
<1>1. n \in Nat /\ DOMAIN s = 1 .. n
  OBVIOUS
<1>2. ToSet(s) = {s[i] : i \in 1 .. n}
  BY <1>1 DEF ToSet
<1>3. IsFiniteSet(1 .. n) /\ Cardinality(1 .. n) = n
  BY <1>1, FS_Interval
<1>4. IsFiniteSet(ToSet(s)) /\ Cardinality(ToSet(s)) <= n
  <2>1. s \in Surjection(1 .. n, ToSet(s))
    BY <1>1, <1>2 DEF Surjection
  <2> QED BY <1>3, <2>1, FS_Surjection
<1>5. live \subseteq ToSet(s) /\ Cardinality(live) = n
  BY DEF AssertCategoriesLive
<1>6. IsFiniteSet(live) /\ Cardinality(live) <= Cardinality(ToSet(s))
  BY <1>4, <1>5, FS_Subset
<1>7. Cardinality(ToSet(s)) = n
  BY <1>1, <1>4, <1>5, <1>6, FS_CardinalityType
<1>8. live = ToSet(s)
  BY <1>4, <1>5, <1>7, FS_Subset
<1> QED BY <1>8

\* Request, the bodies and rows aside.
RequestWith(B) ==
  [pc : {"idle", "cats", "create", "tx", "delete", "deleting", "insert", "commit", "parent",
         "childInsert", "find", "childUpdate", "category", "stamp", "audit", "done"},
   kind : {"none", "create", "update", "stamp"},
   answer : {"none", "ok", "range", "key", "category", "notFound", "conflict", "lost"},
   e : Entities \cup {NULL}, body : B, field : Fields, set : BOOLEAN,
   doomed : SUBSET Categories, dels : SUBSET Categories, ins : SUBSET Categories,
   dead : SUBSET Categories, turned : SUBSET Categories]

LEMMA IdleType == Idle \in Request
BY DEF Idle, Request, Fields, Entities

LEMMA AnsweredFields ==
  ASSUME NEW q \in Request,
         NEW answer \in {"ok", "range", "key", "category", "notFound", "conflict", "lost"}
  PROVE  /\ Answered(q, answer) \in Request
         /\ Answered(q, answer).pc = "done" /\ Answered(q, answer).kind = q.kind
         /\ Answered(q, answer).e = q.e /\ Answered(q, answer).dead = q.dead
         /\ Answered(q, answer).dels = {} /\ Answered(q, answer).ins = {}
<1> DEFINE B == Bodies \cup {NULL}
           w == [q EXCEPT !.pc = "done", !.answer = answer]
           x == [w EXCEPT !.body = NULL]
           y == [x EXCEPT !.field = "archived", !.set = FALSE]
           z == [y EXCEPT !.doomed = {}, !.dels = {}, !.ins = {}, !.turned = {}]
<1>1. NULL \in B
  OBVIOUS
<1>2. Request = RequestWith(B)
  BY DEF Request, RequestWith
<1>3. z = Answered(q, answer)
  BY DEF Answered
<1> HIDE DEF B
<1>4. w \in Request /\ w.pc = "done" /\ w.kind = q.kind /\ w.e = q.e /\ w.dead = q.dead
  BY DEF Request
<1> HIDE DEF w
<1>5. x \in Request /\ x.pc = "done" /\ x.kind = q.kind /\ x.e = q.e /\ x.dead = q.dead
  BY <1>1, <1>2, <1>4 DEF RequestWith
<1> HIDE DEF x
<1>6. y \in Request /\ y.pc = "done" /\ y.kind = q.kind /\ y.e = q.e /\ y.dead = q.dead
  BY <1>2, <1>5 DEF RequestWith, Fields
<1> HIDE DEF y
<1>7. /\ z \in Request /\ z.pc = "done" /\ z.kind = q.kind /\ z.e = q.e /\ z.dead = q.dead
      /\ z.dels = {} /\ z.ins = {}
  BY <1>2, <1>6 DEF RequestWith
<1> HIDE DEF z
<1> QED BY <1>3, <1>7

\* Going on changes nothing but where a request is.
LEMMA AtFields ==
  ASSUME NEW q \in Request,
         NEW pc \in {"cats", "create", "tx", "delete", "deleting", "insert", "commit", "parent",
                     "childInsert", "find", "childUpdate", "category", "stamp", "audit"}
  PROVE  /\ At(q, pc) \in Request /\ At(q, pc).pc = pc /\ At(q, pc).kind = q.kind
         /\ At(q, pc).e = q.e /\ At(q, pc).body = q.body /\ At(q, pc).field = q.field
         /\ At(q, pc).set = q.set /\ At(q, pc).doomed = q.doomed /\ At(q, pc).dels = q.dels
         /\ At(q, pc).ins = q.ins /\ At(q, pc).dead = q.dead /\ At(q, pc).turned = q.turned
BY DEF At, Request

LEMMA PatchedFields ==
  ASSUME NEW old \in StoredRow, NEW body \in Bodies
  PROVE  /\ Patched(old, body) \in StoredRow
         /\ Patched(old, body).there
         /\ Patched(old, body).archived = old.archived
         /\ Patched(old, body).deleted = old.deleted
         /\ Patched(old, body).start = Given(body.start, old.start)
         /\ Patched(old, body).end = Given(body.end, old.end)
         /\ Patched(old, body).logo = Given(body.logo, old.logo)
<1> DEFINE a == Given(body.start, old.start)
           b == Given(body.end, old.end)
           l == Given(body.logo, old.logo)
           Logos == ({x.logo : x \in Bodies} \ {Keep}) \cup {NULL}
<1>1. body \in Body
  BY CatalogueAssumption
<1>2. a \in Dates /\ b \in Dates
  BY <1>1 DEF Body, StoredRow, Given
<1>3. l \in Logos
  BY DEF StoredRow, Given
<1>4. Patched(old, body) = [old EXCEPT !.there = TRUE, !.start = a, !.end = b, !.logo = l]
  BY DEF Patched
<1>5. StoredRow = [there : BOOLEAN, archived : BOOLEAN, deleted : BOOLEAN, start : Dates,
                   end : Dates, logo : Logos]
  BY DEF StoredRow
<1> HIDE DEF a, b, l, Logos
<1> QED BY <1>2, <1>3, <1>4, <1>5 DEF a, b, l

\* The first record of a request that has just come in.
LEMMA StartedFields ==
  ASSUME NEW r \in Requests, req[r] = Idle,
         NEW kind \in {"create", "update", "stamp"}, NEW e \in Entities,
         NEW body \in Bodies \cup {NULL}
  PROVE  LET q == Started(r, kind, e, body)
         IN  /\ q \in Request /\ q.pc = "idle" /\ q.kind = kind /\ q.e = e /\ q.body = body
             /\ q.doomed = {} /\ q.dels = {} /\ q.ins = {} /\ q.dead = {}
<1> DEFINE B == Bodies \cup {NULL}
           x == [Idle EXCEPT !.kind = kind, !.body = body]
<1>1. body \in B
  OBVIOUS
<1>2. \A z : z \in Request <=> z \in RequestWith(B)
  BY DEF Request, RequestWith
<1> HIDE DEF B
<1>3. Idle \in RequestWith(B)
  BY <1>2, IdleType
<1>4. /\ x \in RequestWith(B) /\ x.pc = "idle" /\ x.kind = kind /\ x.e = NULL /\ x.body = body
      /\ x.doomed = {} /\ x.dels = {} /\ x.ins = {} /\ x.dead = {}
  BY <1>1, <1>3 DEF RequestWith, Idle
<1>5. Started(r, kind, e, body) = [x EXCEPT !.e = e]
  BY DEF Started, Idle
<1> HIDE DEF x
<1>6. /\ [x EXCEPT !.e = e] \in RequestWith(B)
      /\ [x EXCEPT !.e = e].pc = "idle" /\ [x EXCEPT !.e = e].kind = kind
      /\ [x EXCEPT !.e = e].e = e /\ [x EXCEPT !.e = e].body = body
      /\ [x EXCEPT !.e = e].doomed = {} /\ [x EXCEPT !.e = e].dels = {}
      /\ [x EXCEPT !.e = e].ins = {} /\ [x EXCEPT !.e = e].dead = {}
  BY <1>4 DEF RequestWith
<1> QED BY <1>2, <1>5, <1>6

\* Another request hears that a category has ceased to be live.
LEMMA TurnedFields ==
  ASSUME NEW q \in Request, NEW k \in Categories
  PROVE  LET p == [q EXCEPT !.turned = @ \cup {k}]
         IN  /\ p \in Request /\ p.pc = q.pc /\ p.kind = q.kind /\ p.e = q.e /\ p.body = q.body
             /\ p.field = q.field /\ p.set = q.set /\ p.doomed = q.doomed /\ p.dels = q.dels
             /\ p.ins = q.ins /\ p.dead = q.dead /\ p.turned = q.turned \cup {k}
BY DEF Request

\* A stamp set or cleared: nothing else of the row, and no other row, changes.
LEMMA StampedRows ==
  ASSUME stored \in [Entities -> StoredRow],
         NEW e \in Entities, NEW f \in Fields, NEW set \in BOOLEAN,
         stored' = [stored EXCEPT ![e][f] = set]
  PROVE  /\ stored' \in [Entities -> StoredRow]
         /\ \A x \in Entities : /\ stored'[x].there <=> stored[x].there
                                /\ stored'[x].start = stored[x].start
                                /\ stored'[x].end = stored[x].end
                                /\ stored'[x].logo = stored[x].logo
         /\ \A x \in Entities, g \in Fields :
              stored'[x][g] <=> IF x = e /\ g = f THEN set ELSE stored[x][g]
<1> DEFINE Logos == ({b.logo : b \in Bodies} \ {Keep}) \cup {NULL}
<1>1. StoredRow = [there : BOOLEAN, archived : BOOLEAN, deleted : BOOLEAN, start : Dates,
                   end : Dates, logo : Logos]
  BY DEF StoredRow
<1> HIDE DEF Logos
<1>2. CASE f = "archived"
  BY <1>1, <1>2 DEF Fields
<1>3. CASE f = "deleted"
  BY <1>1, <1>3 DEF Fields
<1> QED BY <1>2, <1>3 DEF Fields

\* A row written: it is there, with its stamps as they were.
LEMMA WrittenRows ==
  ASSUME stored \in [Entities -> StoredRow],
         NEW e \in Rows, NEW body \in Bodies, WriteRow(e, body)
  PROVE  /\ stored' \in [Entities -> StoredRow]
         /\ \A x \in Entities : /\ stored'[x].there <=> stored[x].there \/ x = e
                                /\ stored'[x].archived <=> stored[x].archived
                                /\ stored'[x].deleted <=> stored[x].deleted
                                /\ x # e => stored'[x] = stored[x]
         /\ stored'[e].start = Given(body.start, stored[e].start)
         /\ stored'[e].end = Given(body.end, stored[e].end)
         /\ stored'[e].logo = Given(body.logo, stored[e].logo)
<1>1. e \in Entities /\ stored[e] \in StoredRow
  BY DEF Entities
<1>2. stored' = [stored EXCEPT ![e] = Patched(stored[e], body)]
  BY DEF WriteRow
<1>3. /\ Patched(stored[e], body) \in StoredRow
      /\ Patched(stored[e], body).there
      /\ Patched(stored[e], body).archived = stored[e].archived
      /\ Patched(stored[e], body).deleted = stored[e].deleted
      /\ Patched(stored[e], body).start = Given(body.start, stored[e].start)
      /\ Patched(stored[e], body).end = Given(body.end, stored[e].end)
      /\ Patched(stored[e], body).logo = Given(body.logo, stored[e].logo)
  BY <1>1, PatchedFields
<1> QED BY <1>1, <1>2, <1>3

\* An image a writer accepted is of the row's own kind, and of a row it expects.
LEMMA AcceptedImage ==
  ASSUME NEW body, NEW e, NEW ids, AssertImageKeys(body, e, ids), body.logo \notin {NULL, Keep}
  PROVE  body.logo.entity = EntityOf(e) /\ body.logo.id \in ids
BY DEF AssertImageKeys, Acceptable, BoundTo

LEMMA SignedKeys == SignedKeysFit
<1> SUFFICES ASSUME NEW entity \in UploadEntities, NEW other \in UploadEntities,
                    NEW id \in 1 .. 2, NEW row \in 1 .. 2, NEW purpose \in Purposes,
                    NEW type \in AllowedContentTypes, NEW size \in 0 .. 3,
                    NEW rows \in SUBSET (1 .. 2),
                    Presign(entity, id, purpose, type, size, 2, rows).status = 200
             PROVE  LET key == Presign(entity, id, purpose, type, size, 2, rows).key
                    IN  /\ id \in rows
                        /\ Acceptable(key, other, {row}) <=> other = entity /\ row = id
  BY DEF SignedKeysFit
<1>1. id \in rows
  BY DEF Presign
<1>2. Presign(entity, id, purpose, type, size, 2, rows).key
        = BuildKey(entity, id, purpose, ContentTypeToExt(type))
  BY DEF Presign
<1>3. ContentTypeToExt(type) \in AllowedExts
  BY DEF ContentTypeToExt, AllowedContentTypes, AllowedExts
<1>4. id # NoUuid
  BY NoUuidAssumption
<1> QED BY <1>1, <1>2, <1>3, <1>4 DEF Acceptable, IsValidObjectKey, BoundTo, BuildKey

-----------------------------------------------------------------------------
(* The rows, and what the requests know of them                            *)

\* What p has to satisfy when r's step takes it from q to p.
Moves(q, p, rows) ==
  /\ p \in Request /\ Placed(p) /\ Grounded(p, rows) /\ p.dead = {}
  /\ p.kind = "create" => (q.kind = "create" /\ q.e = p.e) \/ \A s \in Requests : req[s].e # p.e

LEMMA OneCreateStays ==
  ASSUME req \in [Requests -> Request], NEW r \in Requests, NEW p, Becomes(r, p), OneCreate,
         p.kind = "create" =>
           (req[r].kind = "create" /\ req[r].e = p.e) \/ \A s \in Requests : req[s].e # p.e
  PROVE  OneCreate'
BY DEF OneCreate, Becomes

\* A step outside the tables of rows.
LEMMA RowsMove ==
  ASSUME req \in [Requests -> Request], RowsInv,
         NEW r \in Requests, NEW p, Becomes(r, p), Moves(req[r], p, stored),
         UNCHANGED <<stored, loose, adopted>>
  PROVE  req' \in [Requests -> Request] /\ RowsInv'
<1>1. req' \in [Requests -> Request]
  BY DEF Becomes, Moves
<1>2. \A s \in Requests : Placed(req'[s]) /\ Grounded(req'[s], stored')
  BY DEF Becomes, Moves, RowsInv
<1>3. OneCreate'
  BY OneCreateStays DEF RowsInv, Moves
<1>4. LinksLiveUnlessRaced'
  BY DEF Becomes, Moves, RowsInv, LinksLiveUnlessRaced
<1>5. BlankUntilThere' /\ WindowOrdered' /\ LogosBound'
  BY SignedKeys DEF RowsInv, BlankUntilThere, WindowOrdered, LogosBound
<1> QED BY <1>1, <1>2, <1>3, <1>4, <1>5 DEF RowsInv

\* Others' knowledge of the rows survives the row that r writes.
LEMMA GroundedWritten ==
  ASSUME stored \in [Entities -> StoredRow], NEW q \in Request, Placed(q), Grounded(q, stored),
         NEW e \in Rows, NEW body \in Bodies, WriteRow(e, body),
         q.kind = "create" /\ q.pc \in {"cats"} \cup Creating => q.e # e
  PROVE  Grounded(q, stored')
<1>1. \A x \in Entities : /\ stored[x].there => stored'[x].there
                          /\ stored'[x].archived <=> stored[x].archived
                          /\ stored'[x].deleted <=> stored[x].deleted
                          /\ x # e => stored'[x] = stored[x]
  BY WrittenRows
<1>2. \A k \in Categories : k \in Entities /\ (LiveIn(stored, k) => LiveIn(stored', k))
  BY <1>1 DEF LiveIn, Entities
<1>3. q.pc \in InTx \cup {"childUpdate"} => stored'[q.e].there
  BY <1>1 DEF Grounded, Placed, InTx, Entities, Rows
<1>4. q.kind = "create" /\ q.pc \in {"cats"} \cup Creating => ~stored'[q.e].there
  BY <1>1 DEF Grounded, Placed, Creating, Entities, Rows
<1>5. ASSUME q.pc \in {"create", "tx", "delete", "deleting", "insert"}, q.body.cats # Keep
      PROVE  \A k \in ToSet(q.body.cats) : LiveIn(stored', k) \/ k \in q.turned
  <2>1. q.body \in Body
    BY <1>5, CatalogueAssumption DEF Placed, Creating, Updating, InTx
  <2>2. ToSet(q.body.cats) \subseteq Categories
    BY <1>5, <2>1, ToSetType DEF Body
  <2> QED BY <1>2, <1>5, <2>2 DEF Grounded
<1>6. q.pc = "commit" => \A k \in q.ins : LiveIn(stored', k) \/ k \in q.turned
  BY <1>2 DEF Grounded, Request
<1> QED BY <1>3, <1>4, <1>5, <1>6 DEF Grounded

\* A row with a body that passed the checks keeps the rows' invariants.
LEMMA TableWritten ==
  ASSUME stored \in [Entities -> StoredRow], loose \subseteq Rows, adopted \subseteq Rows,
         BlankUntilThere, WindowOrdered, LogosBound,
         NEW e \in Rows, NEW body \in Bodies, WriteRow(e, body), AssertPublishRange(body),
         AssertImageKeys(body, e, IF stored[e].there THEN {e} ELSE Rows)
  PROVE  /\ stored' \in [Entities -> StoredRow] /\ loose' \subseteq Rows /\ adopted' \subseteq Rows
         /\ BlankUntilThere' /\ WindowOrdered' /\ LogosBound'
<1>1. /\ stored' \in [Entities -> StoredRow]
      /\ \A x \in Entities : /\ stored'[x].there <=> stored[x].there \/ x = e
                             /\ x # e => stored'[x] = stored[x]
      /\ stored'[e].start = Given(body.start, stored[e].start)
      /\ stored'[e].end = Given(body.end, stored[e].end)
      /\ stored'[e].logo = Given(body.logo, stored[e].logo)
  BY WrittenRows
<1>2. \A x \in Rows : x \in Entities
  BY DEF Entities
<1>3. loose' = LooseAfter(e, body) /\ adopted' = AdoptedAfter(e, body)
  BY DEF WriteRow
<1>4. loose' \subseteq Rows /\ adopted' \subseteq Rows
  BY <1>3 DEF LooseAfter, AdoptedAfter
<1>5. \A x \in Rows \ {e} : (x \in loose' <=> x \in loose) /\ (x \in adopted' <=> x \in adopted)
  BY <1>3 DEF LooseAfter, AdoptedAfter
<1>6. BlankUntilThere'
  BY <1>1, <1>2 DEF BlankUntilThere
<1>7. WindowOrdered'
  <2> SUFFICES ASSUME NEW x \in Rows, stored'[x].start \in Nat, stored'[x].end \in Nat,
                      stored'[x].start >= stored'[x].end
               PROVE  x \in loose'
    BY DEF WindowOrdered
  <2>1. CASE x # e
    BY <1>1, <1>2, <1>5, <2>1 DEF WindowOrdered
  <2>2. CASE x = e /\ Keep \notin {body.start, body.end}
    <3>1. body.start \in Nat /\ body.end \in Nat /\ body.start >= body.end
      BY <1>1, <2>2 DEF Given
    <3> QED BY <2>2, <3>1, CatalogueAssumption DEF AssertPublishRange
  <2>3. CASE x = e /\ Keep \in {body.start, body.end} /\ ~stored[e].there
    <3>1. stored[e].start = NULL /\ stored[e].end = NULL
      BY <2>3 DEF BlankUntilThere
    <3>2. stored'[e].start = NULL \/ stored'[e].end = NULL
      BY <1>1, <2>3, <3>1 DEF Given
    <3> QED BY <2>3, <3>2, CatalogueAssumption
  <2>4. CASE x = e /\ Keep \in {body.start, body.end} /\ stored[e].there
    BY <1>1, <1>3, <2>4 DEF Given, LooseAfter, WindowOrdered
  <2> QED BY <2>1, <2>2, <2>3, <2>4
<1>8. LogosBound'
  <2> SUFFICES ASSUME NEW x \in Rows, stored'[x].logo # NULL
               PROVE  /\ stored'[x].logo.entity = EntityOf(x)
                      /\ stored'[x].logo.id = x \/ x \in adopted'
    BY SignedKeys DEF LogosBound
  <2>1. CASE x # e
    BY <1>1, <1>2, <1>5, <2>1 DEF LogosBound
  <2>2. CASE x = e /\ body.logo = Keep
    BY <1>1, <1>3, <2>2 DEF Given, AdoptedAfter, LogosBound
  <2>3. CASE x = e /\ body.logo # Keep
    <3>1. stored'[e].logo = body.logo /\ body.logo \notin {NULL, Keep}
      BY <1>1, <2>3 DEF Given
    <3>2. /\ body.logo.entity = EntityOf(e)
          /\ body.logo.id \in (IF stored[e].there THEN {e} ELSE Rows)
      BY <3>1, AcceptedImage
    <3> QED BY <1>3, <2>3, <3>1, <3>2 DEF AdoptedAfter
  <2> QED BY <2>1, <2>2, <2>3
<1> QED BY <1>1, <1>4, <1>6, <1>7, <1>8

\* A request writes its row and goes on to the audit.
LEMMA RowsWritten ==
  ASSUME TypeOK, RowsInv, NEW r \in Requests, NEW p, Becomes(r, p),
         WriteRow(req[r].e, req[r].body), Placed(req[r]),
         req[r].pc \in {"create", "childInsert", "commit", "childUpdate"},
         p \in Request, p.pc = "audit", p.dead = {}, p.kind = req[r].kind, p.e = req[r].e,
         p.dels = {}, p.ins = {}
  PROVE  /\ req' \in [Requests -> Request] /\ stored' \in [Entities -> StoredRow]
         /\ loose' \subseteq Rows /\ adopted' \subseteq Rows
         /\ RowsInv'
<1> DEFINE q == req[r]
           e == q.e
           body == q.body
<1>1. q \in Request /\ Grounded(q, stored)
  BY DEF TypeOK, RowsInv
<1>2. /\ e \in Rows /\ body \in Bodies /\ AssertPublishRange(body)
      /\ AssertImageKeys(body, e, IF q.kind = "create" THEN Rows ELSE {e})
      /\ q.kind \in {"create", "update"}
      /\ (q.kind = "create" <=> q.pc \in {"create", "childInsert"})
  BY DEF Placed, Creating, Updating, InTx, Rows
<1>3. stored[e].there <=> q.kind # "create"
  BY <1>1, <1>2 DEF Grounded, Creating, InTx
<1>4. AssertImageKeys(body, e, IF stored[e].there THEN {e} ELSE Rows)
  BY <1>2, <1>3
<1>5. /\ stored \in [Entities -> StoredRow] /\ req \in [Requests -> Request]
      /\ loose \subseteq Rows /\ adopted \subseteq Rows
      /\ BlankUntilThere /\ WindowOrdered /\ LogosBound
  BY DEF TypeOK, RowsInv
<1>6. /\ stored' \in [Entities -> StoredRow] /\ loose' \subseteq Rows /\ adopted' \subseteq Rows
      /\ BlankUntilThere' /\ WindowOrdered' /\ LogosBound'
  BY <1>2, <1>4, <1>5, TableWritten
<1>7. req' \in [Requests -> Request]
  BY DEF Becomes, TypeOK
<1>8. Placed(p) /\ Grounded(p, stored')
  BY <1>2 DEF Placed, Grounded, Creating, Updating, InTx, Entities
<1>9. \A s \in Requests \ {r} : Placed(req[s]) /\ Grounded(req[s], stored')
  <2> SUFFICES ASSUME NEW s \in Requests \ {r}
               PROVE  Placed(req[s]) /\ Grounded(req[s], stored')
    OBVIOUS
  <2>1. Placed(req[s]) /\ Grounded(req[s], stored) /\ req[s] \in Request
    BY DEF TypeOK, RowsInv
  <2>2. req[s].kind = "create" /\ req[s].pc \in {"cats"} \cup Creating => req[s].e # e
    BY <1>3, <2>1 DEF Grounded, RowsInv, OneCreate
  <2> QED BY <1>2, <1>5, <2>1, <2>2, GroundedWritten
<1>10. OneCreate'
  BY <1>5, OneCreateStays DEF RowsInv
<1>11. LinksLiveUnlessRaced'
  BY <1>5 DEF Becomes, RowsInv, LinksLiveUnlessRaced
<1> QED BY <1>5, <1>6, <1>7, <1>8, <1>9, <1>10, <1>11 DEF Becomes, RowsInv

\* The stamp f of e is set or cleared.
Stamped(e, f, set) == stored' = [stored EXCEPT ![e][f] = set]

\* What the other requests learn when r writes a stamp.
Hears(q, p, e, set) ==
  IF e \in Categories /\ set /\ q.pc \notin {"idle", "done"}
  THEN p = [q EXCEPT !.turned = @ \cup {e}] ELSE p = q

LEMMA HeardFields ==
  ASSUME NEW q \in Request, NEW p, NEW e, NEW set \in BOOLEAN, Hears(q, p, e, set)
  PROVE  /\ p \in Request /\ p.pc = q.pc /\ p.kind = q.kind /\ p.e = q.e /\ p.body = q.body
         /\ p.field = q.field /\ p.set = q.set /\ p.doomed = q.doomed /\ p.dels = q.dels
         /\ p.ins = q.ins /\ p.dead = q.dead
<1>1. CASE e \in Categories /\ set /\ q.pc \notin {"idle", "done"}
  <2>1. p = [q EXCEPT !.turned = @ \cup {e}]
    BY <1>1 DEF Hears
  <2> QED BY <1>1, <2>1, TurnedFields
<1>2. CASE ~(e \in Categories /\ set /\ q.pc \notin {"idle", "done"})
  BY <1>2 DEF Hears
<1> QED BY <1>1, <1>2

\* A category that ceases to be live is known to every request that had seen it.
LEMMA GroundedStamped ==
  ASSUME stored \in [Entities -> StoredRow], NEW q \in Request, Placed(q), Grounded(q, stored),
         NEW e \in Entities, NEW f \in Fields, NEW set \in BOOLEAN,
         Stamped(e, f, set), NEW p, Hears(q, p, e, set)
  PROVE  /\ p \in Request /\ Placed(p) /\ Grounded(p, stored')
         /\ p.pc = q.pc /\ p.kind = q.kind /\ p.e = q.e /\ p.body = q.body /\ p.field = q.field
         /\ p.set = q.set /\ p.doomed = q.doomed /\ p.dels = q.dels /\ p.ins = q.ins
         /\ p.dead = q.dead
<1> DEFINE heard == e \in Categories /\ set /\ q.pc \notin {"idle", "done"}
           Same(x) == /\ x \in Request /\ x.pc = q.pc /\ x.kind = q.kind /\ x.e = q.e
                      /\ x.body = q.body /\ x.field = q.field /\ x.set = q.set
                      /\ x.doomed = q.doomed /\ x.dels = q.dels /\ x.ins = q.ins
                      /\ x.dead = q.dead
<1>1. Same(p) /\ p.turned = IF heard THEN q.turned \cup {e} ELSE q.turned
  <2>1. CASE ~heard
    BY <2>1 DEF Hears
  <2>2. CASE heard
    <3>1. p = [q EXCEPT !.turned = @ \cup {e}]
      BY <2>2 DEF Hears
    <3> QED BY <2>2, <3>1, TurnedFields
  <2> QED BY <2>1, <2>2
<1>2. p.turned = IF e \in Categories /\ set /\ q.pc \notin {"idle", "done"}
                 THEN q.turned \cup {e} ELSE q.turned
  BY <1>1
<1>3. Placed(p)
  <2>1. p.pc = "idle" => p = Idle
    BY <1>1 DEF Hears, Placed
  <2> QED BY <1>1, <2>1 DEF Placed
<1>4. \A x \in Entities : stored'[x].there <=> stored[x].there
  BY StampedRows DEF Stamped
<1>5. \A x \in Entities, g \in Fields :
        stored'[x][g] <=> IF x = e /\ g = f THEN set ELSE stored[x][g]
  BY StampedRows DEF Stamped
<1>6. \A x \in Entities : /\ x # e => /\ stored'[x].archived <=> stored[x].archived
                                      /\ stored'[x].deleted <=> stored[x].deleted
                          /\ ~set => /\ stored'[x].archived => stored[x].archived
                                     /\ stored'[x].deleted => stored[x].deleted
  BY <1>5 DEF Fields
<1>7. \A k \in Categories :
        k \in Entities /\ (LiveIn(stored, k) => LiveIn(stored', k) \/ (k = e /\ set))
  BY <1>4, <1>6 DEF LiveIn, Entities
<1>8. p.pc \in InTx \cup {"childUpdate"} => stored'[p.e].there
  BY <1>1, <1>4 DEF Grounded, Placed, InTx, Entities, Rows
<1>9. p.kind = "create" /\ p.pc \in {"cats"} \cup Creating => ~stored'[p.e].there
  BY <1>1, <1>4 DEF Grounded, Placed, Creating, Entities, Rows
<1>10. ASSUME p.pc \in {"create", "tx", "delete", "deleting", "insert"}, p.body.cats # Keep
      PROVE  \A k \in ToSet(p.body.cats) : LiveIn(stored', k) \/ k \in p.turned
  <2>1. p.body \in Body
    BY <1>3, <1>10, CatalogueAssumption DEF Placed, Creating, Updating, InTx
  <2>2. ToSet(p.body.cats) \subseteq Categories
    BY <1>10, <2>1, ToSetType DEF Body
  <2>3. \A k \in ToSet(p.body.cats) : LiveIn(stored, k) \/ k \in q.turned
    BY <1>1, <1>10 DEF Grounded
  <2> QED BY <1>1, <1>2, <1>7, <1>10, <2>2, <2>3
<1>11. p.pc = "commit" => \A k \in p.ins : LiveIn(stored', k) \/ k \in p.turned
  <2>1. p.ins \subseteq Categories
    BY <1>1 DEF Request
  <2> QED BY <1>1, <1>2, <1>7, <2>1 DEF Grounded
<1>12. Grounded(p, stored')
  BY <1>8, <1>9, <1>10, <1>11 DEF Grounded
<1> QED BY <1>1, <1>3, <1>12

\* r writes a stamp and goes on to the audit.
LEMMA RowsStamped ==
  ASSUME TypeOK, RowsInv, NEW r \in Requests, req[r].e \in Entities, req[r].field \in Fields,
         req[r].set \in BOOLEAN, req[r].kind = "stamp",
         Stamped(req[r].e, req[r].field, req[r].set),
         req' = [s \in Requests |-> req'[s]],
         \A s \in Requests \ {r} : Hears(req[s], req'[s], req[r].e, req[r].set),
         req'[r] \in Request, req'[r].pc = "audit", req'[r].kind = "stamp",
         req'[r].e = req[r].e, req'[r].dead = req[r].dead, req'[r].dels = {}, req'[r].ins = {},
         UNCHANGED <<loose, adopted>>
  PROVE  /\ req' \in [Requests -> Request] /\ stored' \in [Entities -> StoredRow] /\ RowsInv'
<1> DEFINE e == req[r].e
           f == req[r].field
           set == req[r].set
<1>1. stored \in [Entities -> StoredRow] /\ \A s \in Requests : req[s] \in Request
  BY DEF TypeOK
<1>2. \A s \in Requests : Placed(req[s]) /\ Grounded(req[s], stored) /\ req[s].dead = {}
  BY DEF RowsInv, LinksLiveUnlessRaced
<1>3. \A s \in Requests \ {r} :
        /\ req'[s] \in Request /\ Placed(req'[s]) /\ Grounded(req'[s], stored')
        /\ req'[s].kind = req[s].kind /\ req'[s].e = req[s].e /\ req'[s].dead = req[s].dead
  <2> SUFFICES ASSUME NEW s \in Requests \ {r}
               PROVE  /\ req'[s] \in Request /\ Placed(req'[s]) /\ Grounded(req'[s], stored')
                      /\ req'[s].kind = req[s].kind /\ req'[s].e = req[s].e
                      /\ req'[s].dead = req[s].dead
    OBVIOUS
  <2>1. req[s] \in Request /\ Placed(req[s]) /\ Grounded(req[s], stored)
    BY <1>1, <1>2
  <2>2. Hears(req[s], req'[s], e, set)
    OBVIOUS
  <2>3. e \in Entities /\ f \in Fields /\ set \in BOOLEAN /\ Stamped(e, f, set)
    OBVIOUS
  <2> DEFINE p == req'[s]
             q == req[s]
  <2> HIDE DEF e, f, set, p, q
  <2>4. q \in Request /\ Placed(q) /\ Grounded(q, stored) /\ Hears(q, p, e, set)
    BY <2>1, <2>2 DEF p, q
  <2>5. /\ p \in Request /\ Placed(p) /\ Grounded(p, stored')
        /\ p.kind = q.kind /\ p.e = q.e /\ p.dead = q.dead
    BY <1>1, <2>3, <2>4, GroundedStamped
  <2> QED BY <2>5 DEF p, q
<1>4. Placed(req'[r]) /\ Grounded(req'[r], stored')
  BY DEF Placed, Grounded, Creating, Updating, InTx
<1>5. req' \in [Requests -> Request]
  BY <1>3
<1>6. OneCreate'
  BY <1>3 DEF RowsInv, OneCreate
<1>7. LinksLiveUnlessRaced'
  BY <1>2, <1>3 DEF LinksLiveUnlessRaced
<1>8. /\ stored' \in [Entities -> StoredRow]
      /\ \A x \in Entities : /\ stored'[x].there <=> stored[x].there
                             /\ stored'[x].start = stored[x].start
                             /\ stored'[x].end = stored[x].end
                             /\ stored'[x].logo = stored[x].logo
  BY <1>1, StampedRows DEF Stamped
<1>9. BlankUntilThere' /\ WindowOrdered' /\ LogosBound'
  BY <1>8, SignedKeys DEF RowsInv, BlankUntilThere, WindowOrdered, LogosBound, Entities
<1> QED BY <1>3, <1>4, <1>5, <1>6, <1>7, <1>8, <1>9 DEF RowsInv

-----------------------------------------------------------------------------
(* The row lock and the links                                              *)

\* Who is in a transaction was in it before, with the same row and body.
InTxStill ==
  \A s \in Requests : req'[s].pc \in InTx =>
    req[s].pc \in InTx /\ req'[s].e = req[s].e /\ req'[s].body = req[s].body

\* A lock is let go when its holder leaves the transaction, and only then.
LEMMA LockStays ==
  ASSUME LockInv, lock \in [Charities -> Requests \cup {NULL}], InTxStill,
         \A s \in Requests : req[s].pc \in InTx => req[s].e \in Charities,
         \A c \in Charities :
           lock'[c] = IF lock[c] # NULL /\ req'[lock[c]].pc \notin InTx THEN NULL ELSE lock[c]
  PROVE  LockInv'
<1>1. ASSUME NEW c \in Charities, lock'[c] # NULL
      PROVE  req'[lock'[c]].e = c /\ req'[lock'[c]].pc \in InTx
  <2>1. lock'[c] = lock[c] /\ lock[c] \in Requests /\ req'[lock[c]].pc \in InTx
    BY <1>1
  <2> QED BY <1>1, <2>1 DEF LockInv, InTxStill
<1>2. ASSUME NEW s \in Requests, req'[s].pc \in InTx, NamesColumns(req'[s].body)
      PROVE  lock'[req'[s].e] = s
  <2>1. /\ req[s].pc \in InTx /\ req'[s].e = req[s].e /\ NamesColumns(req[s].body)
        /\ req[s].e \in Charities
    BY <1>2 DEF InTxStill
  <2>2. lock[req[s].e] = s
    BY <2>1 DEF LockInv
  <2> QED BY <1>2, <2>1, <2>2
<1> QED BY <1>1, <1>2 DEF LockInv

\* A step that takes no lock and lets none go, outside every transaction.
LEMMA LockOutside ==
  ASSUME LockInv, lock \in [Charities -> Requests \cup {NULL}], InTxStill, UNCHANGED lock,
         \A s \in Requests : req[s].pc \in InTx => req[s].e \in Charities /\ req'[s].pc \in InTx
  PROVE  LockInv'
<1>1. \A c \in Charities : lock[c] # NULL => lock[c] \in Requests /\ req[lock[c]].pc \in InTx
  BY DEF LockInv
<1> QED BY <1>1, LockStays

\* The transaction of r ends: the row lock, if it was r's, is let go.
LEMMA LockReleased ==
  ASSUME LockInv, lock \in [Charities -> Requests \cup {NULL}], NEW r \in Requests, NEW p,
         req \in [Requests -> Request], Becomes(r, p), p.pc \notin InTx,
         \A s \in Requests : Placed(req[s]),
         lock' = [c \in Charities |-> IF lock[c] = r THEN NULL ELSE lock[c]]
  PROVE  LockInv'
<1>1. \A s \in Requests : req'[s] = IF s = r THEN p ELSE req[s]
  BY DEF Becomes
<1>2. InTxStill
  BY <1>1 DEF InTxStill
<1>3. \A s \in Requests : req[s].pc \in InTx => req[s].e \in Charities
  BY DEF Placed
<1>4. \A c \in Charities : lock[c] # NULL => lock[c] \in Requests /\ req[lock[c]].pc \in InTx
  BY DEF LockInv
<1>5. \A c \in Charities :
        lock'[c] = IF lock[c] # NULL /\ req'[lock[c]].pc \notin InTx THEN NULL ELSE lock[c]
  BY <1>1, <1>4, CatalogueAssumption
<1> QED BY <1>2, <1>3, <1>5, LockStays

\* The same, as the transactions' steps write it.
LEMMA ReleasedHere ==
  ASSUME LockInv, lock \in [Charities -> Requests \cup {NULL}], NEW r \in Requests,
         lock' = IF lock[req[r].e] = r THEN [lock EXCEPT ![req[r].e] = NULL] ELSE lock
  PROVE  /\ lock' \in [Charities -> Requests \cup {NULL}]
         /\ lock' = [c \in Charities |-> IF lock[c] = r THEN NULL ELSE lock[c]]
<1>1. \A c \in Charities : lock[c] = r => req[r].e = c
  BY CatalogueAssumption DEF LockInv
<1> QED BY <1>1

\* Where q is in its transaction, and what it has found and done there.
SameTx(p, q) ==
  /\ p.pc = q.pc /\ p.e = q.e /\ p.body = q.body
  /\ p.doomed = q.doomed /\ p.dels = q.dels /\ p.ins = q.ins

\* A step that replaces no links, though it may end a transaction.
LEMMA LinksStay ==
  ASSUME LinksInv, UNCHANGED <<links, mixed, replaced>>,
         \A s \in Requests : req'[s].pc \in InTx => SameTx(req'[s], req[s])
  PROVE  LinksInv'
<1>1. LinksOneReplace'
  BY DEF LinksInv, LinksOneReplace
<1>2. \A c \in Charities, s \in Requests : Replaces(s, c)' => Replaces(s, c)
  BY DEF Replaces, SameTx
<1>3. ASSUME NEW c \in Charities \ mixed', NEW s \in Requests, Replaces(s, c)'
      PROVE  ReplaceAlone(s, c)'
  <2>1. Replaces(s, c) /\ ReplaceAlone(s, c)
    BY <1>2, <1>3 DEF LinksInv
  <2>2. \A t \in Requests : Replaces(t, c)' => t = s
    BY <1>2, <2>1 DEF ReplaceAlone
  <2>3. SameTx(req'[s], req[s])
    BY <1>3 DEF Replaces
  <2> QED BY <2>1, <2>2, <2>3 DEF ReplaceAlone, SameTx
<1> QED BY <1>1, <1>3 DEF LinksInv

\* A step inside r's transaction: the others see the same, so only r counts.
LEMMA LinksInside ==
  ASSUME LinksInv, UNCHANGED <<links, mixed, replaced>>, NEW r \in Requests, NEW p,
         req \in [Requests -> Request], Becomes(r, p), req[r].pc \in InTx, p.pc \in InTx,
         p.e = req[r].e, p.body = req[r].body,
         \A c \in Charities \ mixed : Replaces(r, c) /\ ReplaceAlone(r, c) =>
           /\ p.pc = "deleting" => p.doomed = links[c]
           /\ p.pc \in {"insert", "commit"} => p.dels = links[c]
           /\ p.pc = "commit" => p.ins = ToSet(p.body.cats)
  PROVE  LinksInv'
<1>1. \A s \in Requests : req'[s] = IF s = r THEN p ELSE req[s]
  BY DEF Becomes
<1>2. LinksOneReplace'
  BY DEF LinksInv, LinksOneReplace
<1>3. \A c \in Charities, s \in Requests : Replaces(s, c)' <=> Replaces(s, c)
  BY <1>1 DEF Replaces
<1>4. ASSUME NEW c \in Charities \ mixed', NEW s \in Requests, Replaces(s, c)'
      PROVE  ReplaceAlone(s, c)'
  <2>1. Replaces(s, c) /\ ReplaceAlone(s, c)
    BY <1>3, <1>4 DEF LinksInv
  <2>2. \A t \in Requests : Replaces(t, c)' => t = s
    BY <1>3, <2>1 DEF ReplaceAlone
  <2>3. CASE s = r
    BY <1>1, <2>1, <2>2, <2>3 DEF ReplaceAlone
  <2>4. CASE s # r
    BY <1>1, <2>1, <2>2, <2>4 DEF ReplaceAlone
  <2> QED BY <2>3, <2>4
<1> QED BY <1>2, <1>4 DEF LinksInv

-----------------------------------------------------------------------------
(* The audit trail                                                         *)

\* q has changed the stamp f of e to set, and has yet to say so.
Owes(q, e, f, set) ==
  q.pc = "audit" /\ q.kind = "stamp" /\ q.e = e /\ q.field = f /\ q.set = set

OwesNone(q) == \A x \in Entities, g \in Fields, b \in BOOLEAN : ~Owes(q, x, g, b)

OwesOne(q, e, f, set) ==
  \A x \in Entities, g \in Fields, b \in BOOLEAN :
    Owes(q, x, g, b) <=> x = e /\ g = f /\ b = set

\* Nobody's debts but r's change.
OnlyOwes(r) ==
  \A s \in Requests \ {r}, x \in Entities, g \in Fields, b \in BOOLEAN :
    Owes(req'[s], x, g, b) <=> Owes(req[s], x, g, b)

\* No stamp but f of e changes, which becomes set.
Restamps(e, f, set) ==
  /\ ~(stored[e][f] <=> set)
  /\ \A x \in Entities, g \in Fields :
       stored'[x][g] <=> IF x = e /\ g = f THEN set ELSE stored[x][g]

LEMMA InAuditIs ==
  /\ \A e, f, set : InAudit(e, f, set) = {s \in Requests : Owes(req[s], e, f, set)}
  /\ \A e, f, set : InAudit(e, f, set)' = {s \in Requests : Owes(req'[s], e, f, set)}
BY DEF InAudit, Owes

LEMMA InAuditFinite ==
  ASSUME NEW e, NEW f, NEW set
  PROVE  IsFiniteSet(InAudit(e, f, set)) /\ Cardinality(InAudit(e, f, set)) \in Nat
<1>1. InAudit(e, f, set) \subseteq Requests
  BY DEF InAudit
<1>2. IsFiniteSet(InAudit(e, f, set))
  BY <1>1, FS_Subset, CatalogueAssumption
<1> QED BY <1>2, FS_CardinalityType

LEMMA OneMore ==
  ASSUME NEW S, NEW T, NEW x, IsFiniteSet(S), x \notin S, T = S \cup {x}
  PROVE  Cardinality(T) = Cardinality(S) + 1
BY FS_AddElement

LEMMA OneLess ==
  ASSUME NEW S, NEW T, NEW x, IsFiniteSet(S), x \in S, T = S \ {x}
  PROVE  Cardinality(T) = Cardinality(S) - 1
<1>1. Cardinality(S \ {x}) = Cardinality(S) - 1
  BY FS_RemoveElement
<1> QED BY <1>1

\* Neither a stamp nor a debt of one changes.
LEMMA AuditStays ==
  ASSUME StampsAudited, UNCHANGED <<audited, torn>>,
         \A x \in Entities, g \in Fields : stored'[x][g] <=> stored[x][g],
         \A s \in Requests, x \in Entities, g \in Fields, b \in BOOLEAN :
           Owes(req'[s], x, g, b) <=> Owes(req[s], x, g, b)
  PROVE  StampsAudited'
<1> SUFFICES ASSUME NEW x \in Entities \ torn', NEW g \in Fields
             PROVE  audited'[x][g] + Cardinality(InAudit(x, g, TRUE)')
                      - Cardinality(InAudit(x, g, FALSE)') = IF stored'[x][g] THEN 1 ELSE 0
  BY DEF StampsAudited
<1>1. InAudit(x, g, TRUE)' = InAudit(x, g, TRUE) /\ InAudit(x, g, FALSE)' = InAudit(x, g, FALSE)
  BY InAuditIs
<1>2. audited[x][g] + Cardinality(InAudit(x, g, TRUE)) - Cardinality(InAudit(x, g, FALSE))
        = IF stored[x][g] THEN 1 ELSE 0
  BY DEF StampsAudited
<1> QED BY <1>1, <1>2

\* A change of the stamp f of e is a debt of r's.
LEMMA AuditOwed ==
  ASSUME StampsAudited, UNCHANGED <<audited, torn>>, audited \in [Entities -> [Fields -> Int]],
         NEW r \in Requests, NEW e \in Entities, NEW f \in Fields, NEW set \in BOOLEAN,
         Restamps(e, f, set), OnlyOwes(r), OwesNone(req[r]), OwesOne(req'[r], e, f, set)
  PROVE  StampsAudited'
<1> USE DEF Restamps, OnlyOwes, OwesNone, OwesOne
<1> SUFFICES ASSUME NEW x \in Entities \ torn', NEW g \in Fields
             PROVE  audited'[x][g] + Cardinality(InAudit(x, g, TRUE)')
                      - Cardinality(InAudit(x, g, FALSE)') = IF stored'[x][g] THEN 1 ELSE 0
  BY DEF StampsAudited
<1> DEFINE a == audited[x][g]
           m == Cardinality(InAudit(x, g, TRUE))
           n == Cardinality(InAudit(x, g, FALSE))
           a2 == audited'[x][g]
           m2 == Cardinality(InAudit(x, g, TRUE)')
           n2 == Cardinality(InAudit(x, g, FALSE)')
<1> HIDE DEF a, m, n, a2, m2, n2
<1>1. a + m - n = IF stored[x][g] THEN 1 ELSE 0
  BY DEF StampsAudited, a, m, n
<1>2. /\ IsFiniteSet(InAudit(x, g, TRUE)) /\ IsFiniteSet(InAudit(x, g, FALSE))
      /\ m \in Nat /\ n \in Nat
  BY InAuditFinite DEF m, n
<1>3. a \in Int
  BY DEF a
<1>4. CASE x = e /\ g = f
  <2>1. CASE set = TRUE
    <3>1. InAudit(x, g, TRUE)' = InAudit(x, g, TRUE) \cup {r} /\ r \notin InAudit(x, g, TRUE)
      BY <1>4, <2>1, InAuditIs
    <3>2. InAudit(x, g, FALSE)' = InAudit(x, g, FALSE)
      BY <1>4, <2>1, InAuditIs
    <3>3. m2 = m + 1
      BY <1>2, <3>1, OneMore DEF m, m2
    <3>4. n2 = n
      BY <3>2 DEF n, n2
    <3>5. a2 = a /\ ~stored[x][g] /\ stored'[x][g]
      BY <1>4, <2>1 DEF a, a2
    <3>6. a + m - n = 0
      BY <1>1, <3>5
    <3>7. a2 + m2 - n2 = 1
      BY <1>2, <1>3, <3>3, <3>4, <3>5, <3>6
    <3> QED BY <3>5, <3>7 DEF a2, m2, n2
  <2>2. CASE set = FALSE
    <3>1. InAudit(x, g, FALSE)' = InAudit(x, g, FALSE) \cup {r} /\ r \notin InAudit(x, g, FALSE)
      BY <1>4, <2>2, InAuditIs
    <3>2. InAudit(x, g, TRUE)' = InAudit(x, g, TRUE)
      BY <1>4, <2>2, InAuditIs
    <3>3. n2 = n + 1
      BY <1>2, <3>1, OneMore DEF n, n2
    <3>4. m2 = m
      BY <3>2 DEF m, m2
    <3>5. a2 = a /\ stored[x][g] /\ ~stored'[x][g]
      BY <1>4, <2>2 DEF a, a2
    <3>6. a + m - n = 1
      BY <1>1, <3>5
    <3>7. a2 + m2 - n2 = 0
      BY <1>2, <1>3, <3>3, <3>4, <3>5, <3>6
    <3> QED BY <3>5, <3>7 DEF a2, m2, n2
  <2> QED BY <2>1, <2>2
<1>5. CASE ~(x = e /\ g = f)
  <2>1. InAudit(x, g, TRUE)' = InAudit(x, g, TRUE) /\ InAudit(x, g, FALSE)' = InAudit(x, g, FALSE)
    BY <1>5, InAuditIs
  <2>2. a2 = a /\ m2 = m /\ n2 = n /\ (stored'[x][g] <=> stored[x][g])
    BY <1>5, <2>1 DEF a, a2, m, m2, n, n2
  <2> QED BY <1>1, <2>2 DEF a2, m2, n2
<1> QED BY <1>4, <1>5

\* r pays its debt: the line is written, or its row is torn.
LEMMA AuditPaid ==
  ASSUME StampsAudited, UNCHANGED stored, audited \in [Entities -> [Fields -> Int]],
         NEW r \in Requests, NEW e \in Entities, NEW f \in Fields, NEW set \in BOOLEAN,
         torn \subseteq torn',
         \A x \in Entities, g \in Fields : x \notin torn' =>
           audited'[x][g] = IF x = e /\ g = f
                            THEN IF set THEN audited[x][g] + 1 ELSE audited[x][g] - 1
                            ELSE audited[x][g],
         OnlyOwes(r), OwesOne(req[r], e, f, set), OwesNone(req'[r])
  PROVE  StampsAudited'
<1> USE DEF OnlyOwes, OwesNone, OwesOne
<1> SUFFICES ASSUME NEW x \in Entities \ torn', NEW g \in Fields
             PROVE  audited'[x][g] + Cardinality(InAudit(x, g, TRUE)')
                      - Cardinality(InAudit(x, g, FALSE)') = IF stored'[x][g] THEN 1 ELSE 0
  BY DEF StampsAudited
<1> DEFINE a == audited[x][g]
           m == Cardinality(InAudit(x, g, TRUE))
           n == Cardinality(InAudit(x, g, FALSE))
           a2 == audited'[x][g]
           m2 == Cardinality(InAudit(x, g, TRUE)')
           n2 == Cardinality(InAudit(x, g, FALSE)')
<1> HIDE DEF a, m, n, a2, m2, n2
<1>1. a + m - n = IF stored[x][g] THEN 1 ELSE 0
  BY DEF StampsAudited, a, m, n
<1>2. /\ IsFiniteSet(InAudit(x, g, TRUE)) /\ IsFiniteSet(InAudit(x, g, FALSE))
      /\ m \in Nat /\ n \in Nat
  BY InAuditFinite DEF m, n
<1>3. a \in Int
  BY DEF a
<1>4. CASE x = e /\ g = f
  <2>1. CASE set = TRUE
    <3>1. InAudit(x, g, TRUE)' = InAudit(x, g, TRUE) \ {r} /\ r \in InAudit(x, g, TRUE)
      BY <1>4, <2>1, InAuditIs
    <3>2. InAudit(x, g, FALSE)' = InAudit(x, g, FALSE)
      BY <1>4, <2>1, InAuditIs
    <3>3. m2 = m - 1
      BY <1>2, <3>1, OneLess DEF m, m2
    <3>4. n2 = n
      BY <3>2 DEF n, n2
    <3>5. a2 = a + 1 /\ (stored'[x][g] <=> stored[x][g])
      BY <1>4, <2>1 DEF a, a2
    <3>6. a2 + m2 - n2 = a + m - n
      BY <1>2, <1>3, <3>3, <3>4, <3>5
    <3> QED BY <1>1, <3>5, <3>6 DEF a2, m2, n2
  <2>2. CASE set = FALSE
    <3>1. InAudit(x, g, FALSE)' = InAudit(x, g, FALSE) \ {r} /\ r \in InAudit(x, g, FALSE)
      BY <1>4, <2>2, InAuditIs
    <3>2. InAudit(x, g, TRUE)' = InAudit(x, g, TRUE)
      BY <1>4, <2>2, InAuditIs
    <3>3. n2 = n - 1
      BY <1>2, <3>1, OneLess DEF n, n2
    <3>4. m2 = m
      BY <3>2 DEF m, m2
    <3>5. a2 = a - 1 /\ (stored'[x][g] <=> stored[x][g])
      BY <1>4, <2>2 DEF a, a2
    <3>6. a2 + m2 - n2 = a + m - n
      BY <1>2, <1>3, <3>3, <3>4, <3>5
    <3> QED BY <1>1, <3>5, <3>6 DEF a2, m2, n2
  <2> QED BY <2>1, <2>2
<1>5. CASE ~(x = e /\ g = f)
  <2>1. InAudit(x, g, TRUE)' = InAudit(x, g, TRUE) /\ InAudit(x, g, FALSE)' = InAudit(x, g, FALSE)
    BY <1>5, InAuditIs
  <2>2. a2 = a /\ m2 = m /\ n2 = n /\ (stored'[x][g] <=> stored[x][g])
    BY <1>5, <2>1 DEF a, a2, m, m2, n, n2
  <2> QED BY <1>1, <2>2 DEF a2, m2, n2
<1> QED BY <1>4, <1>5

-----------------------------------------------------------------------------
(* The steps                                                               *)

\* What the invariant says of one request.
LEMMA Here ==
  ASSUME Inv, NEW r \in Requests
  PROVE  /\ req[r] \in Request /\ Placed(req[r]) /\ Grounded(req[r], stored) /\ req[r].dead = {}
         /\ req \in [Requests -> Request] /\ RowsInv /\ LockInv /\ LinksInv /\ StampsAudited
         /\ TypeOK
BY DEF Inv, TypeOK, RowsInv, LinksLiveUnlessRaced

\* A step of one request that touches no table, outside every transaction.
LEMMA PlainStep ==
  ASSUME Inv, NEW r \in Requests, NEW p, Becomes(r, p), Moves(req[r], p, stored),
         req[r].pc \notin InTx, p.pc \notin InTx,
         ~(p.pc = "audit" /\ p.kind = "stamp"), ~(req[r].pc = "audit" /\ req[r].kind = "stamp"),
         UNCHANGED <<stored, links, lock, audited, torn, loose, adopted, mixed, replaced>>
  PROVE  Inv'
<1>1. /\ req \in [Requests -> Request] /\ RowsInv /\ LockInv /\ LinksInv /\ StampsAudited /\ TypeOK
      /\ \A s \in Requests : Placed(req[s])
  BY Here DEF RowsInv
<1>2. req' \in [Requests -> Request] /\ RowsInv'
  BY <1>1, RowsMove
<1>3. TypeOK'
  BY <1>1, <1>2 DEF TypeOK
<1>4. \A s \in Requests : req'[s] = IF s = r THEN p ELSE req[s]
  BY <1>1 DEF Becomes
<1>5. LockInv'
  <2>1. InTxStill
    BY <1>4 DEF InTxStill
  <2>2. \A s \in Requests : req[s].pc \in InTx => req[s].e \in Charities /\ req'[s].pc \in InTx
    BY <1>1, <1>4 DEF Placed
  <2> QED BY <1>1, <2>1, <2>2, LockOutside DEF TypeOK
<1>6. LinksInv'
  <2>1. \A s \in Requests : req'[s].pc \in InTx => SameTx(req'[s], req[s])
    BY <1>4 DEF SameTx
  <2> QED BY <1>1, <2>1, LinksStay
<1>7. StampsAudited'
  <2>1. \A s \in Requests, x \in Entities, g \in Fields, b \in BOOLEAN :
          Owes(req'[s], x, g, b) <=> Owes(req[s], x, g, b)
    BY <1>4 DEF Owes
  <2> QED BY <1>1, <2>1, AuditStays
<1> QED BY <1>2, <1>3, <1>5, <1>6, <1>7 DEF Inv

\* An answer ends a request wherever it is.
LEMMA AnsweredMoves ==
  ASSUME NEW old, NEW q \in Request, q.dead = {}, NEW rows,
         NEW answer \in {"ok", "range", "key", "category", "notFound", "conflict", "lost"},
         q.kind = "create" =>
           (old.kind = "create" /\ old.e = q.e) \/ \A s \in Requests : req[s].e # q.e
  PROVE  Moves(old, Answered(q, answer), rows) /\ Answered(q, answer).pc = "done"
<1>1. /\ Answered(q, answer) \in Request
      /\ Answered(q, answer).pc = "done" /\ Answered(q, answer).kind = q.kind
      /\ Answered(q, answer).e = q.e /\ Answered(q, answer).dead = q.dead
      /\ Answered(q, answer).dels = {} /\ Answered(q, answer).ins = {}
  BY AnsweredFields
<1> DEFINE p == Answered(q, answer)
<1> HIDE DEF p
<1>2. Placed(p) /\ Grounded(p, rows)
  BY <1>1 DEF p, Placed, Grounded, Creating, Updating, InTx
<1> QED BY <1>1, <1>2 DEF Moves, p

\* A body is refused, or its request goes to its first statement.
LEMMA CheckedMoves ==
  ASSUME NEW old, NEW q \in Request, q.dead = {}, q.dels = {}, q.ins = {},
         q.body \in Bodies, q.kind \in {"create", "update"}, q.e \in Entities,
         NEW next \in {"cats", "create", "tx", "parent", "find"},
         next \in {"cats", "create", "tx"} => q.e \in Charities,
         next \in {"parent", "find"} => q.e \in Children,
         next \in {"create", "parent"} => q.kind = "create",
         next \in {"tx", "find"} => q.kind = "update",
         next = "cats" => q.body.cats # Keep,
         next \in {"create", "tx"} => q.body.cats \in {Keep, <<>>},
         q.kind = "create" => Fresh(q.e),
         NEW ids, ids = IF q.kind = "create" THEN Rows ELSE {q.e}
  PROVE  /\ Moves(old, Checked(q, ids, next), stored)
         /\ Checked(q, ids, next).pc \in {"done", next}
<1>1. q.kind = "create" => ~stored[q.e].there /\ \A s \in Requests : req[s].e # q.e
  BY DEF Fresh
<1>2. CASE ~AssertPublishRange(q.body)
  BY <1>1, <1>2, AnsweredMoves DEF Checked
<1>3. CASE AssertPublishRange(q.body) /\ ~AssertImageKeys(q.body, q.e, ids)
  BY <1>1, <1>3, AnsweredMoves DEF Checked
<1>4. CASE AssertPublishRange(q.body) /\ AssertImageKeys(q.body, q.e, ids)
  <2> DEFINE p == At(q, next)
  <2>1. Checked(q, ids, next) = p
    BY <1>4 DEF Checked
  <2>2. /\ p \in Request /\ p.pc = next /\ p.kind = q.kind /\ p.e = q.e /\ p.body = q.body
        /\ p.dels = q.dels /\ p.ins = q.ins /\ p.dead = q.dead
    BY AtFields
  <2> HIDE DEF p
  <2>3. Placed(p)
    BY <1>4, <2>2 DEF Placed, Creating, Updating, InTx
  <2>4. ToSet(<<>>) = {}
    BY DEF ToSet
  <2>5. Grounded(p, stored)
    BY <1>1, <2>2, <2>4 DEF Grounded, Creating, InTx
  <2> QED BY <1>1, <2>1, <2>2, <2>3, <2>5 DEF Moves
<1> QED BY <1>2, <1>3, <1>4

\* The requests that write a row come in.
LEMMA WriteStarts ==
  ASSUME Inv, NEW r \in Requests, Open(r), NEW kind \in {"create", "update"},
         NEW e \in Entities, NEW body \in Bodies,
         NEW next \in {"cats", "create", "tx", "parent", "find"},
         next \in {"cats", "create", "tx"} => e \in Charities,
         next \in {"parent", "find"} => e \in Children,
         next \in {"create", "parent"} => kind = "create",
         next \in {"tx", "find"} => kind = "update",
         next = "cats" => body.cats # Keep,
         next \in {"create", "tx"} => body.cats \in {Keep, <<>>},
         kind = "create" => Fresh(e),
         NEW ids, ids = IF kind = "create" THEN Rows ELSE {e},
         Becomes(r, Checked(Started(r, kind, e, body), ids, next)),
         UNCHANGED <<stored, links, lock, audited, torn, loose, adopted, mixed, replaced>>
  PROVE  Inv'
<1> DEFINE q == Started(r, kind, e, body)
           p == Checked(q, ids, next)
<1>1. req[r] = Idle
  BY Here DEF Open, Placed
<1>2. /\ q \in Request /\ q.kind = kind /\ q.e = e /\ q.body = body
      /\ q.dels = {} /\ q.ins = {} /\ q.dead = {}
  BY <1>1, StartedFields
<1>3. Becomes(r, p)
  OBVIOUS
<1> HIDE DEF q
<1>4. Moves(req[r], p, stored) /\ p.pc \in {"done", next}
  BY <1>2, CheckedMoves
<1> HIDE DEF p
<1>5. req[r].pc \notin InTx /\ req[r].pc # "audit" /\ p.pc \notin InTx /\ p.pc # "audit"
  BY <1>1, <1>4 DEF Idle, InTx
<1> QED BY <1>3, <1>4, <1>5, PlainStep

LEMMA CreateCharityStep ==
  ASSUME Inv, NEW r \in Requests, NEW c \in Charities, NEW body \in Bodies,
         CreateCharity(r, c, body)
  PROVE  Inv'
<1> DEFINE next == IF body.cats \in {Keep, <<>>} THEN "create" ELSE "cats"
<1>1. Becomes(r, Checked(Started(r, "create", c, body), Rows, next))
  BY DEF CreateCharity
<1>2. c \in Entities
  BY DEF Entities, Rows
<1>3. next \in {"create", "cats"} /\ (next = "create" <=> body.cats \in {Keep, <<>>})
  OBVIOUS
<1> HIDE DEF next
<1> QED BY <1>1, <1>2, <1>3, WriteStarts DEF CreateCharity

LEMMA UpdateCharityStep ==
  ASSUME Inv, NEW r \in Requests, NEW c \in Charities, NEW body \in Bodies,
         UpdateCharity(r, c, body)
  PROVE  Inv'
<1> DEFINE next == IF body.cats \in {Keep, <<>>} THEN "tx" ELSE "cats"
<1>1. Becomes(r, Checked(Started(r, "update", c, body), {c}, next))
  BY DEF UpdateCharity
<1>2. c \in Entities
  BY DEF Entities, Rows
<1>3. next \in {"tx", "cats"} /\ (next = "tx" <=> body.cats \in {Keep, <<>>})
  OBVIOUS
<1> HIDE DEF next
<1> QED BY <1>1, <1>2, <1>3, WriteStarts DEF UpdateCharity

LEMMA ChildCreateStep ==
  ASSUME Inv, NEW r \in Requests, NEW e \in Children, NEW body \in Bodies, Fresh(e),
         ChildStarts(r, "create", e, body, Rows, "parent")
  PROVE  Inv'
<1>1. Becomes(r, Checked(Started(r, "create", e, body), Rows, "parent"))
  BY DEF ChildStarts
<1>2. e \in Entities
  BY DEF Entities, Rows
<1> QED BY <1>1, <1>2, WriteStarts DEF ChildStarts

LEMMA ChildUpdateStep ==
  ASSUME Inv, NEW r \in Requests, NEW e \in Children, NEW body \in Bodies,
         ChildStarts(r, "update", e, body, {e}, "find")
  PROVE  Inv'
<1>1. Becomes(r, Checked(Started(r, "update", e, body), {e}, "find"))
  BY DEF ChildStarts
<1>2. e \in Entities
  BY DEF Entities, Rows
<1> QED BY <1>1, <1>2, WriteStarts DEF ChildStarts

LEMMA CheckCategoriesStep ==
  ASSUME Inv, NEW r \in Requests, CheckCategories(r)
  PROVE  Inv'
<1> DEFINE q == req[r]
           next == IF q.kind = "create" THEN "create" ELSE "tx"
<1>1. q \in Request /\ Placed(q) /\ Grounded(q, stored) /\ q.dead = {} /\ q.pc = "cats"
  BY Here DEF CheckCategories
<1>2. q.pc \notin InTx /\ q.pc # "audit"
  BY <1>1 DEF InTx
<1>3. UNCHANGED <<stored, links, lock, audited, torn, loose, adopted, mixed, replaced>>
  BY DEF CheckCategories
<1>4. CASE ~AssertCategoriesLive(q.body.cats)
  <2> DEFINE p == Answered(q, "category")
  <2>1. Becomes(r, p)
    BY <1>4 DEF CheckCategories
  <2>2. Moves(q, p, stored) /\ p.pc = "done"
    BY <1>1, AnsweredMoves
  <2>3. p.pc \notin InTx /\ p.pc # "audit"
    BY <2>2 DEF InTx
  <2> HIDE DEF p
  <2> QED BY <1>2, <1>3, <2>1, <2>2, <2>3, PlainStep
<1>5. CASE AssertCategoriesLive(q.body.cats)
  <2> DEFINE p == At(q, next)
  <2>1. Becomes(r, p)
    BY <1>5 DEF CheckCategories
  <2>2. /\ p \in Request /\ p.pc = next /\ p.kind = q.kind /\ p.e = q.e /\ p.body = q.body
        /\ p.dels = q.dels /\ p.ins = q.ins /\ p.dead = q.dead
    BY <1>1, AtFields
  <2>3. /\ q.e \in Charities /\ q.body \in Bodies /\ q.kind \in {"create", "update"}
        /\ AssertPublishRange(q.body) /\ q.body.cats # Keep /\ q.dels = {} /\ q.ins = {}
        /\ AssertImageKeys(q.body, q.e, IF q.kind = "create" THEN Rows ELSE {q.e})
    BY <1>1 DEF Placed
  <2>4. \A k \in ToSet(q.body.cats) : LiveIn(stored, k)
    <3>1. q.body.cats \in Seq(Categories)
      BY <2>3, CatalogueAssumption DEF Body
    <3> QED BY <1>5, <3>1, AllLive DEF Live, LiveIn
  <2> HIDE DEF p
  <2>5. Placed(p)
    BY <2>2, <2>3 DEF Placed, Creating, Updating, InTx
  <2>6. Grounded(p, stored)
    BY <1>1, <2>2, <2>4 DEF Grounded, Creating, InTx
  <2>7. Moves(q, p, stored)
    BY <1>1, <2>2, <2>5, <2>6 DEF Moves
  <2>8. p.pc \notin InTx /\ p.pc # "audit"
    BY <2>2 DEF InTx
  <2> QED BY <1>2, <1>3, <2>1, <2>7, <2>8, PlainStep
<1> QED BY <1>4, <1>5

\* A request that is answered outside every transaction, with nothing written.
LEMMA AnswerStep ==
  ASSUME Inv, NEW r \in Requests, req[r].pc \notin InTx,
         ~(req[r].pc = "audit" /\ req[r].kind = "stamp"),
         NEW answer \in {"ok", "range", "key", "category", "notFound", "conflict", "lost"},
         Becomes(r, Answered(req[r], answer)),
         UNCHANGED <<stored, links, lock, audited, torn, loose, adopted, mixed, replaced>>
  PROVE  Inv'
<1> DEFINE p == Answered(req[r], answer)
<1>1. Becomes(r, p)
  OBVIOUS
<1>2. Moves(req[r], p, stored) /\ p.pc = "done"
  BY Here, AnsweredMoves
<1>3. p.pc \notin InTx /\ p.pc # "audit"
  BY <1>2 DEF InTx
<1> HIDE DEF p
<1> QED BY <1>1, <1>2, <1>3, PlainStep

\* A request that goes on outside every transaction, with nothing written.
LEMMA AtStep ==
  ASSUME Inv, NEW r \in Requests, req[r].pc \notin InTx, req[r].pc # "audit",
         NEW pc \in {"childInsert", "childUpdate", "audit"}, req[r].kind # "stamp",
         Becomes(r, At(req[r], pc)), req[r].e \in Entities, req[r].dels = {}, req[r].ins = {},
         pc # "audit" => /\ req[r].e \in Children /\ req[r].body \in Bodies
                         /\ AssertPublishRange(req[r].body)
                         /\ AssertImageKeys(req[r].body, req[r].e,
                                            IF req[r].kind = "create" THEN Rows ELSE {req[r].e}),
         pc = "childInsert" => req[r].kind = "create" /\ ~stored[req[r].e].there,
         pc = "childUpdate" => req[r].kind = "update" /\ stored[req[r].e].there,
         UNCHANGED <<stored, links, lock, audited, torn, loose, adopted, mixed, replaced>>
  PROVE  Inv'
<1> DEFINE q == req[r]
           p == At(q, pc)
<1>1. q \in Request /\ q.dead = {}
  BY Here
<1>2. /\ p \in Request /\ p.pc = pc /\ p.kind = q.kind /\ p.e = q.e /\ p.body = q.body
      /\ p.dels = q.dels /\ p.ins = q.ins /\ p.dead = q.dead
  BY <1>1, AtFields
<1>3. Becomes(r, p)
  OBVIOUS
<1> HIDE DEF p
<1>4. Placed(p)
  BY <1>2 DEF Placed, Creating, Updating, InTx
<1>5. Grounded(p, stored)
  BY <1>2 DEF Grounded, Creating, InTx
<1>6. Moves(q, p, stored)
  BY <1>1, <1>2, <1>4, <1>5 DEF Moves
<1>7. p.pc \notin InTx /\ p.kind # "stamp"
  BY <1>2 DEF InTx
<1> QED BY <1>3, <1>6, <1>7, PlainStep

LEMMA ParentStep ==
  ASSUME Inv, NEW r \in Requests, NEW c \in Charities, AssertParentCharityExists(r, c)
  PROVE  Inv'
<1>1. req[r] \in Request /\ Placed(req[r]) /\ Grounded(req[r], stored) /\ req[r].pc = "parent"
  BY Here DEF AssertParentCharityExists
<1>2. CASE stored[c].there
  <2>1. /\ req[r].e \in Children /\ req[r].e \in Entities /\ req[r].body \in Bodies
        /\ req[r].kind = "create" /\ req[r].dels = {} /\ req[r].ins = {}
        /\ AssertPublishRange(req[r].body)
        /\ AssertImageKeys(req[r].body, req[r].e, Rows) /\ ~stored[req[r].e].there
    BY <1>1 DEF Placed, Grounded, Creating, Entities, Rows
  <2>2. Becomes(r, At(req[r], "childInsert"))
    BY <1>2 DEF AssertParentCharityExists
  <2> QED BY <1>1, <2>1, <2>2, AtStep DEF AssertParentCharityExists, InTx
<1>3. CASE ~stored[c].there
  BY <1>1, <1>3, AnswerStep DEF AssertParentCharityExists, InTx
<1> QED BY <1>2, <1>3

LEMMA ChildFindStep ==
  ASSUME Inv, NEW r \in Requests, ChildFind(r)
  PROVE  Inv'
<1>1. req[r] \in Request /\ Placed(req[r]) /\ req[r].pc = "find"
  BY Here DEF ChildFind
<1>2. CASE stored[req[r].e].there
  <2>1. /\ req[r].e \in Children /\ req[r].e \in Entities /\ req[r].body \in Bodies
        /\ req[r].kind = "update" /\ req[r].dels = {} /\ req[r].ins = {}
        /\ AssertPublishRange(req[r].body) /\ AssertImageKeys(req[r].body, req[r].e, {req[r].e})
    BY <1>1 DEF Placed, Updating, Entities, Rows
  <2>2. Becomes(r, At(req[r], "childUpdate"))
    BY <1>2 DEF ChildFind
  <2> QED BY <1>1, <1>2, <2>1, <2>2, AtStep DEF ChildFind, InTx
<1>3. CASE ~stored[req[r].e].there
  BY <1>1, <1>3, AnswerStep DEF ChildFind, InTx
<1> QED BY <1>2, <1>3

LEMMA CategoryWriteStep ==
  ASSUME Inv, NEW r \in Requests, CategoryWrite(r)
  PROVE  Inv'
<1>1. req[r] \in Request /\ Placed(req[r]) /\ req[r].pc = "category"
  BY Here DEF CategoryWrite
<1>2. req[r].e \in Entities /\ req[r].kind = "update" /\ req[r].dels = {} /\ req[r].ins = {}
  BY <1>1 DEF Placed, Entities
<1> QED BY <1>1, <1>2, AtStep DEF CategoryWrite, InTx

LEMMA UpdateCategoryStep ==
  ASSUME Inv, NEW r \in Requests, NEW k \in Categories, UpdateCategory(r, k)
  PROVE  Inv'
<1> DEFINE q == Started(r, "update", k, NULL)
           p == IF stored[k].there THEN At(q, "category") ELSE Answered(q, "notFound")
<1>1. req[r] = Idle /\ k \in Entities
  BY Here DEF UpdateCategory, Open, Placed, Entities
<1>2. /\ q \in Request /\ q.kind = "update" /\ q.e = k /\ q.body = NULL
      /\ q.dels = {} /\ q.ins = {} /\ q.dead = {}
  BY <1>1, StartedFields
<1>3. Becomes(r, p)
  BY DEF UpdateCategory
<1> HIDE DEF q
<1>4. Moves(req[r], p, stored) /\ p.pc \in {"category", "done"}
  <2>1. CASE stored[k].there
    <3> DEFINE x == At(q, "category")
    <3>1. /\ x \in Request /\ x.pc = "category" /\ x.kind = "update" /\ x.e = k
          /\ x.dels = {} /\ x.ins = {} /\ x.dead = {}
      BY <1>2, AtFields
    <3>2. p = x
      BY <2>1
    <3> HIDE DEF x, p
    <3>3. Placed(x) /\ Grounded(x, stored)
      BY <3>1 DEF Placed, Grounded, Creating, Updating, InTx
    <3> QED BY <3>1, <3>2, <3>3 DEF Moves
  <2>2. CASE ~stored[k].there
    BY <1>2, <2>2, AnsweredMoves
  <2> QED BY <2>1, <2>2
<1> HIDE DEF p
<1>5. p.pc \notin InTx /\ p.pc # "audit" /\ req[r].pc \notin InTx /\ req[r].pc # "audit"
  BY <1>1, <1>4 DEF InTx, Idle
<1> QED BY <1>3, <1>4, <1>5, PlainStep DEF UpdateCategory

LEMMA LifecycleFindStep ==
  ASSUME Inv, NEW r \in Requests, NEW e \in Entities, NEW field \in Fields, NEW set \in BOOLEAN,
         LifecycleFind(r, e, field, set)
  PROVE  Inv'
<1> DEFINE y == Started(r, "stamp", e, NULL)
           q == [y EXCEPT !.field = field, !.set = set]
           p == IF stored[e].there THEN At(q, "stamp") ELSE Answered(q, "notFound")
<1>1. req[r] = Idle
  BY Here DEF LifecycleFind, Open, Placed
<1>2. /\ y \in Request /\ y.kind = "stamp" /\ y.e = e /\ y.dels = {} /\ y.ins = {} /\ y.dead = {}
  BY <1>1, StartedFields
<1>3. Becomes(r, p)
  BY DEF LifecycleFind
<1> HIDE DEF y
<1>4. /\ q \in Request /\ q.kind = "stamp" /\ q.e = e /\ q.dels = {} /\ q.ins = {} /\ q.dead = {}
  BY <1>2 DEF Request
<1> HIDE DEF q
<1>5. Moves(req[r], p, stored) /\ p.pc \in {"stamp", "done"}
  <2>1. CASE stored[e].there
    <3> DEFINE x == At(q, "stamp")
    <3>1. /\ x \in Request /\ x.pc = "stamp" /\ x.kind = "stamp" /\ x.e = e
          /\ x.dels = {} /\ x.ins = {} /\ x.dead = {}
      BY <1>4, AtFields
    <3>2. p = x
      BY <2>1
    <3> HIDE DEF x, p
    <3>3. Placed(x) /\ Grounded(x, stored)
      BY <3>1 DEF Placed, Grounded, Creating, Updating, InTx
    <3> QED BY <3>1, <3>2, <3>3 DEF Moves
  <2>2. CASE ~stored[e].there
    BY <1>4, <2>2, AnsweredMoves
  <2> QED BY <2>1, <2>2
<1> HIDE DEF p
<1>6. p.pc \notin InTx /\ p.pc # "audit" /\ req[r].pc \notin InTx /\ req[r].pc # "audit"
  BY <1>1, <1>5 DEF InTx, Idle
<1> QED BY <1>3, <1>5, <1>6, PlainStep DEF LifecycleFind

LEMMA StampStep ==
  ASSUME Inv, NEW r \in Requests, ApplyLifecycleStamp(r)
  PROVE  Inv'
<1> DEFINE q == req[r]
           e == q.e
           f == q.field
           set == q.set
           p == At(q, "audit")
<1>1. /\ q \in Request /\ Placed(q) /\ q.dead = {} /\ q.pc = "stamp" /\ RowsInv /\ TypeOK
      /\ LockInv /\ LinksInv /\ StampsAudited
      /\ \A s \in Requests : req[s] \in Request /\ Placed(req[s])
  BY Here DEF ApplyLifecycleStamp
<1>2. /\ e \in Entities /\ q.kind = "stamp" /\ q.dels = {} /\ q.ins = {} /\ f \in Fields
      /\ set \in BOOLEAN
  BY <1>1 DEF Placed, Request
<1>3. CASE ~Stamps(stored[e][f], set)
  BY <1>1, <1>3, AnswerStep DEF ApplyLifecycleStamp, InTx
<1>4. CASE Stamps(stored[e][f], set)
  <2>1. /\ p \in Request /\ p.pc = "audit" /\ p.kind = q.kind /\ p.e = e /\ p.field = f
        /\ p.set = set
        /\ p.dels = q.dels /\ p.ins = q.ins /\ p.dead = q.dead
    BY <1>1, AtFields
  <2>2. Stamped(e, f, set)
    BY <1>4 DEF ApplyLifecycleStamp, Stamped
  <2>3. req' = [s \in Requests |->
                  IF s = r THEN p
                  ELSE IF e \in Categories /\ set /\ req[s].pc \notin {"idle", "done"}
                  THEN [req[s] EXCEPT !.turned = @ \cup {e}]
                  ELSE req[s]]
    BY <1>4 DEF ApplyLifecycleStamp
  <2>u. UNCHANGED <<links, lock, audited, torn, loose, adopted, mixed, replaced>>
    BY DEF ApplyLifecycleStamp
  <2> HIDE DEF p
  <2>4. req'[r] = p
    BY <2>3
  <2>5. \A s \in Requests \ {r} : Hears(req[s], req'[s], e, set)
    BY <2>3 DEF Hears
  <2>6. req' = [s \in Requests |-> req'[s]]
    BY <2>3
  <2>7. /\ req' \in [Requests -> Request] /\ stored' \in [Entities -> StoredRow] /\ RowsInv'
    BY <1>1, <1>2, <2>1, <2>2, <2>4, <2>5, <2>6, <2>u, RowsStamped
  <2>8. TypeOK'
    BY <1>1, <2>7, <2>u DEF TypeOK
  <2>9. \A s \in Requests \ {r} :
          /\ req'[s].pc = req[s].pc /\ req'[s].kind = req[s].kind /\ req'[s].e = req[s].e
          /\ req'[s].body = req[s].body /\ req'[s].field = req[s].field /\ req'[s].set = req[s].set
          /\ req'[s].doomed = req[s].doomed /\ req'[s].dels = req[s].dels
          /\ req'[s].ins = req[s].ins
    BY <1>1, <1>2, <2>5, HeardFields
  <2>10. LockInv'
    <3>1. InTxStill
      BY <2>1, <2>4, <2>9 DEF InTxStill, InTx
    <3>2. \A s \in Requests : req[s].pc \in InTx => req[s].e \in Charities /\ req'[s].pc \in InTx
      BY <1>1, <2>9 DEF Placed, InTx
    <3> QED BY <1>1, <2>u, <3>1, <3>2, LockOutside DEF TypeOK
  <2>11. LinksInv'
    <3>1. \A s \in Requests : req'[s].pc \in InTx => SameTx(req'[s], req[s])
      BY <2>1, <2>4, <2>9 DEF SameTx, InTx
    <3> QED BY <1>1, <2>u, <3>1, LinksStay
  <2>12. StampsAudited'
    <3>1. Restamps(e, f, set)
      <4>1. stored[e] \in StoredRow
        BY <1>1, <1>2 DEF TypeOK
      <4>2. stored[e][f] \in BOOLEAN
        BY <1>2, <4>1 DEF StoredRow, Fields
      <4>3. ~(stored[e][f] <=> set)
        BY <1>2, <1>4, <4>2 DEF Stamps
      <4>4. stored \in [Entities -> StoredRow] /\ stored' = [stored EXCEPT ![e][f] = set]
        BY <1>1, <2>2 DEF Stamped, TypeOK
      <4> HIDE DEF e, f, set
      <4>5. \A x \in Entities, g \in Fields :
              stored'[x][g] <=> IF x = e /\ g = f THEN set ELSE stored[x][g]
        BY <1>2, <4>4, StampedRows
      <4> QED BY <4>3, <4>5 DEF Restamps
    <3>2. OnlyOwes(r)
      BY <2>9 DEF Owes, OnlyOwes
    <3>3. OwesNone(req[r]) /\ OwesOne(req'[r], e, f, set)
      BY <1>1, <1>2, <2>1, <2>4 DEF Owes, OwesNone, OwesOne
    <3>4. UNCHANGED <<audited, torn>> /\ audited \in [Entities -> [Fields -> Int]] /\ StampsAudited
      BY <1>1, <2>u DEF TypeOK
    <3> HIDE DEF e, f, set
    <3> QED BY <1>2, <3>1, <3>2, <3>3, <3>4, AuditOwed
  <2> QED BY <2>7, <2>8, <2>10, <2>11, <2>12 DEF Inv
<1> QED BY <1>3, <1>4

\* What a step of r alone leaves of the locks and the links, if it is no longer
\* in a transaction: LockInv asks for the release, LinksInv for nothing.
LEMMA EndStep ==
  ASSUME Inv, NEW r \in Requests, NEW p, Becomes(r, p), p.pc \notin InTx,
         lock' = [c \in Charities |-> IF lock[c] = r THEN NULL ELSE lock[c]]
  PROVE  /\ LockInv' /\ lock' \in [Charities -> Requests \cup {NULL}]
         /\ UNCHANGED <<links, mixed, replaced>> => LinksInv'
<1>1. /\ req \in [Requests -> Request] /\ LockInv /\ LinksInv /\ TypeOK
      /\ \A s \in Requests : Placed(req[s])
  BY Here DEF RowsInv
<1>2. lock \in [Charities -> Requests \cup {NULL}]
  BY <1>1 DEF TypeOK
<1>3. LockInv'
  BY <1>1, <1>2, LockReleased
<1>4. lock' \in [Charities -> Requests \cup {NULL}]
  BY <1>2
<1>5. \A s \in Requests : req'[s].pc \in InTx => SameTx(req'[s], req[s])
  BY <1>1 DEF SameTx, Becomes
<1> QED BY <1>1, <1>3, <1>4, <1>5, LinksStay

\* Outside a transaction no lock is r's.
LEMMA NoLockHeld ==
  ASSUME Inv, NEW r \in Requests, req[r].pc \notin InTx
  PROVE  lock = [c \in Charities |-> IF lock[c] = r THEN NULL ELSE lock[c]]
<1>1. lock \in [Charities -> Requests \cup {NULL}] /\ LockInv
  BY Here DEF TypeOK
<1>2. \A c \in Charities : lock[c] # r
  BY <1>1, CatalogueAssumption DEF LockInv
<1> QED BY <1>1, <1>2

LEMMA AuditStep ==
  ASSUME Inv, NEW r \in Requests, Audit(r)
  PROVE  Inv'
<1> DEFINE q == req[r]
           p == Answered(q, "ok")
<1>1. /\ q \in Request /\ Placed(q) /\ q.dead = {} /\ q.pc = "audit" /\ RowsInv /\ TypeOK
      /\ StampsAudited /\ req \in [Requests -> Request]
  BY Here DEF Audit
<1>2. CASE q.kind # "stamp"
  <2>1. UNCHANGED <<stored, links, lock, audited, torn, loose, adopted, mixed, replaced>>
    BY <1>2 DEF Audit
  <2> QED BY <1>1, <1>2, <2>1, AnswerStep DEF Audit, InTx
<1>3. CASE q.kind = "stamp"
  <2>1. Becomes(r, p) /\ UNCHANGED <<stored, links, lock, torn, loose, adopted, mixed, replaced>>
    BY DEF Audit
  <2>2. Moves(q, p, stored) /\ p.pc = "done"
    BY <1>1, AnsweredMoves
  <2> HIDE DEF p
  <2>3. req' \in [Requests -> Request] /\ RowsInv'
    BY <1>1, <2>1, <2>2, RowsMove
  <2>4. /\ q.e \in Entities /\ q.field \in Fields /\ q.set \in BOOLEAN
        /\ audited \in [Entities -> [Fields -> Int]]
    BY <1>1, <1>3 DEF Placed, Request, TypeOK
  <2>5. audited' = [audited EXCEPT ![q.e][q.field] =
                      IF q.set THEN audited[q.e][q.field] + 1 ELSE audited[q.e][q.field] - 1]
    BY <1>3 DEF Audit
  <2>6. audited' \in [Entities -> [Fields -> Int]]
    BY <2>4, <2>5
  <2>7. p.pc \notin InTx /\ q.pc \notin InTx
    BY <1>1, <2>2 DEF InTx
  <2>8. LockInv' /\ LinksInv' /\ lock' \in [Charities -> Requests \cup {NULL}]
    BY <2>1, <2>7, EndStep, NoLockHeld
  <2>9. TypeOK'
    BY <1>1, <2>1, <2>3, <2>6, <2>8 DEF TypeOK
  <2>10. StampsAudited'
    <3> DEFINE e == q.e
               f == q.field
               set == q.set
    <3>1. \A x \in Entities, g \in Fields : x \notin torn' =>
            audited'[x][g] = IF x = e /\ g = f
                             THEN IF set THEN audited[x][g] + 1 ELSE audited[x][g] - 1
                             ELSE audited[x][g]
      BY <2>4, <2>5
    <3>2. OnlyOwes(r)
      BY <1>1, <2>1 DEF OnlyOwes, Becomes
    <3>3. OwesOne(req[r], e, f, set)
      BY <1>1, <1>3, <2>4 DEF Owes, OwesOne
    <3>4. OwesNone(req'[r])
      BY <1>1, <2>1, <2>2 DEF Owes, OwesNone, Becomes
    <3>5. e \in Entities /\ f \in Fields /\ set \in BOOLEAN
      BY <2>4
    <3> HIDE DEF e, f, set
    <3> QED BY <1>1, <2>1, <2>4, <3>1, <3>2, <3>3, <3>4, <3>5, AuditPaid
  <2> QED BY <2>3, <2>8, <2>9, <2>10 DEF Inv
<1> QED BY <1>2, <1>3

LEMMA LoseStep ==
  ASSUME Inv, NEW r \in Requests, Lose(r)
  PROVE  Inv'
<1> DEFINE q == req[r]
           p == Answered(q, "lost")
<1>1. /\ q \in Request /\ Placed(q) /\ q.dead = {} /\ RowsInv /\ TypeOK
      /\ StampsAudited /\ req \in [Requests -> Request]
  BY Here
<1>2. /\ Becomes(r, p) /\ UNCHANGED <<stored, links, audited, loose, adopted, mixed, replaced>>
      /\ lock' = [c \in Charities |-> IF lock[c] = r THEN NULL ELSE lock[c]]
      /\ torn' = IF q.kind = "stamp" /\ q.pc = "audit" THEN torn \cup {q.e} ELSE torn
  BY DEF Lose
<1>3. Moves(q, p, stored) /\ p.pc = "done"
  BY <1>1, AnsweredMoves
<1> HIDE DEF p
<1>4. req' \in [Requests -> Request] /\ RowsInv'
  BY <1>1, <1>2, <1>3, RowsMove
<1>5. p.pc \notin InTx
  BY <1>3 DEF InTx
<1>6. LockInv' /\ LinksInv' /\ lock' \in [Charities -> Requests \cup {NULL}]
  BY <1>2, <1>5, EndStep
<1>7. torn' \subseteq Entities
  BY <1>1, <1>2 DEF TypeOK, Placed
<1>8. TypeOK'
  BY <1>1, <1>2, <1>4, <1>6, <1>7 DEF TypeOK
<1>9. OnlyOwes(r)
  BY <1>1, <1>2 DEF OnlyOwes, Becomes
<1>10. OwesNone(req'[r])
  BY <1>1, <1>2, <1>3 DEF Owes, OwesNone, Becomes
<1>11. StampsAudited'
  <2>1. CASE q.kind = "stamp" /\ q.pc = "audit"
    <3> DEFINE e == q.e
               f == q.field
               set == q.set
    <3>1. /\ e \in Entities /\ f \in Fields /\ set \in BOOLEAN
          /\ audited \in [Entities -> [Fields -> Int]]
      BY <1>1, <2>1 DEF Placed, Request, TypeOK
    <3>2. torn' = torn \cup {e}
      BY <1>2, <2>1
    <3>3. OwesOne(req[r], e, f, set)
      BY <2>1, <3>1 DEF Owes, OwesOne
    <3>4. \A x \in Entities, g \in Fields : x \notin torn' =>
            audited'[x][g] = IF x = e /\ g = f
                             THEN IF set THEN audited[x][g] + 1 ELSE audited[x][g] - 1
                             ELSE audited[x][g]
      BY <1>2, <3>2
    <3> HIDE DEF e, f, set
    <3> QED BY <1>1, <1>2, <1>9, <1>10, <3>1, <3>2, <3>3, <3>4, AuditPaid
  <2>2. CASE ~(q.kind = "stamp" /\ q.pc = "audit")
    <3>1. OwesNone(req[r])
      BY <2>2 DEF Owes, OwesNone
    <3>2. \A s \in Requests, x \in Entities, g \in Fields, b \in BOOLEAN :
            Owes(req'[s], x, g, b) <=> Owes(req[s], x, g, b)
      BY <1>9, <1>10, <3>1 DEF OnlyOwes, OwesNone
    <3> QED BY <1>1, <1>2, <2>2, <3>2, AuditStays
  <2> QED BY <2>1, <2>2
<1> QED BY <1>4, <1>6, <1>8, <1>11 DEF Inv

\* The steps that write a row, as far as the rows and the stamps go.
LEMMA WriteStep ==
  ASSUME Inv, NEW r \in Requests, NEW p, Becomes(r, p),
         WriteRow(req[r].e, req[r].body),
         req[r].pc \in {"create", "childInsert", "commit", "childUpdate"},
         p \in Request, p.pc = "audit", p.dead = {}, p.kind = req[r].kind, p.e = req[r].e,
         p.dels = {}, p.ins = {}, UNCHANGED <<audited, torn>>
  PROVE  /\ req' \in [Requests -> Request] /\ stored' \in [Entities -> StoredRow]
         /\ loose' \subseteq Rows /\ adopted' \subseteq Rows
         /\ RowsInv' /\ StampsAudited'
<1> DEFINE q == req[r]
<1>1. /\ q \in Request /\ Placed(q) /\ RowsInv /\ TypeOK /\ StampsAudited
      /\ req \in [Requests -> Request]
  BY Here
<1>2. q.e \in Rows /\ q.body \in Bodies /\ q.kind # "stamp" /\ q.pc # "audit"
  BY <1>1 DEF Placed, Creating, Updating, InTx, Rows
<1>3. /\ req' \in [Requests -> Request] /\ stored' \in [Entities -> StoredRow]
      /\ loose' \subseteq Rows /\ adopted' \subseteq Rows /\ RowsInv'
  BY <1>1, RowsWritten
<1>4. \A x \in Entities, g \in Fields : stored'[x][g] <=> stored[x][g]
  <2>1. \A x \in Entities : /\ stored'[x].archived <=> stored[x].archived
                            /\ stored'[x].deleted <=> stored[x].deleted
    BY <1>1, <1>2, WrittenRows DEF TypeOK
  <2> QED BY <2>1 DEF Fields
<1>5. \A s \in Requests, x \in Entities, g \in Fields, b \in BOOLEAN :
        Owes(req'[s], x, g, b) <=> Owes(req[s], x, g, b)
  BY <1>1, <1>2 DEF Owes, Becomes
<1> QED BY <1>1, <1>3, <1>4, <1>5, AuditStays

LEMMA ChildWriteStep ==
  ASSUME Inv, NEW r \in Requests, ChildWrite(r)
  PROVE  Inv'
<1> DEFINE q == req[r]
           p == At(q, "audit")
<1>1. q \in Request /\ Placed(q) /\ q.dead = {} /\ q.pc \in {"childInsert", "childUpdate"} /\ TypeOK
  BY Here DEF ChildWrite
<1>2. q.dels = {} /\ q.ins = {} /\ q.pc \notin InTx
  BY <1>1 DEF Placed, InTx
<1>3. /\ p \in Request /\ p.pc = "audit" /\ p.kind = q.kind /\ p.e = q.e
      /\ p.dels = q.dels /\ p.ins = q.ins /\ p.dead = q.dead
  BY <1>1, AtFields
<1>4. /\ Becomes(r, p) /\ UNCHANGED <<links, lock, audited, torn, mixed, replaced>>
      /\ WriteRow(q.e, q.body)
  BY DEF ChildWrite
<1> HIDE DEF p
<1>5. /\ req' \in [Requests -> Request] /\ stored' \in [Entities -> StoredRow]
      /\ loose' \subseteq Rows /\ adopted' \subseteq Rows /\ RowsInv' /\ StampsAudited'
  BY <1>1, <1>2, <1>3, <1>4, WriteStep
<1>6. p.pc \notin InTx
  BY <1>3 DEF InTx
<1>7. LockInv' /\ LinksInv' /\ lock' \in [Charities -> Requests \cup {NULL}]
  BY <1>2, <1>4, <1>6, EndStep, NoLockHeld
<1>8. TypeOK'
  BY <1>1, <1>4, <1>5, <1>7 DEF TypeOK
<1> QED BY <1>5, <1>7, <1>8 DEF Inv

\* The categories a body of a request asks for.
LEMMA CatsType ==
  ASSUME NEW q \in Request, Placed(q), q.pc \in {"cats"} \cup Creating \cup Updating,
         q.body.cats # Keep
  PROVE  ToSet(q.body.cats) \subseteq Categories
<1>1. q.body \in Body
  BY CatalogueAssumption DEF Placed
<1> QED BY <1>1, ToSetType DEF Body

LEMMA CreateCommitStep ==
  ASSUME Inv, NEW r \in Requests, CreateCommit(r)
  PROVE  Inv'
<1> DEFINE q == req[r]
           c == q.e
           cats == IF q.body.cats = Keep THEN {} ELSE ToSet(q.body.cats)
           y == [q EXCEPT !.dead = NotLive(cats) \ q.turned]
           p == At(y, "audit")
<1>1. /\ q \in Request /\ Placed(q) /\ Grounded(q, stored) /\ q.dead = {} /\ q.pc = "create"
      /\ TypeOK
      /\ RowsInv /\ LinksInv /\ req \in [Requests -> Request]
  BY Here DEF CreateCommit
<1>2. q.dels = {} /\ q.ins = {} /\ c \in Charities /\ ~stored[c].there /\ q.pc \notin InTx
  BY <1>1 DEF Placed, Grounded, Creating, InTx
<1>3. cats \subseteq Categories
  BY <1>1, CatsType DEF Creating
<1>4. NotLive(cats) \ q.turned = {}
  BY <1>1 DEF Grounded, NotLive, Live, LiveIn
<1>5. Becomes(r, p) /\ UNCHANGED <<lock, audited, torn, mixed>> /\ WriteRow(c, q.body)
  BY DEF CreateCommit
<1>6. links' = [links EXCEPT ![c] = cats] /\ replaced' = [replaced EXCEPT ![c] = cats]
  BY DEF CreateCommit
<1> HIDE DEF cats
<1>7. /\ y \in Request /\ y.kind = q.kind /\ y.e = c /\ y.dels = {} /\ y.ins = {} /\ y.dead = {}
  BY <1>1, <1>2, <1>4 DEF Request
<1> HIDE DEF y
<1>8. /\ p \in Request /\ p.pc = "audit" /\ p.kind = q.kind /\ p.e = c
      /\ p.dels = {} /\ p.ins = {} /\ p.dead = {}
  BY <1>7, AtFields
<1> HIDE DEF p
<1>9. /\ req' \in [Requests -> Request] /\ stored' \in [Entities -> StoredRow]
      /\ loose' \subseteq Rows /\ adopted' \subseteq Rows /\ RowsInv' /\ StampsAudited'
  BY <1>1, <1>2, <1>5, <1>8, WriteStep
<1>10. p.pc \notin InTx
  BY <1>8 DEF InTx
<1>11. LockInv' /\ lock' \in [Charities -> Requests \cup {NULL}]
  BY <1>2, <1>5, <1>10, EndStep, NoLockHeld
<1>12. links' \in [Charities -> SUBSET Categories] /\ replaced' \in [Charities -> SUBSET Categories]
  BY <1>1, <1>3, <1>6 DEF TypeOK
<1>13. TypeOK'
  BY <1>1, <1>5, <1>9, <1>11, <1>12 DEF TypeOK
<1>14. LinksInv'
  <2>1. \A s \in Requests : req'[s] = IF s = r THEN p ELSE req[s]
    BY <1>1, <1>5 DEF Becomes
  <2>2. \A x \in Charities, s \in Requests : Replaces(s, x)' => s # r /\ Replaces(s, x)
    BY <1>10, <2>1 DEF Replaces
  <2>3. \A s \in Requests : ~Replaces(s, c)
    BY <1>1, <1>2 DEF Replaces, RowsInv, Grounded
  <2>4. LinksOneReplace'
    BY <1>1, <1>2, <1>5, <1>6 DEF LinksInv, LinksOneReplace, TypeOK
  <2>5. ASSUME NEW x \in Charities \ mixed', NEW s \in Requests, Replaces(s, x)'
        PROVE  ReplaceAlone(s, x)'
    <3>1. Replaces(s, x) /\ ReplaceAlone(s, x) /\ x # c /\ s # r
      BY <1>1, <1>5, <2>2, <2>3, <2>5 DEF LinksInv
    <3>2. links'[x] = links[x] /\ req'[s] = req[s]
      BY <1>1, <1>6, <2>1, <3>1 DEF TypeOK
    <3>3. \A t \in Requests : Replaces(t, x)' => t = s
      BY <2>2, <3>1 DEF ReplaceAlone
    <3> QED BY <3>1, <3>2, <3>3 DEF ReplaceAlone
  <2> QED BY <2>4, <2>5 DEF LinksInv
<1> QED BY <1>9, <1>11, <1>13, <1>14 DEF Inv

\* r enters its transaction. Two replaces with a row lock each cannot both be
\* in theirs, so one of a charity not yet mixed is alone.
LEMMA TxUpdateStep ==
  ASSUME Inv, NEW r \in Requests, TxUpdate(r)
  PROVE  Inv'
<1> DEFINE q == req[r]
           c == q.e
           p == At(q, IF q.body.cats = Keep THEN "commit" ELSE "delete")
<1>1. /\ q \in Request /\ Placed(q) /\ Grounded(q, stored) /\ q.dead = {} /\ q.pc = "tx" /\ TypeOK
      /\ RowsInv /\ LockInv /\ LinksInv /\ StampsAudited /\ req \in [Requests -> Request]
  BY Here DEF TxUpdate
<1>2. /\ c \in Charities /\ q.dels = {} /\ q.ins = {} /\ q.kind = "update" /\ q.pc \notin InTx
      /\ q.body \in Bodies /\ AssertPublishRange(q.body) /\ AssertImageKeys(q.body, c, {c})
  BY <1>1 DEF Placed, Updating, InTx
<1>3. CASE ~stored[c].there
  BY <1>1, <1>2, <1>3, AnswerStep DEF TxUpdate
<1>4. CASE stored[c].there
  <2>1. PICK locks \in Locks(q.body) :
          /\ locks => lock[c] = NULL
          /\ lock' = IF locks THEN [lock EXCEPT ![c] = r] ELSE lock
    BY <1>4 DEF TxUpdate
  <2>2. Becomes(r, p) /\ UNCHANGED <<stored, links, audited, torn, loose, adopted, replaced>>
    BY <1>4 DEF TxUpdate
  <2>3. mixed' = IF /\ q.body.cats # Keep
                    /\ \E s \in Replacing(r, c) :
                         ~NamesColumns(q.body) \/ ~NamesColumns(req[s].body)
                 THEN mixed \cup {c} ELSE mixed
    BY <1>4 DEF TxUpdate
  <2>4. /\ p \in Request /\ p.pc = (IF q.body.cats = Keep THEN "commit" ELSE "delete")
        /\ p.kind = q.kind /\ p.e = c /\ p.body = q.body
        /\ p.dels = {} /\ p.ins = {} /\ p.dead = {} /\ p.turned = q.turned
    BY <1>1, <1>2, AtFields
  <2> HIDE DEF p
  <2>5. Placed(p)
    BY <1>2, <2>4 DEF Placed, Creating, Updating, InTx
  <2>6. Grounded(p, stored)
    BY <1>1, <1>2, <1>4, <2>4 DEF Grounded, Creating, InTx
  <2>7. Moves(q, p, stored)
    BY <1>2, <2>4, <2>5, <2>6 DEF Moves
  <2>8. req' \in [Requests -> Request] /\ RowsInv'
    BY <1>1, <2>2, <2>7, RowsMove
  <2>9. lock' \in [Charities -> Requests \cup {NULL}] /\ mixed' \subseteq Charities
    BY <1>1, <1>2, <2>1, <2>3 DEF TypeOK
  <2>10. TypeOK'
    BY <1>1, <2>2, <2>8, <2>9 DEF TypeOK
  <2>11. \A s \in Requests : req'[s] = IF s = r THEN p ELSE req[s]
    BY <1>1, <2>2 DEF Becomes
  <2>12. p.pc \in InTx
    BY <2>4 DEF InTx
  <2>13. NamesColumns(q.body) => locks
    BY <2>1 DEF Locks
  <2>14. \A x \in Charities : lock'[x] = IF locks /\ x = c THEN r ELSE lock[x]
    BY <1>1, <1>2, <2>1 DEF TypeOK
  <2>15. LockInv'
    <3>1. ASSUME NEW x \in Charities, lock'[x] # NULL
          PROVE  req'[lock'[x]].e = x /\ req'[lock'[x]].pc \in InTx
      <4>1. CASE locks /\ x = c
        BY <2>4, <2>11, <2>12, <2>14, <4>1
      <4>2. CASE ~(locks /\ x = c)
        <5>1. /\ lock'[x] = lock[x] /\ lock[x] \in Requests
              /\ req[lock[x]].e = x /\ req[lock[x]].pc \in InTx
          BY <1>1, <2>14, <3>1, <4>2 DEF LockInv, TypeOK
        <5> QED BY <1>2, <2>11, <5>1
      <4> QED BY <4>1, <4>2
    <3>2. ASSUME NEW s \in Requests, req'[s].pc \in InTx, NamesColumns(req'[s].body)
          PROVE  lock'[req'[s].e] = s
      <4>1. CASE s = r
        BY <1>2, <2>4, <2>11, <2>13, <2>14, <3>2, <4>1
      <4>2. CASE s # r
        <5>1. /\ req'[s] = req[s] /\ lock[req[s].e] = s /\ req[s].e \in Charities
          BY <1>1, <2>11, <3>2, <4>2 DEF LockInv, RowsInv, Placed
        <5>2. ~(locks /\ req[s].e = c)
          BY <2>1, <5>1, CatalogueAssumption
        <5> QED BY <2>14, <5>1, <5>2
      <4> QED BY <4>1, <4>2
    <3> QED BY <3>1, <3>2 DEF LockInv
  <2>16. LinksInv'
    <3>1. mixed \subseteq mixed'
      BY <2>3
    <3>2. LinksOneReplace'
      BY <1>1, <2>2, <3>1 DEF LinksInv, LinksOneReplace
    <3>3. ASSUME NEW x \in Charities \ mixed', NEW s \in Requests, Replaces(s, x)'
          PROVE  ReplaceAlone(s, x)'
      <4>1. x \notin mixed
        BY <3>1
      <4>2. \A t \in Requests \ {r} : Replaces(t, x)' <=> Replaces(t, x)
        BY <2>11 DEF Replaces
      <4>3. Replaces(r, x)' <=> x = c /\ q.body.cats # Keep
        BY <2>4, <2>11, <2>12 DEF Replaces
      <4>4. ASSUME x = c, q.body.cats # Keep, NEW t \in Requests \ {r}, Replaces(t, c)
            PROVE  FALSE
        <5>1. t \in Replacing(r, c)
          BY <4>4 DEF Replaces, Replacing, InTx
        <5>2. NamesColumns(q.body) /\ NamesColumns(req[t].body)
          BY <2>3, <4>4, <5>1
        <5>3. lock[c] = t
          BY <1>1, <4>4, <5>2 DEF LockInv, Replaces
        <5>4. lock[c] = NULL
          BY <2>1, <2>13, <5>2
        <5> QED BY <5>3, <5>4, CatalogueAssumption
      <4>5. CASE s = r
        BY <2>4, <2>11, <3>3, <4>2, <4>3, <4>4, <4>5 DEF ReplaceAlone
      <4>6. CASE s # r
        <5>1. Replaces(s, x) /\ ReplaceAlone(s, x) /\ req'[s] = req[s]
          BY <1>1, <2>11, <3>3, <4>1, <4>2, <4>6 DEF LinksInv
        <5>2. ~Replaces(r, x)'
          BY <4>3, <4>4, <4>6, <5>1
        <5>3. \A t \in Requests : Replaces(t, x)' => t = s
          BY <4>2, <5>1, <5>2 DEF ReplaceAlone
        <5> QED BY <2>2, <5>1, <5>3 DEF ReplaceAlone
      <4> QED BY <4>5, <4>6
    <3> QED BY <3>2, <3>3 DEF LinksInv
  <2>17. StampsAudited'
    <3>1. \A s \in Requests, x \in Entities, g \in Fields, b \in BOOLEAN :
            Owes(req'[s], x, g, b) <=> Owes(req[s], x, g, b)
      BY <1>1, <2>4, <2>11 DEF Owes
    <3> QED BY <1>1, <2>2, <3>1, AuditStays
  <2> QED BY <2>8, <2>10, <2>15, <2>16, <2>17 DEF Inv
<1> QED BY <1>3, <1>4

\* A step inside r's transaction.
LEMMA InsideStep ==
  ASSUME Inv, NEW r \in Requests, NEW p, Becomes(r, p), req[r].pc \in InTx, p.pc \in InTx,
         Moves(req[r], p, stored), p.e = req[r].e, p.body = req[r].body,
         UNCHANGED <<stored, links, lock, audited, torn, loose, adopted, mixed, replaced>>,
         \A c \in Charities \ mixed : Replaces(r, c) /\ ReplaceAlone(r, c) =>
           /\ p.pc = "deleting" => p.doomed = links[c]
           /\ p.pc \in {"insert", "commit"} => p.dels = links[c]
           /\ p.pc = "commit" => p.ins = ToSet(p.body.cats)
  PROVE  Inv'
<1>1. /\ req \in [Requests -> Request] /\ RowsInv /\ LockInv /\ LinksInv /\ StampsAudited /\ TypeOK
      /\ \A s \in Requests : Placed(req[s])
  BY Here DEF RowsInv
<1>2. req' \in [Requests -> Request] /\ RowsInv'
  BY <1>1, RowsMove
<1>3. TypeOK'
  BY <1>1, <1>2 DEF TypeOK
<1>4. \A s \in Requests : req'[s] = IF s = r THEN p ELSE req[s]
  BY <1>1 DEF Becomes
<1>5. LockInv'
  <2>1. InTxStill
    BY <1>4 DEF InTxStill
  <2>2. \A s \in Requests : req[s].pc \in InTx => req[s].e \in Charities /\ req'[s].pc \in InTx
    BY <1>1, <1>4 DEF Placed
  <2> QED BY <1>1, <2>1, <2>2, LockOutside DEF TypeOK
<1>6. LinksInv'
  BY <1>1, LinksInside
<1>7. StampsAudited'
  <2>1. p.pc # "audit" /\ req[r].pc # "audit"
    BY DEF InTx
  <2>2. \A s \in Requests, x \in Entities, g \in Fields, b \in BOOLEAN :
          Owes(req'[s], x, g, b) <=> Owes(req[s], x, g, b)
    BY <1>4, <2>1 DEF Owes
  <2> QED BY <1>1, <2>2, AuditStays
<1> QED BY <1>2, <1>3, <1>5, <1>6, <1>7 DEF Inv

LEMMA TxDeleteStep ==
  ASSUME Inv, NEW r \in Requests, TxDelete(r)
  PROVE  Inv'
<1> DEFINE q == req[r]
           y == [q EXCEPT !.doomed = links[q.e]]
           p == At(y, "deleting")
<1>1. /\ q \in Request /\ Placed(q) /\ Grounded(q, stored) /\ q.dead = {} /\ q.pc = "delete"
      /\ TypeOK
  BY Here DEF TxDelete
<1>2. /\ q.e \in Charities /\ q.dels = {} /\ q.ins = {} /\ q.kind = "update" /\ q.pc \in InTx
      /\ q.body \in Bodies /\ AssertPublishRange(q.body) /\ AssertImageKeys(q.body, q.e, {q.e})
      /\ q.body.cats # Keep
  BY <1>1 DEF Placed, Updating, InTx
<1>3. links[q.e] \in SUBSET Categories
  BY <1>1, <1>2 DEF TypeOK
<1>4. /\ y \in Request /\ y.kind = q.kind /\ y.e = q.e /\ y.body = q.body /\ y.dels = {}
      /\ y.ins = {}
      /\ y.dead = {} /\ y.turned = q.turned /\ y.doomed = links[q.e]
  BY <1>1, <1>2, <1>3 DEF Request
<1>5. Becomes(r, p)
  BY DEF TxDelete
<1> HIDE DEF y
<1>6. /\ p \in Request /\ p.pc = "deleting" /\ p.kind = q.kind /\ p.e = q.e /\ p.body = q.body
      /\ p.dels = {} /\ p.ins = {} /\ p.dead = {} /\ p.turned = q.turned /\ p.doomed = links[q.e]
  BY <1>4, AtFields
<1> HIDE DEF p
<1>7. Placed(p)
  BY <1>2, <1>6 DEF Placed, Creating, Updating, InTx
<1>8. Grounded(p, stored)
  BY <1>1, <1>2, <1>6 DEF Grounded, Creating, InTx
<1>9. Moves(q, p, stored) /\ p.pc \in InTx
  BY <1>2, <1>6, <1>7, <1>8 DEF Moves, InTx
<1>10. \A c \in Charities \ mixed : Replaces(r, c) => p.doomed = links[c]
  BY <1>6 DEF Replaces
<1> QED BY <1>2, <1>5, <1>6, <1>9, <1>10, InsideStep DEF TxDelete

LEMMA TxDeletedStep ==
  ASSUME Inv, NEW r \in Requests, TxDeleted(r)
  PROVE  Inv'
<1> DEFINE q == req[r]
           y == [q EXCEPT !.dels = q.doomed \cap links[q.e], !.doomed = {}]
           next == IF q.body.cats = <<>> THEN "commit" ELSE "insert"
           p == At(y, next)
<1>1. /\ q \in Request /\ Placed(q) /\ Grounded(q, stored) /\ q.dead = {} /\ q.pc = "deleting"
      /\ TypeOK
  BY Here DEF TxDeleted
<1>2. /\ q.e \in Charities /\ q.ins = {} /\ q.kind = "update" /\ q.pc \in InTx
      /\ q.body \in Bodies /\ AssertPublishRange(q.body) /\ AssertImageKeys(q.body, q.e, {q.e})
      /\ q.body.cats # Keep
  BY <1>1 DEF Placed, Updating, InTx
<1>3. q.doomed \cap links[q.e] \in SUBSET Categories
  BY <1>1, <1>2 DEF TypeOK
<1>4. /\ y \in Request /\ y.kind = q.kind /\ y.e = q.e /\ y.body = q.body /\ y.ins = {}
      /\ y.dels = q.doomed \cap links[q.e] /\ y.dead = {} /\ y.turned = q.turned
  BY <1>1, <1>2, <1>3 DEF Request
<1>5. Becomes(r, p)
  BY DEF TxDeleted
<1>6. next \in {"commit", "insert"} /\ (next = "commit" => q.body.cats = <<>>)
  OBVIOUS
<1> HIDE DEF y, next
<1>7. /\ p \in Request /\ p.pc = next /\ p.kind = q.kind /\ p.e = q.e /\ p.body = q.body
      /\ p.dels = q.doomed \cap links[q.e] /\ p.ins = {} /\ p.dead = {} /\ p.turned = q.turned
  BY <1>4, <1>6, AtFields
<1> HIDE DEF p
<1>8. Placed(p)
  BY <1>2, <1>6, <1>7 DEF Placed, Creating, Updating, InTx
<1>9. Grounded(p, stored)
  BY <1>1, <1>2, <1>6, <1>7 DEF Grounded, Creating, InTx
<1>10. Moves(q, p, stored) /\ p.pc \in InTx
  BY <1>2, <1>6, <1>7, <1>8, <1>9 DEF Moves, InTx
<1>11. ToSet(<<>>) = {}
  BY DEF ToSet
<1>12. \A c \in Charities \ mixed : Replaces(r, c) /\ ReplaceAlone(r, c) =>
         /\ p.dels = links[c]
         /\ p.pc = "commit" => p.ins = ToSet(p.body.cats)
  BY <1>1, <1>6, <1>7, <1>11 DEF Replaces, ReplaceAlone
<1>13. p.pc # "deleting"
  BY <1>6, <1>7
<1> QED BY <1>2, <1>5, <1>7, <1>10, <1>12, <1>13, InsideStep DEF TxDeleted

LEMMA TxInsertStep ==
  ASSUME Inv, NEW r \in Requests, TxInsert(r)
  PROVE  Inv'
<1> DEFINE q == req[r]
           c == q.e
           wanted == ToSet(q.body.cats)
<1>1. /\ q \in Request /\ Placed(q) /\ Grounded(q, stored) /\ q.dead = {} /\ q.pc = "insert"
      /\ TypeOK
      /\ RowsInv /\ LockInv /\ StampsAudited /\ req \in [Requests -> Request]
  BY Here DEF TxInsert
<1>2. /\ c \in Charities /\ q.ins = {} /\ q.kind = "update" /\ q.pc \in InTx
      /\ q.body \in Bodies /\ AssertPublishRange(q.body) /\ AssertImageKeys(q.body, c, {c})
      /\ q.body.cats # Keep
  BY <1>1 DEF Placed, Updating, InTx
<1>3. wanted \in SUBSET Categories
  BY <1>1, <1>2, CatsType DEF Updating
<1>4. UNCHANGED <<stored, links, audited, torn, loose, adopted, mixed, replaced>>
  BY DEF TxInsert
<1>5. CASE wanted \cap (links[c] \ q.dels) = {}
  <2> DEFINE y == [q EXCEPT !.ins = wanted]
             p == At(y, "commit")
  <2>1. Becomes(r, p) /\ UNCHANGED lock
    BY <1>5 DEF TxInsert
  <2>2. /\ y \in Request /\ y.kind = q.kind /\ y.e = c /\ y.body = q.body /\ y.ins = wanted
        /\ y.dels = q.dels /\ y.dead = {} /\ y.turned = q.turned
    BY <1>1, <1>3 DEF Request
  <2> HIDE DEF y
  <2>3. /\ p \in Request /\ p.pc = "commit" /\ p.kind = q.kind /\ p.e = c /\ p.body = q.body
        /\ p.dels = q.dels /\ p.ins = wanted /\ p.dead = {} /\ p.turned = q.turned
    BY <2>2, AtFields
  <2> HIDE DEF p
  <2>4. Placed(p)
    BY <1>2, <2>3 DEF Placed, Creating, Updating, InTx
  <2>5. Grounded(p, stored)
    BY <1>1, <1>2, <2>3 DEF Grounded, Creating, InTx
  <2>6. Moves(q, p, stored) /\ p.pc \in InTx
    BY <1>2, <2>3, <2>4, <2>5 DEF Moves, InTx
  <2>7. \A x \in Charities \ mixed : Replaces(r, x) /\ ReplaceAlone(r, x) =>
          p.dels = links[x] /\ p.ins = ToSet(p.body.cats)
    BY <1>1, <2>3 DEF ReplaceAlone
  <2>8. p.pc # "deleting"
    BY <2>3
  <2> QED BY <1>2, <1>4, <2>1, <2>3, <2>6, <2>7, <2>8, InsideStep
<1>6. CASE wanted \cap (links[c] \ q.dels) # {}
  <2> DEFINE p == Answered(q, "conflict")
  <2>1. /\ Becomes(r, p)
        /\ lock' = IF lock[c] = r THEN [lock EXCEPT ![c] = NULL] ELSE lock
    BY <1>6 DEF TxInsert
  <2>2. Moves(q, p, stored) /\ p.pc = "done"
    BY <1>1, AnsweredMoves
  <2> HIDE DEF p
  <2>3. req' \in [Requests -> Request] /\ RowsInv'
    BY <1>1, <1>4, <2>1, <2>2, RowsMove
  <2>4. lock' = [x \in Charities |-> IF lock[x] = r THEN NULL ELSE lock[x]]
    BY <1>1, <2>1, ReleasedHere DEF TypeOK
  <2>5. p.pc \notin InTx
    BY <2>2 DEF InTx
  <2>6. LockInv' /\ LinksInv' /\ lock' \in [Charities -> Requests \cup {NULL}]
    BY <1>4, <2>1, <2>4, <2>5, EndStep
  <2>7. TypeOK'
    BY <1>1, <1>4, <2>3, <2>6 DEF TypeOK
  <2>8. \A s \in Requests, x \in Entities, g \in Fields, b \in BOOLEAN :
          Owes(req'[s], x, g, b) <=> Owes(req[s], x, g, b)
    BY <1>1, <2>1, <2>2 DEF Owes, Becomes
  <2>9. StampsAudited'
    BY <1>1, <1>4, <2>8, AuditStays
  <2> QED BY <2>3, <2>6, <2>7, <2>9 DEF Inv
<1> QED BY <1>5, <1>6

LEMMA TxCommitStep ==
  ASSUME Inv, NEW r \in Requests, TxCommit(r)
  PROVE  Inv'
<1> DEFINE q == req[r]
           c == q.e
           y == [q EXCEPT !.dels = {}, !.ins = {}, !.dead = NotLive(q.ins) \ q.turned]
           p == At(y, "audit")
<1>1. /\ q \in Request /\ Placed(q) /\ Grounded(q, stored) /\ q.dead = {} /\ q.pc = "commit"
      /\ TypeOK
      /\ RowsInv /\ LockInv /\ LinksInv /\ req \in [Requests -> Request]
  BY Here DEF TxCommit
<1>2. /\ c \in Charities /\ q.kind = "update" /\ q.pc \in InTx
      /\ q.body.cats = Keep => q.dels = {} /\ q.ins = {}
  BY <1>1 DEF Placed, Updating, InTx
<1>3. NotLive(q.ins) \ q.turned = {}
  BY <1>1 DEF Grounded, NotLive, Live, LiveIn
<1>4. /\ Becomes(r, p) /\ UNCHANGED <<audited, torn, mixed>> /\ WriteRow(c, q.body)
      /\ links' = [links EXCEPT ![c] = Replaced(links[c], q.dels, q.ins)]
      /\ replaced' = IF q.body.cats = Keep THEN replaced
                     ELSE [replaced EXCEPT ![c] = ToSet(q.body.cats)]
      /\ lock' = IF lock[c] = r THEN [lock EXCEPT ![c] = NULL] ELSE lock
  BY DEF TxCommit
<1>5. /\ y \in Request /\ y.kind = q.kind /\ y.e = c /\ y.dels = {} /\ y.ins = {} /\ y.dead = {}
  BY <1>1, <1>3 DEF Request
<1> HIDE DEF y
<1>6. /\ p \in Request /\ p.pc = "audit" /\ p.kind = q.kind /\ p.e = c
      /\ p.dels = {} /\ p.ins = {} /\ p.dead = {}
  BY <1>5, AtFields
<1> HIDE DEF p
<1>7. /\ req' \in [Requests -> Request] /\ stored' \in [Entities -> StoredRow]
      /\ loose' \subseteq Rows /\ adopted' \subseteq Rows /\ RowsInv' /\ StampsAudited'
  BY <1>1, <1>4, <1>6, WriteStep
<1>8. p.pc \notin InTx
  BY <1>6 DEF InTx
<1>9. lock' = [x \in Charities |-> IF lock[x] = r THEN NULL ELSE lock[x]]
  BY <1>1, <1>4, ReleasedHere DEF TypeOK
<1>10. LockInv' /\ lock' \in [Charities -> Requests \cup {NULL}]
  BY <1>4, <1>8, <1>9, EndStep
<1>11. links' \in [Charities -> SUBSET Categories] /\ replaced' \in [Charities -> SUBSET Categories]
  <2>1. Replaced(links[c], q.dels, q.ins) \subseteq Categories
    BY <1>1, <1>2 DEF Replaced, Request, TypeOK
  <2>2. q.body.cats # Keep => ToSet(q.body.cats) \subseteq Categories
    BY <1>1, <1>2, CatsType DEF Updating
  <2> QED BY <1>1, <1>4, <2>1, <2>2 DEF TypeOK
<1>12. TypeOK'
  BY <1>1, <1>4, <1>7, <1>10, <1>11 DEF TypeOK
<1>13. LinksInv'
  <2>1. \A s \in Requests : req'[s] = IF s = r THEN p ELSE req[s]
    BY <1>1, <1>4 DEF Becomes
  <2>2. \A x \in Charities, s \in Requests : Replaces(s, x)' => s # r /\ Replaces(s, x)
    BY <1>8, <2>1 DEF Replaces
  <2>3. \A x \in Charities \ {c} : links'[x] = links[x] /\ replaced'[x] = replaced[x]
    BY <1>1, <1>4 DEF TypeOK
  <2>4. CASE q.body.cats = Keep
    <3>1. links'[c] = links[c] /\ replaced' = replaced
      BY <1>1, <1>2, <1>4, <2>4 DEF Replaced, TypeOK
    <3>2. UNCHANGED <<links, mixed, replaced>>
      BY <1>1, <1>4, <2>3, <3>1, <1>11 DEF TypeOK
    <3> QED BY <1>4, <1>8, <1>9, <3>2, EndStep
  <2>5. CASE q.body.cats # Keep
    <3>1. Replaces(r, c)
      BY <1>2, <2>5 DEF Replaces
    <3>2. c \notin mixed => ReplaceAlone(r, c)
      BY <1>1, <1>2, <3>1 DEF LinksInv
    <3>3. c \notin mixed => links'[c] = replaced'[c]
      BY <1>1, <1>2, <1>4, <2>5, <3>2 DEF ReplaceAlone, Replaced, TypeOK
    <3>4. LinksOneReplace'
      BY <1>1, <1>4, <2>3, <3>3 DEF LinksInv, LinksOneReplace
    <3>5. ASSUME NEW x \in Charities \ mixed', NEW s \in Requests, Replaces(s, x)'
          PROVE  ReplaceAlone(s, x)'
      <4>1. Replaces(s, x) /\ ReplaceAlone(s, x) /\ s # r
        BY <1>1, <1>4, <2>2, <3>5 DEF LinksInv
      <4>2. x # c
        BY <1>4, <3>1, <3>5, <4>1 DEF ReplaceAlone
      <4>3. links'[x] = links[x] /\ req'[s] = req[s]
        BY <2>1, <2>3, <4>1, <4>2
      <4>4. \A t \in Requests : Replaces(t, x)' => t = s
        BY <2>2, <4>1 DEF ReplaceAlone
      <4> QED BY <4>1, <4>3, <4>4 DEF ReplaceAlone
    <3> QED BY <3>4, <3>5 DEF LinksInv
  <2> QED BY <2>4, <2>5
<1> QED BY <1>7, <1>10, <1>12, <1>13 DEF Inv

-----------------------------------------------------------------------------
(* The invariant and what follows from it                                  *)

LEMMA InitHolds == Init => Inv
<1> SUFFICES ASSUME Init PROVE Inv
  OBVIOUS
<1>1. PICK there \in SUBSET Rows :
        stored = [e \in Entities |-> Blank(e \in there \cup Categories)]
  BY DEF Init
<1>2. stored \in [Entities -> StoredRow]
  BY <1>1 DEF Blank, StoredRow, Dates
<1>3. TypeOK
  BY <1>2, IdleType DEF Init, TypeOK
<1>4. \A r \in Requests : req[r] = Idle
  BY DEF Init
<1>5. \A q : q = Idle => Placed(q) /\ Grounded(q, stored) /\ q.dead = {} /\ q.kind = "none"
                         /\ q.pc = "idle"
  BY DEF Idle, Placed, Grounded, Creating, Updating, InTx
<1>6. \A e \in Rows : /\ stored[e].start = NULL /\ stored[e].end = NULL /\ stored[e].logo = NULL
  BY <1>1 DEF Blank, Entities
<1>7. RowsInv
  BY <1>4, <1>5, <1>6, SignedKeys, CatalogueAssumption
     DEF RowsInv, OneCreate, BlankUntilThere, WindowOrdered, LogosBound, LinksLiveUnlessRaced
<1>8. LockInv
  BY <1>4, <1>5 DEF Init, LockInv, InTx
<1>9. LinksInv
  BY <1>4, <1>5 DEF Init, LinksInv, LinksOneReplace, Replaces, InTx
<1>10. StampsAudited
  <2> SUFFICES ASSUME NEW e \in Entities, NEW f \in Fields
               PROVE  audited[e][f] + Cardinality(InAudit(e, f, TRUE))
                        - Cardinality(InAudit(e, f, FALSE)) = IF stored[e][f] THEN 1 ELSE 0
    BY DEF StampsAudited
  <2>1. InAudit(e, f, TRUE) = {} /\ InAudit(e, f, FALSE) = {}
    BY <1>4, <1>5 DEF InAudit
  <2>2. Cardinality(InAudit(e, f, TRUE)) = 0 /\ Cardinality(InAudit(e, f, FALSE)) = 0
    BY <2>1, FS_EmptySet
  <2>3. ~stored[e][f]
    BY <1>1 DEF Blank, Fields
  <2>4. audited[e][f] = 0
    BY DEF Init
  <2> DEFINE m == Cardinality(InAudit(e, f, TRUE))
             n == Cardinality(InAudit(e, f, FALSE))
             a == audited[e][f]
  <2>5. m = 0 /\ n = 0 /\ a = 0
    BY <2>2, <2>4
  <2> HIDE DEF m, n, a
  <2>6. a + m - n = 0
    BY <2>5
  <2> QED BY <2>3, <2>6 DEF m, n, a
<1> QED BY <1>3, <1>7, <1>8, <1>9, <1>10 DEF Inv

LEMMA NextHolds ==
  ASSUME Inv, [Next]_vars
  PROVE  Inv'
<1>1. CASE UNCHANGED vars
  <2>1. UNCHANGED <<stored, links, lock, req, audited, torn, loose, adopted, mixed, replaced>>
    BY <1>1 DEF vars
  <2>2. TypeOK'
    BY <2>1 DEF Inv, TypeOK
  <2>3. RowsInv'
    BY <2>1, SignedKeys DEF Inv, RowsInv, OneCreate, BlankUntilThere, WindowOrdered, LogosBound,
                            LinksLiveUnlessRaced
  <2>4. LockInv'
    BY <2>1 DEF Inv, LockInv
  <2>5. LinksInv'
    <3>1. \A s \in Requests : SameTx(req'[s], req[s])
      BY <2>1 DEF SameTx
    <3> QED BY <2>1, <3>1, LinksStay DEF Inv
  <2>6. StampsAudited'
    <3>1. \A s \in Requests, x \in Entities, g \in Fields, b \in BOOLEAN :
            Owes(req'[s], x, g, b) <=> Owes(req[s], x, g, b)
      BY <2>1
    <3> QED BY <2>1, <3>1, AuditStays DEF Inv
  <2> QED BY <2>2, <2>3, <2>4, <2>5, <2>6 DEF Inv
<1>2. ASSUME NEW r \in Requests, CharityWrites(r)
      PROVE  Inv'
  <2>1. ASSUME NEW c \in Charities, NEW body \in Bodies,
               CreateCharity(r, c, body) \/ UpdateCharity(r, c, body)
        PROVE  Inv'
    BY <2>1, CreateCharityStep, UpdateCharityStep
  <2>2. CASE CheckCategories(r)
    BY <2>2, CheckCategoriesStep
  <2>3. CASE CreateCommit(r)
    BY <2>3, CreateCommitStep
  <2>4. CASE TxUpdate(r)
    BY <2>4, TxUpdateStep
  <2>5. CASE TxDelete(r)
    BY <2>5, TxDeleteStep
  <2>6. CASE TxDeleted(r)
    BY <2>6, TxDeletedStep
  <2>7. CASE TxInsert(r)
    BY <2>7, TxInsertStep
  <2>8. CASE TxCommit(r)
    BY <2>8, TxCommitStep
  <2> QED BY <1>2, <2>1, <2>2, <2>3, <2>4, <2>5, <2>6, <2>7, <2>8 DEF CharityWrites
<1>3. ASSUME NEW r \in Requests, ChildWrites(r)
      PROVE  Inv'
  <2>1. ASSUME NEW p \in Projects, NEW body \in Bodies,
               CreateProject(r, p, body) \/ UpdateProject(r, p, body)
        PROVE  Inv'
    <3>1. p \in Children
      BY DEF Children
    <3> QED BY <2>1, <3>1, ChildCreateStep, ChildUpdateStep DEF CreateProject, UpdateProject
  <2>2. ASSUME NEW s \in SaleItems, NEW body \in Bodies,
               CreateSaleItem(r, s, body) \/ UpdateSaleItem(r, s, body)
        PROVE  Inv'
    <3>1. s \in Children
      BY DEF Children
    <3> QED BY <2>2, <3>1, ChildCreateStep, ChildUpdateStep DEF CreateSaleItem, UpdateSaleItem
  <2>3. ASSUME NEW c \in Charities, AssertParentCharityExists(r, c)
        PROVE  Inv'
    BY <2>3, ParentStep
  <2>4. CASE ChildFind(r)
    BY <2>4, ChildFindStep
  <2>5. CASE ChildWrite(r)
    BY <2>5, ChildWriteStep
  <2> QED BY <1>3, <2>1, <2>2, <2>3, <2>4, <2>5 DEF ChildWrites
<1>4. ASSUME NEW r \in Requests, CategoryWrites(r)
      PROVE  Inv'
  BY <1>4, UpdateCategoryStep, CategoryWriteStep DEF CategoryWrites
<1>5. ASSUME NEW r \in Requests, Lifecycle(r)
      PROVE  Inv'
  BY <1>5, LifecycleFindStep, StampStep, AuditStep DEF Lifecycle
<1>6. ASSUME NEW r \in Requests, Lose(r)
      PROVE  Inv'
  BY <1>6, LoseStep
<1> QED BY <1>1, <1>2, <1>3, <1>4, <1>5, <1>6 DEF Next

\* The invariant: what the rows, the row locks, the transactions that replace
\* links and the audit trail keep, however the admins' requests overlap and
\* wherever one is lost.
THEOREM InvCorrect == Spec => []Inv
<1>1. Init => Inv
  BY InitHolds
<1>2. Inv /\ [Next]_vars => Inv'
  BY NextHolds
<1> QED BY <1>1, <1>2, PTL DEF Spec

\* Rows, links, locks and requests keep the shape the writers give them.
THEOREM TypeCorrect == Spec => []TypeOK
<1>1. Inv => TypeOK
  BY DEF Inv
<1> QED BY <1>1, InvCorrect, PTL

\* Spec 020 6: only a PATCH that named one end of a publish window can leave it
\* running backwards.
THEOREM WindowCorrect == Spec => []WindowOrdered
<1>1. Inv => WindowOrdered
  BY DEF Inv, RowsInv
<1> QED BY <1>1, InvCorrect, PTL

\* A row shows images uploaded for it, or the one its POST brought along, and
\* the keys presign signs are the ones a PATCH of the row accepts.
THEOREM LogosCorrect == Spec => []LogosBound
<1>1. Inv => LogosBound
  BY DEF Inv, RowsInv
<1> QED BY <1>1, InvCorrect, PTL

\* No charity is linked to a category that was archived or deleted when the
\* request looked at it.
THEOREM LiveLinksCorrect == Spec => []LinksLiveUnlessRaced
<1>1. Inv => LinksLiveUnlessRaced
  BY DEF Inv, RowsInv
<1> QED BY <1>1, InvCorrect, PTL

\* Full replace: the categories of a charity are one request's, unless replaces
\* that no row lock ordered overlapped.
THEOREM ReplaceCorrect == Spec => []LinksOneReplace
<1>1. Inv => LinksOneReplace
  BY DEF Inv, LinksInv
<1> QED BY <1>1, InvCorrect, PTL

\* Spec 020 7.3 and 12: the audit trail of a stamp adds up to the stamp.
THEOREM StampsCorrect == Spec => []StampsAudited
<1>1. Inv => StampsAudited
  BY DEF Inv
<1> QED BY <1>1, InvCorrect, PTL

\* Keyset pagination: a walk through the pages of a list shows what the list has
\* once, in its order, and ends.  The walks are those of WalksCorrect.
THEOREM ListsWalkOnceCorrect == Spec => []ListsWalkOnce
<1>1. ListsWalkOnce
  BY EveryWalkOnceHolds DEF ListsWalkOnce
<1> QED BY <1>1, PTL

\* The public lists, the admin's and the details of a row have the same rows on
\* the same terms.  The catalogues are those of ListsAgreeOnAll.
THEOREM ListsAgreeCorrect == Spec => []ListsAgree
<1>1. ListsAgree
  BY EveryListAgreesHolds DEF ListsAgree
<1> QED BY <1>1, PTL

=============================================================================
