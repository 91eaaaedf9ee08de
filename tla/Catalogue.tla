------------------------------ MODULE Catalogue ------------------------------
(***************************************************************************)
(* The catalogue's admin writes (domain/donation-item/*-write.ts,          *)
(* lifecycle-actions.ts): creating and patching charities, projects and    *)
(* sale items, replacing a charity's categories, and the lifecycle stamps  *)
(* of all of them and of the categories.                                   *)
(*                                                                         *)
(* A step is one SQL statement with the synchronous code after it; only    *)
(* updateCharity runs several of them in one transaction, READ COMMITTED,  *)
(* so each sees what was committed before it and waits for rows that       *)
(* another open transaction has changed.  Texts, prices, displayOrder and  *)
(* the stamps' instants are left out, so that a PATCH of a category, which *)
(* has nothing else, only reads and audits; what a write does to the cache *)
(* is CatalogueCache's.                                                    *)
(***************************************************************************)
EXTENDS Integers, FiniteSets, SequencesExt, ObjectKeys, CatalogueLists

CONSTANTS
  Requests,   \* HTTP requests, each served once
  Charities, Projects, SaleItems, Categories,  \* ids of rows
  Bodies,     \* the bodies a POST or PATCH may carry: a bound for model checking
  Keep        \* a field that is not in the body

Children == Projects \cup SaleItems
Rows == Charities \cup Children
Entities == Rows \cup Categories
Fields == {"archived", "deleted"}
Dates == Nat \cup {NULL}

EntityOf(e) ==
  IF e \in Charities THEN "charities"
  ELSE IF e \in Projects THEN "donation-projects" ELSE "sale-items"

\* cats is a sequence of ids; other says that some further field is named.
Body == [start : Dates \cup {Keep}, end : Dates \cup {Keep},
         logo : [entity : STRING, id : Rows \cup {NoUuid}, purpose : Purposes, ext : STRING]
                \cup {NULL, Keep},
         cats : Seq(Categories) \cup {Keep}, other : BOOLEAN]

\* A field or a lock that is not there (NULL, of CatalogueLists) is none of those
\* there are.
ASSUME CatalogueAssumption ==
  /\ IsFiniteSet(Requests)
  /\ Bodies \subseteq Body
  /\ NULL \notin Nat \cup Requests

VARIABLES
  stored,   \* charities, projects, sale items and categories
  links,    \* charity_categories, committed
  lock,     \* the transaction that has updated the charity's row
  req,      \* one record per request, see Request
  audited,  \* history: audited sets less audited clears of each stamp
  torn,     \* history: rows with a change that was lost before its audit line
  loose,    \* history: rows patched with one end of the publish window only
  adopted,  \* history: rows created with another row's image
  mixed,    \* history: charities whose links two unordered replaces wrote
  replaced  \* history: the categories of the last replace of each charity

vars == <<stored, links, lock, req, audited, torn, loose, adopted, mixed, replaced>>

StoredRow == [there : BOOLEAN, archived : BOOLEAN, deleted : BOOLEAN, start : Dates, end : Dates,
              logo : ({b.logo : b \in Bodies} \ {Keep}) \cup {NULL}]

Live(k) == stored[k].there /\ ~stored[k].archived /\ ~stored[k].deleted

(* field, set: the stamp a lifecycle request sets or clears; dels, ins: the *)
(* links its open transaction has deleted and inserted, doomed: the ones    *)
(* its DELETE has found.  History: dead, categories linked while not live;  *)
(* turned, categories that ceased to be live since r looked.                *)
Request == [pc : {"idle", "cats", "create", "tx", "delete", "deleting", "insert", "commit",
                  "parent", "childInsert", "find", "childUpdate", "category", "stamp", "audit",
                  "done"},
            kind : {"none", "create", "update", "stamp"},
            answer : {"none", "ok", "range", "key", "category", "notFound", "conflict", "lost"},
            e : Entities \cup {NULL}, body : Bodies \cup {NULL},
            field : Fields, set : BOOLEAN,
            doomed : SUBSET Categories, dels : SUBSET Categories, ins : SUBSET Categories,
            dead : SUBSET Categories, turned : SUBSET Categories]

Idle == [pc |-> "idle", kind |-> "none", answer |-> "none", e |-> NULL, body |-> NULL,
         field |-> "archived", set |-> FALSE, doomed |-> {}, dels |-> {}, ins |-> {},
         dead |-> {}, turned |-> {}]

TypeOK ==
  /\ stored \in [Entities -> StoredRow]
  /\ links \in [Charities -> SUBSET Categories]
  /\ lock \in [Charities -> Requests \cup {NULL}]
  /\ req \in [Requests -> Request]
  /\ audited \in [Entities -> [Fields -> Int]]
  /\ torn \subseteq Entities /\ loose \subseteq Rows /\ adopted \subseteq Rows
  /\ mixed \subseteq Charities /\ replaced \in [Charities -> SUBSET Categories]

Blank(there) == [there |-> there, archived |-> FALSE, deleted |-> FALSE,
                 start |-> NULL, end |-> NULL, logo |-> NULL]

Init ==
  /\ \E there \in SUBSET Rows : stored = [e \in Entities |-> Blank(e \in there \cup Categories)]
  /\ links \in [Charities -> SUBSET Categories]
  /\ \A c \in Charities : ~stored[c].there => links[c] = {}
  /\ (\E e \in Children : stored[e].there) => \E c \in Charities : stored[c].there
  /\ lock = [c \in Charities |-> NULL]
  /\ req = [r \in Requests |-> Idle]
  /\ audited = [e \in Entities |-> [f \in Fields |-> 0]]
  /\ torn = {} /\ loose = {} /\ adopted = {} /\ mixed = {}
  /\ replaced = links

-----------------------------------------------------------------------------
(* Helpers                                                                 *)

Open(r) == req[r].pc = "idle"

Becomes(r, q) == req' = [req EXCEPT ![r] = q]

At(q, pc) == [q EXCEPT !.pc = pc]

Answered(q, answer) ==
  [q EXCEPT !.pc = "done", !.answer = answer, !.body = NULL, !.field = "archived", !.set = FALSE,
            !.doomed = {}, !.dels = {}, !.ins = {}, !.turned = {}]

Started(r, kind, e, body) == [req[r] EXCEPT !.kind = kind, !.e = e, !.body = body]

Unlocked(e) == e \in Charities => lock[e] = NULL

\* Faulty variant: a field that is not in the body is written as it is.
GivenAsIs(new, old) == new

Given(new, old) == IF new = Keep THEN old ELSE new

-----------------------------------------------------------------------------
(* What POST and PATCH check before the first await                        *)

\* Faulty variant: a window of no length passes.
AssertPublishRangeWeak(body) ==
  body.start \in {NULL, Keep} \/ body.end \in {NULL, Keep} \/ body.start <= body.end

\* Compared only when the body has both ends.
AssertPublishRange(body) ==
  body.start \in {NULL, Keep} \/ body.end \in {NULL, Keep} \/ body.start < body.end

AssertImageKeys(body, e, expectedIds) ==
  body.logo \in {NULL, Keep} \/ Acceptable(body.logo, EntityOf(e), expectedIds)

\* The answer to a refused body, or the first statement.
Checked(q, expectedIds, next) ==
  IF ~AssertPublishRange(q.body) THEN Answered(q, "range")
  ELSE IF ~AssertImageKeys(q.body, q.e, expectedIds) THEN Answered(q, "key")
  ELSE At(q, next)

\* The ids of rows being created are fresh.
Fresh(e) == ~stored[e].there /\ \A r \in Requests : req[r].e # e

Patched(old, body) ==
  [old EXCEPT !.there = TRUE, !.start = Given(body.start, @), !.end = Given(body.end, @),
              !.logo = Given(body.logo, @)]

\* Who is still answerable for the ends of e's window, and for its image.
LooseAfter(e, body) ==
  IF ~stored[e].there \/ Keep \notin {body.start, body.end} THEN loose \ {e}
  ELSE IF {body.start, body.end} = {Keep} THEN loose ELSE loose \cup {e}

AdoptedAfter(e, body) ==
  IF body.logo = Keep THEN adopted
  ELSE IF body.logo # NULL /\ ~stored[e].there /\ body.logo.id # e THEN adopted \cup {e}
  ELSE adopted \ {e}

WriteRow(e, body) ==
  /\ stored' = [stored EXCEPT ![e] = Patched(@, body)]
  /\ loose' = LooseAfter(e, body)
  /\ adopted' = AdoptedAfter(e, body)

-----------------------------------------------------------------------------
(* createCharity and updateCharity                                         *)

CreateCharity(r, c, body) ==
  /\ Open(r) /\ Fresh(c)
  /\ Becomes(r, Checked(Started(r, "create", c, body), Rows,
                        IF body.cats \in {Keep, <<>>} THEN "create" ELSE "cats"))
  /\ UNCHANGED <<stored, links, lock, audited, torn, loose, adopted, mixed, replaced>>

UpdateCharity(r, c, body) ==
  /\ Open(r)
  /\ Becomes(r, Checked(Started(r, "update", c, body), {c},
                        IF body.cats \in {Keep, <<>>} THEN "tx" ELSE "cats"))
  /\ UNCHANGED <<stored, links, lock, audited, torn, loose, adopted, mixed, replaced>>

\* Faulty variant: an id is good if its category exists.
AssertCategoriesExist(cats) == Cardinality(ToSet(cats) \cap Categories) = Len(cats)

\* As many live rows found as ids given: an id given twice is refused too.
AssertCategoriesLive(cats) == Cardinality({k \in ToSet(cats) : Live(k)}) = Len(cats)

CheckCategories(r) ==
  /\ req[r].pc = "cats"
  /\ Becomes(r, IF AssertCategoriesLive(req[r].body.cats)
                THEN At(req[r], IF req[r].kind = "create" THEN "create" ELSE "tx")
                ELSE Answered(req[r], "category"))
  /\ UNCHANGED <<stored, links, lock, audited, torn, loose, adopted, mixed, replaced>>

NotLive(ks) == {k \in ks : ~Live(k)}

\* The transaction of createCharity: no other one can see its rows before it
\* commits.
CreateCommit(r) ==
  /\ req[r].pc = "create"
  /\ LET c    == req[r].e
         cats == IF req[r].body.cats = Keep THEN {} ELSE ToSet(req[r].body.cats)
     IN  /\ WriteRow(c, req[r].body)
         /\ links' = [links EXCEPT ![c] = cats]
         /\ replaced' = [replaced EXCEPT ![c] = cats]
         /\ Becomes(r, At([req[r] EXCEPT !.dead = NotLive(cats) \ req[r].turned], "audit"))
  /\ UNCHANGED <<lock, audited, torn, mixed>>

\* Besides its categories the body names a column of the row.
NamesColumns(body) == body.other \/ {body.start, body.end, body.logo} # {Keep}

\* Faulty variant: the row is updated after the links are replaced.
NeverLocks(body) == {FALSE}

\* An UPDATE locks the row.  With nothing to set, Prisma may send none.
Locks(body) == IF NamesColumns(body) THEN {TRUE} ELSE BOOLEAN

\* Other transactions replacing the links of c.
Replacing(r, c) ==
  {s \in Requests \ {r} : /\ req[s].e = c
                          /\ req[s].pc \in {"delete", "deleting", "insert", "commit"}
                          /\ req[s].body.cats # Keep}

\* findUnique and update; history: a replace that no row lock orders overlaps.
TxUpdate(r) ==
  /\ req[r].pc = "tx"
  /\ LET c == req[r].e
         q == req[r]
     IN  \/ /\ ~stored[c].there
            /\ Becomes(r, Answered(q, "notFound"))
            /\ UNCHANGED <<lock, mixed>>
         \/ /\ stored[c].there
            /\ \E locks \in Locks(q.body) :
                 /\ locks => lock[c] = NULL
                 /\ lock' = IF locks THEN [lock EXCEPT ![c] = r] ELSE lock
            /\ mixed' = IF /\ q.body.cats # Keep
                           /\ \E s \in Replacing(r, c) :
                                ~NamesColumns(q.body) \/ ~NamesColumns(req[s].body)
                        THEN mixed \cup {c} ELSE mixed
            /\ Becomes(r, At(q, IF q.body.cats = Keep THEN "commit" ELSE "delete"))
  /\ UNCHANGED <<stored, links, audited, torn, loose, adopted, replaced>>

\* deleteMany takes the links committed when it starts ...
TxDelete(r) ==
  /\ req[r].pc = "delete"
  /\ Becomes(r, At([req[r] EXCEPT !.doomed = links[req[r].e]], "deleting"))
  /\ UNCHANGED <<stored, links, lock, audited, torn, loose, adopted, mixed, replaced>>

\* ... waits for those another transaction is deleting, and passes over the
\* ones that are gone then.
TxDeleted(r) ==
  /\ req[r].pc = "deleting"
  /\ \A s \in Replacing(r, req[r].e) : req[s].dels \cap req[r].doomed = {}
  /\ Becomes(r, At([req[r] EXCEPT !.dels = req[r].doomed \cap links[req[r].e], !.doomed = {}],
                   IF req[r].body.cats = <<>> THEN "commit" ELSE "insert"))
  /\ UNCHANGED <<stored, links, lock, audited, torn, loose, adopted, mixed, replaced>>

\* createMany waits for links another transaction has inserted or deleted; one
\* that is there afterwards is a duplicate key, and the transaction rolls back.
TxInsert(r) ==
  /\ req[r].pc = "insert"
  /\ LET c      == req[r].e
         wanted == ToSet(req[r].body.cats)
     IN  /\ \A s \in Replacing(r, c) : (req[s].ins \cup req[s].dels) \cap wanted = {}
         /\ \/ /\ wanted \cap (links[c] \ req[r].dels) = {}
               /\ Becomes(r, At([req[r] EXCEPT !.ins = wanted], "commit"))
               /\ UNCHANGED lock
            \/ /\ wanted \cap (links[c] \ req[r].dels) # {}
               /\ Becomes(r, Answered(req[r], "conflict"))
               /\ lock' = IF lock[c] = r THEN [lock EXCEPT ![c] = NULL] ELSE lock
  /\ UNCHANGED <<stored, links, audited, torn, loose, adopted, mixed, replaced>>

\* Faulty variant: the new links join the old ones.
Relinked(old, dels, ins) == old \cup ins

Replaced(old, dels, ins) == (old \ dels) \cup ins

\* loadHydrated and the commit
TxCommit(r) ==
  /\ req[r].pc = "commit"
  /\ LET c == req[r].e
         q == req[r]
     IN  /\ WriteRow(c, q.body)
         /\ links' = [links EXCEPT ![c] = Replaced(@, q.dels, q.ins)]
         /\ replaced' = IF q.body.cats = Keep THEN replaced
                        ELSE [replaced EXCEPT ![c] = ToSet(q.body.cats)]
         /\ lock' = IF lock[c] = r THEN [lock EXCEPT ![c] = NULL] ELSE lock
         /\ Becomes(r, At([q EXCEPT !.dels = {}, !.ins = {}, !.dead = NotLive(q.ins) \ q.turned],
                          "audit"))
  /\ UNCHANGED <<audited, torn, mixed>>

-----------------------------------------------------------------------------
(* Projects and sale items: no transaction, the row's statements one by one *)

ChildStarts(r, kind, e, body, expectedIds, next) ==
  /\ Open(r)
  /\ Becomes(r, Checked(Started(r, kind, e, body), expectedIds, next))
  /\ UNCHANGED <<stored, links, lock, audited, torn, loose, adopted, mixed, replaced>>

CreateProject(r, p, body) == Fresh(p) /\ ChildStarts(r, "create", p, body, Rows, "parent")

UpdateProject(r, p, body) == ChildStarts(r, "update", p, body, {p}, "find")

CreateSaleItem(r, s, body) == Fresh(s) /\ ChildStarts(r, "create", s, body, Rows, "parent")

UpdateSaleItem(r, s, body) == ChildStarts(r, "update", s, body, {s}, "find")

\* An archived or deleted charity will do, as long as it is there.
AssertParentCharityExists(r, c) ==
  /\ req[r].pc = "parent"
  /\ Becomes(r, IF stored[c].there THEN At(req[r], "childInsert") ELSE Answered(req[r], "notFound"))
  /\ UNCHANGED <<stored, links, lock, audited, torn, loose, adopted, mixed, replaced>>

ChildFind(r) ==
  /\ req[r].pc = "find"
  /\ Becomes(r, IF stored[req[r].e].there THEN At(req[r], "childUpdate")
                                       ELSE Answered(req[r], "notFound"))
  /\ UNCHANGED <<stored, links, lock, audited, torn, loose, adopted, mixed, replaced>>

ChildWrite(r) ==
  /\ req[r].pc \in {"childInsert", "childUpdate"}
  /\ WriteRow(req[r].e, req[r].body)
  /\ Becomes(r, At(req[r], "audit"))
  /\ UNCHANGED <<links, lock, audited, torn, mixed, replaced>>

-----------------------------------------------------------------------------
(* Categories: no create, the keys are constants of the program            *)

UpdateCategory(r, k) ==
  /\ Open(r)
  /\ LET q == Started(r, "update", k, NULL)
     IN  Becomes(r, IF stored[k].there THEN At(q, "category") ELSE Answered(q, "notFound"))
  /\ UNCHANGED <<stored, links, lock, audited, torn, loose, adopted, mixed, replaced>>

\* The name and the place among the others, of which the model keeps nothing.
CategoryWrite(r) ==
  /\ req[r].pc = "category"
  /\ Becomes(r, At(req[r], "audit"))
  /\ UNCHANGED <<stored, links, lock, audited, torn, loose, adopted, mixed, replaced>>

-----------------------------------------------------------------------------
(* Lifecycle stamps                                                        *)

\* The route's existence check; for a child it reads the charity's id as well.
LifecycleFind(r, e, field, set) ==
  /\ Open(r)
  /\ LET q == [Started(r, "stamp", e, NULL) EXCEPT !.field = field, !.set = set]
     IN  Becomes(r, IF stored[e].there THEN At(q, "stamp") ELSE Answered(q, "notFound"))
  /\ UNCHANGED <<stored, links, lock, audited, torn, loose, adopted, mixed, replaced>>

\* Faulty variant: the stamp is written whatever it is.
StampsAlways(old, set) == TRUE

\* WHERE stamp IS (NOT) NULL: does the updateMany count a row?
Stamps(old, set) == old # set

ApplyLifecycleStamp(r) ==
  /\ req[r].pc = "stamp"
  /\ LET e == req[r].e
         q == req[r]
     IN  /\ Unlocked(e)
         /\ \/ /\ ~Stamps(stored[e][q.field], q.set)
               /\ Becomes(r, Answered(q, "ok"))
               /\ UNCHANGED stored
            \/ /\ Stamps(stored[e][q.field], q.set)
               /\ stored' = [stored EXCEPT ![e][q.field] = q.set]
               /\ req' = [s \in Requests |->
                            IF s = r THEN At(q, "audit")
                            ELSE IF e \in Categories /\ q.set /\ req[s].pc \notin {"idle", "done"}
                            THEN [req[s] EXCEPT !.turned = @ \cup {e}]
                            ELSE req[s]]
  /\ UNCHANGED <<links, lock, audited, torn, loose, adopted, mixed, replaced>>

\* invalidateDonationEntity, the audit line and the answer, for every write.
Audit(r) ==
  /\ req[r].pc = "audit"
  /\ audited' = IF req[r].kind # "stamp" THEN audited
                ELSE [audited EXCEPT ![req[r].e][req[r].field] =
                        IF req[r].set THEN @ + 1 ELSE @ - 1]
  /\ Becomes(r, Answered(req[r], "ok"))
  /\ UNCHANGED <<stored, links, lock, torn, loose, adopted, mixed, replaced>>

\* The database fails under r, or its process dies: an open transaction rolls
\* back, what was committed stays.
Lose(r) ==
  /\ req[r].pc \notin {"idle", "done"}
  /\ Becomes(r, Answered(req[r], "lost"))
  /\ lock' = [c \in Charities |-> IF lock[c] = r THEN NULL ELSE lock[c]]
  /\ torn' = IF req[r].kind = "stamp" /\ req[r].pc = "audit" THEN torn \cup {req[r].e} ELSE torn
  /\ UNCHANGED <<stored, links, audited, loose, adopted, mixed, replaced>>

-----------------------------------------------------------------------------
CharityWrites(r) ==
  \/ \E c \in Charities, body \in Bodies : CreateCharity(r, c, body) \/ UpdateCharity(r, c, body)
  \/ CheckCategories(r) \/ CreateCommit(r)
  \/ TxUpdate(r) \/ TxDelete(r) \/ TxDeleted(r) \/ TxInsert(r) \/ TxCommit(r)

\* The body of a child has no categories.
ChildWrites(r) ==
  \/ \E p \in Projects, body \in {b \in Bodies : b.cats = Keep} :
       CreateProject(r, p, body) \/ UpdateProject(r, p, body)
  \/ \E s \in SaleItems, body \in {b \in Bodies : b.cats = Keep} :
       CreateSaleItem(r, s, body) \/ UpdateSaleItem(r, s, body)
  \/ \E c \in Charities : AssertParentCharityExists(r, c)
  \/ ChildFind(r) \/ ChildWrite(r)

CategoryWrites(r) == (\E k \in Categories : UpdateCategory(r, k)) \/ CategoryWrite(r)

Lifecycle(r) ==
  \/ \E e \in Entities, field \in Fields, set \in BOOLEAN : LifecycleFind(r, e, field, set)
  \/ ApplyLifecycleStamp(r) \/ Audit(r)

Next ==
  \E r \in Requests :
    CharityWrites(r) \/ ChildWrites(r) \/ CategoryWrites(r) \/ Lifecycle(r) \/ Lose(r)

Spec == Init /\ [][Next]_vars

-----------------------------------------------------------------------------
(* Properties                                                              *)

\* Spec 020 6, the window begins before it ends: broken only by a PATCH that
\* named one end, which was compared with nothing, however the writes overlap.
WindowOrdered ==
  \A e \in Rows :
    stored[e].start \in Nat /\ stored[e].end \in Nat /\ stored[e].start >= stored[e].end
      => e \in loose

\* A row shows only images uploaded for it: a PATCH accepts the key signed for
\* its row and no other, so another row's image is one the POST brought along.
LogosBound ==
  /\ SignedKeysFit
  /\ \A e \in Rows : stored[e].logo # NULL =>
       /\ stored[e].logo.entity = EntityOf(e)
       /\ stored[e].logo.id = e \/ e \in adopted

\* A category that was not live when a charity was linked to it had been when
\* the request looked: the check is outside the transaction, never left out.
LinksLiveUnlessRaced == \A r \in Requests : req[r].dead = {}

\* Full replace: a charity has the categories of the last PATCH that named any,
\* none of an earlier one's, unless replaces without a row lock overlapped.
LinksOneReplace == \A c \in Charities : links[c] = replaced[c] \/ c \in mixed

InAudit(e, f, set) ==
  {r \in Requests : req[r].pc = "audit" /\ req[r].kind = "stamp" /\ req[r].e = e
                    /\ req[r].field = f /\ req[r].set = set}

\* Spec 020 7.3 and 12, a stamp changes once however many requests want it, and
\* every change has its audit line, a no-op none: the trail adds up to the row.
StampsAudited ==
  \A e \in Entities \ torn, f \in Fields :
    audited[e][f] + Cardinality(InAudit(e, f, TRUE)) - Cardinality(InAudit(e, f, FALSE))
      = IF stored[e][f] THEN 1 ELSE 0

\* What is in the catalogue is shown once in a walk through its pages.  A few
\* requests write few of the tables a reader may meet, so module CatalogueLists,
\* which says what a read shows of them, tries its own.
ListsWalkOnce == (\E e \in Rows : stored[e].there) => EveryWalkOnce

\* What is in the catalogue is public, in the admin's lists and in the detail
\* pages on the same terms, for every combination of stamps and windows.
ListsAgree == (\E e \in Rows : stored[e].there) => EveryListAgrees

-----------------------------------------------------------------------------
(* The inductive invariant behind the properties above.                    *)

Creating == {"create", "parent", "childInsert"}
InTx == {"delete", "deleting", "insert", "commit"}
Updating == {"tx", "find", "childUpdate"} \cup InTx

\* What a request at each point of its handler knows of itself.
Placed(q) ==
  /\ q.pc = "idle" => q = Idle
  /\ q.pc \in {"cats", "create", "tx"} \cup InTx => q.e \in Charities
  /\ q.pc \in {"parent", "childInsert", "find", "childUpdate"} => q.e \in Children
  /\ q.pc \in {"cats"} \cup Creating \cup Updating =>
       /\ q.body \in Bodies /\ q.kind \in {"create", "update"}
       /\ AssertPublishRange(q.body)
       /\ AssertImageKeys(q.body, q.e, IF q.kind = "create" THEN Rows ELSE {q.e})
  /\ q.pc \in Creating => q.kind = "create"
  /\ q.pc \in Updating => q.kind = "update"
  /\ q.pc \in {"cats", "delete", "deleting", "insert"} => q.body.cats # Keep
  /\ q.pc = "category" => q.e \in Categories /\ q.kind = "update"
  /\ q.pc = "stamp" => q.e \in Entities /\ q.kind = "stamp"
  /\ q.pc = "audit" => q.e \in Entities
  /\ q.pc \notin {"insert", "commit"} => q.dels = {}
  /\ q.pc # "commit" => q.ins = {}
  /\ q.pc = "commit" /\ q.body.cats = Keep => q.dels = {} /\ q.ins = {}

LiveIn(rows, k) == rows[k].there /\ ~rows[k].archived /\ ~rows[k].deleted

\* What q knows of the rows, whatever the other requests do.
Grounded(q, rows) ==
  /\ q.pc \in InTx \cup {"childUpdate"} => rows[q.e].there
  /\ q.kind = "create" /\ q.pc \in {"cats"} \cup Creating => ~rows[q.e].there
  /\ q.pc \in {"create", "tx", "delete", "deleting", "insert"} /\ q.body.cats # Keep =>
       \A k \in ToSet(q.body.cats) : LiveIn(rows, k) \/ k \in q.turned
  /\ q.pc = "commit" => \A k \in q.ins : LiveIn(rows, k) \/ k \in q.turned

\* No two creates are for one row, and a row not there yet is blank.
OneCreate ==
  \A r, s \in Requests :
    req[r].kind = "create" /\ req[s].kind = "create" /\ req[r].e = req[s].e => r = s

BlankUntilThere ==
  \A e \in Rows : ~stored[e].there =>
    stored[e].start = NULL /\ stored[e].end = NULL /\ stored[e].logo = NULL

RowsInv ==
  /\ \A r \in Requests : Placed(req[r]) /\ Grounded(req[r], stored)
  /\ OneCreate /\ BlankUntilThere
  /\ WindowOrdered /\ LogosBound /\ LinksLiveUnlessRaced

\* The row lock is held from the UPDATE to the end of the transaction.
LockInv ==
  /\ \A c \in Charities : lock[c] # NULL => req[lock[c]].e = c /\ req[lock[c]].pc \in InTx
  /\ \A r \in Requests :
       req[r].pc \in InTx /\ NamesColumns(req[r].body) => lock[req[r].e] = r

\* r is replacing the links of c.
Replaces(r, c) == req[r].e = c /\ req[r].pc \in InTx /\ req[r].body.cats # Keep

\* A replace that was always alone has seen, and will delete, all there are.
ReplaceAlone(r, c) ==
  /\ \A s \in Requests : Replaces(s, c) => s = r
  /\ req[r].pc = "deleting" => req[r].doomed = links[c]
  /\ req[r].pc \in {"insert", "commit"} => req[r].dels = links[c]
  /\ req[r].pc = "commit" => req[r].ins = ToSet(req[r].body.cats)

LinksInv ==
  /\ LinksOneReplace
  /\ \A c \in Charities \ mixed, r \in Requests : Replaces(r, c) => ReplaceAlone(r, c)

Inv == TypeOK /\ RowsInv /\ LockInv /\ LinksInv /\ StampsAudited

=============================================================================
