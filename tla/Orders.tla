------------------------------- MODULE Orders -------------------------------
(***************************************************************************)
(* The order component (src/domain/order) under concurrent HTTP requests.  *)
(*                                                                         *)
(* Each request runs one service function.  A step of the model is one     *)
(* database statement together with the synchronous code after it: the     *)
(* points between steps are the awaits, where other requests interleave.   *)
(* PostgreSQL runs the transactions at READ COMMITTED, and every           *)
(* transaction here ends with its only write, so a write and its commit    *)
(* are one step while a read and the write that follows it are two.        *)
(*                                                                         *)
(* Names: `donor' stands for donorName, isAnonymous and note, which are    *)
(* treated alike; a timestamp column is TRUE when set and FALSE when null; *)
(* ABSENT is `undefined' (the field is not in the PATCH body), NULL null.  *)
(***************************************************************************)
EXTENDS Naturals, FiniteSets, NextCharge

CONSTANTS
  OrderIds,      \* the UUIDs the database will hand out
  Requests,      \* HTTP requests, each served once
  Charities, Projects, SaleItems,   \* the catalogue's entities
  CharityOf,     \* the charity that owns a project or a sale item
  Prices,        \* values of SaleItem.priceTwd
  Donors, Receipts,
  DonationBodies, PurchaseBodies,   \* POST bodies the create routes receive
  UserPatches, AdminPatches,        \* PATCH bodies the two routes receive
  StoredOrders,  \* rows that may already be in the table at the start
  NULL, ABSENT

Subjects == Charities \cup Projects \cup SaleItems
OrderStatus == {"PENDING", "PAID", "FAILED", "CANCELLED", "REFUNDED"}
Frequencies == {"ONE_TIME", "RECURRING", "NONE"}
QuantityMax == 100

Line == [subject: Subjects, quantity: Nat, unitPrice: Nat,
         frequency: Frequencies, billingDay: BOOLEAN]

Row == [line: Line, amount: Nat, nextChargeAt: BOOLEAN, donor: Donors,
        receipt: Receipts \cup {NULL}, status: OrderStatus,
        paidAt: BOOLEAN, cancelledAt: BOOLEAN]

DonationBody == [subject: Charities \cup Projects, amount: Nat,
                 frequency: {"ONE_TIME", "RECURRING"}, billingDay: BOOLEAN,
                 donor: Donors, receipt: Receipts]

PurchaseBody == [item: SaleItems, quantity: 1..QuantityMax, donor: Donors]

PatchFields == {"donor", "receipt", "status", "paidAt", "cancelledAt"}

Patch == [donor: Donors \cup {ABSENT}, receipt: Receipts \cup {NULL, ABSENT},
          status: OrderStatus \cup {ABSENT},
          paidAt: BOOLEAN \cup {ABSENT}, cancelledAt: BOOLEAN \cup {ABSENT}]

NoPatch == [donor |-> ABSENT, receipt |-> ABSENT, status |-> ABSENT,
            paidAt |-> ABSENT, cancelledAt |-> ABSENT]

-----------------------------------------------------------------------------
(* The order invariants of validators.ts, which persistOrderWithLine       *)
(* asserts inside the creating transaction.                                *)

AmountConsistent(row) ==
  /\ row.line.quantity \in 1..QuantityMax
  /\ row.amount = row.line.quantity * row.line.unitPrice

FrequencyConsistent(row) ==
  /\ (row.line.frequency = "NONE") = (row.line.subject \in SaleItems)
  /\ row.line.billingDay = (row.line.frequency = "RECURRING")

ReceiptConsistent(row) == (row.receipt = NULL) = (row.line.subject \in SaleItems)

NextChargeConsistent(row) == row.nextChargeAt = (row.line.frequency = "RECURRING")

OrderInvariants(row) ==
  /\ FrequencyConsistent(row)
  /\ AmountConsistent(row)
  /\ ReceiptConsistent(row)
  /\ NextChargeConsistent(row)

FreshRow(line, donor, receipt, nextChargeAt) ==
  [line |-> line, amount |-> line.quantity * line.unitPrice,
   nextChargeAt |-> nextChargeAt, donor |-> donor, receipt |-> receipt,
   status |-> "PENDING", paidAt |-> FALSE, cancelledAt |-> FALSE]

-----------------------------------------------------------------------------
ASSUME NullAssumption ==
  /\ NULL \notin Row /\ ABSENT \notin Row
  /\ NULL \notin OrderIds /\ NULL \notin Receipts
  /\ ABSENT # NULL
  /\ ABSENT \notin Donors \cup Receipts
  /\ ABSENT \notin OrderStatus /\ ABSENT \notin BOOLEAN

ASSUME CatalogueAssumption ==
  /\ Charities \cap Projects = {} /\ Charities \cap SaleItems = {}
  /\ Projects \cap SaleItems = {}
  /\ CharityOf \in [Projects \cup SaleItems -> Charities]
  /\ Prices \subseteq Nat /\ Prices # {}

\* What the routes' TypeBox schemas let through.
ASSUME BodyAssumption ==
  /\ DonationBodies \subseteq DonationBody
  /\ PurchaseBodies \subseteq PurchaseBody
  /\ AdminPatches \subseteq Patch
  /\ UserPatches \subseteq {p \in Patch : /\ p.status = ABSENT
                                          /\ p.paidAt = ABSENT
                                          /\ p.cancelledAt = ABSENT}

ASSUME StoredAssumption ==
  \A row \in StoredOrders :
    /\ row \in Row
    /\ OrderInvariants(row)
    /\ row.status = "PENDING" /\ ~row.paidAt /\ ~row.cancelledAt

-----------------------------------------------------------------------------
VARIABLES
  live,     \* the entity itself is published, not archived, not deleted
  price,    \* SaleItem.priceTwd
  orders,   \* the orders table: a row, or NULL
  used,     \* the ids handed out so far; an id is never handed out twice
  req,      \* one record per request, see Request
  audit     \* the audit events logged

vars == <<live, price, orders, used, req, audit>>

Kinds == {"none", "create", "confirm", "cancel", "userPatch", "adminPatch", "delete"}

PCs == {"idle", "persist", "createAudit", "reread", "settleAudit", "hydrate",
        "userReturn", "userWrite", "userAudit", "adminWrite", "adminAudit",
        "deleteAudit", "done", "lost"}

Answers == {"none", "ok", "notFound", "conflict", "badRequest", "error"}

(* read: the row the request last read (or, for a create, built);          *)
(* written: the row its transaction committed, NULL while it wrote none;   *)
(* replaced: the row a PATCH's write replaced, a history variable no       *)
(* handler reads; shown: the status of the order in the response.          *)
Request == [pc: PCs, kind: Kinds, target: OrderIds \cup {NULL}, patch: Patch,
            read: Row \cup {NULL}, written: Row \cup {NULL},
            replaced: Row \cup {NULL}, answer: Answers,
            shown: OrderStatus \cup {"NONE"}]

AuditEvents == {"order_created", "order_payment_confirmed", "order_cancelled",
                "order_user_patched", "order_admin_patched", "order_admin_deleted"}

AuditRecord == [event: AuditEvents, by: Requests, order: OrderIds,
                fields: SUBSET PatchFields,
                statusBefore: OrderStatus \cup {"NONE"},
                statusAfter: OrderStatus \cup {"NONE"}]

TypeOK ==
  /\ live \in [Subjects -> BOOLEAN]
  /\ price \in [SaleItems -> Prices]
  /\ orders \in [OrderIds -> Row \cup {NULL}]
  /\ used \subseteq OrderIds
  /\ req \in [Requests -> Request]
  /\ audit \subseteq AuditRecord

IdleRequest == [pc |-> "idle", kind |-> "none", target |-> NULL, patch |-> NoPatch,
                read |-> NULL, written |-> NULL, replaced |-> NULL,
                answer |-> "none", shown |-> "NONE"]

Init ==
  /\ live = [s \in Subjects |-> TRUE]
  /\ price \in [SaleItems -> Prices]
  /\ orders \in [OrderIds -> StoredOrders \cup {NULL}]
  /\ used = {o \in OrderIds : orders[o] # NULL}
  /\ req = [r \in Requests |-> IdleRequest]
  /\ audit = {}

-----------------------------------------------------------------------------
(* Helpers                                                                 *)

\* The request becomes q; nothing else in the request table changes.
Becomes(r, q) == req' = [req EXCEPT ![r] = q]

\* q answered: the handler has replied with `row' (or without an order), and
\* its local state is gone.
Replied(q, answer, row) ==
  [q EXCEPT !.pc = "done", !.answer = answer, !.read = NULL,
            !.shown = IF row = NULL THEN "NONE" ELSE row.status]

\* The idle request r starts serving an operation on order o.
Started(r, kind, o, p) == [req[r] EXCEPT !.kind = kind, !.target = o, !.patch = p]

Logged(event, r, fields, before, after) ==
  audit' = audit \cup {[event |-> event, by |-> r, order |-> req[r].target,
                        fields |-> fields, statusBefore |-> before,
                        statusAfter |-> after]}

\* whereLive, and whereLiveWithParent for what belongs to a charity.
Visible(s) == live[s] /\ (s \notin Charities => live[CharityOf[s]])

-----------------------------------------------------------------------------
(* Creating an order: createCharityDonation, createProjectDonation and     *)
(* createSaleItemPurchase.                                                 *)

\* Faulty variant: the pair is not checked before the transaction.
PairUnchecked(b) == TRUE

\* assertFrequencyBillingDayPair: RECURRING if and only if a billing day.
PairMatches(b) == (b.frequency = "RECURRING") = b.billingDay

DonationLookup(r, b) ==
  /\ req[r].pc = "idle"
  /\ LET q == Started(r, "create", NULL, NoPatch)
         line == [subject |-> b.subject, quantity |-> 1, unitPrice |-> b.amount,
                  frequency |-> b.frequency, billingDay |-> b.billingDay]
     IN  \/ /\ ~PairMatches(b)
            /\ Becomes(r, Replied(q, "badRequest", NULL))
         \/ /\ PairMatches(b)
            /\ ~Visible(b.subject)
            /\ Becomes(r, Replied(q, "notFound", NULL))
         \/ /\ PairMatches(b)
            /\ Visible(b.subject)
            /\ Becomes(r, [q EXCEPT !.pc = "persist",
                 !.read = FreshRow(line, b.donor, b.receipt, b.frequency = "RECURRING")])
  /\ UNCHANGED <<live, price, orders, used, audit>>

\* The lookup also takes the price snapshot; the await before the insert is a
\* window in which the price or the visibility may change.
PurchaseLookup(r, b) ==
  /\ req[r].pc = "idle"
  /\ LET q == Started(r, "create", NULL, NoPatch)
         line == [subject |-> b.item, quantity |-> b.quantity,
                  unitPrice |-> price[b.item],
                  frequency |-> "NONE", billingDay |-> FALSE]
     IN  \/ /\ ~Visible(b.item)
            /\ Becomes(r, Replied(q, "notFound", NULL))
         \/ /\ Visible(b.item)
            /\ Becomes(r, [q EXCEPT !.pc = "persist",
                                    !.read = FreshRow(line, b.donor, NULL, FALSE)])
  /\ UNCHANGED <<live, price, orders, used, audit>>

\* persistOrderWithLine: insert, assert the invariants, commit or roll back.
CreatePersist(r, o) ==
  /\ req[r].pc = "persist"
  /\ o \notin used
  /\ IF OrderInvariants(req[r].read)
       THEN /\ orders' = [orders EXCEPT ![o] = req[r].read]
            /\ used' = used \cup {o}
            /\ Becomes(r, [req[r] EXCEPT !.pc = "createAudit", !.target = o,
                                         !.written = req[r].read])
       ELSE /\ Becomes(r, Replied(req[r], "error", NULL))
            /\ UNCHANGED <<orders, used>>
  /\ UNCHANGED <<live, price, audit>>

CreateAudit(r) ==
  /\ req[r].pc = "createAudit"
  /\ Logged("order_created", r, {}, "NONE", "NONE")
  /\ Becomes(r, Replied(req[r], "ok", req[r].written))
  /\ UNCHANGED <<live, price, orders, used>>

-----------------------------------------------------------------------------
(* confirmPayment and cancelOrder                                          *)

Settlements == {"confirm", "cancel"}

Outcome(kind) == IF kind = "confirm" THEN "PAID" ELSE "CANCELLED"

\* Faulty variant: cancelling does not stamp cancelledAt.
SettledUnstamped(row, kind) ==
  IF kind = "confirm" THEN [row EXCEPT !.status = "PAID", !.paidAt = TRUE]
                      ELSE [row EXCEPT !.status = "CANCELLED"]

Settled(row, kind) ==
  IF kind = "confirm" THEN [row EXCEPT !.status = "PAID", !.paidAt = TRUE]
                      ELSE [row EXCEPT !.status = "CANCELLED", !.cancelledAt = TRUE]

\* Faulty variant: updateMany selects by id alone.
SettleableByIdOnly(row) == row # NULL

\* The rows the conditional updateMany selects: { id, status: 'PENDING' }.
Settleable(row) == row # NULL /\ row.status = "PENDING"

SettleUpdate(r, o, kind) ==
  /\ req[r].pc = "idle"
  /\ LET q == Started(r, kind, o, NoPatch)
     IN  \/ /\ Settleable(orders[o])
            /\ orders' = [orders EXCEPT ![o] = Settled(orders[o], kind)]
            /\ Becomes(r, [q EXCEPT !.pc = "settleAudit", !.written = Settled(orders[o], kind)])
         \/ /\ ~Settleable(orders[o])
            /\ Becomes(r, [q EXCEPT !.pc = "reread"])
            /\ UNCHANGED orders
  /\ UNCHANGED <<live, price, used, audit>>

\* Faulty variant: the idempotent path logs the transition again.
SettleRereadLogs(r) ==
  /\ req[r].pc = "reread"
  /\ LET row == orders[req[r].target]
     IN  Becomes(r, IF row # NULL /\ row.status = Outcome(req[r].kind)
                      THEN [req[r] EXCEPT !.pc = "settleAudit"]
                      ELSE Replied(req[r], "conflict", NULL))
  /\ UNCHANGED <<live, price, orders, used, audit>>

\* No row matched: a second statement of the transaction finds out why.  (The
\* third lookup that turns a missing row into a 404 finds nothing either: no
\* client knows the id of an order before it is created.)
SettleReread(r) ==
  /\ req[r].pc = "reread"
  /\ LET row == orders[req[r].target]
     IN  \/ /\ row = NULL
            /\ Becomes(r, Replied(req[r], "notFound", NULL))
         \/ /\ row # NULL
            /\ row.status = Outcome(req[r].kind)
            /\ Becomes(r, [req[r] EXCEPT !.pc = "hydrate"])
         \/ /\ row # NULL
            /\ row.status # Outcome(req[r].kind)
            /\ Becomes(r, Replied(req[r], "conflict", NULL))
  /\ UNCHANGED <<live, price, orders, used, audit>>

SettleAudit(r) ==
  /\ req[r].pc = "settleAudit"
  /\ Logged(IF req[r].kind = "confirm" THEN "order_payment_confirmed"
                                       ELSE "order_cancelled",
            r, {}, "NONE", "NONE")
  /\ Becomes(r, [req[r] EXCEPT !.pc = "hydrate"])
  /\ UNCHANGED <<live, price, orders, used>>

\* findUniqueOrThrow outside the transaction: P2025 is answered as a 404.
SettleHydrate(r) ==
  /\ req[r].pc = "hydrate"
  /\ LET row == orders[req[r].target]
     IN  Becomes(r, Replied(req[r], IF row = NULL THEN "notFound" ELSE "ok", row))
  /\ UNCHANGED <<live, price, orders, used, audit>>

-----------------------------------------------------------------------------
(* PATCH: patchOrderAsUser and patchOrderAsAdmin                           *)

\* Faulty variant: an undefined field of the body is written as it is.
GivenAlways(v, old) == v

Given(v, old) == IF v = ABSENT THEN old ELSE v

\* Prisma's update writes every field of the body that is not undefined.
Patched(row, p) ==
  [row EXCEPT !.donor = Given(p.donor, @), !.receipt = Given(p.receipt, @),
              !.status = Given(p.status, @), !.paidAt = Given(p.paidAt, @),
              !.cancelledAt = Given(p.cancelledAt, @)]

FieldsSent(p) == {f \in PatchFields : p[f] # ABSENT}

FieldsChanged(row, p) == {f \in FieldsSent(p) : p[f] # row[f]}

\* The user's status gate: CANCELLED, FAILED and REFUNDED are frozen.
UserEditable(row) == row.status \in {"PENDING", "PAID"}

\* Faulty variant: the PATCH does not look at the subject type.
ReceiptAccepted(row, p) == FALSE

ReceiptRefused(row, p) ==
  row.line.subject \in SaleItems /\ p.receipt \notin {ABSENT, NULL}

\* The first read of the transaction; an empty patch only reads and replies.
UserPatchRead(r, o, p) ==
  /\ req[r].pc = "idle"
  /\ LET q == Started(r, "userPatch", o, p)
         row == orders[o]
     IN  \/ /\ row = NULL
            /\ Becomes(r, Replied(q, "notFound", NULL))
         \/ /\ row # NULL
            /\ p = NoPatch
            /\ Becomes(r, Replied(q, "ok", row))
         \/ /\ row # NULL /\ p # NoPatch
            /\ ~UserEditable(row) \/ ReceiptRefused(row, p)
            /\ Becomes(r, Replied(q, "conflict", NULL))
         \/ /\ row # NULL /\ p # NoPatch
            /\ UserEditable(row) /\ ~ReceiptRefused(row, p)
            /\ Becomes(r, [q EXCEPT !.read = row,
                 !.pc = IF FieldsChanged(row, p) = {} THEN "userReturn" ELSE "userWrite"])
  /\ UNCHANGED <<live, price, orders, used, audit>>

\* Nothing changed: the row is read again; `current!' fails if it is gone.
UserPatchReturn(r) ==
  /\ req[r].pc = "userReturn"
  /\ LET row == orders[req[r].target]
     IN  Becomes(r, Replied(req[r], IF row = NULL THEN "error" ELSE "ok", row))
  /\ UNCHANGED <<live, price, orders, used, audit>>

\* Faulty variant: the row read at the start is saved back whole.
PatchSavesStaleRow(r, from, to) ==
  /\ req[r].pc = from
  /\ LET o == req[r].target
         row == Patched(req[r].read, req[r].patch)
     IN  /\ orders' = [orders EXCEPT ![o] = row]
         /\ Becomes(r, [req[r] EXCEPT !.pc = to, !.replaced = orders[o],
                                      !.written = row])
  /\ UNCHANGED <<live, price, used, audit>>

\* tx.order.update({ where: { id } }): by id alone; P2025 if the row is gone.
PatchWrite(r, from, to) ==
  /\ req[r].pc = from
  /\ LET o == req[r].target
     IN  \/ /\ orders[o] = NULL
            /\ Becomes(r, Replied(req[r], "notFound", NULL))
            /\ UNCHANGED orders
         \/ /\ orders[o] # NULL
            /\ orders' = [orders EXCEPT ![o] = Patched(orders[o], req[r].patch)]
            /\ Becomes(r, [req[r] EXCEPT !.pc = to, !.replaced = orders[o],
                                         !.written = Patched(orders[o], req[r].patch)])
  /\ UNCHANGED <<live, price, used, audit>>

UserPatchWrite(r) == PatchWrite(r, "userWrite", "userAudit")

UserPatchAudit(r) ==
  /\ req[r].pc = "userAudit"
  /\ Logged("order_user_patched", r, FieldsChanged(req[r].read, req[r].patch),
            "NONE", "NONE")
  /\ Becomes(r, Replied(req[r], "ok", req[r].written))
  /\ UNCHANGED <<live, price, orders, used>>

AdminPatchRead(r, o, p) ==
  /\ req[r].pc = "idle"
  /\ LET q == Started(r, "adminPatch", o, p)
         row == orders[o]
     IN  \/ /\ row = NULL
            /\ Becomes(r, Replied(q, "notFound", NULL))
         \/ /\ row # NULL
            /\ p = NoPatch
            /\ Becomes(r, Replied(q, "ok", row))
         \/ /\ row # NULL
            /\ p # NoPatch
            /\ Becomes(r, [q EXCEPT !.read = row, !.pc = "adminWrite"])
  /\ UNCHANGED <<live, price, orders, used, audit>>

AdminPatchWrite(r) == PatchWrite(r, "adminWrite", "adminAudit")

\* fieldsChanged lists every field sent, except a status equal to the one read.
AdminPatchAudit(r) ==
  /\ req[r].pc = "adminAudit"
  /\ LET p == req[r].patch
         before == req[r].read.status
         same == IF p.status = before THEN {"status"} ELSE {}
     IN  Logged("order_admin_patched", r, FieldsSent(p) \ same,
                before, req[r].written.status)
  /\ Becomes(r, Replied(req[r], "ok", req[r].written))
  /\ UNCHANGED <<live, price, orders, used>>

-----------------------------------------------------------------------------
(* deleteOrderAsAdmin: a hard delete                                       *)

DeleteRow(r, o) ==
  /\ req[r].pc = "idle"
  /\ LET q == Started(r, "delete", o, NoPatch)
     IN  \/ /\ orders[o] = NULL
            /\ Becomes(r, Replied(q, "notFound", NULL))
            /\ UNCHANGED orders
         \/ /\ orders[o] # NULL
            /\ orders' = [orders EXCEPT ![o] = NULL]
            /\ Becomes(r, [q EXCEPT !.pc = "deleteAudit"])
  /\ UNCHANGED <<live, price, used, audit>>

DeleteAudit(r) ==
  /\ req[r].pc = "deleteAudit"
  /\ Logged("order_admin_deleted", r, {}, "NONE", "NONE")
  /\ Becomes(r, Replied(req[r], "ok", NULL))
  /\ UNCHANGED <<live, price, orders, used>>

-----------------------------------------------------------------------------
(* The environment                                                         *)

\* A CMS write to the catalogue flips an entity's visibility...
CatalogueLiveness(s) ==
  /\ live' = [live EXCEPT ![s] = ~@]
  /\ UNCHANGED <<price, orders, used, req, audit>>

\* ...or sets a sale item's price.
CataloguePrice(i, p) ==
  /\ price' = [price EXCEPT ![i] = p]
  /\ UNCHANGED <<live, orders, used, req, audit>>

\* The process serving r dies: what the transaction committed stays, the
\* synchronous code after it never runs, and the client gets no answer.
Lose(r) ==
  /\ req[r].pc \notin {"idle", "done", "lost"}
  /\ Becomes(r, [req[r] EXCEPT !.pc = "lost", !.read = NULL])
  /\ UNCHANGED <<live, price, orders, used, audit>>

-----------------------------------------------------------------------------
Create(r) ==
  \/ \E b \in DonationBodies : DonationLookup(r, b)
  \/ \E b \in PurchaseBodies : PurchaseLookup(r, b)
  \/ \E o \in OrderIds : CreatePersist(r, o)
  \/ CreateAudit(r)

Settle(r) ==
  \/ \E o \in OrderIds, k \in Settlements : SettleUpdate(r, o, k)
  \/ SettleReread(r)
  \/ SettleAudit(r)
  \/ SettleHydrate(r)

UserPatchOrder(r) ==
  \/ \E o \in OrderIds, p \in UserPatches : UserPatchRead(r, o, p)
  \/ UserPatchReturn(r)
  \/ UserPatchWrite(r)
  \/ UserPatchAudit(r)

AdminPatchOrder(r) ==
  \/ \E o \in OrderIds, p \in AdminPatches : AdminPatchRead(r, o, p)
  \/ AdminPatchWrite(r)
  \/ AdminPatchAudit(r)

Delete(r) == (\E o \in OrderIds : DeleteRow(r, o)) \/ DeleteAudit(r)

Next ==
  \/ \E r \in Requests : \/ Create(r) \/ Settle(r) \/ UserPatchOrder(r)
                         \/ AdminPatchOrder(r) \/ Delete(r) \/ Lose(r)
  \/ \E s \in Subjects : CatalogueLiveness(s)
  \/ \E i \in SaleItems, p \in Prices : CataloguePrice(i, p)

Spec == Init /\ [][Next]_vars

-----------------------------------------------------------------------------
(* Properties                                                              *)

\* Requests whose admin PATCH committed a status or a stamp on order o.
Corrects(r, o) ==
  /\ req[r].kind = "adminPatch" /\ req[r].target = o /\ req[r].written # NULL
  /\ \E f \in {"status", "paidAt", "cancelledAt"} : req[r].patch[f] # ABSENT

Corrected(o) == \E r \in Requests : Corrects(r, o)

\* Some admin PATCH committed a receiptOption on order o.
ReceiptOverridden(o) ==
  \E r \in Requests :
    /\ req[r].kind = "adminPatch" /\ req[r].target = o /\ req[r].written # NULL
    /\ req[r].patch.receipt # ABSENT

\* r replied 200 to a confirm-payment or a cancel of order o.
Acknowledged(r, o) ==
  req[r].kind \in Settlements /\ req[r].target = o /\ req[r].answer = "ok"

\* Clients are never told contradictory things: unless an administrator
\* rewrote the order's status, no two 200s say that it was both confirmed and
\* cancelled, and the order in each 200 shows the outcome asked for, whatever
\* the interleaving of the update, the re-read and the final hydration.
SettlementAnswersAgree ==
  \A o \in OrderIds : ~Corrected(o) =>
    \A r1, r2 \in Requests : Acknowledged(r1, o) /\ Acknowledged(r2, o) =>
      /\ req[r1].kind = req[r2].kind
      /\ req[r1].shown = Outcome(req[r1].kind)

TransitionAudits(o) ==
  {a \in audit : a.order = o /\ a.event \in {"order_payment_confirmed", "order_cancelled"}}

\* "Idempotent no-ops MUST NOT emit; only real transitions" (emitAudit): an
\* order no administrator rewrote has at most one transition event however many
\* confirms and cancels it received, the event is its writer's, and a request
\* that made the transition does not answer before its event is logged.
TransitionsAuditedOnce ==
  /\ \A o \in OrderIds : ~Corrected(o) =>
       \A a, b \in TransitionAudits(o) : a = b
  /\ \A o \in OrderIds : \A a \in TransitionAudits(o) : req[a.by].written # NULL
  /\ \A r \in Requests :
       req[r].kind \in Settlements /\ req[r].written # NULL /\ req[r].pc = "done" =>
         \E a \in TransitionAudits(req[r].target) : a.by = r

\* The assertion inside the creating transaction is a last line of defence:
\* with the bodies the schemas admit and the checks before it, no request is
\* ever rolled back by it, though prices change between lookup and insert.
NoInvariantError ==
  \A r \in Requests : req[r].kind = "create" => req[r].answer # "error"

\* assertOrderInvariants runs only at creation; its rules nevertheless hold of
\* every stored row at all times: amounts, frequency and next charge always,
\* and a purchase has no receipt option unless an administrator gave it one,
\* which admin-services.ts says "the route layer's TypeBox + invariants catch".
StoredRowsConsistent ==
  \A o \in OrderIds : orders[o] # NULL =>
    /\ AmountConsistent(orders[o])
    /\ FrequencyConsistent(orders[o])
    /\ NextChargeConsistent(orders[o])
    /\ orders[o].line.subject \in SaleItems /\ ~ReceiptOverridden(o) =>
         orders[o].receipt = NULL

\* The charge date written with a recurring order is the first billing day of
\* the calendar after its day, whatever that day is: the clock is no part of
\* the orders' state, so every day of NextCharge's years is tried.
FirstChargeIsNext ==
  \A o \in OrderIds : orders[o] # NULL /\ orders[o].nextChargeAt => ChargeIsNextInYears

-----------------------------------------------------------------------------
(* The inductive invariant behind the properties above.                    *)

Pending(row) == row.status = "PENDING" /\ ~row.paidAt /\ ~row.cancelledAt

\* What a request at each point of its handler knows.
RequestInv(q) ==
  /\ q.pc = "idle" => q = IdleRequest
  /\ q.pc \in PCs \ {"idle", "persist", "done", "lost"} => q.target # NULL
  /\ q.pc = "persist" => q.kind = "create" /\ q.read # NULL /\ Pending(q.read)
  /\ q.pc = "createAudit" => q.kind = "create" /\ q.written # NULL
  /\ q.pc \in {"reread", "settleAudit", "hydrate"} => q.kind \in Settlements
  /\ q.pc \in {"userReturn", "userWrite", "userAudit"} =>
       q.kind = "userPatch" /\ q.read # NULL /\ q.patch \in UserPatches
  /\ q.pc \in {"adminWrite", "adminAudit"} => q.kind = "adminPatch" /\ q.read # NULL
  /\ q.pc \in {"userAudit", "adminAudit"} => q.written # NULL
  /\ q.pc = "deleteAudit" => q.kind = "delete"
  /\ q.pc \in {"persist", "reread", "userReturn", "userWrite", "adminWrite"} =>
       q.written = NULL
  /\ q.answer # "none" => q.pc = "done"

\* r has seen, or made, the outcome it was asked for on order o.
Informed(r, o) ==
  /\ req[r].kind \in Settlements /\ req[r].target = o
  /\ req[r].pc \in {"settleAudit", "hydrate"} \/ req[r].answer = "ok"

\* Ids in the table, or written to, were handed out.
IdsUsed ==
  /\ \A o \in OrderIds : orders[o] # NULL => o \in used
  /\ \A r \in Requests, o \in OrderIds :
       req[r].target = o /\ (req[r].written # NULL \/ Informed(r, o)) => o \in used

\* While the row lives it still has the outcome its informed requests saw, so
\* no two of them saw different ones.
OutcomesStand ==
  \A o \in OrderIds : ~Corrected(o) =>
    \A r \in Requests : Informed(r, o) =>
      /\ orders[o] # NULL => orders[o].status = Outcome(req[r].kind)
      /\ req[r].answer = "ok" => req[r].shown = Outcome(req[r].kind)
      /\ \A r2 \in Requests : Informed(r2, o) => req[r].kind = req[r2].kind

Inv ==
  /\ TypeOK
  /\ \A r \in Requests : RequestInv(req[r])
  /\ IdsUsed
  /\ OutcomesStand

\* The assertion of the creating transaction will pass, and has passed.
CreatesPass ==
  \A r \in Requests :
    /\ req[r].pc = "persist" => OrderInvariants(req[r].read)
    /\ req[r].kind = "create" => req[r].answer # "error"

\* An id is never used again, so the row a user's PATCH is about to write is an
\* order for the same line as the row its receipt option was checked against.
UserWritesChecked ==
  \A r \in Requests : req[r].pc = "userWrite" =>
    /\ req[r].target \in used
    /\ ~ReceiptRefused(req[r].read, req[r].patch)
    /\ orders[req[r].target] # NULL => orders[req[r].target].line = req[r].read.line

\* r settled order o.
Settler(r, o) ==
  req[r].kind \in Settlements /\ req[r].target = o /\ req[r].written # NULL

\* A settled order leaves PENDING for good, so it has one settler.
SettledOnce ==
  \A o \in OrderIds : ~Corrected(o) =>
    \A r \in Requests : Settler(r, o) =>
      /\ orders[o] # NULL => orders[o].status # "PENDING"
      /\ \A r2 \in Requests : Settler(r2, o) => r2 = r

\* The event of r's settlement.
TransitionOf(r) ==
  [event |-> IF req[r].kind = "confirm" THEN "order_payment_confirmed"
                                        ELSE "order_cancelled",
   by |-> r, order |-> req[r].target, fields |-> {},
   statusBefore |-> "NONE", statusAfter |-> "NONE"]

\* Every transition event is its settler's, logged at the settler's audit step,
\* which only the loss of the process can skip.
TransitionsLogged ==
  /\ \A o \in OrderIds : \A a \in TransitionAudits(o) :
       /\ Settler(a.by, o) /\ a = TransitionOf(a.by)
       /\ req[a.by].pc \in {"hydrate", "done", "lost"}
  /\ \A r \in Requests :
       /\ req[r].pc = "settleAudit" => req[r].written # NULL
       /\ req[r].kind \in Settlements /\ req[r].written # NULL =>
            /\ req[r].pc \in {"settleAudit", "hydrate", "done", "lost"}
            /\ req[r].pc \in {"hydrate", "done"} => TransitionOf(r) \in audit

\* The committed rows, seen as an OrderLedger.
LedgerEntry(o) ==
  IF orders[o] = NULL
    THEN [status |-> IF o \in used THEN "erased" ELSE "unborn",
          paidAt |-> FALSE, cancelledAt |-> FALSE, corrected |-> FALSE]
    ELSE [status |-> orders[o].status, paidAt |-> orders[o].paidAt,
          cancelledAt |-> orders[o].cancelledAt, corrected |-> Corrected(o)]

Ledger == INSTANCE OrderLedger WITH ledger <- [o \in OrderIds |-> LedgerEntry(o)]

\* The component implements its abstract specification: an order is opened
\* once, settled at most once and with its stamp, changed otherwise only by an
\* administrator, and a deleted order never comes back, although every PATCH
\* reads in one statement and writes in another.
ImplementsLedger == Ledger!Spec

\* Orders no administrator rewrote are stamped exactly as their status says.
StampsMatchStatus == Ledger!StampsMatchStatus

\* The inductive invariant of the rows, the ledger and the audit log.
RowsInv ==
  /\ Inv
  /\ CreatesPass
  /\ UserWritesChecked
  /\ StoredRowsConsistent
  /\ StampsMatchStatus
  /\ SettledOnce
  /\ TransitionsLogged

-----------------------------------------------------------------------------
(* What comments and documents of the repository claim and the code does   *)
(* not do; each is the property of a run that expects a violation.         *)

\* user-update-service.ts, spec 022 4.5a: a CANCELLED, FAILED or REFUNDED order
\* is frozen for users, so no user PATCH ever replaces such a row.
FrozenRowsUntouched ==
  \A r \in Requests :
    req[r].kind = "userPatch" /\ req[r].written # NULL => UserEditable(req[r].replaced)

\* user-update-service.ts: concurrent writes can't desync the audit's
\* fieldsChanged, so it names exactly the fields the committed write changed.
FieldsChangedExact ==
  \A a \in audit : a.event = "order_user_patched" =>
    a.fields = {f \in PatchFields : req[a.by].written[f] # req[a.by].replaced[f]}

=============================================================================
