---------------------------- MODULE OrdersProofs ----------------------------
(***************************************************************************)
(* Theorems about Orders, for every set of requests, order ids, catalogue  *)
(* and bodies that satisfy the assumptions of that module.                 *)
(***************************************************************************)
EXTENDS Orders, TLAPS

-----------------------------------------------------------------------------
(* What the helpers return                                                 *)

\* A new order built from a well-formed line is a row.
LEMMA FreshRowType ==
  ASSUME NEW line \in Line, NEW donor \in Donors, NEW receipt \in Receipts \cup {NULL},
         NEW next \in BOOLEAN
  PROVE  FreshRow(line, donor, receipt, next) \in Row
<1>1. line.quantity * line.unitPrice \in Nat
  BY DEF Line
<1> QED BY <1>1 DEF FreshRow, Row, OrderStatus

\* A PATCH turns a row into a row.
LEMMA PatchedType ==
  ASSUME NEW row \in Row, NEW p \in Patch
  PROVE  Patched(row, p) \in Row
BY DEF Patched, Given, Patch, Row, OrderStatus

\* A PATCH changes five columns, each to what the body gives.
LEMMA PatchedFields ==
  ASSUME NEW row \in Row, NEW p
  PROVE  /\ Patched(row, p).line = row.line
         /\ Patched(row, p).amount = row.amount
         /\ Patched(row, p).nextChargeAt = row.nextChargeAt
         /\ Patched(row, p).receipt = Given(p.receipt, row.receipt)
         /\ Patched(row, p).status = Given(p.status, row.status)
         /\ Patched(row, p).paidAt = Given(p.paidAt, row.paidAt)
         /\ Patched(row, p).cancelledAt = Given(p.cancelledAt, row.cancelledAt)
BY DEF Patched, Row

\* A settlement turns a row into a row with the outcome asked for.
LEMMA SettledType ==
  ASSUME NEW row \in Row, NEW kind
  PROVE  /\ Settled(row, kind) \in Row
         /\ Settled(row, kind).status = Outcome(kind)
BY DEF Settled, Outcome, Row, OrderStatus

LEMMA RepliedType ==
  ASSUME NEW q \in Request, NEW answer \in Answers, NEW row \in Row \cup {NULL}
  PROVE  Replied(q, answer, row) \in Request
<1>1. (IF row = NULL THEN "NONE" ELSE row.status) \in OrderStatus \cup {"NONE"}
  BY DEF Row
<1> QED BY <1>1 DEF Replied, Request, PCs

LEMMA NoPatchType == NoPatch \in Patch
BY DEF NoPatch, Patch

LEMMA StartedType ==
  ASSUME req \in [Requests -> Request], NEW r \in Requests, NEW kind \in Kinds,
         NEW o \in OrderIds \cup {NULL}, NEW p \in Patch
  PROVE  Started(r, kind, o, p) \in Request
BY DEF Started, Request

LEMMA BecomesType ==
  ASSUME req \in [Requests -> Request], NEW r \in Requests, NEW q \in Request,
         Becomes(r, q)
  PROVE  req' \in [Requests -> Request]
BY DEF Becomes

LEMMA LoggedType ==
  ASSUME audit \subseteq AuditRecord, NEW event \in AuditEvents, NEW r \in Requests,
         req[r].target \in OrderIds, NEW fields \in SUBSET PatchFields,
         NEW before \in OrderStatus \cup {"NONE"}, NEW after \in OrderStatus \cup {"NONE"},
         Logged(event, r, fields, before, after)
  PROVE  audit' \subseteq AuditRecord
BY DEF Logged, AuditRecord

LEMMA FieldSets ==
  ASSUME NEW row, NEW p
  PROVE  /\ FieldsSent(p) \in SUBSET PatchFields
         /\ FieldsChanged(row, p) \in SUBSET PatchFields
BY DEF FieldsSent, FieldsChanged

-----------------------------------------------------------------------------
(* Type correctness, with what each request knows at each point            *)

Typed == TypeOK /\ \A r \in Requests : RequestInv(req[r])

\* A request that moves to a well-formed record leaves the table well formed.
LEMMA BecomesKeeps ==
  ASSUME Typed, NEW r \in Requests, NEW q \in Request, RequestInv(q), Becomes(r, q)
  PROVE  /\ req' \in [Requests -> Request]
         /\ \A s \in Requests : RequestInv(req'[s])
BY DEF Typed, TypeOK, Becomes

LEMMA InitTyped == Init => Typed
<1> SUFFICES ASSUME Init PROVE Typed
  OBVIOUS
<1>1. IdleRequest \in Request
  BY NoPatchType DEF IdleRequest, Request, PCs, Kinds, Answers
<1>2. RequestInv(IdleRequest)
  BY DEF RequestInv, IdleRequest
<1>3. orders \in [OrderIds -> Row \cup {NULL}]
  BY StoredAssumption DEF Init
<1>4. live \in [Subjects -> BOOLEAN] /\ used \subseteq OrderIds /\ audit \subseteq AuditRecord
  BY DEF Init
<1> QED BY <1>1, <1>2, <1>3, <1>4 DEF Init, Typed, TypeOK

\* q has just started to serve an operation.
Begun(q, kind, o, p) ==
  /\ q \in Request
  /\ q.pc = "idle" /\ q.kind = kind /\ q.target = o /\ q.patch = p
  /\ q.read = NULL /\ q.written = NULL /\ q.answer = "none"

\* Serving a request starts from the idle record.
LEMMA StartedInv ==
  ASSUME Typed, NEW r \in Requests, req[r].pc = "idle",
         NEW kind \in Kinds, NEW o \in OrderIds \cup {NULL}, NEW p \in Patch
  PROVE  Begun(Started(r, kind, o, p), kind, o, p)
<1>1. req[r] \in Request /\ req[r] = IdleRequest
  BY DEF Typed, TypeOK, RequestInv
<1>2. req[r].read = NULL /\ req[r].written = NULL /\ req[r].answer = "none"
  BY <1>1 DEF IdleRequest
<1>3. Started(r, kind, o, p) \in Request
  BY StartedType DEF Typed, TypeOK
<1> QED BY <1>1, <1>2, <1>3 DEF Started, Request, Begun

\* A request that has answered needs to know nothing.
LEMMA RepliedInv ==
  ASSUME NEW q \in Request, NEW answer \in Answers, NEW row \in Row \cup {NULL}
  PROVE  /\ Replied(q, answer, row) \in Request
         /\ RequestInv(Replied(q, answer, row))
<1>1. Replied(q, answer, row) \in Request
  BY RepliedType
<1>2. Replied(q, answer, row).pc = "done"
  BY DEF Replied, Request
<1> QED BY <1>1, <1>2 DEF RequestInv

\* The new record of a lookup that goes on to the insert.
LEMMA PersistInv ==
  ASSUME NEW q, Begun(q, "create", NULL, NoPatch), NEW row \in Row, Pending(row)
  PROVE  LET p == [q EXCEPT !.pc = "persist", !.read = row]
         IN  p \in Request /\ RequestInv(p)
<1> DEFINE p == [q EXCEPT !.pc = "persist", !.read = row]
<1>1. p \in Request
  BY DEF Request, PCs, Begun
<1>2. p.pc = "persist" /\ p.kind = "create" /\ p.read = row /\ p.written = NULL
      /\ p.answer = "none"
  BY DEF Begun, Request
<1>3. row # NULL
  BY NullAssumption
<1> HIDE DEF p
<1> QED BY <1>1, <1>2, <1>3 DEF RequestInv, p

LEMMA DonationTyped ==
  ASSUME Typed, NEW r \in Requests, NEW b \in DonationBodies, DonationLookup(r, b)
  PROVE  Typed'
<1> DEFINE q == Started(r, "create", NULL, NoPatch)
           line == [subject |-> b.subject, quantity |-> 1, unitPrice |-> b.amount,
                    frequency |-> b.frequency, billingDay |-> b.billingDay]
           row == FreshRow(line, b.donor, b.receipt, b.frequency = "RECURRING")
<1>1. Begun(q, "create", NULL, NoPatch)
  <2>1. req[r].pc = "idle" /\ "create" \in Kinds
    BY DEF DonationLookup, Kinds
  <2> QED BY <2>1, StartedInv, NoPatchType
<1>2. row \in Row /\ Pending(row)
  <2>1. line \in Line /\ b.donor \in Donors /\ b.receipt \in Receipts
    BY BodyAssumption DEF DonationBody, Line, Subjects, Frequencies
  <2>2. (b.frequency = "RECURRING") \in BOOLEAN
    OBVIOUS
  <2> HIDE DEF line
  <2> QED BY <2>1, <2>2, FreshRowType DEF FreshRow, Pending
<1>3. \/ Becomes(r, Replied(q, "badRequest", NULL))
      \/ Becomes(r, Replied(q, "notFound", NULL))
      \/ Becomes(r, [q EXCEPT !.pc = "persist", !.read = row])
  BY DEF DonationLookup
<1> HIDE DEF q, row
<1>4. \E p \in Request : RequestInv(p) /\ Becomes(r, p)
  BY <1>1, <1>2, <1>3, RepliedInv, PersistInv DEF Answers, Begun
<1> QED BY <1>4, BecomesKeeps DEF DonationLookup, Typed, TypeOK

LEMMA PurchaseTyped ==
  ASSUME Typed, NEW r \in Requests, NEW b \in PurchaseBodies, PurchaseLookup(r, b)
  PROVE  Typed'
<1> DEFINE q == Started(r, "create", NULL, NoPatch)
           line == [subject |-> b.item, quantity |-> b.quantity, unitPrice |-> price[b.item],
                    frequency |-> "NONE", billingDay |-> FALSE]
           row == FreshRow(line, b.donor, NULL, FALSE)
<1>1. Begun(q, "create", NULL, NoPatch)
  <2>1. req[r].pc = "idle" /\ "create" \in Kinds
    BY DEF PurchaseLookup, Kinds
  <2> QED BY <2>1, StartedInv, NoPatchType
<1>2. row \in Row /\ Pending(row)
  <2>1. b.item \in SaleItems /\ b.quantity \in Nat /\ b.donor \in Donors
    BY BodyAssumption DEF PurchaseBody, QuantityMax
  <2>2. price[b.item] \in Nat
    BY <2>1, CatalogueAssumption DEF Typed, TypeOK
  <2>3. line \in Line
    BY <2>1, <2>2 DEF Line, Subjects, Frequencies
  <2> HIDE DEF line
  <2> QED BY <2>1, <2>3, FreshRowType DEF FreshRow, Pending
<1>3. \/ Becomes(r, Replied(q, "notFound", NULL))
      \/ Becomes(r, [q EXCEPT !.pc = "persist", !.read = row])
  BY DEF PurchaseLookup
<1> HIDE DEF q, row
<1>4. \E p \in Request : RequestInv(p) /\ Becomes(r, p)
  BY <1>1, <1>2, <1>3, RepliedInv, PersistInv DEF Answers, Begun
<1> QED BY <1>4, BecomesKeeps DEF PurchaseLookup, Typed, TypeOK

LEMMA PersistTyped ==
  ASSUME Typed, NEW r \in Requests, NEW o \in OrderIds, CreatePersist(r, o)
  PROVE  Typed'
<1> DEFINE q == req[r]
           p == [q EXCEPT !.pc = "createAudit", !.target = o, !.written = q.read]
<1>1. q \in Request /\ RequestInv(q) /\ q.pc = "persist" /\ q.answer = "none"
  BY DEF Typed, TypeOK, CreatePersist, RequestInv, Request
<1>2. q.kind = "create" /\ q.read \in Row /\ q.read # NULL
  BY <1>1 DEF RequestInv, Request
<1>3. p \in Request
  BY <1>1, <1>2 DEF Request, PCs
<1>4. RequestInv(p)
  <2>1. p.pc = "createAudit" /\ p.kind = "create" /\ p.target = o /\ p.written = q.read
        /\ p.answer = "none"
    BY <1>1, <1>2 DEF Request
  <2> HIDE DEF p, q
  <2> QED BY <2>1, <1>2, NullAssumption DEF RequestInv
<1>5. \/ /\ Becomes(r, p)
         /\ orders' = [orders EXCEPT ![o] = q.read] /\ used' = used \cup {o}
      \/ /\ Becomes(r, Replied(q, "error", NULL))
         /\ UNCHANGED <<orders, used>>
  BY DEF CreatePersist
<1> HIDE DEF p, q
<1>6. \E x \in Request : RequestInv(x) /\ Becomes(r, x)
  BY <1>1, <1>3, <1>4, <1>5, RepliedInv DEF Answers
<1>7. orders' \in [OrderIds -> Row \cup {NULL}] /\ used' \subseteq OrderIds
  BY <1>2, <1>5 DEF Typed, TypeOK
<1> QED BY <1>6, <1>7, BecomesKeeps DEF CreatePersist, Typed, TypeOK

LEMMA CreateAuditTyped ==
  ASSUME Typed, NEW r \in Requests, CreateAudit(r)
  PROVE  Typed'
<1>1. /\ req[r] \in Request /\ req[r].target \in OrderIds
      /\ req[r].written \in Row \cup {NULL}
  BY DEF Typed, TypeOK, RequestInv, CreateAudit, PCs, Request
<1>2. \E p \in Request : RequestInv(p) /\ Becomes(r, p)
  BY <1>1, RepliedInv DEF CreateAudit, Answers
<1>3. audit' \subseteq AuditRecord
  BY <1>1, LoggedType DEF CreateAudit, Typed, TypeOK, AuditEvents
<1> QED BY <1>2, <1>3, BecomesKeeps DEF CreateAudit, Typed, TypeOK

LEMMA SettleUpdateTyped ==
  ASSUME Typed, NEW r \in Requests, NEW o \in OrderIds, NEW kind \in Settlements,
         SettleUpdate(r, o, kind)
  PROVE  Typed'
<1> DEFINE q == Started(r, kind, o, NoPatch)
           row == Settled(orders[o], kind)
           made == [q EXCEPT !.pc = "settleAudit", !.written = row]
           none == [q EXCEPT !.pc = "reread"]
<1>1. Begun(q, kind, o, NoPatch)
  <2>1. req[r].pc = "idle" /\ kind \in Kinds
    BY DEF SettleUpdate, Settlements, Kinds
  <2> QED BY <2>1, StartedInv, NoPatchType
<1>2. \/ /\ orders[o] # NULL /\ Becomes(r, made)
         /\ orders' = [orders EXCEPT ![o] = row]
      \/ Becomes(r, none) /\ UNCHANGED orders
  BY DEF SettleUpdate, Settleable
<1>3. orders[o] # NULL => row \in Row
  BY SettledType DEF Typed, TypeOK
<1>4. kind \in Settlements /\ o # NULL
  BY NullAssumption
<1> HIDE DEF q, row
<1>5. row \in Row => made \in Request /\ RequestInv(made)
  <2> SUFFICES ASSUME row \in Row PROVE made \in Request /\ RequestInv(made)
    OBVIOUS
  <2>1. made \in Request
    BY <1>1 DEF Begun, Request, PCs
  <2>2. /\ made.pc = "settleAudit" /\ made.kind = kind /\ made.target = o
        /\ made.written = row /\ made.answer = "none"
    BY <1>1 DEF Begun, Request
  <2> HIDE DEF made
  <2> QED BY <1>4, <2>1, <2>2 DEF RequestInv
<1>6. none \in Request /\ RequestInv(none)
  <2>1. none \in Request
    BY <1>1 DEF Begun, Request, PCs
  <2>2. /\ none.pc = "reread" /\ none.kind = kind /\ none.target = o
        /\ none.written = NULL /\ none.answer = "none"
    BY <1>1 DEF Begun, Request
  <2> HIDE DEF none
  <2> QED BY <1>4, <2>1, <2>2 DEF RequestInv
<1> HIDE DEF made, none
<1>7. \E p \in Request : RequestInv(p) /\ Becomes(r, p)
  BY <1>2, <1>3, <1>5, <1>6
<1>8. orders' \in [OrderIds -> Row \cup {NULL}]
  BY <1>2, <1>3 DEF Typed, TypeOK
<1> QED BY <1>7, <1>8, BecomesKeeps DEF SettleUpdate, Typed, TypeOK

\* A settling request that has its outcome goes on to the hydration.
LEMMA HydrateInv ==
  ASSUME NEW q \in Request, RequestInv(q), q.pc \in {"reread", "settleAudit"}
  PROVE  LET p == [q EXCEPT !.pc = "hydrate"]
         IN  p \in Request /\ RequestInv(p)
<1> DEFINE p == [q EXCEPT !.pc = "hydrate"]
<1>1. q.kind \in Settlements /\ q.target # NULL /\ q.answer = "none"
  BY DEF RequestInv, PCs
<1>2. p \in Request
  BY DEF Request, PCs
<1>3. p.pc = "hydrate" /\ p.kind = q.kind /\ p.target = q.target /\ p.answer = "none"
  BY <1>1 DEF Request
<1> HIDE DEF p
<1>4. RequestInv(p)
  BY <1>1, <1>3 DEF RequestInv
<1> QED BY <1>2, <1>4 DEF p

LEMMA SettleStepsTyped ==
  ASSUME Typed, NEW r \in Requests, SettleReread(r) \/ SettleAudit(r) \/ SettleHydrate(r)
  PROVE  Typed'
<1>1. req[r] \in Request /\ RequestInv(req[r])
  BY DEF Typed, TypeOK
<1>2. req[r].pc \in {"reread", "settleAudit", "hydrate"}
  BY DEF SettleReread, SettleAudit, SettleHydrate
<1>3. req[r].target \in OrderIds
  BY <1>1, <1>2 DEF RequestInv, PCs, Request
<1>4. orders[req[r].target] \in Row \cup {NULL}
  BY <1>3 DEF Typed, TypeOK
<1>5. CASE SettleReread(r)
  <2>1. req[r].pc = "reread"
    BY <1>5 DEF SettleReread
  <2>2. \/ Becomes(r, Replied(req[r], "notFound", NULL))
        \/ Becomes(r, [req[r] EXCEPT !.pc = "hydrate"])
        \/ Becomes(r, Replied(req[r], "conflict", NULL))
    BY <1>5 DEF SettleReread
  <2>3. \E p \in Request : RequestInv(p) /\ Becomes(r, p)
    BY <1>1, <2>1, <2>2, HydrateInv, RepliedInv DEF Answers
  <2> QED BY <1>5, <2>3, BecomesKeeps DEF SettleReread, Typed, TypeOK
<1>6. CASE SettleAudit(r)
  <2>1. \E p \in Request : RequestInv(p) /\ Becomes(r, p)
    BY <1>1, <1>6, HydrateInv DEF SettleAudit
  <2>2. audit' \subseteq AuditRecord
    <3>1. (IF req[r].kind = "confirm" THEN "order_payment_confirmed" ELSE "order_cancelled")
            \in AuditEvents
      BY DEF AuditEvents
    <3> QED BY <1>3, <1>6, <3>1, LoggedType DEF SettleAudit, Typed, TypeOK
  <2> QED BY <1>6, <2>1, <2>2, BecomesKeeps DEF SettleAudit, Typed, TypeOK
<1>7. CASE SettleHydrate(r)
  <2>1. \E p \in Request : RequestInv(p) /\ Becomes(r, p)
    BY <1>1, <1>4, <1>7, RepliedInv DEF SettleHydrate, Answers
  <2> QED BY <1>7, <2>1, BecomesKeeps DEF SettleHydrate, Typed, TypeOK
<1> QED BY <1>5, <1>6, <1>7

\* The new record of a PATCH whose first read found a row to work on.
LEMMA PatchReadInv ==
  ASSUME NEW o \in OrderIds, NEW p \in Patch, NEW kind, NEW q, Begun(q, kind, o, p),
         NEW row \in Row, NEW pc,
         \/ kind = "userPatch" /\ p \in UserPatches /\ pc \in {"userReturn", "userWrite"}
         \/ kind = "adminPatch" /\ pc = "adminWrite"
  PROVE  LET x == [q EXCEPT !.read = row, !.pc = pc]
         IN  x \in Request /\ RequestInv(x)
<1> DEFINE x == [q EXCEPT !.read = row, !.pc = pc]
<1>1. x \in Request
  BY DEF Begun, Request, PCs
<1>2. /\ x.pc = pc /\ x.kind = kind /\ x.target = o /\ x.patch = p
      /\ x.read = row /\ x.written = NULL /\ x.answer = "none"
  BY DEF Begun, Request
<1>3. row # NULL /\ o # NULL
  BY NullAssumption
<1> HIDE DEF x
<1>4. RequestInv(x)
  BY <1>2, <1>3 DEF RequestInv
<1> QED BY <1>1, <1>4 DEF x

LEMMA UserPatchReadTyped ==
  ASSUME Typed, NEW r \in Requests, NEW o \in OrderIds, NEW p \in UserPatches,
         UserPatchRead(r, o, p)
  PROVE  Typed'
<1> DEFINE q == Started(r, "userPatch", o, p)
           pc == IF FieldsChanged(orders[o], p) = {} THEN "userReturn" ELSE "userWrite"
<1>1. p \in Patch
  BY BodyAssumption
<1>2. Begun(q, "userPatch", o, p)
  <2>1. req[r].pc = "idle" /\ "userPatch" \in Kinds
    BY DEF UserPatchRead, Kinds
  <2> QED BY <1>1, <2>1, StartedInv
<1>3. orders[o] \in Row \cup {NULL}
  BY DEF Typed, TypeOK
<1>4. \/ Becomes(r, Replied(q, "notFound", NULL))
      \/ Becomes(r, Replied(q, "ok", orders[o]))
      \/ Becomes(r, Replied(q, "conflict", NULL))
      \/ orders[o] # NULL /\ Becomes(r, [q EXCEPT !.read = orders[o], !.pc = pc])
  BY DEF UserPatchRead
<1>5. pc \in {"userReturn", "userWrite"}
  OBVIOUS
<1> HIDE DEF q, pc
<1>6. q \in Request
  BY <1>2 DEF Begun
<1>7. \E x \in Request : RequestInv(x) /\ Becomes(r, x)
  BY <1>1, <1>2, <1>3, <1>4, <1>5, <1>6, RepliedInv, PatchReadInv DEF Answers
<1> QED BY <1>7, BecomesKeeps DEF UserPatchRead, Typed, TypeOK

LEMMA AdminPatchReadTyped ==
  ASSUME Typed, NEW r \in Requests, NEW o \in OrderIds, NEW p \in AdminPatches,
         AdminPatchRead(r, o, p)
  PROVE  Typed'
<1> DEFINE q == Started(r, "adminPatch", o, p)
<1>1. p \in Patch
  BY BodyAssumption
<1>2. Begun(q, "adminPatch", o, p)
  <2>1. req[r].pc = "idle" /\ "adminPatch" \in Kinds
    BY DEF AdminPatchRead, Kinds
  <2> QED BY <1>1, <2>1, StartedInv
<1>3. orders[o] \in Row \cup {NULL}
  BY DEF Typed, TypeOK
<1>4. \/ Becomes(r, Replied(q, "notFound", NULL))
      \/ Becomes(r, Replied(q, "ok", orders[o]))
      \/ orders[o] # NULL /\ Becomes(r, [q EXCEPT !.read = orders[o], !.pc = "adminWrite"])
  BY DEF AdminPatchRead
<1> HIDE DEF q
<1>5. q \in Request
  BY <1>2 DEF Begun
<1>6. \E x \in Request : RequestInv(x) /\ Becomes(r, x)
  BY <1>1, <1>2, <1>3, <1>4, <1>5, RepliedInv, PatchReadInv DEF Answers
<1> QED BY <1>6, BecomesKeeps DEF AdminPatchRead, Typed, TypeOK

LEMMA PatchWriteTyped ==
  ASSUME Typed, NEW r \in Requests, UserPatchWrite(r) \/ AdminPatchWrite(r)
  PROVE  Typed'
<1>1. PICK from \in {"userWrite", "adminWrite"} :
        PatchWrite(r, from, IF from = "userWrite" THEN "userAudit" ELSE "adminAudit")
  BY DEF UserPatchWrite, AdminPatchWrite
<1> DEFINE q == req[r]
           to == IF from = "userWrite" THEN "userAudit" ELSE "adminAudit"
           o == q.target
           row == Patched(orders[o], q.patch)
           x == [q EXCEPT !.pc = to, !.replaced = orders[o], !.written = row]
<1>2. q \in Request /\ RequestInv(q) /\ q.pc = from
  BY <1>1 DEF Typed, TypeOK, PatchWrite
<1>3. o \in OrderIds /\ q.patch \in Patch
  BY <1>2 DEF RequestInv, PCs, Request
<1>4. orders[o] \in Row \cup {NULL}
  BY <1>3 DEF Typed, TypeOK
<1>5. \/ Becomes(r, Replied(q, "notFound", NULL)) /\ UNCHANGED orders
      \/ /\ orders[o] # NULL /\ Becomes(r, x)
         /\ orders' = [orders EXCEPT ![o] = row]
  BY <1>1 DEF PatchWrite
<1>6. orders[o] # NULL => row \in Row
  BY <1>3, <1>4, PatchedType
<1>7. row \in Row => x \in Request /\ RequestInv(x)
  <2> SUFFICES ASSUME row \in Row PROVE x \in Request /\ RequestInv(x)
    OBVIOUS
  <2>1. to \in {"userAudit", "adminAudit"} /\ (to = "userAudit") = (from = "userWrite")
    OBVIOUS
  <2>2. /\ q.answer = "none" /\ q.target # NULL /\ q.read # NULL
        /\ from = "userWrite" => q.kind = "userPatch" /\ q.patch \in UserPatches
        /\ from = "adminWrite" => q.kind = "adminPatch"
    BY <1>2 DEF RequestInv, PCs
  <2>3. row # NULL
    BY NullAssumption
  <2> HIDE DEF row, to, q, o
  <2>4. x \in Request
    BY <1>2, <1>4, <2>1 DEF Request, PCs
  <2>5. /\ x.pc = to /\ x.kind = q.kind /\ x.target = q.target /\ x.patch = q.patch
        /\ x.read = q.read /\ x.written = row /\ x.answer = q.answer
    BY <1>2 DEF Request
  <2> HIDE DEF x
  <2> QED BY <2>1, <2>2, <2>3, <2>4, <2>5 DEF RequestInv
<1> HIDE DEF x, row, o, q
<1>8. \E y \in Request : RequestInv(y) /\ Becomes(r, y)
  BY <1>2, <1>5, <1>6, <1>7, RepliedInv DEF Answers
<1>9. orders' \in [OrderIds -> Row \cup {NULL}]
  BY <1>5, <1>6 DEF Typed, TypeOK
<1> QED BY <1>1, <1>8, <1>9, BecomesKeeps DEF PatchWrite, Typed, TypeOK

LEMMA PatchEndTyped ==
  ASSUME Typed, NEW r \in Requests,
         UserPatchReturn(r) \/ UserPatchAudit(r) \/ AdminPatchAudit(r)
  PROVE  Typed'
<1>1. req[r] \in Request /\ RequestInv(req[r])
  BY DEF Typed, TypeOK
<1>2. req[r].pc \in {"userReturn", "userAudit", "adminAudit"}
  BY DEF UserPatchReturn, UserPatchAudit, AdminPatchAudit
<1>3. req[r].target \in OrderIds /\ req[r].written \in Row \cup {NULL}
  BY <1>1, <1>2 DEF RequestInv, PCs, Request
<1>4. orders[req[r].target] \in Row \cup {NULL}
  BY <1>3 DEF Typed, TypeOK
<1>5. CASE UserPatchReturn(r)
  <2>1. \E x \in Request : RequestInv(x) /\ Becomes(r, x)
    BY <1>1, <1>4, <1>5, RepliedInv DEF UserPatchReturn, Answers
  <2> QED BY <1>5, <2>1, BecomesKeeps DEF UserPatchReturn, Typed, TypeOK
<1>6. CASE UserPatchAudit(r)
  <2>1. \E x \in Request : RequestInv(x) /\ Becomes(r, x)
    BY <1>1, <1>3, <1>6, RepliedInv DEF UserPatchAudit, Answers
  <2>2. audit' \subseteq AuditRecord
    BY <1>3, <1>6, FieldSets, LoggedType DEF UserPatchAudit, Typed, TypeOK, AuditEvents
  <2> QED BY <1>6, <2>1, <2>2, BecomesKeeps DEF UserPatchAudit, Typed, TypeOK
<1>7. CASE AdminPatchAudit(r)
  <2>1. \E x \in Request : RequestInv(x) /\ Becomes(r, x)
    BY <1>1, <1>3, <1>7, RepliedInv DEF AdminPatchAudit, Answers
  <2>2. /\ req[r].pc = "adminAudit"
        /\ Logged("order_admin_patched", r,
             FieldsSent(req[r].patch) \
               (IF req[r].patch.status = req[r].read.status THEN {"status"} ELSE {}),
             req[r].read.status, req[r].written.status)
    BY <1>7 DEF AdminPatchAudit
  <2>3. req[r].read \in Row /\ req[r].written \in Row
    BY <1>1, <2>2 DEF RequestInv, Request
  <2>4. req[r].read.status \in OrderStatus /\ req[r].written.status \in OrderStatus
    BY <2>3 DEF Row
  <2>5. FieldsSent(req[r].patch) \
          (IF req[r].patch.status = req[r].read.status THEN {"status"} ELSE {})
            \in SUBSET PatchFields
    BY FieldSets
  <2>6. audit' \subseteq AuditRecord
    BY <1>3, <2>2, <2>4, <2>5, LoggedType DEF Typed, TypeOK, AuditEvents
  <2> QED BY <1>7, <2>1, <2>6, BecomesKeeps DEF AdminPatchAudit, Typed, TypeOK
<1> QED BY <1>5, <1>6, <1>7

LEMMA DeleteTyped ==
  ASSUME Typed, NEW r \in Requests, Delete(r)
  PROVE  Typed'
<1>1. ASSUME NEW o \in OrderIds, DeleteRow(r, o) PROVE Typed'
  <2> DEFINE q == Started(r, "delete", o, NoPatch)
             x == [q EXCEPT !.pc = "deleteAudit"]
  <2>1. Begun(q, "delete", o, NoPatch)
    <3>1. req[r].pc = "idle" /\ "delete" \in Kinds
      BY <1>1 DEF DeleteRow, Kinds
    <3> QED BY <3>1, StartedInv, NoPatchType
  <2>2. \/ Becomes(r, Replied(q, "notFound", NULL)) /\ UNCHANGED orders
        \/ Becomes(r, x) /\ orders' = [orders EXCEPT ![o] = NULL]
    BY <1>1 DEF DeleteRow
  <2> HIDE DEF q
  <2>3. x \in Request /\ RequestInv(x)
    <3>1. x \in Request
      BY <2>1 DEF Begun, Request, PCs
    <3>2. /\ x.pc = "deleteAudit" /\ x.kind = "delete" /\ x.target = o
          /\ x.answer = "none" /\ o # NULL
      BY <2>1, NullAssumption DEF Begun, Request
    <3> HIDE DEF x
    <3> QED BY <3>1, <3>2 DEF RequestInv
  <2>4. q \in Request
    BY <2>1 DEF Begun
  <2> HIDE DEF x
  <2>5. \E y \in Request : RequestInv(y) /\ Becomes(r, y)
    BY <2>2, <2>3, <2>4, RepliedInv DEF Answers
  <2>6. orders' \in [OrderIds -> Row \cup {NULL}]
    BY <2>2 DEF Typed, TypeOK
  <2> QED BY <1>1, <2>5, <2>6, BecomesKeeps DEF DeleteRow, Typed, TypeOK
<1>2. CASE DeleteAudit(r)
  <2>1. req[r] \in Request /\ req[r].target \in OrderIds
    BY <1>2 DEF DeleteAudit, Typed, TypeOK, RequestInv, PCs, Request
  <2>2. \E x \in Request : RequestInv(x) /\ Becomes(r, x)
    BY <1>2, <2>1, RepliedInv DEF DeleteAudit, Answers
  <2>3. audit' \subseteq AuditRecord
    BY <1>2, <2>1, LoggedType DEF DeleteAudit, Typed, TypeOK, AuditEvents
  <2> QED BY <1>2, <2>2, <2>3, BecomesKeeps DEF DeleteAudit, Typed, TypeOK
<1> QED BY <1>1, <1>2 DEF Delete

LEMMA LoseTyped ==
  ASSUME Typed, NEW r \in Requests, Lose(r)
  PROVE  Typed'
<1> DEFINE q == req[r]
           x == [q EXCEPT !.pc = "lost", !.read = NULL]
<1>1. q \in Request /\ RequestInv(q) /\ q.pc # "done"
  BY DEF Typed, TypeOK, Lose
<1>2. q.answer = "none"
  BY <1>1 DEF RequestInv
<1>3. x \in Request /\ x.pc = "lost" /\ x.answer = "none"
  BY <1>1, <1>2 DEF Request, PCs
<1>4. Becomes(r, x)
  BY DEF Lose
<1> HIDE DEF x
<1>5. RequestInv(x)
  BY <1>3 DEF RequestInv
<1> QED BY <1>3, <1>4, <1>5, BecomesKeeps DEF Lose, Typed, TypeOK

LEMMA CatalogueTyped ==
  ASSUME Typed,
         \/ \E s \in Subjects : CatalogueLiveness(s)
         \/ \E i \in SaleItems, p \in Prices : CataloguePrice(i, p)
  PROVE  Typed'
<1>1. CASE \E s \in Subjects : CatalogueLiveness(s)
  <2>1. PICK s \in Subjects : CatalogueLiveness(s)
    BY <1>1
  <2>2. live' \in [Subjects -> BOOLEAN]
    BY <2>1 DEF CatalogueLiveness, Typed, TypeOK
  <2> QED BY <2>1, <2>2 DEF CatalogueLiveness, Typed, TypeOK
<1>2. CASE \E i \in SaleItems, p \in Prices : CataloguePrice(i, p)
  <2>1. PICK i \in SaleItems, p \in Prices : CataloguePrice(i, p)
    BY <1>2
  <2> QED BY <2>1 DEF CataloguePrice, Typed, TypeOK
<1> QED BY <1>1, <1>2

LEMMA NextTyped == Typed /\ [Next]_vars => Typed'
<1> SUFFICES ASSUME Typed, [Next]_vars PROVE Typed'
  OBVIOUS
<1>1. CASE UNCHANGED vars
  BY <1>1 DEF vars, Typed, TypeOK
<1>2. ASSUME NEW r \in Requests, Create(r) PROVE Typed'
  BY <1>2, DonationTyped, PurchaseTyped, PersistTyped, CreateAuditTyped DEF Create
<1>3. ASSUME NEW r \in Requests, Settle(r) PROVE Typed'
  BY <1>3, SettleUpdateTyped, SettleStepsTyped DEF Settle
<1>4. ASSUME NEW r \in Requests, UserPatchOrder(r) PROVE Typed'
  BY <1>4, UserPatchReadTyped, PatchWriteTyped, PatchEndTyped DEF UserPatchOrder
<1>5. ASSUME NEW r \in Requests, AdminPatchOrder(r) PROVE Typed'
  BY <1>5, AdminPatchReadTyped, PatchWriteTyped, PatchEndTyped DEF AdminPatchOrder
<1> QED BY <1>1, <1>2, <1>3, <1>4, <1>5, DeleteTyped, LoseTyped, CatalogueTyped DEF Next

\* Every reachable state is well typed, and every request knows what its
\* handler knows at the await it is suspended at: a PATCH about to write has
\* read a row and written none, an answered request is over.
THEOREM TypeCorrect == Spec => [](TypeOK /\ \A r \in Requests : RequestInv(req[r]))
<1>1. Init => Typed
  BY InitTyped
<1>2. Typed /\ [Next]_vars => Typed'
  BY NextTyped
<1> QED BY <1>1, <1>2, PTL DEF Spec, Typed

-----------------------------------------------------------------------------
(* The outcome a confirm or a cancel saw stands.  A step changes the       *)
(* record of one request, from q == req[r] to p; Keeps collects what such  *)
(* a step has to respect, and each action is shown to respect it.          *)

InformedBy(q, o) ==
  /\ q.kind \in Settlements /\ q.target = o
  /\ q.pc \in {"settleAudit", "hydrate"} \/ q.answer = "ok"

CorrectsBy(q, o) ==
  /\ q.kind = "adminPatch" /\ q.target = o /\ q.written # NULL
  /\ \E f \in {"status", "paidAt", "cancelledAt"} : q.patch[f] # ABSENT

\* What a request wrote, and where, is settled once it has written.
SameWork(q, p) ==
  /\ p.written = q.written
  /\ q.written # NULL => p.kind = q.kind /\ p.target = q.target /\ p.patch = q.patch

\* A step that tells r nothing new about any order.
Quiet(q, p) ==
  /\ SameWork(q, p)
  /\ \A o \in OrderIds : InformedBy(p, o) =>
       InformedBy(q, o) /\ p.kind = q.kind /\ p.answer = "none"

\* What happened to the row of o: nothing to its status, or it was deleted,
\* settled, created, or corrected by the request that is now p.
RowKept(p, o) ==
  \/ orders'[o] = NULL
  \/ orders[o] # NULL /\ orders'[o].status = orders[o].status
  \/ orders[o] # NULL /\ orders[o].status = "PENDING"
  \/ o \notin used
  \/ CorrectsBy(p, o)

Keeps(r, p) ==
  /\ used \subseteq used'
  /\ \A o \in OrderIds : orders'[o] # NULL => o \in used'
  /\ \A o \in OrderIds :
       p.target = o /\ (p.written # NULL \/ InformedBy(p, o)) => o \in used'
  /\ req[r].written # NULL => SameWork(req[r], p)
  /\ \A o \in OrderIds : RowKept(p, o)
  /\ \A o \in OrderIds : ~Corrected(o) /\ InformedBy(p, o) =>
       /\ orders'[o] # NULL => orders'[o].status = Outcome(p.kind)
       /\ p.answer = "ok" => p.shown = Outcome(p.kind)
       /\ \A s \in Requests \ {r} : Informed(s, o) => req[s].kind = p.kind

Standing == IdsUsed /\ OutcomesStand

\* Outcomes differ from each other and from PENDING.
LEMMA Outcomes ==
  ASSUME NEW k1 \in Settlements, NEW k2 \in Settlements
  PROVE  /\ Outcome(k1) # "PENDING"
         /\ Outcome(k1) = Outcome(k2) => k1 = k2
BY DEF Settlements, Outcome

LEMMA KeepsStanding ==
  ASSUME Typed, Standing, NEW r \in Requests, NEW p \in Request, Becomes(r, p), Keeps(r, p)
  PROVE  Standing'
<1>1. /\ req'[r] = p
      /\ \A s \in Requests \ {r} : req'[s] = req[s]
  BY DEF Typed, TypeOK, Becomes
<1>2. \A o \in OrderIds, s \in Requests : Informed(s, o)' <=> InformedBy(req'[s], o)
  BY DEF Informed, InformedBy
<1>3. \A o \in OrderIds, s \in Requests : Informed(s, o) <=> InformedBy(req[s], o)
  BY DEF Informed, InformedBy
<1>4. \A o \in OrderIds : Corrected(o) => Corrected(o)'
  <2> SUFFICES ASSUME NEW o \in OrderIds, NEW s \in Requests, Corrects(s, o)
               PROVE  Corrects(s, o)'
    BY DEF Corrected
  <2>1. CASE s = r
    BY <1>1, <2>1 DEF Keeps, SameWork, Corrects
  <2>2. CASE s # r
    BY <1>1, <2>2 DEF Corrects
  <2> QED BY <2>1, <2>2
<1>5. \A o \in OrderIds : CorrectsBy(p, o) => Corrected(o)'
  BY <1>1 DEF CorrectsBy, Corrected, Corrects
<1>6. IdsUsed'
  <2>1. ASSUME NEW s \in Requests, NEW o \in OrderIds,
               req'[s].target = o, req'[s].written # NULL \/ InformedBy(req'[s], o)
        PROVE  o \in used'
    <3>1. CASE s = r
      BY <1>1, <2>1, <3>1 DEF Keeps
    <3>2. CASE s # r
      BY <1>1, <1>3, <2>1, <3>2 DEF Keeps, Standing, IdsUsed
    <3> QED BY <3>1, <3>2
  <2>2. \A o \in OrderIds : orders'[o] # NULL => o \in used'
    BY DEF Keeps
  <2> QED BY <1>2, <2>1, <2>2 DEF IdsUsed
<1>7. OutcomesStand'
  <2> SUFFICES ASSUME NEW o \in OrderIds, ~Corrected(o)', NEW s \in Requests,
                      InformedBy(req'[s], o)
               PROVE  /\ orders'[o] # NULL => orders'[o].status = Outcome(req'[s].kind)
                      /\ req'[s].answer = "ok" => req'[s].shown = Outcome(req'[s].kind)
                      /\ \A s2 \in Requests : InformedBy(req'[s2], o) =>
                           req'[s].kind = req'[s2].kind
    BY <1>2 DEF OutcomesStand
  <2>1. ~Corrected(o) /\ ~CorrectsBy(p, o)
    BY <1>4, <1>5
  <2>2. CASE s = r
    BY <1>1, <1>3, <2>1, <2>2 DEF Keeps
  <2>3. CASE s # r
    <3>1. Informed(s, o) /\ req'[s] = req[s] /\ req[s].kind \in Settlements
      BY <1>1, <1>3, <2>3 DEF InformedBy
    <3>2. /\ orders[o] # NULL => orders[o].status = Outcome(req[s].kind)
          /\ req[s].answer = "ok" => req[s].shown = Outcome(req[s].kind)
          /\ \A s2 \in Requests : Informed(s2, o) => req[s].kind = req[s2].kind
      BY <2>1, <3>1 DEF Standing, OutcomesStand
    <3>3. o \in used
      BY <3>1 DEF Standing, IdsUsed, Informed
    <3>4. orders'[o] # NULL => orders'[o].status = Outcome(req[s].kind)
      BY <2>1, <3>1, <3>2, <3>3, Outcomes DEF Keeps, RowKept
    <3>5. ASSUME NEW s2 \in Requests, InformedBy(req'[s2], o)
          PROVE  req'[s].kind = req'[s2].kind
      <4>1. CASE s2 = r
        BY <1>1, <2>1, <2>3, <3>1, <3>5, <4>1 DEF Keeps
      <4>2. CASE s2 # r
        BY <1>1, <1>3, <3>1, <3>2, <3>5, <4>2
      <4> QED BY <4>1, <4>2
    <3> QED BY <3>1, <3>2, <3>4, <3>5
  <2> QED BY <2>2, <2>3
<1> QED BY <1>6, <1>7 DEF Standing

LEMMA QuietStanding ==
  ASSUME Typed, Standing, NEW r \in Requests, NEW p \in Request, Becomes(r, p),
         Quiet(req[r], p), UNCHANGED <<orders, used>>
  PROVE  Standing'
<1>1. \A o \in OrderIds : InformedBy(p, o) => Informed(r, o)
  BY DEF Quiet, Informed, InformedBy
<1>2. \A o \in OrderIds : p.written # NULL /\ p.target = o => o \in used
  BY DEF Quiet, SameWork, Standing, IdsUsed
<1>3. ASSUME NEW o \in OrderIds, p.target = o, InformedBy(p, o) PROVE o \in used
  <2>1. Informed(r, o) /\ req[r].target = o
    BY <1>1, <1>3 DEF Informed
  <2> QED BY <2>1 DEF Standing, IdsUsed
<1>4. \A o \in OrderIds : RowKept(p, o)
  BY DEF RowKept
<1>5. ASSUME NEW o \in OrderIds, ~Corrected(o), InformedBy(p, o)
      PROVE  /\ orders[o] # NULL => orders[o].status = Outcome(p.kind)
             /\ p.answer = "none"
             /\ \A s \in Requests \ {r} : Informed(s, o) => req[s].kind = p.kind
  <2>1. Informed(r, o) /\ p.kind = req[r].kind /\ p.answer = "none"
    BY <1>1, <1>5 DEF Quiet
  <2> QED BY <1>5, <2>1 DEF Standing, OutcomesStand
<1>6. Keeps(r, p)
  BY <1>2, <1>3, <1>4, <1>5 DEF Keeps, Quiet, Standing, IdsUsed
<1> QED BY <1>6, KeepsStanding

\* An answer tells the request nothing unless it settles and is a 200.
LEMMA QuietReply ==
  ASSUME NEW q0, NEW q \in Request, SameWork(q0, q),
         NEW answer \in Answers, NEW row \in Row \cup {NULL},
         answer # "ok" \/ q.kind \notin Settlements
  PROVE  Quiet(q0, Replied(q, answer, row))
<1> DEFINE p == Replied(q, answer, row)
<1>1. /\ p.pc = "done" /\ p.answer = answer /\ p.kind = q.kind /\ p.target = q.target
      /\ p.patch = q.patch /\ p.written = q.written
  BY DEF Replied, Request
<1> HIDE DEF p
<1>2. Quiet(q0, p)
  BY <1>1 DEF Quiet, SameWork, InformedBy
<1> QED BY <1>2 DEF p

\* A request that starts has done no work yet.
LEMMA StartedWork ==
  ASSUME Typed, NEW r \in Requests, req[r].pc = "idle", NEW q, NEW kind, NEW o, NEW p,
         Begun(q, kind, o, p)
  PROVE  SameWork(req[r], q)
<1>1. req[r].written = NULL
  BY DEF Typed, RequestInv, IdleRequest
<1> QED BY <1>1 DEF SameWork, Begun

\* The same for a request of a kind that does not settle, whatever its next pc.
LEMMA QuietStart ==
  ASSUME Typed, NEW r \in Requests, req[r].pc = "idle", NEW kind \in Kinds \ Settlements,
         NEW o \in OrderIds \cup {NULL}, NEW patch \in Patch,
         NEW pc, NEW row
  PROVE  /\ Quiet(req[r], [Started(r, kind, o, patch) EXCEPT !.pc = pc])
         /\ Quiet(req[r], [Started(r, kind, o, patch) EXCEPT !.pc = pc, !.read = row])
         /\ Quiet(req[r], [Started(r, kind, o, patch) EXCEPT !.read = row, !.pc = pc])
         /\ \A a \in Answers, shown \in Row \cup {NULL} :
              Quiet(req[r], Replied(Started(r, kind, o, patch), a, shown))
<1> DEFINE q == Started(r, kind, o, patch)
<1>1. Begun(q, kind, o, patch)
  BY StartedInv
<1>2. SameWork(req[r], q) /\ req[r].written = NULL
  BY <1>1, StartedWork DEF Typed, RequestInv, IdleRequest
<1> HIDE DEF q
<1>3. \A a \in Answers, shown \in Row \cup {NULL} : Quiet(req[r], Replied(q, a, shown))
  BY <1>1, <1>2, QuietReply DEF Begun
<1>4. ASSUME NEW p, p.written = NULL, p.kind = kind PROVE Quiet(req[r], p)
  BY <1>2, <1>4 DEF Quiet, SameWork, InformedBy
<1>5. Quiet(req[r], [q EXCEPT !.pc = pc])
  <2>1. [q EXCEPT !.pc = pc].written = NULL /\ [q EXCEPT !.pc = pc].kind = kind
    BY <1>1 DEF Begun, Request
  <2> QED BY <1>4, <2>1
<1>6. Quiet(req[r], [q EXCEPT !.pc = pc, !.read = row])
  <2>1. /\ [q EXCEPT !.pc = pc, !.read = row].written = NULL
        /\ [q EXCEPT !.pc = pc, !.read = row].kind = kind
    BY <1>1 DEF Begun, Request
  <2> QED BY <1>4, <2>1
<1>7. Quiet(req[r], [q EXCEPT !.read = row, !.pc = pc])
  <2>1. /\ [q EXCEPT !.read = row, !.pc = pc].written = NULL
        /\ [q EXCEPT !.read = row, !.pc = pc].kind = kind
    BY <1>1 DEF Begun, Request
  <2> QED BY <1>4, <2>1
<1> QED BY <1>3, <1>5, <1>6, <1>7 DEF q

\* The lookups and the first reads of the PATCHes.
LEMMA StartQuiet ==
  ASSUME Typed, NEW r \in Requests,
         \/ \E b \in DonationBodies : DonationLookup(r, b)
         \/ \E b \in PurchaseBodies : PurchaseLookup(r, b)
         \/ \E o \in OrderIds, p \in UserPatches : UserPatchRead(r, o, p)
         \/ \E o \in OrderIds, p \in AdminPatches : AdminPatchRead(r, o, p)
  PROVE  /\ UNCHANGED <<orders, used>>
         /\ \E p : Quiet(req[r], p) /\ Becomes(r, p)
<1>1. req[r].pc = "idle" /\ UNCHANGED <<orders, used>>
  BY DEF DonationLookup, PurchaseLookup, UserPatchRead, AdminPatchRead
<1>2. /\ {"create", "userPatch", "adminPatch"} \subseteq Kinds \ Settlements
      /\ {"ok", "notFound", "conflict", "badRequest"} \subseteq Answers
      /\ NULL \in OrderIds \cup {NULL} /\ NULL \in Row \cup {NULL}
      /\ UserPatches \subseteq Patch /\ AdminPatches \subseteq Patch
      /\ NoPatch \in Patch
      /\ \A o \in OrderIds : orders[o] \in Row \cup {NULL}
  BY BodyAssumption, NoPatchType DEF Kinds, Settlements, Answers, Typed, TypeOK
<1>3. \E p : Quiet(req[r], p) /\ Becomes(r, p)
  <2>1. CASE \E b \in DonationBodies : DonationLookup(r, b)
    BY <1>1, <1>2, <2>1, QuietStart DEF DonationLookup
  <2>2. CASE \E b \in PurchaseBodies : PurchaseLookup(r, b)
    BY <1>1, <1>2, <2>2, QuietStart DEF PurchaseLookup
  <2>3. CASE \E o \in OrderIds, p \in UserPatches : UserPatchRead(r, o, p)
    BY <1>1, <1>2, <2>3, QuietStart DEF UserPatchRead
  <2>4. CASE \E o \in OrderIds, p \in AdminPatches : AdminPatchRead(r, o, p)
    BY <1>1, <1>2, <2>4, QuietStart DEF AdminPatchRead
  <2> QED BY <2>1, <2>2, <2>3, <2>4
<1> QED BY <1>1, <1>3

\* The audits, the no-change reply and the loss of a request.
LEMMA EndQuiet ==
  ASSUME Typed, NEW r \in Requests,
         \/ CreateAudit(r) \/ UserPatchReturn(r) \/ UserPatchAudit(r)
         \/ AdminPatchAudit(r) \/ DeleteAudit(r) \/ SettleAudit(r) \/ Lose(r)
  PROVE  /\ UNCHANGED <<orders, used>>
         /\ \E p : Quiet(req[r], p) /\ Becomes(r, p)
<1> DEFINE q == req[r]
<1>1. /\ q \in Request /\ RequestInv(q) /\ UNCHANGED <<orders, used>>
  BY DEF Typed, TypeOK, CreateAudit, UserPatchReturn, UserPatchAudit, AdminPatchAudit,
         DeleteAudit, SettleAudit, Lose
<1>2. SameWork(q, q)
  BY DEF SameWork
<1>3. \E p : Quiet(q, p) /\ Becomes(r, p)
  <2>1. CASE CreateAudit(r) \/ UserPatchAudit(r) \/ AdminPatchAudit(r) \/ DeleteAudit(r)
    <3>1. q.kind \notin Settlements /\ q.written \in Row \cup {NULL}
      BY <1>1, <2>1 DEF RequestInv, Settlements, Request, CreateAudit, UserPatchAudit,
                        AdminPatchAudit, DeleteAudit
    <3>2. Becomes(r, Replied(q, "ok", q.written)) \/ Becomes(r, Replied(q, "ok", NULL))
      BY <2>1 DEF CreateAudit, UserPatchAudit, AdminPatchAudit, DeleteAudit
    <3> QED BY <1>1, <1>2, <3>1, <3>2, QuietReply DEF Answers
  <2>2. CASE UserPatchReturn(r)
    <3>1. q.kind \notin Settlements /\ q.target \in OrderIds
      BY <1>1, <2>2 DEF RequestInv, Settlements, Request, UserPatchReturn, PCs
    <3>2. orders[q.target] \in Row \cup {NULL}
      BY <3>1 DEF Typed, TypeOK
    <3>3. \E a \in Answers : Becomes(r, Replied(q, a, orders[q.target]))
      BY <2>2 DEF UserPatchReturn, Answers
    <3> QED BY <1>1, <1>2, <3>1, <3>2, <3>3, QuietReply
  <2>3. CASE SettleAudit(r)
    <3> DEFINE p == [q EXCEPT !.pc = "hydrate"]
    <3>1. Becomes(r, p) /\ q.pc = "settleAudit"
      BY <2>3 DEF SettleAudit
    <3>2. /\ p.kind = q.kind /\ p.target = q.target /\ p.patch = q.patch
          /\ p.written = q.written /\ p.answer = "none" /\ q.kind \in Settlements
      BY <1>1, <3>1 DEF Request, RequestInv
    <3>3. Quiet(q, p)
      <4> HIDE DEF p, q
      <4> QED BY <3>1, <3>2 DEF Quiet, SameWork, InformedBy
    <3> QED BY <3>1, <3>3
  <2>4. CASE Lose(r)
    <3> DEFINE p == [q EXCEPT !.pc = "lost", !.read = NULL]
    <3>1. Becomes(r, p) /\ q.pc # "done"
      BY <2>4 DEF Lose
    <3>2. /\ p.kind = q.kind /\ p.target = q.target /\ p.patch = q.patch
          /\ p.written = q.written /\ p.answer = "none" /\ p.pc = "lost"
      BY <1>1, <3>1 DEF Request, RequestInv
    <3>3. Quiet(q, p)
      <4> HIDE DEF p, q
      <4> QED BY <3>1, <3>2 DEF Quiet, SameWork, InformedBy
    <3> QED BY <3>1, <3>3
  <2> QED BY <2>1, <2>2, <2>3, <2>4
<1> QED BY <1>1, <1>3

\* None of these steps touches what the settled requests saw.
LEMMA QuietStepStanding ==
  ASSUME Typed, Standing, NEW r \in Requests, UNCHANGED <<orders, used>>,
         \E p : Quiet(req[r], p) /\ Becomes(r, p), Typed'
  PROVE  Standing'
<1>1. PICK p : Quiet(req[r], p) /\ Becomes(r, p)
  OBVIOUS
<1>2. p \in Request
  BY <1>1 DEF Becomes, Typed, TypeOK
<1> QED BY <1>1, <1>2, QuietStanding

\* An insert uses an id nobody knows.
LEMMA PersistStanding ==
  ASSUME Typed, Standing, NEW r \in Requests, NEW o \in OrderIds, CreatePersist(r, o), Typed'
  PROVE  Standing'
<1> DEFINE q == req[r]
           p == [q EXCEPT !.pc = "createAudit", !.target = o, !.written = q.read]
<1>1. /\ q \in Request /\ q.kind = "create" /\ q.written = NULL /\ q.answer = "none"
      /\ q.read # NULL /\ o \notin used
  BY DEF Typed, TypeOK, CreatePersist, RequestInv
<1>2. \/ /\ Becomes(r, p)
         /\ orders' = [orders EXCEPT ![o] = q.read] /\ used' = used \cup {o}
      \/ /\ Becomes(r, Replied(q, "error", NULL))
         /\ UNCHANGED <<orders, used>>
  BY DEF CreatePersist
<1>3. CASE /\ Becomes(r, p)
           /\ orders' = [orders EXCEPT ![o] = q.read] /\ used' = used \cup {o}
  <2>1. p \in Request
    BY <1>3 DEF Becomes, Typed, TypeOK
  <2>2. /\ p.kind = "create" /\ p.target = o
        /\ \A o2 \in OrderIds : ~InformedBy(p, o2)
    BY <1>1 DEF Request, InformedBy, Settlements
  <2>3. \A o2 \in OrderIds \ {o} : orders'[o2] = orders[o2]
    BY <1>3 DEF Typed, TypeOK
  <2>4. \A o2 \in OrderIds : RowKept(p, o2)
    BY <1>1, <2>3 DEF RowKept
  <2>5. \A o2 \in OrderIds : orders'[o2] # NULL => o2 \in used'
    BY <1>3, <2>3 DEF Standing, IdsUsed
  <2> HIDE DEF p, q
  <2>6. Keeps(r, p)
    BY <1>1, <1>3, <2>2, <2>4, <2>5 DEF Keeps, q
  <2> QED BY <1>3, <2>1, <2>6, KeepsStanding
<1>4. CASE Becomes(r, Replied(q, "error", NULL)) /\ UNCHANGED <<orders, used>>
  <2>1. Quiet(q, Replied(q, "error", NULL))
    BY <1>1, QuietReply DEF Answers, SameWork
  <2> QED BY <1>1, <1>4, <2>1, RepliedInv, QuietStanding DEF Answers
<1> QED BY <1>2, <1>3, <1>4

\* A settlement that matches finds the row pending, so nobody was told yet.
LEMMA SettleUpdateStanding ==
  ASSUME Typed, Standing, NEW r \in Requests, NEW o \in OrderIds,
         NEW kind \in Settlements, SettleUpdate(r, o, kind), Typed'
  PROVE  Standing'
<1> DEFINE q == Started(r, kind, o, NoPatch)
           row == Settled(orders[o], kind)
           made == [q EXCEPT !.pc = "settleAudit", !.written = row]
           none == [q EXCEPT !.pc = "reread"]
<1>1. Begun(q, kind, o, NoPatch) /\ req[r].written = NULL
  <2>1. req[r].pc = "idle" /\ kind \in Kinds
    BY DEF SettleUpdate, Settlements, Kinds
  <2> QED BY <2>1, StartedInv, NoPatchType DEF Typed, RequestInv, IdleRequest
<1>2. \/ /\ orders[o] # NULL /\ orders[o].status = "PENDING" /\ Becomes(r, made)
         /\ orders' = [orders EXCEPT ![o] = row] /\ used' = used
      \/ Becomes(r, none) /\ UNCHANGED <<orders, used>>
  BY DEF SettleUpdate, Settleable
<1>3. CASE /\ orders[o] # NULL /\ orders[o].status = "PENDING" /\ Becomes(r, made)
           /\ orders' = [orders EXCEPT ![o] = row] /\ used' = used
  <2>1. made \in Request
    BY <1>3 DEF Becomes, Typed, TypeOK
  <2>2. /\ made.kind = kind /\ made.target = o /\ made.answer = "none"
    BY <1>1 DEF Request, Begun
  <2>3. /\ orders'[o].status = Outcome(kind)
        /\ \A o2 \in OrderIds \ {o} : orders'[o2] = orders[o2]
    BY <1>3, SettledType DEF Typed, TypeOK
  <2>4. \A o2 \in OrderIds : RowKept(made, o2)
    BY <1>3, <2>3 DEF RowKept
  <2>5. \A o2 \in OrderIds : orders'[o2] # NULL => o2 \in used'
    BY <1>3, <2>3 DEF Standing, IdsUsed
  <2>6. \A s \in Requests : ~Corrected(o) => ~Informed(s, o)
    BY <1>3, Outcomes DEF Standing, OutcomesStand, Informed
  <2> HIDE DEF made, q
  <2>7. Keeps(r, made)
    BY <1>1, <1>3, <2>2, <2>3, <2>4, <2>5, <2>6 DEF Keeps, Standing, IdsUsed, InformedBy
  <2> QED BY <1>3, <2>1, <2>7, KeepsStanding
<1>4. CASE Becomes(r, none) /\ UNCHANGED <<orders, used>>
  <2>1. none \in Request
    BY <1>4 DEF Becomes, Typed, TypeOK
  <2>2. none.pc = "reread" /\ none.written = NULL /\ none.answer = "none"
    BY <1>1 DEF Request, Begun
  <2> HIDE DEF none
  <2>3. Quiet(req[r], none)
    BY <1>1, <2>2 DEF Quiet, SameWork, InformedBy
  <2> QED BY <1>4, <2>1, <2>3, QuietStanding
<1> QED BY <1>2, <1>3, <1>4

\* A re-read that finds its outcome agrees with everybody told before it.
LEMMA SettleRereadStanding ==
  ASSUME Typed, Standing, NEW r \in Requests, SettleReread(r), Typed'
  PROVE  Standing'
<1> DEFINE q == req[r]
           o == q.target
           p == [q EXCEPT !.pc = "hydrate"]
<1>1. /\ q \in Request /\ q.kind \in Settlements /\ o \in OrderIds
      /\ q.written = NULL /\ q.answer = "none"
  BY DEF Typed, TypeOK, SettleReread, RequestInv, PCs, Request
<1>2. /\ UNCHANGED <<orders, used>>
      /\ \/ \E a \in {"notFound", "conflict"} : Becomes(r, Replied(q, a, NULL))
         \/ orders[o] # NULL /\ orders[o].status = Outcome(q.kind) /\ Becomes(r, p)
  BY DEF SettleReread
<1>3. ASSUME NEW a \in {"notFound", "conflict"}, Becomes(r, Replied(q, a, NULL))
      PROVE  Standing'
  <2>1. Quiet(q, Replied(q, a, NULL))
    BY <1>1, QuietReply DEF Answers, SameWork
  <2> QED BY <1>1, <1>2, <1>3, <2>1, RepliedInv, QuietStanding DEF Answers
<1>4. CASE orders[o] # NULL /\ orders[o].status = Outcome(q.kind) /\ Becomes(r, p)
  <2>1. p \in Request
    BY <1>4 DEF Becomes, Typed, TypeOK
  <2>2. /\ p.kind = q.kind /\ p.target = o /\ p.answer = "none" /\ p.written = NULL
        /\ p.patch = q.patch
    BY <1>1 DEF Request
  <2>3. ASSUME NEW s \in Requests, ~Corrected(o), Informed(s, o)
        PROVE  req[s].kind = q.kind
    <3>1. req[s].kind \in Settlements /\ orders[o].status = Outcome(req[s].kind)
      BY <1>1, <1>4, <2>3 DEF Standing, OutcomesStand, Informed
    <3> QED BY <1>1, <1>4, <3>1, Outcomes
  <2>4. \A o2 \in OrderIds : RowKept(p, o2)
    BY <1>2 DEF RowKept
  <2> HIDE DEF p
  <2>5. Keeps(r, p)
    BY <1>1, <1>2, <1>4, <2>2, <2>3, <2>4 DEF Keeps, Standing, IdsUsed, InformedBy, SameWork
  <2> QED BY <1>4, <2>1, <2>5, KeepsStanding
<1> QED BY <1>2, <1>3, <1>4

\* The hydration shows the outcome the request made or saw, if the row is left.
LEMMA SettleHydrateStanding ==
  ASSUME Typed, Standing, NEW r \in Requests, SettleHydrate(r), Typed'
  PROVE  Standing'
<1> DEFINE q == req[r]
           o == q.target
           row == orders[o]
           a == IF row = NULL THEN "notFound" ELSE "ok"
           p == Replied(q, a, row)
<1>1. /\ q \in Request /\ q.kind \in Settlements /\ o \in OrderIds
      /\ q.pc = "hydrate" /\ Informed(r, o)
  BY DEF Typed, TypeOK, SettleHydrate, RequestInv, PCs, Request, Informed
<1>2. UNCHANGED <<orders, used>> /\ Becomes(r, p)
  BY DEF SettleHydrate
<1>3. p \in Request
  BY <1>2 DEF Becomes, Typed, TypeOK
<1>4. /\ p.kind = q.kind /\ p.target = o /\ p.patch = q.patch /\ p.written = q.written
      /\ p.pc = "done" /\ p.answer = a
      /\ row # NULL => p.shown = row.status
  BY <1>1 DEF Request, Replied
<1>5. a = "ok" => row # NULL
  OBVIOUS
<1>6. ~Corrected(o) => /\ row # NULL => row.status = Outcome(q.kind)
                       /\ \A s \in Requests : Informed(s, o) => req[s].kind = q.kind
  BY <1>1 DEF Standing, OutcomesStand
<1>7. o \in used
  BY <1>1 DEF Standing, IdsUsed
<1>8. \A o2 \in OrderIds : RowKept(p, o2)
  BY <1>2 DEF RowKept
<1>9. SameWork(q, p)
  BY <1>4 DEF SameWork
<1> HIDE DEF p, a
<1>10. Keeps(r, p)
  BY <1>1, <1>2, <1>4, <1>5, <1>6, <1>7, <1>8, <1>9
     DEF Keeps, Standing, IdsUsed, InformedBy
<1> QED BY <1>2, <1>3, <1>10, KeepsStanding

\* A user's PATCH leaves the status alone; an administrator's either does too
\* or counts as a correction.
LEMMA PatchWriteStanding ==
  ASSUME Typed, Standing, NEW r \in Requests, UserPatchWrite(r) \/ AdminPatchWrite(r), Typed'
  PROVE  Standing'
<1>1. PICK from \in {"userWrite", "adminWrite"} :
        PatchWrite(r, from, IF from = "userWrite" THEN "userAudit" ELSE "adminAudit")
  BY DEF UserPatchWrite, AdminPatchWrite
<1> DEFINE q == req[r]
           to == IF from = "userWrite" THEN "userAudit" ELSE "adminAudit"
           o == q.target
           row == Patched(orders[o], q.patch)
           p == [q EXCEPT !.pc = to, !.replaced = orders[o], !.written = row]
<1>2. /\ q \in Request /\ RequestInv(q) /\ q.pc = from /\ o \in OrderIds
      /\ q.written = NULL /\ q.kind \notin Settlements
      /\ q.kind = "userPatch" => q.patch \in UserPatches
      /\ q.kind \in {"userPatch", "adminPatch"}
  BY <1>1 DEF Typed, TypeOK, PatchWrite, RequestInv, PCs, Request, Settlements
<1>3. \/ Becomes(r, Replied(q, "notFound", NULL)) /\ UNCHANGED <<orders, used>>
      \/ /\ orders[o] # NULL /\ Becomes(r, p)
         /\ orders' = [orders EXCEPT ![o] = row] /\ used' = used
  BY <1>1 DEF PatchWrite
<1>4. CASE Becomes(r, Replied(q, "notFound", NULL)) /\ UNCHANGED <<orders, used>>
  <2>1. Quiet(q, Replied(q, "notFound", NULL))
    BY <1>2, QuietReply DEF Answers, SameWork
  <2> QED BY <1>2, <1>4, <2>1, RepliedInv, QuietStanding DEF Answers
<1>5. CASE /\ orders[o] # NULL /\ Becomes(r, p)
           /\ orders' = [orders EXCEPT ![o] = row] /\ used' = used
  <2>1. p \in Request /\ row \in Row /\ row # NULL
    <3>1. orders[o] \in Row /\ q.patch \in Patch
      BY <1>2, <1>5 DEF Typed, TypeOK, Request
    <3> QED BY <1>5, <3>1, PatchedType, NullAssumption DEF Becomes, Typed, TypeOK
  <2>2. /\ p.kind = q.kind /\ p.target = o /\ p.patch = q.patch /\ p.written = row
    BY <1>2 DEF Request
  <2>3. q.patch.status = ABSENT => row.status = orders[o].status
    <3>1. orders[o] \in Row
      BY <1>2, <1>5 DEF Typed, TypeOK
    <3> QED BY <3>1, PatchedFields DEF Given
  <2>4. q.kind = "userPatch" => q.patch.status = ABSENT
    BY <1>2, BodyAssumption
  <2>5. orders'[o] = row /\ \A o2 \in OrderIds \ {o} : orders'[o2] = orders[o2]
    BY <1>2, <1>5 DEF Typed, TypeOK
  <2> HIDE DEF p, row, o, q
  <2>6. q.patch.status # ABSENT => CorrectsBy(p, o)
    BY <1>2, <2>1, <2>2, <2>4 DEF CorrectsBy
  <2>7. \A o2 \in OrderIds : RowKept(p, o2)
    BY <1>5, <2>3, <2>5, <2>6 DEF RowKept
  <2>8. o \in used /\ \A o2 \in OrderIds : orders'[o2] # NULL => o2 \in used'
    BY <1>2, <1>5, <2>5 DEF Standing, IdsUsed
  <2>9. \A o2 \in OrderIds : ~InformedBy(p, o2)
    BY <1>2, <2>2 DEF InformedBy
  <2>10. req[r].written = NULL
    BY <1>2 DEF q
  <2>11. Keeps(r, p)
    BY <1>5, <2>2, <2>7, <2>8, <2>9, <2>10 DEF Keeps
  <2> QED BY <1>5, <2>1, <2>11, KeepsStanding
<1> QED BY <1>3, <1>4, <1>5

LEMMA DeleteRowStanding ==
  ASSUME Typed, Standing, NEW r \in Requests, NEW o \in OrderIds, DeleteRow(r, o), Typed'
  PROVE  Standing'
<1> DEFINE q == Started(r, "delete", o, NoPatch)
           p == [q EXCEPT !.pc = "deleteAudit"]
<1>1. req[r].pc = "idle" /\ "delete" \in Kinds \ Settlements
  BY DEF DeleteRow, Kinds, Settlements
<1>2. /\ Quiet(req[r], p) /\ Quiet(req[r], Replied(q, "notFound", NULL))
      /\ Begun(q, "delete", o, NoPatch) /\ req[r].written = NULL
  <2>1. "notFound" \in Answers /\ NULL \in Row \cup {NULL}
    BY DEF Answers
  <2>2. Quiet(req[r], p) /\ Quiet(req[r], Replied(q, "notFound", NULL))
    BY <1>1, <2>1, QuietStart, NoPatchType
  <2>3. Begun(q, "delete", o, NoPatch)
    BY <1>1, StartedInv, NoPatchType
  <2>4. req[r].written = NULL
    BY <1>1 DEF Typed, RequestInv, IdleRequest
  <2> QED BY <2>2, <2>3, <2>4
<1>3. \/ Becomes(r, Replied(q, "notFound", NULL)) /\ UNCHANGED <<orders, used>>
      \/ Becomes(r, p) /\ orders' = [orders EXCEPT ![o] = NULL] /\ used' = used
  BY DEF DeleteRow
<1>4. CASE Becomes(r, Replied(q, "notFound", NULL)) /\ UNCHANGED <<orders, used>>
  BY <1>2, <1>4, RepliedInv, QuietStanding DEF Begun, Answers
<1>5. CASE Becomes(r, p) /\ orders' = [orders EXCEPT ![o] = NULL] /\ used' = used
  <2>1. p \in Request
    BY <1>5 DEF Becomes, Typed, TypeOK
  <2>2. p.kind = "delete" /\ p.written = NULL
    BY <1>2 DEF Begun, Request
  <2>3. orders'[o] = NULL /\ \A o2 \in OrderIds \ {o} : orders'[o2] = orders[o2]
    BY <1>5 DEF Typed, TypeOK
  <2>4. \A o2 \in OrderIds : RowKept(p, o2)
    BY <2>3 DEF RowKept
  <2>5. \A o2 \in OrderIds : orders'[o2] # NULL => o2 \in used'
    BY <1>5, <2>3 DEF Standing, IdsUsed
  <2>6. \A o2 \in OrderIds : ~InformedBy(p, o2)
    BY <2>2 DEF InformedBy, Settlements
  <2> HIDE DEF p
  <2>7. Keeps(r, p)
    BY <1>2, <1>5, <2>2, <2>4, <2>5, <2>6 DEF Keeps
  <2> QED BY <1>5, <2>1, <2>7, KeepsStanding
<1> QED BY <1>3, <1>4, <1>5

LEMMA SameStanding ==
  ASSUME Standing, UNCHANGED <<orders, used, req>>
  PROVE  Standing'
BY DEF Standing, IdsUsed, OutcomesStand, Informed, Corrected, Corrects

LEMMA InitStanding == Init => Standing
<1> SUFFICES ASSUME Init PROVE Standing
  OBVIOUS
<1>1. \A r \in Requests : req[r] = IdleRequest
  BY DEF Init
<1>2. \A r \in Requests, o \in OrderIds : ~Informed(r, o) /\ req[r].written = NULL
  BY <1>1 DEF IdleRequest, Informed, Settlements
<1> QED BY <1>2 DEF Init, Standing, IdsUsed, OutcomesStand

LEMMA NextStanding == Typed /\ Typed' /\ Standing /\ [Next]_vars => Standing'
<1> SUFFICES ASSUME Typed, Typed', Standing, [Next]_vars PROVE Standing'
  OBVIOUS
<1>1. CASE UNCHANGED vars
  BY <1>1, SameStanding DEF vars
<1>2. ASSUME NEW r \in Requests, Create(r) PROVE Standing'
  BY <1>2, StartQuiet, EndQuiet, QuietStepStanding, PersistStanding DEF Create
<1>3. ASSUME NEW r \in Requests, Settle(r) PROVE Standing'
  BY <1>3, SettleUpdateStanding, SettleRereadStanding, SettleHydrateStanding,
     EndQuiet, QuietStepStanding DEF Settle
<1>4. ASSUME NEW r \in Requests, UserPatchOrder(r) PROVE Standing'
  BY <1>4, StartQuiet, EndQuiet, QuietStepStanding, PatchWriteStanding DEF UserPatchOrder
<1>5. ASSUME NEW r \in Requests, AdminPatchOrder(r) PROVE Standing'
  BY <1>5, StartQuiet, EndQuiet, QuietStepStanding, PatchWriteStanding DEF AdminPatchOrder
<1>6. ASSUME NEW r \in Requests, Delete(r) PROVE Standing'
  BY <1>6, DeleteRowStanding, EndQuiet, QuietStepStanding DEF Delete
<1>7. ASSUME \/ \E s \in Subjects : CatalogueLiveness(s)
             \/ \E i \in SaleItems, p \in Prices : CataloguePrice(i, p)
      PROVE  Standing'
  BY <1>7, SameStanding DEF CatalogueLiveness, CataloguePrice
<1> QED BY <1>1, <1>2, <1>3, <1>4, <1>5, <1>6, <1>7, EndQuiet, QuietStepStanding DEF Next

\* The inductive invariant: besides what each request knows, an id in use
\* stays in use, and as long as no administrator rewrites an order its row
\* keeps the outcome that its informed requests made or saw.
THEOREM InvCorrect == Spec => []Inv
<1>1. Init => Typed /\ Standing
  BY InitTyped, InitStanding
<1>2. Typed /\ Standing /\ [Next]_vars => Typed' /\ Standing'
  BY NextTyped, NextStanding
<1>3. Typed /\ Standing => Inv
  BY DEF Inv, Typed, Standing
<1> QED BY <1>1, <1>2, <1>3, PTL DEF Spec

\* Any number of confirms, cancels, PATCHes and deletes may race on an order:
\* unless an administrator rewrote its status, no two clients are told with a
\* 200 that it was confirmed and that it was cancelled, and each 200 shows the
\* outcome asked for.
THEOREM SettlementAgreement == Spec => []SettlementAnswersAgree
<1>1. Inv => SettlementAnswersAgree
  BY DEF Inv, OutcomesStand, SettlementAnswersAgree, Acknowledged, Informed
<1> QED BY <1>1, InvCorrect, PTL

-----------------------------------------------------------------------------
(* The first charge                                                        *)

\* A date of the calendar has the fields of one, and conversely.
LEMMA DateFields ==
  ASSUME NEW years, NEW d
  PROVE  d \in DatesOf(years) <=>
           \E y \in years, m \in 0 .. 11 : \E day \in 1 .. DaysIn(y, m) :
             d = [year |-> y, month |-> m, day |-> day]
<1> DEFINE Month(y, m) == {[year |-> y, month |-> m, day |-> day] : day \in 1 .. DaysIn(y, m)}
           months == {Month(y, m) : y \in years, m \in 0 .. 11}
<1>1. DatesOf(years) = UNION months
  BY DEF DatesOf
<1>2. \A M : M \in months <=> \E y \in years, m \in 0 .. 11 : M = Month(y, m)
  OBVIOUS
<1> HIDE DEF months, Month
<1>3. d \in DatesOf(years) <=> \E y \in years, m \in 0 .. 11 : d \in Month(y, m)
  BY <1>1, <1>2
<1> QED
  BY <1>3 DEF Month

\* A month has the billing days.
LEMMA MonthDays ==
  ASSUME NEW y, NEW m \in 0 .. 11
  PROVE  DaysIn(y, m) \in 28 .. 31
BY DEF DaysIn

\* computeNextChargeAt is right in every year.
THEOREM FirstChargeCorrect == ChargeIsNext(Nat)
<1> SUFFICES ASSUME NEW now \in DatesOf(Nat), NEW b \in BillingDays
             PROVE  LET charge == ComputeNextChargeAt(now, b)
                        soon   == {d \in DatesOf({now.year, now.year + 1}) :
                                     d.day = b /\ Ordinal(d) > Ordinal(now)}
                    IN  charge \in soon /\ \A d \in soon : Ordinal(charge) <= Ordinal(d)
  BY DEF ChargeIsNext
<1> DEFINE charge == ComputeNextChargeAt(now, b)
<1>1. PICK y \in Nat, m \in 0 .. 11 : \E day \in 1 .. DaysIn(y, m) :
        now = [year |-> y, month |-> m, day |-> day]
  BY DateFields
<1>2. PICK day \in 1 .. DaysIn(y, m) : now = [year |-> y, month |-> m, day |-> day]
  BY <1>1
<1>3. day \in 1 .. 31 /\ b \in 6 .. 26
  BY MonthDays DEF BillingDays
<1>4. PICK cy \in {y, y + 1}, cm \in 0 .. 11 :
        /\ charge = [year |-> cy, month |-> cm, day |-> b]
        /\ \/ day < b /\ cy = y /\ cm = m
           \/ day >= b /\ cy = y /\ cm = m + 1
           \/ day >= b /\ cy = y + 1 /\ cm = 0 /\ m = 11
  <2>1. CASE day < b
    BY <1>2, <1>3, <2>1 DEF ComputeNextChargeAt, MonthOffset, UTCDate
  <2>2. CASE ~(day < b) /\ m < 11
    BY <1>2, <1>3, <2>2 DEF ComputeNextChargeAt, MonthOffset, UTCDate
  <2>3. CASE ~(day < b) /\ m = 11
    BY <1>2, <1>3, <2>3 DEF ComputeNextChargeAt, MonthOffset, UTCDate
  <2> QED
    BY <2>1, <2>2, <2>3
<1>5. charge \in DatesOf({now.year, now.year + 1}) /\ charge.day = b
  <2>1. b \in 1 .. DaysIn(cy, cm)
    BY <1>3, MonthDays
  <2> QED
    BY <1>2, <1>4, <2>1, DateFields
<1>6. Ordinal(charge) > Ordinal(now)
  BY <1>2, <1>3, <1>4 DEF Ordinal
<1>7. ASSUME NEW d \in DatesOf({now.year, now.year + 1}), d.day = b, Ordinal(d) > Ordinal(now)
      PROVE  Ordinal(charge) <= Ordinal(d)
  <2>1. PICK dy \in {y, y + 1}, dm \in 0 .. 11 : d.year = dy /\ d.month = dm
    BY <1>2, DateFields
  <2> QED
    BY <1>2, <1>3, <1>4, <1>7, <2>1 DEF Ordinal
<1> QED
  BY <1>5, <1>6, <1>7

\* The dates of some years are dates.
LEMMA DatesOfSome ==
  ASSUME NEW some, NEW all, some \subseteq all
  PROVE  DatesOf(some) \subseteq DatesOf(all)
BY DateFields

\* The date written with a recurring order is the next billing day.
THEOREM FirstChargeIsNextCorrect == Spec => []FirstChargeIsNext
<1>1. DatesOf(Years) \subseteq DatesOf(Nat)
  BY DatesOfSome DEF Years
<1>2. ChargeIsNextInYears
  BY <1>1, FirstChargeCorrect DEF ChargeIsNextInYears, ChargeIsNext
<1>3. FirstChargeIsNext
  BY <1>2 DEF FirstChargeIsNext
<1> QED BY <1>3, PTL

=============================================================================
