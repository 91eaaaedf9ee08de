------------------------- MODULE OrdersLedgerProofs -------------------------
(***************************************************************************)
(* Theorems about the rows of Orders: what a stored order promises, that   *)
(* its life is the life of a ledger entry (module OrderLedger), and what   *)
(* the audit log says of it.  Each step of Orders is first reduced to what *)
(* it does to one row; the properties then follow from that shape.         *)
(***************************************************************************)
EXTENDS OrdersProofs

-----------------------------------------------------------------------------
(* The shapes of a step                                                    *)

OverridesBy(q, o) ==
  /\ q.kind = "adminPatch" /\ q.target = o /\ q.written # NULL
  /\ q.patch.receipt # ABSENT

SettlerBy(q, o) == q.kind \in Settlements /\ q.target = o /\ q.written # NULL

\* What the committed writes say of every order stays as it was.
MarksKept ==
  \A o \in OrderIds : /\ Corrected(o)' <=> Corrected(o)
                      /\ ReceiptOverridden(o)' <=> ReceiptOverridden(o)

\* No order gets, or loses, a settler.
SettlersKept == \A o \in OrderIds, r \in Requests : Settler(r, o)' <=> Settler(r, o)

Untouched == UNCHANGED <<orders, used>> /\ MarksKept /\ SettlersKept

Inserted(o, row) ==
  /\ row \in Row /\ Pending(row) /\ OrderInvariants(row) /\ o \notin used
  /\ orders' = [orders EXCEPT ![o] = row] /\ used' = used \cup {o}
  /\ MarksKept /\ SettlersKept

SettledBy(r, o, kind) ==
  /\ orders[o] # NULL /\ orders[o].status = "PENDING"
  /\ orders' = [orders EXCEPT ![o] = Settled(orders[o], kind)] /\ UNCHANGED used
  /\ MarksKept
  /\ \A o2 \in OrderIds, s \in Requests :
       Settler(s, o2)' <=> Settler(s, o2) \/ (o2 = o /\ s = r)

\* A user's PATCH: neither a status, nor a stamp, nor a receipt the subject of
\* the order must not have.
EditedByUser(o, p) ==
  /\ p \in UserPatches /\ orders[o] # NULL /\ ~ReceiptRefused(orders[o], p)
  /\ orders' = [orders EXCEPT ![o] = Patched(orders[o], p)] /\ UNCHANGED used
  /\ MarksKept /\ SettlersKept

\* An administrator's PATCH leaves its mark when it touches what it marks.
EditedByAdmin(o, p) ==
  /\ p \in Patch /\ orders[o] # NULL
  /\ orders' = [orders EXCEPT ![o] = Patched(orders[o], p)] /\ UNCHANGED used
  /\ \A o2 \in OrderIds :
       /\ Corrected(o2)' <=>
            \/ Corrected(o2)
            \/ o2 = o /\ \E f \in {"status", "paidAt", "cancelledAt"} : p[f] # ABSENT
       /\ ReceiptOverridden(o2)' <=>
            ReceiptOverridden(o2) \/ (o2 = o /\ p.receipt # ABSENT)
  /\ SettlersKept

Erased(o) ==
  /\ orders[o] # NULL
  /\ orders' = [orders EXCEPT ![o] = NULL] /\ UNCHANGED used
  /\ MarksKept /\ SettlersKept

RowStep ==
  \/ Untouched
  \/ \E o \in OrderIds :
       \/ \E row \in Row : Inserted(o, row)
       \/ \E r \in Requests, kind \in Settlements : SettledBy(r, o, kind)
       \/ \E p \in UserPatches : EditedByUser(o, p)
       \/ \E p \in Patch : EditedByAdmin(o, p)
       \/ Erased(o)

\* The marks, and the settlers, are read off the requests' records.
LEMMA MarksByRecord ==
  ASSUME Typed, NEW r \in Requests, NEW p, Becomes(r, p)
  PROVE  /\ \A o \in OrderIds :
              /\ Corrected(o)' <=> CorrectsBy(p, o) \/ \E s \in Requests \ {r} : Corrects(s, o)
              /\ Corrected(o) <=>
                   CorrectsBy(req[r], o) \/ \E s \in Requests \ {r} : Corrects(s, o)
              /\ ReceiptOverridden(o)' <=>
                   OverridesBy(p, o) \/ \E s \in Requests \ {r} : OverridesBy(req[s], o)
              /\ ReceiptOverridden(o) <=>
                   OverridesBy(req[r], o) \/ \E s \in Requests \ {r} : OverridesBy(req[s], o)
         /\ \A o \in OrderIds :
              /\ Settler(r, o)' <=> SettlerBy(p, o)
              /\ Settler(r, o) <=> SettlerBy(req[r], o)
              /\ \A s \in Requests \ {r} : Settler(s, o)' <=> Settler(s, o)
<1>1. /\ req'[r] = p
      /\ \A s \in Requests \ {r} : req'[s] = req[s]
  BY DEF Typed, TypeOK, Becomes
<1>2. ASSUME NEW o \in OrderIds
      PROVE  /\ Corrects(r, o)' <=> CorrectsBy(p, o)
             /\ Corrects(r, o) <=> CorrectsBy(req[r], o)
             /\ \A s \in Requests \ {r} : Corrects(s, o)' <=> Corrects(s, o)
  BY <1>1 DEF Corrects, CorrectsBy
<1>3. ASSUME NEW o \in OrderIds
      PROVE  /\ ReceiptOverridden(o)' <=> \E s \in Requests : OverridesBy(req'[s], o)
             /\ ReceiptOverridden(o) <=> \E s \in Requests : OverridesBy(req[s], o)
  BY DEF ReceiptOverridden, OverridesBy
<1>4. ASSUME NEW o \in OrderIds
      PROVE  /\ Settler(r, o)' <=> SettlerBy(p, o)
             /\ Settler(r, o) <=> SettlerBy(req[r], o)
             /\ \A s \in Requests \ {r} : Settler(s, o)' <=> Settler(s, o)
  BY <1>1 DEF Settler, SettlerBy
<1>5. ASSUME NEW o \in OrderIds
      PROVE  /\ Corrected(o)' <=> CorrectsBy(p, o) \/ \E s \in Requests \ {r} : Corrects(s, o)
             /\ Corrected(o) <=>
                  CorrectsBy(req[r], o) \/ \E s \in Requests \ {r} : Corrects(s, o)
  BY <1>2 DEF Corrected
<1>6. ASSUME NEW o \in OrderIds
      PROVE  /\ ReceiptOverridden(o)' <=>
                  OverridesBy(p, o) \/ \E s \in Requests \ {r} : OverridesBy(req[s], o)
             /\ ReceiptOverridden(o) <=>
                  OverridesBy(req[r], o) \/ \E s \in Requests \ {r} : OverridesBy(req[s], o)
  BY <1>1, <1>3
<1> QED BY <1>4, <1>5, <1>6

\* A record whose written row, if it has one, is the one it had, marks what it
\* marked.
LEMMA SameWorkMarks ==
  ASSUME Typed, NEW r \in Requests, NEW p, Becomes(r, p), SameWork(req[r], p)
  PROVE  MarksKept /\ SettlersKept
<1>1. \A o \in OrderIds : /\ CorrectsBy(p, o) <=> CorrectsBy(req[r], o)
                          /\ OverridesBy(p, o) <=> OverridesBy(req[r], o)
                          /\ SettlerBy(p, o) <=> SettlerBy(req[r], o)
  BY DEF SameWork, CorrectsBy, OverridesBy, SettlerBy
<1> QED BY <1>1, MarksByRecord DEF MarksKept, SettlersKept

\* A record that writes nothing the marks look at.
LEMMA PlainWriteMarks ==
  ASSUME Typed, NEW r \in Requests, NEW p, Becomes(r, p), req[r].written = NULL,
         p.kind \notin Settlements, p.kind # "adminPatch"
  PROVE  MarksKept /\ SettlersKept
<1>1. \A o \in OrderIds : /\ ~CorrectsBy(p, o) /\ ~CorrectsBy(req[r], o)
                          /\ ~OverridesBy(p, o) /\ ~OverridesBy(req[r], o)
                          /\ ~SettlerBy(p, o) /\ ~SettlerBy(req[r], o)
  BY DEF CorrectsBy, OverridesBy, SettlerBy
<1> QED BY <1>1, MarksByRecord DEF MarksKept, SettlersKept

LEMMA QuietStepUntouched ==
  ASSUME Typed, NEW r \in Requests, UNCHANGED <<orders, used>>,
         \E p : Quiet(req[r], p) /\ Becomes(r, p)
  PROVE  Untouched
BY SameWorkMarks DEF Quiet, Untouched

-----------------------------------------------------------------------------
(* Every step has one of the shapes                                        *)

\* Everything but the four writes.
LEMMA QuietShapes ==
  ASSUME Typed, NEW r \in Requests,
         \/ \E b \in DonationBodies : DonationLookup(r, b)
         \/ \E b \in PurchaseBodies : PurchaseLookup(r, b)
         \/ \E o \in OrderIds, p \in UserPatches : UserPatchRead(r, o, p)
         \/ \E o \in OrderIds, p \in AdminPatches : AdminPatchRead(r, o, p)
         \/ CreateAudit(r) \/ UserPatchReturn(r) \/ UserPatchAudit(r)
         \/ AdminPatchAudit(r) \/ DeleteAudit(r) \/ SettleAudit(r) \/ Lose(r)
         \/ SettleReread(r) \/ SettleHydrate(r)
  PROVE  Untouched
<1>1. CASE SettleReread(r) \/ SettleHydrate(r)
  <2>1. req[r] \in Request
    BY DEF Typed, TypeOK
  <2>2. \/ \E a \in Answers : \E row : Becomes(r, Replied(req[r], a, row))
        \/ Becomes(r, [req[r] EXCEPT !.pc = "hydrate"])
    BY <1>1 DEF SettleReread, SettleHydrate, Answers
  <2>3. \A a, row : SameWork(req[r], Replied(req[r], a, row))
    BY <2>1 DEF SameWork, Replied, Request
  <2>4. SameWork(req[r], [req[r] EXCEPT !.pc = "hydrate"])
    BY <2>1 DEF SameWork, Request
  <2>5. UNCHANGED <<orders, used>>
    BY <1>1 DEF SettleReread, SettleHydrate
  <2> QED BY <2>2, <2>3, <2>4, <2>5, SameWorkMarks DEF Untouched
<1>2. CASE ~(SettleReread(r) \/ SettleHydrate(r))
  BY <1>2, StartQuiet, EndQuiet, QuietStepUntouched
<1> QED BY <1>1, <1>2

LEMMA PersistShape ==
  ASSUME Typed, CreatesPass, NEW r \in Requests, NEW o \in OrderIds, CreatePersist(r, o)
  PROVE  Inserted(o, req[r].read) /\ req[r].read \in Row
<1> DEFINE q == req[r]
           p == [q EXCEPT !.pc = "createAudit", !.target = o, !.written = q.read]
<1>1. /\ q \in Request /\ q.kind = "create" /\ q.written = NULL
      /\ q.read \in Row /\ Pending(q.read) /\ OrderInvariants(q.read)
  BY DEF Typed, TypeOK, CreatePersist, RequestInv, CreatesPass, Request
<1>2. /\ o \notin used /\ orders' = [orders EXCEPT ![o] = q.read] /\ used' = used \cup {o}
      /\ Becomes(r, p)
  BY <1>1 DEF CreatePersist
<1>3. p.kind = "create"
  BY <1>1 DEF Request
<1> HIDE DEF p
<1>4. MarksKept /\ SettlersKept
  BY <1>1, <1>2, <1>3, PlainWriteMarks DEF Settlements
<1> QED BY <1>1, <1>2, <1>4 DEF Inserted

LEMMA SettleUpdateShape ==
  ASSUME Typed, NEW r \in Requests, NEW o \in OrderIds, NEW kind \in Settlements,
         SettleUpdate(r, o, kind)
  PROVE  Untouched \/ SettledBy(r, o, kind)
<1> DEFINE q == Started(r, kind, o, NoPatch)
           row == Settled(orders[o], kind)
           made == [q EXCEPT !.pc = "settleAudit", !.written = row]
           none == [q EXCEPT !.pc = "reread"]
<1>1. Begun(q, kind, o, NoPatch) /\ req[r].written = NULL
  <2>1. req[r].pc = "idle" /\ kind \in Kinds
    BY DEF SettleUpdate, Settlements, Kinds
  <2> QED BY <2>1, StartedInv, NoPatchType DEF Typed, RequestInv, IdleRequest
<1>2. \/ /\ orders[o] # NULL /\ orders[o].status = "PENDING" /\ Becomes(r, made)
         /\ orders' = [orders EXCEPT ![o] = row] /\ UNCHANGED used
      \/ Becomes(r, none) /\ UNCHANGED <<orders, used>>
  BY DEF SettleUpdate, Settleable
<1>3. CASE /\ orders[o] # NULL /\ orders[o].status = "PENDING" /\ Becomes(r, made)
           /\ orders' = [orders EXCEPT ![o] = row] /\ UNCHANGED used
  <2>1. row # NULL
    BY <1>3, SettledType, NullAssumption DEF Typed, TypeOK
  <2>2. made.kind = kind /\ made.target = o /\ made.written = row
    BY <1>1 DEF Request, Begun
  <2> HIDE DEF made, row
  <2>3. \A o2 \in OrderIds :
          /\ ~CorrectsBy(made, o2) /\ ~OverridesBy(made, o2)
          /\ ~CorrectsBy(req[r], o2) /\ ~OverridesBy(req[r], o2) /\ ~SettlerBy(req[r], o2)
          /\ SettlerBy(made, o2) <=> o2 = o
    BY <1>1, <2>1, <2>2 DEF CorrectsBy, OverridesBy, SettlerBy, Settlements
  <2>4. MarksKept
    BY <1>3, <2>3, MarksByRecord DEF MarksKept
  <2>5. \A o2 \in OrderIds, s \in Requests :
          Settler(s, o2)' <=> Settler(s, o2) \/ (o2 = o /\ s = r)
    BY <1>3, <2>3, MarksByRecord
  <2> QED BY <1>3, <2>4, <2>5 DEF SettledBy, row
<1>4. CASE Becomes(r, none) /\ UNCHANGED <<orders, used>>
  <2>1. none.written = NULL
    BY <1>1 DEF Request, Begun
  <2> HIDE DEF none
  <2>2. SameWork(req[r], none)
    BY <1>1, <2>1 DEF SameWork
  <2> QED BY <1>4, <2>2, SameWorkMarks DEF Untouched
<1> QED BY <1>2, <1>3, <1>4

LEMMA PatchWriteShape ==
  ASSUME Typed, UserWritesChecked, NEW r \in Requests, UserPatchWrite(r) \/ AdminPatchWrite(r)
  PROVE  \/ Untouched
         \/ \E o \in OrderIds : \/ \E p \in UserPatches : EditedByUser(o, p)
                                \/ \E p \in Patch : EditedByAdmin(o, p)
<1>1. PICK from \in {"userWrite", "adminWrite"} :
        PatchWrite(r, from, IF from = "userWrite" THEN "userAudit" ELSE "adminAudit")
  BY DEF UserPatchWrite, AdminPatchWrite
<1> DEFINE q == req[r]
           to == IF from = "userWrite" THEN "userAudit" ELSE "adminAudit"
           o == q.target
           row == Patched(orders[o], q.patch)
           p == [q EXCEPT !.pc = to, !.replaced = orders[o], !.written = row]
<1>2. /\ q \in Request /\ q.pc = from /\ o \in OrderIds /\ q.patch \in Patch
      /\ q.written = NULL
      /\ from = "userWrite" => q.kind = "userPatch" /\ q.patch \in UserPatches
      /\ from = "adminWrite" => q.kind = "adminPatch"
  BY <1>1 DEF Typed, TypeOK, PatchWrite, RequestInv, PCs, Request
<1>3. \/ Becomes(r, Replied(q, "notFound", NULL)) /\ UNCHANGED <<orders, used>>
      \/ /\ orders[o] # NULL /\ Becomes(r, p)
         /\ orders' = [orders EXCEPT ![o] = row] /\ UNCHANGED used
  BY <1>1 DEF PatchWrite
<1>4. CASE Becomes(r, Replied(q, "notFound", NULL)) /\ UNCHANGED <<orders, used>>
  <2>1. SameWork(q, Replied(q, "notFound", NULL))
    BY <1>2 DEF SameWork, Replied, Request
  <2> QED BY <1>4, <2>1, SameWorkMarks DEF Untouched
<1>5. CASE /\ orders[o] # NULL /\ Becomes(r, p)
           /\ orders' = [orders EXCEPT ![o] = row] /\ UNCHANGED used
  <2>1. row # NULL /\ orders[o] \in Row
    <3>1. orders[o] \in Row
      BY <1>2, <1>5 DEF Typed, TypeOK
    <3> QED BY <1>2, <3>1, PatchedType, NullAssumption
  <2>2. p.kind = q.kind /\ p.target = o /\ p.patch = q.patch /\ p.written = row
    BY <1>2 DEF Request
  <2> HIDE DEF p, row
  <2>3. CASE from = "userWrite"
    <3>1. MarksKept /\ SettlersKept
      BY <1>2, <1>5, <2>2, <2>3, PlainWriteMarks DEF Settlements
    <3>2. ~ReceiptRefused(orders[o], q.patch)
      BY <1>2, <1>5, <2>3 DEF UserWritesChecked, ReceiptRefused
    <3>3. EditedByUser(o, q.patch)
      BY <1>2, <1>5, <2>3, <3>1, <3>2 DEF EditedByUser, row
    <3> QED BY <1>2, <2>3, <3>3
  <2>4. CASE from = "adminWrite"
    <3>1. \A o2 \in OrderIds :
            /\ ~CorrectsBy(q, o2) /\ ~OverridesBy(q, o2)
            /\ ~SettlerBy(q, o2) /\ ~SettlerBy(p, o2)
            /\ CorrectsBy(p, o2) <=>
                 o2 = o /\ \E f \in {"status", "paidAt", "cancelledAt"} : q.patch[f] # ABSENT
            /\ OverridesBy(p, o2) <=> o2 = o /\ q.patch.receipt # ABSENT
      BY <1>2, <2>1, <2>2, <2>4 DEF CorrectsBy, OverridesBy, SettlerBy, Settlements
    <3>2. SettlersKept
      BY <1>5, <3>1, MarksByRecord DEF SettlersKept
    <3>3. \A o2 \in OrderIds :
            /\ Corrected(o2)' <=> Corrected(o2) \/ CorrectsBy(p, o2)
            /\ ReceiptOverridden(o2)' <=> ReceiptOverridden(o2) \/ OverridesBy(p, o2)
      BY <1>5, <3>1, MarksByRecord
    <3>4. EditedByAdmin(o, q.patch)
      BY <1>2, <1>5, <3>1, <3>2, <3>3 DEF EditedByAdmin, row
    <3> QED BY <1>2, <3>4
  <2> QED BY <2>3, <2>4
<1> QED BY <1>3, <1>4, <1>5

LEMMA DeleteRowShape ==
  ASSUME Typed, NEW r \in Requests, NEW o \in OrderIds, DeleteRow(r, o)
  PROVE  Untouched \/ Erased(o)
<1> DEFINE q == Started(r, "delete", o, NoPatch)
           p == [q EXCEPT !.pc = "deleteAudit"]
<1>1. req[r].pc = "idle" /\ "delete" \in Kinds \ Settlements /\ "notFound" \in Answers
  BY DEF DeleteRow, Kinds, Settlements, Answers
<1>2. SameWork(req[r], p) /\ SameWork(req[r], Replied(q, "notFound", NULL))
  BY <1>1, QuietStart, NoPatchType DEF Quiet
<1>3. \/ Becomes(r, Replied(q, "notFound", NULL)) /\ UNCHANGED <<orders, used>>
      \/ /\ Becomes(r, p) /\ orders[o] # NULL
         /\ orders' = [orders EXCEPT ![o] = NULL] /\ UNCHANGED used
  BY DEF DeleteRow
<1> HIDE DEF p, q
<1> QED BY <1>2, <1>3, SameWorkMarks DEF Untouched, Erased

LEMMA SameUntouched ==
  ASSUME UNCHANGED <<orders, used, req>>
  PROVE  Untouched
BY DEF Untouched, MarksKept, SettlersKept, Corrected, Corrects, ReceiptOverridden, Settler

LEMMA NextShape ==
  ASSUME Typed, CreatesPass, UserWritesChecked, [Next]_vars
  PROVE  RowStep
<1>1. CASE UNCHANGED vars
  BY <1>1, SameUntouched DEF vars, RowStep
<1>2. ASSUME NEW r \in Requests, Create(r) PROVE RowStep
  BY <1>2, QuietShapes, PersistShape DEF Create, RowStep
<1>3. ASSUME NEW r \in Requests, Settle(r) PROVE RowStep
  BY <1>3, QuietShapes, SettleUpdateShape DEF Settle, RowStep
<1>4. ASSUME NEW r \in Requests, UserPatchOrder(r) PROVE RowStep
  BY <1>4, QuietShapes, PatchWriteShape DEF UserPatchOrder, RowStep
<1>5. ASSUME NEW r \in Requests, AdminPatchOrder(r) PROVE RowStep
  BY <1>5, QuietShapes, PatchWriteShape DEF AdminPatchOrder, RowStep
<1>6. ASSUME NEW r \in Requests, Delete(r) PROVE RowStep
  BY <1>6, QuietShapes, DeleteRowShape DEF Delete, RowStep
<1>7. ASSUME NEW r \in Requests, Lose(r) PROVE RowStep
  BY <1>7, QuietShapes DEF RowStep
<1>8. ASSUME \/ \E s \in Subjects : CatalogueLiveness(s)
             \/ \E i \in SaleItems, p \in Prices : CataloguePrice(i, p)
      PROVE  RowStep
  BY <1>8, SameUntouched DEF CatalogueLiveness, CataloguePrice, RowStep
<1> QED BY <1>1, <1>2, <1>3, <1>4, <1>5, <1>6, <1>7, <1>8 DEF Next

-----------------------------------------------------------------------------
(* What the rows promise                                                   *)

\* An id in use keeps its line, whatever else happens to its row.
LinesKept ==
  /\ used \subseteq used'
  /\ \A o \in used : orders'[o] # NULL =>
       orders[o] # NULL /\ orders'[o].line = orders[o].line

\* The columns a settlement leaves alone, and the stamp it sets.
LEMMA SettledFields ==
  ASSUME NEW row \in Row, NEW kind \in Settlements
  PROVE  /\ Settled(row, kind).line = row.line
         /\ Settled(row, kind).amount = row.amount
         /\ Settled(row, kind).nextChargeAt = row.nextChargeAt
         /\ Settled(row, kind).receipt = row.receipt
         /\ Settled(row, kind).status = Outcome(kind)
         /\ Settled(row, kind).paidAt = (row.paidAt \/ kind = "confirm")
         /\ Settled(row, kind).cancelledAt = (row.cancelledAt \/ kind = "cancel")
BY DEF Settled, Settlements, Outcome, Row

LEMMA LinesStep ==
  ASSUME Typed, RowStep
  PROVE  LinesKept
<1>1. CASE Untouched
  BY <1>1 DEF Untouched, LinesKept
<1>2. ASSUME NEW o \in OrderIds, NEW row \in Row, Inserted(o, row) PROVE LinesKept
  BY <1>2 DEF Inserted, LinesKept, Typed, TypeOK
<1>3. ASSUME NEW o \in OrderIds, NEW row, orders[o] # NULL,
             row = NULL \/ row.line = orders[o].line,
             orders' = [orders EXCEPT ![o] = row], UNCHANGED used
      PROVE  LinesKept
  <2>1. orders'[o] = row /\ \A o2 \in OrderIds \ {o} : orders'[o2] = orders[o2]
    BY <1>3 DEF Typed, TypeOK
  <2> QED BY <1>3, <2>1 DEF LinesKept, Typed, TypeOK
<1>4. \A o \in OrderIds : orders[o] # NULL => orders[o] \in Row
  BY DEF Typed, TypeOK
<1>5. ASSUME NEW o \in OrderIds, NEW r \in Requests, NEW kind \in Settlements,
             SettledBy(r, o, kind)
      PROVE  LinesKept
  BY <1>3, <1>4, <1>5, SettledFields DEF SettledBy
<1>6. ASSUME NEW o \in OrderIds, NEW p, EditedByUser(o, p) \/ EditedByAdmin(o, p)
      PROVE  LinesKept
  BY <1>3, <1>4, <1>6, PatchedFields DEF EditedByUser, EditedByAdmin
<1>7. ASSUME NEW o \in OrderIds, Erased(o) PROVE LinesKept
  BY <1>3, <1>7 DEF Erased
<1> QED BY <1>1, <1>2, <1>5, <1>6, <1>7 DEF RowStep

\* The four rules, of one row; `overridden' says whether an administrator set
\* its receipt option.
RowConsistent(row, overridden) ==
  /\ AmountConsistent(row)
  /\ FrequencyConsistent(row)
  /\ NextChargeConsistent(row)
  /\ row.line.subject \in SaleItems /\ ~overridden => row.receipt = NULL

\* They are about columns no write changes, and the receipt option.
LEMMA ConsistentColumns ==
  ASSUME NEW row \in Row, NEW new, NEW before \in BOOLEAN, NEW after \in BOOLEAN,
         RowConsistent(row, before), new.line = row.line, new.amount = row.amount,
         new.nextChargeAt = row.nextChargeAt,
         row.line.subject \in SaleItems /\ ~after => ~before /\ new.receipt \in {NULL, row.receipt}
  PROVE  RowConsistent(new, after)
BY DEF RowConsistent, AmountConsistent, FrequencyConsistent, NextChargeConsistent

LEMMA RowsStep ==
  ASSUME Typed, StoredRowsConsistent, RowStep
  PROVE  StoredRowsConsistent'
<1> DEFINE R(o) == ReceiptOverridden(o)
<1>1. \A o \in OrderIds : orders[o] # NULL => orders[o] \in Row /\ RowConsistent(orders[o], R(o))
  BY DEF StoredRowsConsistent, RowConsistent, Typed, TypeOK
<1>2. SUFFICES ASSUME NEW o \in OrderIds, orders'[o] # NULL
               PROVE  RowConsistent(orders'[o], R(o)')
  BY DEF StoredRowsConsistent, RowConsistent, AmountConsistent, FrequencyConsistent,
         NextChargeConsistent
<1>3. R(o) \in BOOLEAN /\ R(o)' \in BOOLEAN
  BY DEF ReceiptOverridden
<1>4. CASE orders'[o] = orders[o] /\ (R(o) => R(o)')
  BY <1>1, <1>2, <1>3, <1>4, ConsistentColumns
<1>5. ASSUME NEW o2 \in OrderIds \ {o}, NEW row, orders' = [orders EXCEPT ![o2] = row]
      PROVE  orders'[o] = orders[o]
  BY <1>5 DEF Typed, TypeOK
<1>6. ASSUME NEW row, orders' = [orders EXCEPT ![o] = row]
      PROVE  orders'[o] = row
  BY <1>6 DEF Typed, TypeOK
<1> HIDE DEF R
<1>7. CASE Untouched
  BY <1>4, <1>7 DEF Untouched, MarksKept, R
<1>8. ASSUME NEW o2 \in OrderIds, NEW row \in Row, Inserted(o2, row)
      PROVE  RowConsistent(orders'[o], R(o)')
  <2>1. R(o) <=> R(o)'
    BY <1>8 DEF Inserted, MarksKept, R
  <2>2. CASE o2 = o
    <3>1. orders'[o] = row /\ OrderInvariants(row)
      BY <1>6, <1>8, <2>2 DEF Inserted
    <3> QED BY <3>1 DEF RowConsistent, OrderInvariants, ReceiptConsistent
  <2>3. CASE o2 # o
    BY <1>4, <1>5, <1>8, <2>1, <2>3 DEF Inserted
  <2> QED BY <2>2, <2>3
<1>9. ASSUME NEW o2 \in OrderIds, NEW r \in Requests, NEW kind \in Settlements,
             SettledBy(r, o2, kind)
      PROVE  RowConsistent(orders'[o], R(o)')
  <2>1. R(o) <=> R(o)'
    BY <1>9 DEF SettledBy, MarksKept, R
  <2>2. CASE o2 = o
    <3>1. orders[o] # NULL /\ orders'[o] = Settled(orders[o], kind)
      BY <1>6, <1>9, <2>2 DEF SettledBy
    <3> QED BY <1>1, <1>3, <2>1, <3>1, SettledFields, ConsistentColumns
  <2>3. CASE o2 # o
    BY <1>4, <1>5, <1>9, <2>1, <2>3 DEF SettledBy
  <2> QED BY <2>2, <2>3
<1>10. ASSUME NEW o2 \in OrderIds, NEW p \in UserPatches, EditedByUser(o2, p)
       PROVE  RowConsistent(orders'[o], R(o)')
  <2>1. R(o) <=> R(o)'
    BY <1>10 DEF EditedByUser, MarksKept, R
  <2>2. CASE o2 = o
    <3>1. /\ orders[o] # NULL /\ orders'[o] = Patched(orders[o], p)
          /\ ~ReceiptRefused(orders[o], p)
      BY <1>6, <1>10, <2>2 DEF EditedByUser
    <3>2. orders[o].line.subject \in SaleItems =>
            Patched(orders[o], p).receipt \in {NULL, orders[o].receipt}
      BY <1>1, <3>1, PatchedFields DEF ReceiptRefused, Given
    <3> QED BY <1>1, <1>3, <2>1, <3>1, <3>2, PatchedFields, ConsistentColumns
  <2>3. CASE o2 # o
    BY <1>4, <1>5, <1>10, <2>1, <2>3 DEF EditedByUser
  <2> QED BY <2>2, <2>3
<1>11. ASSUME NEW o2 \in OrderIds, NEW p \in Patch, EditedByAdmin(o2, p)
       PROVE  RowConsistent(orders'[o], R(o)')
  <2>1. R(o)' <=> R(o) \/ (o = o2 /\ p.receipt # ABSENT)
    BY <1>11 DEF EditedByAdmin, R
  <2>2. CASE o2 = o
    <3>1. orders[o] # NULL /\ orders'[o] = Patched(orders[o], p)
      BY <1>6, <1>11, <2>2 DEF EditedByAdmin
    <3>2. ~R(o)' => ~R(o) /\ Patched(orders[o], p).receipt = orders[o].receipt
      BY <1>1, <2>1, <2>2, <3>1, PatchedFields DEF Given
    <3> QED BY <1>1, <1>3, <3>1, <3>2, PatchedFields, ConsistentColumns
  <2>3. CASE o2 # o
    BY <1>4, <1>5, <1>11, <2>1, <2>3 DEF EditedByAdmin
  <2> QED BY <2>2, <2>3
<1>12. ASSUME NEW o2 \in OrderIds, Erased(o2)
       PROVE  RowConsistent(orders'[o], R(o)')
  <2>1. R(o) <=> R(o)'
    BY <1>12 DEF Erased, MarksKept, R
  <2> QED BY <1>2, <1>4, <1>5, <1>6, <1>12, <2>1 DEF Erased
<1> QED BY <1>7, <1>8, <1>9, <1>10, <1>11, <1>12 DEF RowStep

-----------------------------------------------------------------------------
(* The refinement: every order id is an entry of OrderLedger               *)

Entries == [o \in OrderIds |-> LedgerEntry(o)]

\* A row the step leaves alone, with its marks, is the same entry.
LEMMA SameEntry ==
  ASSUME NEW o \in OrderIds, orders'[o] = orders[o], (o \in used') <=> (o \in used),
         Corrected(o)' <=> Corrected(o)
  PROVE  LedgerEntry(o)' = LedgerEntry(o)
<1>1. Corrected(o)' = Corrected(o)
  BY DEF Corrected
<1> QED BY <1>1 DEF LedgerEntry

\* So a step that changes the row of one order changes one entry.
LEMMA OneEntry ==
  ASSUME Typed, NEW o \in OrderIds, NEW row, orders' = [orders EXCEPT ![o] = row],
         \A o2 \in OrderIds \ {o} : /\ (o2 \in used') <=> (o2 \in used)
                                    /\ Corrected(o2)' <=> Corrected(o2)
  PROVE  /\ Entries' = [Entries EXCEPT ![o] = LedgerEntry(o)']
         /\ orders'[o] = row
<1>1. orders'[o] = row /\ \A o2 \in OrderIds \ {o} : orders'[o2] = orders[o2]
  BY DEF Typed, TypeOK
<1>2. \A o2 \in OrderIds \ {o} : LedgerEntry(o2)' = LedgerEntry(o2)
  BY <1>1, SameEntry
<1> QED BY <1>1, <1>2 DEF Entries

LEMMA InitLedger == Init => Ledger!Init
<1> SUFFICES ASSUME Init PROVE Ledger!Init
  OBVIOUS
<1>1. ASSUME NEW o \in OrderIds
      PROVE  LedgerEntry(o) \in {Ledger!Blank("unborn"), Ledger!Blank("PENDING")}
  <2>1. ~Corrected(o)
    BY DEF Init, IdleRequest, Corrected, Corrects
  <2>2. Corrected(o) = FALSE
    BY <2>1 DEF Corrected
  <2>3. CASE orders[o] = NULL
    BY <2>3 DEF Init, LedgerEntry, Ledger!Blank
  <2>4. CASE orders[o] # NULL
    <3>1. orders[o] \in StoredOrders
      BY <2>4 DEF Init
    <3>2. /\ orders[o].status = "PENDING"
          /\ orders[o].paidAt = FALSE /\ orders[o].cancelledAt = FALSE
      BY <3>1, StoredAssumption DEF Row
    <3> QED BY <2>2, <2>4, <3>2 DEF LedgerEntry, Ledger!Blank
  <2> QED BY <2>3, <2>4
<1> QED BY <1>1 DEF Ledger!Init

\* An id with a mark on it was handed out.
LEMMA FreshUnmarked ==
  ASSUME Standing, NEW o \in OrderIds, o \notin used
  PROVE  orders[o] = NULL /\ ~Corrected(o)
BY DEF Standing, IdsUsed, Corrected, Corrects

\* An entry is its four fields.
LEMMA EntryFields ==
  ASSUME NEW e \in Ledger!Entry, NEW f \in Ledger!Entry, e.status = f.status,
         e.paidAt = f.paidAt, e.cancelledAt = f.cancelledAt, e.corrected = f.corrected
  PROVE  e = f
BY DEF Ledger!Entry

\* A settlement changes two fields of an entry.
LEMMA EntryExcept ==
  ASSUME NEW e \in Ledger!Entry, NEW f \in Ledger!Entry, f.corrected = e.corrected
  PROVE  /\ f.status = "PAID" /\ f.paidAt = TRUE /\ f.cancelledAt = e.cancelledAt =>
              f = [e EXCEPT !.status = "PAID", !.paidAt = TRUE]
         /\ f.status = "CANCELLED" /\ f.cancelledAt = TRUE /\ f.paidAt = e.paidAt =>
              f = [e EXCEPT !.status = "CANCELLED", !.cancelledAt = TRUE]
<1> DEFINE p == [e EXCEPT !.status = "PAID", !.paidAt = TRUE]
           c == [e EXCEPT !.status = "CANCELLED", !.cancelledAt = TRUE]
<1>1. {"PAID", "CANCELLED"} \subseteq Ledger!OrderStatus \cup {"unborn", "erased"}
  BY DEF Ledger!OrderStatus
<1>2. /\ p \in Ledger!Entry /\ p.status = "PAID" /\ p.paidAt = TRUE
      /\ p.cancelledAt = e.cancelledAt /\ p.corrected = e.corrected
  BY <1>1 DEF Ledger!Entry
<1>3. /\ c \in Ledger!Entry /\ c.status = "CANCELLED" /\ c.cancelledAt = TRUE
      /\ c.paidAt = e.paidAt /\ c.corrected = e.corrected
  BY <1>1 DEF Ledger!Entry
<1> HIDE DEF p, c
<1>4. f.status = "PAID" /\ f.paidAt = TRUE /\ f.cancelledAt = e.cancelledAt => f = p
  BY <1>2, EntryFields
<1>5. f.status = "CANCELLED" /\ f.cancelledAt = TRUE /\ f.paidAt = e.paidAt => f = c
  BY <1>3, EntryFields
<1> QED BY <1>4, <1>5 DEF p, c

LEMMA LedgerStep ==
  ASSUME Typed, Typed', Standing, RowStep
  PROVE  [Ledger!Next]_Entries
<1>1. CASE Untouched
  <2>1. \A o \in OrderIds : LedgerEntry(o)' = LedgerEntry(o)
    BY <1>1, SameEntry DEF Untouched, MarksKept
  <2> QED BY <2>1 DEF Entries
<1>2. \A o \in OrderIds : Entries[o] = LedgerEntry(o) /\ Entries'[o] = LedgerEntry(o)'
  BY DEF Entries
<1>3. \A o \in OrderIds : Corrected(o) \in BOOLEAN
  BY DEF Corrected
<1>4. ASSUME NEW o \in OrderIds, NEW row \in Row, Inserted(o, row) PROVE Ledger!Open(o)
  <2>1. Entries' = [Entries EXCEPT ![o] = LedgerEntry(o)'] /\ orders'[o] = row
    BY <1>4, OneEntry DEF Inserted, MarksKept
  <2>2. orders[o] = NULL /\ o \notin used /\ ~Corrected(o)'
    BY <1>4, FreshUnmarked DEF Inserted, MarksKept
  <2>3. LedgerEntry(o).status = "unborn"
    BY <2>2 DEF LedgerEntry
  <2>4. Corrected(o)' = FALSE /\ row # NULL
    BY <2>2, NullAssumption DEF Corrected
  <2>5. /\ row.status = "PENDING" /\ row.paidAt = FALSE /\ row.cancelledAt = FALSE
    BY <1>4 DEF Inserted, Pending, Row
  <2>6. LedgerEntry(o)' = Ledger!Blank("PENDING")
    BY <2>1, <2>4, <2>5 DEF LedgerEntry, Ledger!Blank
  <2> QED BY <1>2, <2>1, <2>3, <2>6 DEF Ledger!Open, Entries
<1>5. ASSUME NEW o \in OrderIds, NEW r \in Requests, NEW kind \in Settlements,
             SettledBy(r, o, kind)
      PROVE  Ledger!Pay(o) \/ Ledger!Cancel(o)
  <2> DEFINE row == Settled(orders[o], kind)
  <2>1. Entries' = [Entries EXCEPT ![o] = LedgerEntry(o)'] /\ orders'[o] = row
    BY <1>5, OneEntry DEF SettledBy, MarksKept
  <2>2. /\ orders[o] \in Row /\ row \in Row /\ orders[o] # NULL /\ row # NULL
        /\ orders[o].status = "PENDING" /\ Corrected(o)' = Corrected(o)
    <3>1. Corrected(o)' \in BOOLEAN /\ (Corrected(o)' <=> Corrected(o))
      BY <1>5 DEF SettledBy, MarksKept, Corrected
    <3> QED BY <1>3, <1>5, <3>1, SettledType, NullAssumption DEF SettledBy, Typed, TypeOK
  <2>3. /\ row.status = Outcome(kind)
        /\ row.paidAt = (orders[o].paidAt \/ kind = "confirm")
        /\ row.cancelledAt = (orders[o].cancelledAt \/ kind = "cancel")
        /\ orders[o].paidAt \in BOOLEAN /\ orders[o].cancelledAt \in BOOLEAN
    BY <2>2, SettledFields DEF Row
  <2> HIDE DEF row
  <2>4. LedgerEntry(o) = [status |-> "PENDING", paidAt |-> orders[o].paidAt,
                          cancelledAt |-> orders[o].cancelledAt, corrected |-> Corrected(o)]
    BY <2>2 DEF LedgerEntry
  <2>5. LedgerEntry(o)' = [status |-> row.status, paidAt |-> row.paidAt,
                           cancelledAt |-> row.cancelledAt, corrected |-> Corrected(o)]
    BY <2>1, <2>2 DEF LedgerEntry
  <2>6. LedgerEntry(o) \in Ledger!Entry /\ LedgerEntry(o)' \in Ledger!Entry
    <3>1. row.status \in Ledger!OrderStatus /\ "PENDING" \in Ledger!OrderStatus
      BY <2>3 DEF Ledger!OrderStatus, Outcome
    <3>2. row.paidAt \in BOOLEAN /\ row.cancelledAt \in BOOLEAN
      BY <2>3
    <3> QED BY <1>3, <2>3, <2>4, <2>5, <3>1, <3>2 DEF Ledger!Entry
  <2>7. /\ LedgerEntry(o).paidAt = orders[o].paidAt /\ LedgerEntry(o)'.status = row.status
        /\ LedgerEntry(o).cancelledAt = orders[o].cancelledAt
        /\ LedgerEntry(o)'.paidAt = row.paidAt /\ LedgerEntry(o)'.cancelledAt = row.cancelledAt
        /\ LedgerEntry(o)'.corrected = LedgerEntry(o).corrected
    BY <2>4, <2>5
  <2>8. CASE kind = "confirm"
    <3>1. row.status = "PAID" /\ row.paidAt = TRUE /\ row.cancelledAt = orders[o].cancelledAt
      BY <2>3, <2>8 DEF Outcome
    <3>2. LedgerEntry(o)' = [LedgerEntry(o) EXCEPT !.status = "PAID", !.paidAt = TRUE]
      BY <2>6, <2>7, <3>1, EntryExcept
    <3>3. Entries' = [Entries EXCEPT ![o] = [Entries[o] EXCEPT !.status = "PAID", !.paidAt = TRUE]]
      BY <1>2, <2>1, <3>2
    <3>4. Entries[o].status = "PENDING"
      BY <1>2, <2>4
    <3> QED BY <3>3, <3>4 DEF Ledger!Pay, Entries
  <2>9. CASE kind = "cancel"
    <3>1. /\ row.status = "CANCELLED" /\ row.cancelledAt = TRUE
          /\ row.paidAt = orders[o].paidAt
      BY <2>3, <2>9 DEF Outcome
    <3>2. LedgerEntry(o)' = [LedgerEntry(o) EXCEPT !.status = "CANCELLED", !.cancelledAt = TRUE]
      BY <2>6, <2>7, <3>1, EntryExcept
    <3>3. Entries' = [Entries EXCEPT ![o] =
                        [Entries[o] EXCEPT !.status = "CANCELLED", !.cancelledAt = TRUE]]
      BY <1>2, <2>1, <3>2
    <3>4. Entries[o].status = "PENDING"
      BY <1>2, <2>4
    <3> QED BY <3>3, <3>4 DEF Ledger!Cancel, Entries
  <2> QED BY <2>8, <2>9 DEF Settlements
<1>6. ASSUME NEW o \in OrderIds, NEW p, EditedByUser(o, p) \/ EditedByAdmin(o, p)
      PROVE  Ledger!Correct(o) \/ UNCHANGED Entries
  <2> DEFINE row == Patched(orders[o], p)
  <2>1. /\ Entries' = [Entries EXCEPT ![o] = LedgerEntry(o)'] /\ orders'[o] = row
    BY <1>6, OneEntry DEF EditedByUser, EditedByAdmin, MarksKept
  <2>2. orders[o] \in Row /\ orders[o] # NULL /\ p \in Patch
    BY <1>6, BodyAssumption DEF EditedByUser, EditedByAdmin, Typed, TypeOK
  <2>3. /\ row.status = Given(p.status, orders[o].status)
        /\ row.paidAt = Given(p.paidAt, orders[o].paidAt)
        /\ row.cancelledAt = Given(p.cancelledAt, orders[o].cancelledAt)
        /\ row \in Row /\ row # NULL
    BY <2>2, PatchedFields, PatchedType, NullAssumption
  <2> HIDE DEF row
  <2>4. CASE \A f \in {"status", "paidAt", "cancelledAt"} : p[f] = ABSENT
    <3>1. /\ row.status = orders[o].status /\ row.paidAt = orders[o].paidAt
          /\ row.cancelledAt = orders[o].cancelledAt
      BY <2>3, <2>4 DEF Given
    <3>2. Corrected(o)' <=> Corrected(o)
      BY <1>6, <2>4 DEF EditedByUser, EditedByAdmin, MarksKept
    <3>3. Corrected(o)' = Corrected(o)
      BY <3>2 DEF Corrected
    <3>4. LedgerEntry(o)' = LedgerEntry(o)
      BY <2>1, <2>2, <2>3, <3>1, <3>3 DEF LedgerEntry
    <3> QED BY <2>1, <3>4 DEF Entries
  <2>5. CASE \E f \in {"status", "paidAt", "cancelledAt"} : p[f] # ABSENT
    <3>1. EditedByAdmin(o, p)
      BY <1>6, <2>5, BodyAssumption DEF EditedByUser
    <3>2. Corrected(o)'
      BY <2>5, <3>1 DEF EditedByAdmin
    <3>3. Corrected(o)' = TRUE
      BY <3>2 DEF Corrected
    <3>4. LedgerEntry(o)' = [status |-> row.status, paidAt |-> row.paidAt,
                             cancelledAt |-> row.cancelledAt, corrected |-> TRUE]
      BY <2>1, <2>3, <3>3 DEF LedgerEntry
    <3>5. /\ row.status \in OrderStatus
          /\ row.paidAt \in BOOLEAN /\ row.cancelledAt \in BOOLEAN
      BY <2>3 DEF Row
    <3>6. /\ LedgerEntry(o)'.status \in Ledger!OrderStatus /\ LedgerEntry(o)'.corrected
          /\ LedgerEntry(o)' \in Ledger!Entry
      BY <3>4, <3>5 DEF Ledger!Entry, Ledger!OrderStatus, OrderStatus
    <3>7. LedgerEntry(o).status \in Ledger!OrderStatus
      BY <2>2 DEF LedgerEntry, Ledger!OrderStatus, OrderStatus, Row
    <3> QED BY <1>2, <2>1, <3>6, <3>7 DEF Ledger!Correct, Entries
  <2> QED BY <2>4, <2>5
<1>7. ASSUME NEW o \in OrderIds, Erased(o) PROVE Ledger!Erase(o)
  <2>1. Entries' = [Entries EXCEPT ![o] = LedgerEntry(o)'] /\ orders'[o] = NULL
    BY <1>7, OneEntry DEF Erased, MarksKept
  <2>2. orders[o] \in Row /\ orders[o] # NULL /\ o \in used'
    BY <1>7 DEF Erased, Typed, TypeOK, Standing, IdsUsed
  <2>3. LedgerEntry(o)' = Ledger!Blank("erased")
    BY <2>1, <2>2 DEF LedgerEntry, Ledger!Blank
  <2>4. LedgerEntry(o).status \in Ledger!OrderStatus
    BY <2>2 DEF LedgerEntry, Ledger!OrderStatus, OrderStatus, Row
  <2> QED BY <1>2, <2>1, <2>3, <2>4 DEF Ledger!Erase, Entries
<1>8. ASSUME NEW o \in OrderIds,
             \/ Ledger!Open(o) \/ Ledger!Pay(o) \/ Ledger!Cancel(o)
             \/ Ledger!Correct(o) \/ Ledger!Erase(o)
      PROVE  Ledger!Next
  BY <1>8 DEF Ledger!Next
<1> QED BY <1>1, <1>4, <1>5, <1>6, <1>7, <1>8 DEF RowStep

LEMMA EntryType ==
  ASSUME Typed, NEW o \in OrderIds
  PROVE  LedgerEntry(o) \in Ledger!Entry
<1>1. Corrected(o) \in BOOLEAN
  BY DEF Corrected
<1>2. CASE orders[o] = NULL
  BY <1>2 DEF LedgerEntry, Ledger!Entry
<1>3. CASE orders[o] # NULL
  <2>1. /\ orders[o].status \in Ledger!OrderStatus
        /\ orders[o].paidAt \in BOOLEAN /\ orders[o].cancelledAt \in BOOLEAN
    BY <1>3 DEF Typed, TypeOK, Row, OrderStatus, Ledger!OrderStatus
  <2> QED BY <1>1, <1>3, <2>1 DEF LedgerEntry, Ledger!Entry
<1> QED BY <1>2, <1>3

\* The stamps of the ledger's entries are kept by every step of the ledger.
LEMMA LedgerStamps ==
  ASSUME Typed, StampsMatchStatus, [Ledger!Next]_Entries
  PROVE  StampsMatchStatus'
<1> DEFINE E == Entries
           Stamped(e) == /\ e.paidAt = (e.status = "PAID")
                         /\ e.cancelledAt = (e.status = "CANCELLED")
                         /\ e.status \notin {"FAILED", "REFUNDED"}
<1>1. /\ StampsMatchStatus <=> \A o \in OrderIds : ~E[o].corrected => Stamped(E[o])
      /\ StampsMatchStatus' <=> \A o \in OrderIds : ~E'[o].corrected => Stamped(E'[o])
  BY DEF StampsMatchStatus, Ledger!StampsMatchStatus, Entries
<1>2. CASE UNCHANGED Entries
  BY <1>1, <1>2
<1>3. ASSUME NEW o \in OrderIds, NEW e, E' = [E EXCEPT ![o] = e], ~e.corrected => Stamped(e)
      PROVE  StampsMatchStatus'
  <2>1. E'[o] = e /\ \A o2 \in OrderIds \ {o} : E'[o2] = E[o2]
    BY <1>3 DEF Entries
  <2> QED BY <1>1, <1>3, <2>1
<1>4. ASSUME NEW o \in OrderIds, NEW s \in {"PENDING", "erased"}
      PROVE  Stamped(Ledger!Blank(s))
  BY DEF Ledger!Blank
<1>5. ASSUME NEW o \in OrderIds, Ledger!Open(o) PROVE StampsMatchStatus'
  <2>1. E' = [E EXCEPT ![o] = Ledger!Blank("PENDING")]
    BY <1>5 DEF Ledger!Open, Entries
  <2> QED BY <1>3, <1>4, <2>1
<1>6. ASSUME NEW o \in OrderIds, Ledger!Erase(o) PROVE StampsMatchStatus'
  <2>1. E' = [E EXCEPT ![o] = Ledger!Blank("erased")]
    BY <1>6 DEF Ledger!Erase, Entries
  <2> QED BY <1>3, <1>4, <2>1
<1>7. \A o \in OrderIds : E[o] = LedgerEntry(o)
  BY DEF Entries
<1>8. ASSUME NEW o \in OrderIds, Ledger!Pay(o) \/ Ledger!Cancel(o) PROVE StampsMatchStatus'
  <2> DEFINE paid == [E[o] EXCEPT !.status = "PAID", !.paidAt = TRUE]
             cancelled == [E[o] EXCEPT !.status = "CANCELLED", !.cancelledAt = TRUE]
  <2>1. /\ E[o].status = "PENDING"
        /\ E' = [E EXCEPT ![o] = paid] \/ E' = [E EXCEPT ![o] = cancelled]
    BY <1>8 DEF Ledger!Pay, Ledger!Cancel, Entries
  <2>2. ~E[o].corrected => E[o].paidAt = FALSE /\ E[o].cancelledAt = FALSE
    BY <1>1, <2>1
  <2>3. E[o] \in Ledger!Entry
    BY <1>7, EntryType
  <2> HIDE DEF E
  <2>4. /\ paid.status = "PAID" /\ paid.paidAt = TRUE /\ paid.cancelledAt = E[o].cancelledAt
        /\ paid.corrected = E[o].corrected
        /\ cancelled.status = "CANCELLED" /\ cancelled.paidAt = E[o].paidAt
        /\ cancelled.cancelledAt = TRUE /\ cancelled.corrected = E[o].corrected
    BY <2>3 DEF Ledger!Entry
  <2> HIDE DEF paid, cancelled
  <2>5. (~paid.corrected => Stamped(paid)) /\ (~cancelled.corrected => Stamped(cancelled))
    BY <2>2, <2>4
  <2> QED BY <1>3, <2>1, <2>5
<1>9. ASSUME NEW o \in OrderIds, Ledger!Correct(o) PROVE StampsMatchStatus'
  <2>1. E'[o].corrected /\ E' = [E EXCEPT ![o] = E'[o]]
    BY <1>9 DEF Ledger!Correct, Entries
  <2> QED BY <1>3, <2>1
<1> QED BY <1>2, <1>5, <1>6, <1>8, <1>9 DEF Ledger!Next

LEMMA InitStamps == Init => StampsMatchStatus
<1> SUFFICES ASSUME Init PROVE StampsMatchStatus
  OBVIOUS
<1>1. \A o \in OrderIds : Entries[o] \in {Ledger!Blank("unborn"), Ledger!Blank("PENDING")}
  BY InitLedger DEF Ledger!Init, Entries
<1>2. \A o \in OrderIds :
        /\ Entries[o].paidAt = (Entries[o].status = "PAID")
        /\ Entries[o].cancelledAt = (Entries[o].status = "CANCELLED")
        /\ Entries[o].status \notin {"FAILED", "REFUNDED"}
  <2>1. \A s \in {"unborn", "PENDING"} :
          /\ Ledger!Blank(s).status = s
          /\ Ledger!Blank(s).paidAt = FALSE /\ Ledger!Blank(s).cancelledAt = FALSE
    BY DEF Ledger!Blank
  <2> QED BY <1>1, <2>1
<1> QED BY <1>2 DEF StampsMatchStatus, Ledger!StampsMatchStatus, Entries

-----------------------------------------------------------------------------
(* What a create and a user's PATCH have checked                           *)

\* What q, about to write, knows of the table and of the ids handed out.
Ready(q, table, ids) ==
  /\ q.pc = "persist" => OrderInvariants(q.read)
  /\ q.kind = "create" => q.answer # "error"
  /\ q.pc = "userWrite" =>
       /\ q.target \in ids
       /\ ~ReceiptRefused(q.read, q.patch)
       /\ table[q.target] # NULL => table[q.target].line = q.read.line

\* A request past its checks, and not failed.
Past(q) == q.pc \notin {"persist", "userWrite"} /\ (q.kind = "create" => q.answer # "error")

Checked == CreatesPass /\ UserWritesChecked

\* Lines are kept, so what the other requests checked still holds.
LEMMA ReadyKeeps ==
  ASSUME Typed, Checked, LinesKept, NEW r \in Requests, NEW p, Becomes(r, p),
         Past(p) \/ Ready(p, orders', used')
  PROVE  Checked'
<1>1. /\ req'[r] = p
      /\ \A s \in Requests \ {r} : req'[s] = req[s]
  BY DEF Typed, TypeOK, Becomes
<1>2. CreatesPass'
  BY <1>1 DEF Checked, CreatesPass, Past, Ready
<1>3. UserWritesChecked'
  <2> SUFFICES ASSUME NEW s \in Requests, req'[s].pc = "userWrite"
               PROVE  /\ req'[s].target \in used'
                      /\ ~ReceiptRefused(req'[s].read, req'[s].patch)
                      /\ orders'[req'[s].target] # NULL =>
                           orders'[req'[s].target].line = req'[s].read.line
    BY DEF UserWritesChecked, ReceiptRefused
  <2>1. CASE s = r
    BY <1>1, <2>1 DEF Past, Ready, ReceiptRefused
  <2>2. CASE s # r
    BY <1>1, <2>2 DEF Checked, UserWritesChecked, LinesKept
  <2> QED BY <2>1, <2>2
<1> QED BY <1>2, <1>3 DEF Checked

LEMMA SameChecked ==
  ASSUME Checked, UNCHANGED <<orders, used, req>>
  PROVE  Checked'
BY DEF Checked, CreatesPass, UserWritesChecked, ReceiptRefused

\* An answer other than an error ends the checks, and so does any answer to a
\* request that creates nothing.
LEMMA RepliedPast ==
  ASSUME NEW q \in Request, NEW answer, NEW row, answer # "error" \/ q.kind # "create"
  PROVE  Past(Replied(q, answer, row))
<1>1. /\ Replied(q, answer, row).pc = "done" /\ Replied(q, answer, row).kind = q.kind
      /\ Replied(q, answer, row).answer = answer
  BY DEF Replied, Request
<1> QED BY <1>1 DEF Past

\* The schema of a donation and assertFrequencyBillingDayPair make a row that
\* the assertion inside the transaction accepts...
LEMMA DonationReady ==
  ASSUME Typed, NEW r \in Requests, NEW b \in DonationBodies, DonationLookup(r, b)
  PROVE  \E p : Becomes(r, p) /\ (Past(p) \/ Ready(p, orders', used'))
<1> DEFINE q == Started(r, "create", NULL, NoPatch)
           line == [subject |-> b.subject, quantity |-> 1, unitPrice |-> b.amount,
                    frequency |-> b.frequency, billingDay |-> b.billingDay]
           row == FreshRow(line, b.donor, b.receipt, b.frequency = "RECURRING")
           p == [q EXCEPT !.pc = "persist", !.read = row]
<1>1. Begun(q, "create", NULL, NoPatch)
  <2>1. req[r].pc = "idle" /\ "create" \in Kinds
    BY DEF DonationLookup, Kinds
  <2> QED BY <2>1, StartedInv, NoPatchType
<1>2. \/ Becomes(r, Replied(q, "badRequest", NULL))
      \/ Becomes(r, Replied(q, "notFound", NULL))
      \/ Becomes(r, p) /\ PairMatches(b)
  BY DEF DonationLookup
<1>3. ASSUME PairMatches(b) PROVE OrderInvariants(row)
  <2>1. /\ b.subject \in Charities \cup Projects /\ b.amount \in Nat
        /\ b.frequency \in {"ONE_TIME", "RECURRING"} /\ b.billingDay \in BOOLEAN
        /\ b.receipt \in Receipts
    BY BodyAssumption DEF DonationBody
  <2>2. b.subject \notin SaleItems /\ b.receipt # NULL
    BY <2>1, CatalogueAssumption, NullAssumption
  <2>3. /\ row.line = line /\ row.amount = 1 * b.amount /\ row.receipt = b.receipt
        /\ row.nextChargeAt = (b.frequency = "RECURRING")
    BY DEF FreshRow
  <2>4. /\ line.subject = b.subject /\ line.quantity = 1 /\ line.unitPrice = b.amount
        /\ line.frequency = b.frequency /\ line.billingDay = b.billingDay
    OBVIOUS
  <2> HIDE DEF line, row
  <2>5. FrequencyConsistent(row)
    BY <1>3, <2>1, <2>2, <2>3, <2>4 DEF FrequencyConsistent, PairMatches
  <2>6. AmountConsistent(row)
    BY <2>1, <2>3, <2>4 DEF AmountConsistent, QuantityMax
  <2>7. ReceiptConsistent(row) /\ NextChargeConsistent(row)
    BY <2>2, <2>3, <2>4 DEF ReceiptConsistent, NextChargeConsistent
  <2> QED BY <2>5, <2>6, <2>7 DEF OrderInvariants
<1> HIDE DEF row
<1>4. p.pc = "persist" /\ p.read = row /\ p.answer = "none"
  BY <1>1 DEF Begun, Request
<1> HIDE DEF p, q
<1>5. PairMatches(b) => Ready(p, orders', used')
  BY <1>3, <1>4 DEF Ready
<1> QED BY <1>1, <1>2, <1>5, RepliedPast DEF Begun

\* ...and so does the schema of a purchase, whatever the price is by then.
LEMMA PurchaseReady ==
  ASSUME Typed, NEW r \in Requests, NEW b \in PurchaseBodies, PurchaseLookup(r, b)
  PROVE  \E p : Becomes(r, p) /\ (Past(p) \/ Ready(p, orders', used'))
<1> DEFINE q == Started(r, "create", NULL, NoPatch)
           line == [subject |-> b.item, quantity |-> b.quantity, unitPrice |-> price[b.item],
                    frequency |-> "NONE", billingDay |-> FALSE]
           row == FreshRow(line, b.donor, NULL, FALSE)
           p == [q EXCEPT !.pc = "persist", !.read = row]
<1>1. Begun(q, "create", NULL, NoPatch)
  <2>1. req[r].pc = "idle" /\ "create" \in Kinds
    BY DEF PurchaseLookup, Kinds
  <2> QED BY <2>1, StartedInv, NoPatchType
<1>2. \/ Becomes(r, Replied(q, "notFound", NULL))
      \/ Becomes(r, p)
  BY DEF PurchaseLookup
<1>3. OrderInvariants(row)
  <2>1. b.item \in SaleItems /\ b.quantity \in 1..QuantityMax
    BY BodyAssumption DEF PurchaseBody
  <2>2. /\ row.line = line /\ row.amount = b.quantity * price[b.item] /\ row.receipt = NULL
        /\ row.nextChargeAt = FALSE
    BY DEF FreshRow
  <2>3. /\ line.subject = b.item /\ line.quantity = b.quantity
        /\ line.unitPrice = price[b.item]
        /\ line.frequency = "NONE" /\ line.billingDay = FALSE
    OBVIOUS
  <2> HIDE DEF line, row
  <2>4. FrequencyConsistent(row) /\ AmountConsistent(row)
    BY <2>1, <2>2, <2>3 DEF FrequencyConsistent, AmountConsistent
  <2>5. ReceiptConsistent(row) /\ NextChargeConsistent(row)
    BY <2>1, <2>2, <2>3 DEF ReceiptConsistent, NextChargeConsistent
  <2> QED BY <2>4, <2>5 DEF OrderInvariants
<1> HIDE DEF row
<1>4. p.pc = "persist" /\ p.read = row /\ p.answer = "none"
  BY <1>1 DEF Begun, Request
<1> HIDE DEF p, q
<1>5. Ready(p, orders', used')
  BY <1>3, <1>4 DEF Ready
<1> QED BY <1>1, <1>2, <1>5, RepliedPast DEF Begun

\* The first read of a user's PATCH checks the row it read, which is there.
LEMMA UserPatchReadReady ==
  ASSUME Typed, Standing, NEW r \in Requests, NEW o \in OrderIds, NEW patch \in UserPatches,
         UserPatchRead(r, o, patch)
  PROVE  \E p : Becomes(r, p) /\ (Past(p) \/ Ready(p, orders', used'))
<1> DEFINE q == Started(r, "userPatch", o, patch)
           pc == IF FieldsChanged(orders[o], patch) = {} THEN "userReturn" ELSE "userWrite"
           p == [q EXCEPT !.read = orders[o], !.pc = pc]
<1>1. Begun(q, "userPatch", o, patch)
  <2>1. req[r].pc = "idle" /\ "userPatch" \in Kinds
    BY DEF UserPatchRead, Kinds
  <2> QED BY <2>1, StartedInv, BodyAssumption
<1>2. /\ UNCHANGED <<orders, used>>
      /\ \/ \E a, row : Becomes(r, Replied(q, a, row))
         \/ /\ orders[o] # NULL /\ ~ReceiptRefused(orders[o], patch)
            /\ Becomes(r, p)
  BY DEF UserPatchRead
<1>3. p.read = orders[o] /\ p.pc = pc /\ p.target = o /\ p.patch = patch /\ p.kind = "userPatch"
  BY <1>1 DEF Begun, Request
<1>4. orders[o] # NULL => o \in used
  BY DEF Standing, IdsUsed
<1> HIDE DEF p, pc
<1>5. orders[o] # NULL /\ ~ReceiptRefused(orders[o], patch) => Ready(p, orders', used')
  <2> SUFFICES ASSUME orders[o] # NULL, ~ReceiptRefused(orders[o], patch)
               PROVE  Ready(p, orders', used')
    OBVIOUS
  <2>1. p.pc # "persist"
    BY <1>3 DEF pc
  <2> QED BY <1>2, <1>3, <1>4, <2>1 DEF Ready, ReceiptRefused
<1>6. \A a, row : Past(Replied(q, a, row))
  BY <1>1, RepliedPast DEF Begun
<1> HIDE DEF q
<1> QED BY <1>2, <1>5, <1>6

\* Every other step leaves its request past its checks: the insert succeeds,
\* and the one reply that is an error belongs to a user's PATCH.
LEMMA OthersPast ==
  ASSUME Typed, Checked, NEW r \in Requests,
         \/ \E o \in OrderIds : CreatePersist(r, o)
         \/ \E o \in OrderIds, kind \in Settlements : SettleUpdate(r, o, kind)
         \/ \E o \in OrderIds, patch \in AdminPatches : AdminPatchRead(r, o, patch)
         \/ \E o \in OrderIds : DeleteRow(r, o)
         \/ CreateAudit(r) \/ SettleReread(r) \/ SettleAudit(r) \/ SettleHydrate(r)
         \/ UserPatchReturn(r) \/ UserPatchWrite(r) \/ UserPatchAudit(r)
         \/ AdminPatchWrite(r) \/ AdminPatchAudit(r) \/ DeleteAudit(r) \/ Lose(r)
  PROVE  \E p : Becomes(r, p) /\ Past(p)
<1> DEFINE q == req[r]
<1>1. q \in Request /\ RequestInv(q)
  BY DEF Typed, TypeOK
<1>2. CASE \E o \in OrderIds : CreatePersist(r, o)
  <2> PICK o \in OrderIds : CreatePersist(r, o)
    BY <1>2
  <2> DEFINE p == [q EXCEPT !.pc = "createAudit", !.target = o, !.written = q.read]
  <2>1. q.pc = "persist" /\ q.answer = "none" /\ OrderInvariants(q.read)
    BY <1>1 DEF CreatePersist, RequestInv, Checked, CreatesPass
  <2>2. Becomes(r, p)
    BY <2>1 DEF CreatePersist
  <2>3. p.pc = "createAudit" /\ p.answer = "none"
    BY <1>1, <2>1 DEF Request
  <2> HIDE DEF p
  <2>4. Past(p)
    BY <2>3 DEF Past
  <2> QED BY <2>2, <2>4
<1>3. ASSUME NEW kind \in {"confirm", "cancel", "adminPatch", "delete"}, NEW o \in OrderIds,
             NEW patch \in Patch, NEW p, q.pc = "idle",
             \/ \E a, row : p = Replied(Started(r, kind, o, patch), a, row)
             \/ p = [Started(r, kind, o, patch) EXCEPT !.pc = "reread"]
             \/ p = [Started(r, kind, o, patch) EXCEPT !.pc = "deleteAudit"]
             \/ \E row : p = [Started(r, kind, o, patch) EXCEPT !.pc = "settleAudit",
                                                                !.written = row]
             \/ \E row : p = [Started(r, kind, o, patch) EXCEPT !.read = row,
                                                                !.pc = "adminWrite"]
      PROVE  Past(p)
  <2>1. Begun(Started(r, kind, o, patch), kind, o, patch)
    <3>1. kind \in Kinds
      BY DEF Kinds
    <3> QED BY <1>3, <3>1, StartedInv
  <2>2. CASE \E a, row : p = Replied(Started(r, kind, o, patch), a, row)
    BY <2>1, <2>2, RepliedPast DEF Begun
  <2>3. CASE ~\E a, row : p = Replied(Started(r, kind, o, patch), a, row)
    BY <1>3, <2>1, <2>3 DEF Begun, Request, Past
  <2> QED BY <2>2, <2>3
<1>4. CASE \E o \in OrderIds, kind \in Settlements : SettleUpdate(r, o, kind)
  <2> PICK o \in OrderIds, kind \in Settlements : SettleUpdate(r, o, kind)
    BY <1>4
  <2>1. PICK p : /\ Becomes(r, p)
                 /\ \/ p = [Started(r, kind, o, NoPatch) EXCEPT !.pc = "reread"]
                    \/ \E row : p = [Started(r, kind, o, NoPatch) EXCEPT !.pc = "settleAudit",
                                                                         !.written = row]
    BY DEF SettleUpdate
  <2>2. q.pc = "idle" /\ kind \in {"confirm", "cancel", "adminPatch", "delete"}
    BY DEF SettleUpdate, Settlements
  <2> QED BY <1>3, <2>1, <2>2, NoPatchType
<1>5. CASE \E o \in OrderIds, patch \in AdminPatches : AdminPatchRead(r, o, patch)
  <2> PICK o \in OrderIds, patch \in AdminPatches : AdminPatchRead(r, o, patch)
    BY <1>5
  <2>1. PICK p : /\ Becomes(r, p)
                 /\ \/ \E a, row : p = Replied(Started(r, "adminPatch", o, patch), a, row)
                    \/ \E row : p = [Started(r, "adminPatch", o, patch) EXCEPT
                                       !.read = row, !.pc = "adminWrite"]
    BY DEF AdminPatchRead
  <2>2. q.pc = "idle" /\ patch \in Patch
    BY BodyAssumption DEF AdminPatchRead
  <2> QED BY <1>3, <2>1, <2>2
<1>6. CASE \E o \in OrderIds : DeleteRow(r, o)
  <2> PICK o \in OrderIds : DeleteRow(r, o)
    BY <1>6
  <2>1. PICK p : /\ Becomes(r, p)
                 /\ \/ \E a, row : p = Replied(Started(r, "delete", o, NoPatch), a, row)
                    \/ p = [Started(r, "delete", o, NoPatch) EXCEPT !.pc = "deleteAudit"]
    BY DEF DeleteRow
  <2>2. q.pc = "idle"
    BY DEF DeleteRow
  <2> QED BY <1>3, <2>1, <2>2, NoPatchType
<1>7. CASE CreateAudit(r) \/ UserPatchAudit(r) \/ AdminPatchAudit(r) \/ DeleteAudit(r)
  BY <1>1, <1>7, RepliedPast DEF CreateAudit, UserPatchAudit, AdminPatchAudit, DeleteAudit
<1>8. CASE SettleReread(r) \/ SettleAudit(r) \/ SettleHydrate(r)
  <2> DEFINE p == [q EXCEPT !.pc = "hydrate"]
  <2>1. q.kind # "create"
    BY <1>1, <1>8 DEF SettleReread, SettleAudit, SettleHydrate, RequestInv, Settlements
  <2>2. (\E a, row : Becomes(r, Replied(q, a, row))) \/ Becomes(r, p)
    BY <1>8 DEF SettleReread, SettleAudit, SettleHydrate
  <2>3. p.pc = "hydrate" /\ p.kind = q.kind
    BY <1>1 DEF Request
  <2> HIDE DEF p, q
  <2>4. Past(p)
    BY <2>1, <2>3 DEF Past
  <2> QED BY <1>1, <2>1, <2>2, <2>4, RepliedPast
<1>9. CASE UserPatchReturn(r)
  BY <1>1, <1>9, RepliedPast DEF UserPatchReturn, RequestInv
<1>10. CASE UserPatchWrite(r) \/ AdminPatchWrite(r)
  <2>1. PICK to \in {"userAudit", "adminAudit"} :
          \/ Becomes(r, Replied(q, "notFound", NULL))
          \/ \E old, new : Becomes(r, [q EXCEPT !.pc = to, !.replaced = old, !.written = new])
    BY <1>10 DEF UserPatchWrite, AdminPatchWrite, PatchWrite
  <2>2. q.kind # "create"
    BY <1>1, <1>10 DEF UserPatchWrite, AdminPatchWrite, PatchWrite, RequestInv
  <2>3. \A old, new : Past([q EXCEPT !.pc = to, !.replaced = old, !.written = new])
    BY <1>1, <2>2 DEF Past, Request
  <2> QED BY <1>1, <2>1, <2>3, RepliedPast
<1>11. CASE Lose(r)
  <2> DEFINE p == [q EXCEPT !.pc = "lost", !.read = NULL]
  <2>1. Becomes(r, p) /\ q.answer = "none"
    BY <1>1, <1>11 DEF Lose, RequestInv
  <2>2. p.pc = "lost" /\ p.answer = "none"
    BY <1>1, <2>1 DEF Request
  <2> HIDE DEF p
  <2>3. Past(p)
    BY <2>2 DEF Past
  <2> QED BY <2>1, <2>3
<1> QED BY <1>2, <1>4, <1>5, <1>6, <1>7, <1>8, <1>9, <1>10, <1>11

LEMMA InitChecked == Init => Checked
BY DEF Init, IdleRequest, Checked, CreatesPass, UserWritesChecked

LEMMA NextChecked ==
  ASSUME Typed, Standing, Checked, LinesKept, [Next]_vars
  PROVE  Checked'
<1>1. CASE UNCHANGED vars
  BY <1>1, SameChecked DEF vars
<1>2. ASSUME NEW r \in Requests, \E p : Becomes(r, p) /\ (Past(p) \/ Ready(p, orders', used'))
      PROVE  Checked'
  BY <1>2, ReadyKeeps
<1>3. ASSUME NEW r \in Requests, Create(r) PROVE Checked'
  BY <1>2, <1>3, DonationReady, PurchaseReady, OthersPast DEF Create
<1>4. ASSUME NEW r \in Requests, Settle(r) PROVE Checked'
  BY <1>2, <1>4, OthersPast DEF Settle
<1>5. ASSUME NEW r \in Requests, UserPatchOrder(r) PROVE Checked'
  BY <1>2, <1>5, UserPatchReadReady, OthersPast DEF UserPatchOrder
<1>6. ASSUME NEW r \in Requests, AdminPatchOrder(r) PROVE Checked'
  BY <1>2, <1>6, OthersPast DEF AdminPatchOrder
<1>7. ASSUME NEW r \in Requests, Delete(r) \/ Lose(r) PROVE Checked'
  BY <1>2, <1>7, OthersPast DEF Delete
<1>8. ASSUME \/ \E s \in Subjects : CatalogueLiveness(s)
             \/ \E i \in SaleItems, p \in Prices : CataloguePrice(i, p)
      PROVE  Checked'
  BY <1>8, SameChecked DEF CatalogueLiveness, CataloguePrice
<1> QED BY <1>1, <1>3, <1>4, <1>5, <1>6, <1>7, <1>8 DEF Next

-----------------------------------------------------------------------------
(* One settler, one event                                                  *)

LEMMA SettledOnceStep ==
  ASSUME Typed, Standing, SettledOnce, RowStep
  PROVE  SettledOnce'
<1>1. SUFFICES ASSUME NEW o \in OrderIds, ~Corrected(o)', NEW r \in Requests, Settler(r, o)'
               PROVE  /\ orders'[o] # NULL => orders'[o].status # "PENDING"
                      /\ \A r2 \in Requests : Settler(r2, o)' => r2 = r
  BY DEF SettledOnce
<1>2. CASE /\ SettlersKept /\ ~Corrected(o)
           /\ \/ orders'[o] = NULL
              \/ orders[o] # NULL /\ orders'[o].status = orders[o].status
              \/ o \notin used
  <2>1. Settler(r, o)
    BY <1>1, <1>2 DEF SettlersKept
  <2>2. o \in used
    BY <2>1 DEF Settler, Standing, IdsUsed
  <2> QED BY <1>1, <1>2, <2>1, <2>2 DEF SettledOnce, SettlersKept
<1>3. ASSUME NEW o2 \in OrderIds, NEW row, orders' = [orders EXCEPT ![o2] = row]
      PROVE  orders'[o] = IF o = o2 THEN row ELSE orders[o]
  BY <1>3 DEF Typed, TypeOK
<1>4. CASE Untouched
  BY <1>1, <1>2, <1>4 DEF Untouched, MarksKept
<1>5. ASSUME NEW o2 \in OrderIds, NEW row \in Row, Inserted(o2, row)
      PROVE  \/ orders'[o] = NULL
             \/ orders[o] # NULL /\ orders'[o].status = orders[o].status
             \/ o \notin used
  BY <1>3, <1>5 DEF Inserted
<1>6. ASSUME NEW o2 \in OrderIds, NEW row \in Row, Inserted(o2, row)
      PROVE  SettlersKept /\ ~Corrected(o)
  BY <1>1, <1>6 DEF Inserted, MarksKept
<1>7. ASSUME NEW o2 \in OrderIds, NEW p, EditedByUser(o2, p) \/ EditedByAdmin(o2, p)
      PROVE  /\ SettlersKept /\ ~Corrected(o)
             /\ \/ orders'[o] = NULL
                \/ orders[o] # NULL /\ orders'[o].status = orders[o].status
  <2>1. SettlersKept /\ ~Corrected(o)
    BY <1>1, <1>7 DEF EditedByUser, EditedByAdmin, MarksKept
  <2>2. CASE o2 = o
    <3>1. orders[o] \in Row /\ orders[o] # NULL /\ orders'[o] = Patched(orders[o], p)
      BY <1>3, <1>7, <2>2 DEF EditedByUser, EditedByAdmin, Typed, TypeOK
    <3>2. p.status = ABSENT
      BY <1>1, <1>7, <2>2, BodyAssumption DEF EditedByUser, EditedByAdmin
    <3> QED BY <2>1, <3>1, <3>2, PatchedFields DEF Given
  <2>3. CASE o2 # o
    BY <1>3, <1>7, <2>1, <2>3 DEF EditedByUser, EditedByAdmin
  <2> QED BY <2>2, <2>3
<1>8. ASSUME NEW o2 \in OrderIds, Erased(o2)
      PROVE  /\ SettlersKept /\ ~Corrected(o)
             /\ \/ orders'[o] = NULL
                \/ orders[o] # NULL /\ orders'[o].status = orders[o].status
  BY <1>1, <1>3, <1>8 DEF Erased, MarksKept
<1>9. ASSUME NEW o2 \in OrderIds, NEW s \in Requests, NEW kind \in Settlements,
             SettledBy(s, o2, kind)
      PROVE  /\ orders'[o] # NULL => orders'[o].status # "PENDING"
             /\ \A r2 \in Requests : Settler(r2, o)' => r2 = r
  <2>1. ~Corrected(o)
    BY <1>1, <1>9 DEF SettledBy, MarksKept
  <2>2. CASE o2 = o
    <3>1. orders[o] \in Row /\ orders[o] # NULL /\ orders[o].status = "PENDING"
      BY <1>9, <2>2 DEF SettledBy, Typed, TypeOK
    <3>2. \A r2 \in Requests : ~Settler(r2, o)
      BY <2>1, <3>1 DEF SettledOnce
    <3>3. \A r2 \in Requests : Settler(r2, o)' => r2 = s
      BY <1>9, <2>2, <3>2 DEF SettledBy
    <3>4. orders'[o] = Settled(orders[o], kind)
      BY <1>3, <1>9, <2>2 DEF SettledBy
    <3>5. orders'[o].status # "PENDING"
      BY <3>1, <3>4, SettledType, Outcomes
    <3> QED BY <1>1, <3>3, <3>5
  <2>3. CASE o2 # o
    <3>1. orders'[o] = orders[o] /\ \A r2 \in Requests : Settler(r2, o)' <=> Settler(r2, o)
      BY <1>3, <1>9, <2>3 DEF SettledBy
    <3> QED BY <1>1, <2>1, <3>1 DEF SettledOnce
  <2> QED BY <2>2, <2>3
<1> QED BY <1>2, <1>4, <1>5, <1>6, <1>7, <1>8, <1>9 DEF RowStep

\* q made its settlement.
Settles(q) == q.kind \in Settlements /\ q.written # NULL

\* The step from q to p makes no settlement and logs none: a request that made
\* one goes from the hydration to its answer, or is lost.
Advance(q, p) ==
  /\ p.pc # "settleAudit"
  /\ Settles(p) <=> Settles(q)
  /\ Settles(q) =>
       /\ p.kind = q.kind /\ p.target = q.target /\ p.written = q.written
       /\ \/ p.pc = "lost"
          \/ p.pc = "done" /\ q.pc = "hydrate"

TransitionEvents == {"order_payment_confirmed", "order_cancelled"}

LEMMA AdvanceKeeps ==
  ASSUME Typed, TransitionsLogged, NEW r \in Requests, NEW p, Becomes(r, p),
         Advance(req[r], p), audit \subseteq audit',
         \A a \in audit' \ audit : a.event \notin TransitionEvents
  PROVE  TransitionsLogged'
<1>1. /\ req'[r] = p
      /\ \A s \in Requests \ {r} : req'[s] = req[s]
  BY DEF Typed, TypeOK, Becomes
<1>2. \A s \in Requests \ {r} : TransitionOf(s)' = TransitionOf(s)
  BY <1>1 DEF TransitionOf
<1>3. Settles(req[r]) => TransitionOf(r)' = TransitionOf(r)
  BY <1>1 DEF TransitionOf, Advance
<1>4. ASSUME NEW o \in OrderIds, NEW a \in TransitionAudits(o)'
      PROVE  /\ Settler(a.by, o)' /\ a = TransitionOf(a.by)'
             /\ req'[a.by].pc \in {"hydrate", "done", "lost"}
  <2>1. a \in TransitionAudits(o)
    BY <1>4 DEF TransitionAudits, TransitionEvents
  <2>2. /\ Settler(a.by, o) /\ a = TransitionOf(a.by)
        /\ req[a.by].pc \in {"hydrate", "done", "lost"} /\ a.by \in Requests
    BY <2>1 DEF TransitionsLogged, TransitionAudits, Typed, TypeOK, AuditRecord
  <2>3. CASE a.by = r
    BY <1>1, <1>3, <2>2, <2>3 DEF Settler, Settles, Advance
  <2>4. CASE a.by # r
    BY <1>1, <1>2, <2>2, <2>4 DEF Settler
  <2> QED BY <2>3, <2>4
<1>5. ASSUME NEW s \in Requests
      PROVE  /\ req'[s].pc = "settleAudit" => req'[s].written # NULL
             /\ Settles(req'[s]) =>
                  /\ req'[s].pc \in {"settleAudit", "hydrate", "done", "lost"}
                  /\ req'[s].pc \in {"hydrate", "done"} => TransitionOf(s)' \in audit'
  <2>1. /\ req[s].pc = "settleAudit" => req[s].written # NULL
        /\ Settles(req[s]) =>
             /\ req[s].pc \in {"settleAudit", "hydrate", "done", "lost"}
             /\ req[s].pc \in {"hydrate", "done"} => TransitionOf(s) \in audit
    BY DEF TransitionsLogged, Settles
  <2>2. CASE s = r
    BY <1>1, <1>3, <2>1, <2>2 DEF Advance
  <2>3. CASE s # r
    BY <1>1, <1>2, <2>1, <2>3
  <2> QED BY <2>2, <2>3
<1> QED BY <1>4, <1>5 DEF TransitionsLogged, Settles

\* A request with nothing written, now or then.
LEMMA IdleAdvance ==
  ASSUME NEW q, NEW p, q.written = NULL, p.written = NULL, p.pc # "settleAudit"
  PROVE  Advance(q, p)
BY DEF Advance, Settles

\* A request of another kind.
LEMMA OtherAdvance ==
  ASSUME NEW q, NEW p, q.kind \notin Settlements, p.kind = q.kind, p.pc # "settleAudit"
  PROVE  Advance(q, p)
BY DEF Advance, Settles

\* The first step of a request, unless it settles.
LEMMA StartAdvance ==
  ASSUME Typed, NEW r \in Requests,
         \/ \E b \in DonationBodies : DonationLookup(r, b)
         \/ \E b \in PurchaseBodies : PurchaseLookup(r, b)
         \/ \E o \in OrderIds, p \in UserPatches : UserPatchRead(r, o, p)
         \/ \E o \in OrderIds, p \in AdminPatches : AdminPatchRead(r, o, p)
         \/ \E o \in OrderIds : DeleteRow(r, o)
         \/ \E o \in OrderIds, kind \in Settlements :
              SettleUpdate(r, o, kind) /\ ~Settleable(orders[o])
  PROVE  UNCHANGED audit /\ \E p : Becomes(r, p) /\ Advance(req[r], p)
<1>1. req[r].pc = "idle" /\ UNCHANGED audit
  BY DEF DonationLookup, PurchaseLookup, UserPatchRead, AdminPatchRead, DeleteRow, SettleUpdate
<1>2. req[r].written = NULL
  BY <1>1 DEF Typed, RequestInv, IdleRequest
<1>3. ASSUME NEW kind \in Kinds, NEW o \in OrderIds \cup {NULL}, NEW patch \in Patch, NEW p,
             \/ \E a, row : p = Replied(Started(r, kind, o, patch), a, row)
             \/ p = [Started(r, kind, o, patch) EXCEPT !.pc = "reread"]
             \/ p = [Started(r, kind, o, patch) EXCEPT !.pc = "deleteAudit"]
             \/ \E row : p = [Started(r, kind, o, patch) EXCEPT !.pc = "persist", !.read = row]
             \/ \E row : p = [Started(r, kind, o, patch) EXCEPT !.read = row,
                                                                !.pc = "adminWrite"]
             \/ p = [Started(r, kind, o, patch) EXCEPT !.read = orders[o],
                       !.pc = IF FieldsChanged(orders[o], patch) = {} THEN "userReturn"
                                                                      ELSE "userWrite"]
      PROVE  Advance(req[r], p)
  <2>1. Begun(Started(r, kind, o, patch), kind, o, patch)
    BY <1>1, StartedInv
  <2>2. CASE \E a, row : p = Replied(Started(r, kind, o, patch), a, row)
    <3>1. p.written = NULL /\ p.pc = "done"
      BY <2>1, <2>2 DEF Replied, Request, Begun
    <3> QED BY <1>2, <3>1, IdleAdvance
  <2>3. CASE ~\E a, row : p = Replied(Started(r, kind, o, patch), a, row)
    <3>1. p.written = NULL /\ p.pc # "settleAudit"
      BY <1>3, <2>1, <2>3 DEF Begun, Request
    <3> QED BY <1>2, <3>1, IdleAdvance
  <2> QED BY <2>2, <2>3
<1>4. /\ "create" \in Kinds /\ "userPatch" \in Kinds /\ "adminPatch" \in Kinds
      /\ "delete" \in Kinds /\ \A kind \in Settlements : kind \in Kinds
      /\ NULL \in OrderIds \cup {NULL}
      /\ UserPatches \subseteq Patch /\ AdminPatches \subseteq Patch /\ NoPatch \in Patch
  BY BodyAssumption, NoPatchType DEF Kinds, Settlements
<1>5. ASSUME NEW b \in DonationBodies, DonationLookup(r, b)
      PROVE  \E p : Becomes(r, p) /\ Advance(req[r], p)
  <2> DEFINE q == Started(r, "create", NULL, NoPatch)
  <2>1. PICK p : /\ Becomes(r, p)
                 /\ \/ \E a, row : p = Replied(q, a, row)
                    \/ \E row : p = [q EXCEPT !.pc = "persist", !.read = row]
    BY <1>5 DEF DonationLookup
  <2> QED BY <1>3, <1>4, <2>1
<1>6. ASSUME NEW b \in PurchaseBodies, PurchaseLookup(r, b)
      PROVE  \E p : Becomes(r, p) /\ Advance(req[r], p)
  <2> DEFINE q == Started(r, "create", NULL, NoPatch)
  <2>1. PICK p : /\ Becomes(r, p)
                 /\ \/ \E a, row : p = Replied(q, a, row)
                    \/ \E row : p = [q EXCEPT !.pc = "persist", !.read = row]
    BY <1>6 DEF PurchaseLookup
  <2> QED BY <1>3, <1>4, <2>1
<1>7. ASSUME NEW o \in OrderIds, NEW patch \in UserPatches, UserPatchRead(r, o, patch)
      PROVE  \E p : Becomes(r, p) /\ Advance(req[r], p)
  <2> DEFINE q == Started(r, "userPatch", o, patch)
  <2>1. PICK p : /\ Becomes(r, p)
                 /\ \/ \E a, row : p = Replied(q, a, row)
                    \/ p = [q EXCEPT !.read = orders[o],
                              !.pc = IF FieldsChanged(orders[o], patch) = {}
                                       THEN "userReturn" ELSE "userWrite"]
    BY <1>7 DEF UserPatchRead
  <2> QED BY <1>3, <1>4, <2>1
<1>8. ASSUME NEW o \in OrderIds, NEW patch \in AdminPatches, AdminPatchRead(r, o, patch)
      PROVE  \E p : Becomes(r, p) /\ Advance(req[r], p)
  <2> DEFINE q == Started(r, "adminPatch", o, patch)
  <2>1. PICK p : /\ Becomes(r, p)
                 /\ \/ \E a, row : p = Replied(q, a, row)
                    \/ \E row : p = [q EXCEPT !.read = row, !.pc = "adminWrite"]
    BY <1>8 DEF AdminPatchRead
  <2> QED BY <1>3, <1>4, <2>1
<1>9. ASSUME NEW o \in OrderIds, DeleteRow(r, o)
      PROVE  \E p : Becomes(r, p) /\ Advance(req[r], p)
  <2> DEFINE q == Started(r, "delete", o, NoPatch)
  <2>1. PICK p : /\ Becomes(r, p)
                 /\ \/ \E a, row : p = Replied(q, a, row)
                    \/ p = [q EXCEPT !.pc = "deleteAudit"]
    BY <1>9 DEF DeleteRow
  <2> QED BY <1>3, <1>4, <2>1
<1>10. ASSUME NEW o \in OrderIds, NEW kind \in Settlements,
              SettleUpdate(r, o, kind), ~Settleable(orders[o])
       PROVE  \E p : Becomes(r, p) /\ Advance(req[r], p)
  BY <1>3, <1>4, <1>10 DEF SettleUpdate
<1> QED BY <1>1, <1>5, <1>6, <1>7, <1>8, <1>9, <1>10

\* The later steps of the requests that do not settle log events of their own.
LEMMA OthersAdvance ==
  ASSUME Typed, NEW r \in Requests,
         \/ \E o \in OrderIds : CreatePersist(r, o)
         \/ CreateAudit(r) \/ UserPatchReturn(r) \/ UserPatchWrite(r) \/ UserPatchAudit(r)
         \/ AdminPatchWrite(r) \/ AdminPatchAudit(r) \/ DeleteAudit(r)
  PROVE  /\ \E p : Becomes(r, p) /\ Advance(req[r], p)
         /\ audit \subseteq audit'
         /\ \A a \in audit' \ audit : a.event \notin TransitionEvents
<1> DEFINE q == req[r]
<1>1. q \in Request /\ RequestInv(q)
  BY DEF Typed, TypeOK
<1>2. q.kind \notin Settlements
  BY <1>1 DEF RequestInv, Settlements, CreatePersist, CreateAudit, UserPatchReturn,
     UserPatchWrite, UserPatchAudit, AdminPatchWrite, AdminPatchAudit, DeleteAudit, PatchWrite
<1>3. \A a, row : Advance(q, Replied(q, a, row))
  <2>1. \A a, row : Replied(q, a, row).kind = q.kind /\ Replied(q, a, row).pc = "done"
    BY <1>1 DEF Replied, Request
  <2> QED BY <1>2, <2>1, OtherAdvance
<1>4. \A pc, old, new : pc # "settleAudit" =>
        Advance(q, [q EXCEPT !.pc = pc, !.replaced = old, !.written = new])
  <2> SUFFICES ASSUME NEW pc, NEW old, NEW new, pc # "settleAudit"
               PROVE  Advance(q, [q EXCEPT !.pc = pc, !.replaced = old, !.written = new])
    OBVIOUS
  <2> DEFINE p == [q EXCEPT !.pc = pc, !.replaced = old, !.written = new]
  <2>1. p.kind = q.kind /\ p.pc = pc
    BY <1>1 DEF Request
  <2> HIDE DEF p, q
  <2>2. Advance(q, p)
    BY <1>2, <2>1, OtherAdvance
  <2> QED BY <2>2 DEF p
<1>5. CASE \E o \in OrderIds : CreatePersist(r, o)
  <2> PICK o \in OrderIds : CreatePersist(r, o)
    BY <1>5
  <2> DEFINE p == [q EXCEPT !.pc = "createAudit", !.target = o, !.written = q.read]
  <2>1. p.kind = q.kind /\ p.pc = "createAudit"
    BY <1>1 DEF Request
  <2>2. UNCHANGED audit /\ (Becomes(r, p) \/ Becomes(r, Replied(q, "error", NULL)))
    BY DEF CreatePersist
  <2> HIDE DEF p, q
  <2>3. Advance(q, p)
    BY <1>2, <2>1, OtherAdvance
  <2> QED BY <1>3, <2>2, <2>3 DEF q
<1>6. CASE UserPatchReturn(r)
  BY <1>3, <1>6 DEF UserPatchReturn
<1>7. CASE UserPatchWrite(r) \/ AdminPatchWrite(r)
  <2>1. UNCHANGED audit
    BY <1>7 DEF UserPatchWrite, AdminPatchWrite, PatchWrite
  <2>2. PICK to \in {"userAudit", "adminAudit"} :
          \/ Becomes(r, Replied(q, "notFound", NULL))
          \/ \E old, new : Becomes(r, [q EXCEPT !.pc = to, !.replaced = old, !.written = new])
    BY <1>7 DEF UserPatchWrite, AdminPatchWrite, PatchWrite
  <2> QED BY <1>3, <1>4, <2>1, <2>2
<1>8. ASSUME NEW event \in AuditEvents \ TransitionEvents, NEW fields, NEW before, NEW after,
             Logged(event, r, fields, before, after)
      PROVE  audit \subseteq audit' /\ \A a \in audit' \ audit : a.event \notin TransitionEvents
  BY <1>8 DEF Logged
<1>9. /\ "order_created" \in AuditEvents \ TransitionEvents
      /\ "order_user_patched" \in AuditEvents \ TransitionEvents
      /\ "order_admin_patched" \in AuditEvents \ TransitionEvents
      /\ "order_admin_deleted" \in AuditEvents \ TransitionEvents
  BY DEF AuditEvents, TransitionEvents
<1>10. CASE CreateAudit(r)
  BY <1>3, <1>8, <1>9, <1>10 DEF CreateAudit
<1>11. CASE UserPatchAudit(r)
  BY <1>3, <1>8, <1>9, <1>11 DEF UserPatchAudit
<1>12. CASE AdminPatchAudit(r)
  BY <1>3, <1>8, <1>9, <1>12 DEF AdminPatchAudit
<1>13. CASE DeleteAudit(r)
  BY <1>3, <1>8, <1>9, <1>13 DEF DeleteAudit
<1> QED BY <1>5, <1>6, <1>7, <1>10, <1>11, <1>12, <1>13

\* A settling request that finds out why, or reads its answer, or is lost.
LEMMA SettlersAdvance ==
  ASSUME Typed, NEW r \in Requests, SettleReread(r) \/ SettleHydrate(r) \/ Lose(r)
  PROVE  UNCHANGED audit /\ \E p : Becomes(r, p) /\ Advance(req[r], p)
<1> DEFINE q == req[r]
<1>1. q \in Request /\ RequestInv(q) /\ UNCHANGED audit
  BY DEF Typed, TypeOK, SettleReread, SettleHydrate, Lose
<1>2. \A a, row : /\ Replied(q, a, row).kind = q.kind /\ Replied(q, a, row).pc = "done"
                  /\ Replied(q, a, row).target = q.target
                  /\ Replied(q, a, row).written = q.written
  BY <1>1 DEF Replied, Request
<1>3. CASE SettleReread(r)
  <2> DEFINE p == [q EXCEPT !.pc = "hydrate"]
  <2>1. q.written = NULL
    BY <1>1, <1>3 DEF SettleReread, RequestInv
  <2>2. (\E a, row : Becomes(r, Replied(q, a, row))) \/ Becomes(r, p)
    BY <1>3 DEF SettleReread
  <2>3. p.written = NULL /\ p.pc = "hydrate"
    BY <1>1, <2>1 DEF Request
  <2> HIDE DEF p, q
  <2>4. Advance(q, p) /\ \A a, row : Advance(q, Replied(q, a, row))
    BY <1>2, <2>1, <2>3, IdleAdvance
  <2> QED BY <1>1, <2>2, <2>4 DEF q
<1>4. CASE SettleHydrate(r)
  <2>1. q.pc = "hydrate" /\ \E a, row : Becomes(r, Replied(q, a, row))
    BY <1>4 DEF SettleHydrate
  <2>2. \A a, row : Advance(q, Replied(q, a, row))
    BY <1>2, <2>1 DEF Advance, Settles
  <2> QED BY <1>1, <2>1, <2>2
<1>5. CASE Lose(r)
  <2> DEFINE p == [q EXCEPT !.pc = "lost", !.read = NULL]
  <2>1. Becomes(r, p)
    BY <1>5 DEF Lose
  <2>2. p.kind = q.kind /\ p.target = q.target /\ p.written = q.written /\ p.pc = "lost"
    BY <1>1 DEF Request
  <2> HIDE DEF p, q
  <2>3. Advance(q, p)
    BY <2>2 DEF Advance, Settles
  <2> QED BY <1>1, <2>1, <2>3 DEF q
<1> QED BY <1>3, <1>4, <1>5

\* The update that matches makes its request a settler that has to log.
LEMMA SettleUpdateLogs ==
  ASSUME Typed, TransitionsLogged, NEW r \in Requests, NEW o \in OrderIds,
         NEW kind \in Settlements, SettleUpdate(r, o, kind), Settleable(orders[o])
  PROVE  TransitionsLogged'
<1> DEFINE q == Started(r, kind, o, NoPatch)
           row == Settled(orders[o], kind)
           p == [q EXCEPT !.pc = "settleAudit", !.written = row]
<1>1. req[r].pc = "idle" /\ Becomes(r, p) /\ UNCHANGED audit
  BY DEF SettleUpdate
<1>2. req[r].written = NULL
  BY <1>1 DEF Typed, RequestInv, IdleRequest
<1>3. Begun(q, kind, o, NoPatch)
  BY <1>1, StartedInv, NoPatchType DEF Settlements, Kinds
<1>4. row # NULL
  BY SettledType, NullAssumption DEF Settleable, Typed, TypeOK
<1> HIDE DEF row
<1>5. p.pc = "settleAudit" /\ p.written # NULL
  BY <1>3, <1>4 DEF Begun, Request
<1> HIDE DEF p, q
<1>6. /\ req'[r] = p
      /\ \A s \in Requests \ {r} : req'[s] = req[s]
  BY <1>1 DEF Typed, TypeOK, Becomes
<1>7. \A s \in Requests \ {r} : TransitionOf(s)' = TransitionOf(s)
  BY <1>6 DEF TransitionOf
<1>8. ASSUME NEW o2 \in OrderIds, NEW a \in TransitionAudits(o2)'
      PROVE  /\ Settler(a.by, o2)' /\ a = TransitionOf(a.by)'
             /\ req'[a.by].pc \in {"hydrate", "done", "lost"}
  <2>1. a \in TransitionAudits(o2) /\ a.by \in Requests
    BY <1>1, <1>8 DEF TransitionAudits, Typed, TypeOK, AuditRecord
  <2>2. /\ Settler(a.by, o2) /\ a = TransitionOf(a.by)
        /\ req[a.by].pc \in {"hydrate", "done", "lost"}
    BY <2>1 DEF TransitionsLogged
  <2>3. a.by # r
    BY <1>1, <2>2
  <2> QED BY <1>6, <1>7, <2>1, <2>2, <2>3 DEF Settler
<1>9. ASSUME NEW s \in Requests
      PROVE  /\ req'[s].pc = "settleAudit" => req'[s].written # NULL
             /\ req'[s].kind \in Settlements /\ req'[s].written # NULL =>
                  /\ req'[s].pc \in {"settleAudit", "hydrate", "done", "lost"}
                  /\ req'[s].pc \in {"hydrate", "done"} => TransitionOf(s)' \in audit'
  <2>1. CASE s = r
    BY <1>5, <1>6, <2>1
  <2>2. CASE s # r
    BY <1>1, <1>6, <1>7, <2>2 DEF TransitionsLogged
  <2> QED BY <2>1, <2>2
<1> QED BY <1>8, <1>9 DEF TransitionsLogged

\* The audit step logs its settler's event.
LEMMA SettleAuditLogs ==
  ASSUME Typed, TransitionsLogged, NEW r \in Requests, SettleAudit(r)
  PROVE  TransitionsLogged'
<1> DEFINE q == req[r]
           p == [q EXCEPT !.pc = "hydrate"]
<1>1. /\ q \in Request /\ q.kind \in Settlements /\ q.target \in OrderIds
      /\ q.written # NULL /\ q.pc = "settleAudit"
  BY DEF Typed, TypeOK, SettleAudit, RequestInv, PCs, Request, TransitionsLogged
<1>2. Becomes(r, p) /\ audit' = audit \cup {TransitionOf(r)}
  BY DEF SettleAudit, Logged, TransitionOf
<1>3. /\ p.kind = q.kind /\ p.target = q.target /\ p.written = q.written
      /\ p.pc = "hydrate"
  BY <1>1 DEF Request
<1> HIDE DEF p
<1>4. /\ req'[r] = p
      /\ \A s \in Requests \ {r} : req'[s] = req[s]
  BY <1>2 DEF Typed, TypeOK, Becomes
<1>5. \A s \in Requests : TransitionOf(s)' = TransitionOf(s)
  BY <1>3, <1>4 DEF TransitionOf
<1>6. TransitionOf(r).by = r /\ TransitionOf(r).order = q.target
  BY DEF TransitionOf
<1>7. ASSUME NEW o \in OrderIds, NEW a \in TransitionAudits(o)'
      PROVE  /\ Settler(a.by, o)' /\ a = TransitionOf(a.by)'
             /\ req'[a.by].pc \in {"hydrate", "done", "lost"}
  <2>1. a.order = o
    BY <1>7 DEF TransitionAudits
  <2>2. CASE a = TransitionOf(r)
    BY <1>1, <1>3, <1>4, <1>5, <1>6, <2>1, <2>2 DEF Settler
  <2>3. CASE a # TransitionOf(r)
    <3>1. a \in TransitionAudits(o)
      BY <1>2, <1>7, <2>3 DEF TransitionAudits
    <3>2. /\ Settler(a.by, o) /\ a = TransitionOf(a.by) /\ a.by \in Requests
          /\ req[a.by].pc \in {"hydrate", "done", "lost"}
      BY <3>1 DEF TransitionsLogged, TransitionAudits, Typed, TypeOK, AuditRecord
    <3>3. a.by # r
      BY <1>1, <3>2
    <3> QED BY <1>4, <1>5, <3>2, <3>3 DEF Settler
  <2> QED BY <2>2, <2>3
<1>8. ASSUME NEW s \in Requests
      PROVE  /\ req'[s].pc = "settleAudit" => req'[s].written # NULL
             /\ req'[s].kind \in Settlements /\ req'[s].written # NULL =>
                  /\ req'[s].pc \in {"settleAudit", "hydrate", "done", "lost"}
                  /\ req'[s].pc \in {"hydrate", "done"} => TransitionOf(s)' \in audit'
  <2>1. CASE s = r
    BY <1>2, <1>3, <1>4, <1>5, <2>1
  <2>2. CASE s # r
    BY <1>2, <1>4, <1>5, <2>2 DEF TransitionsLogged
  <2> QED BY <2>1, <2>2
<1> QED BY <1>7, <1>8 DEF TransitionsLogged

LEMMA SameTransitions ==
  ASSUME TransitionsLogged, UNCHANGED <<req, audit>>
  PROVE  TransitionsLogged'
BY DEF TransitionsLogged, TransitionAudits, TransitionOf, Settler

\* At the start no transition was made and none is logged, and the stored rows
\* were created by the assertion's rules.
LEMMA InitLogged == Init => StoredRowsConsistent /\ SettledOnce /\ TransitionsLogged
<1> SUFFICES ASSUME Init PROVE StoredRowsConsistent /\ SettledOnce /\ TransitionsLogged
  OBVIOUS
<1>1. \A r \in Requests : req[r].kind = "none" /\ req[r].pc = "idle"
  BY DEF Init, IdleRequest
<1>2. \A o \in OrderIds : orders[o] # NULL => orders[o] \in StoredOrders
  BY DEF Init
<1>3. StoredRowsConsistent
  BY <1>2, StoredAssumption DEF StoredRowsConsistent, OrderInvariants, ReceiptConsistent
<1>4. SettledOnce
  BY <1>1 DEF SettledOnce, Settler, Settlements
<1>5. TransitionsLogged
  BY <1>1 DEF Init, TransitionsLogged, TransitionAudits, Settlements
<1> QED BY <1>3, <1>4, <1>5

LEMMA NextLogged ==
  ASSUME Typed, TransitionsLogged, [Next]_vars
  PROVE  TransitionsLogged'
<1>1. CASE UNCHANGED vars
  BY <1>1, SameTransitions DEF vars
<1>2. ASSUME NEW r \in Requests, Create(r) PROVE TransitionsLogged'
  BY <1>2, StartAdvance, OthersAdvance, AdvanceKeeps DEF Create
<1>3. ASSUME NEW r \in Requests, Settle(r) PROVE TransitionsLogged'
  BY <1>3, StartAdvance, SettlersAdvance, AdvanceKeeps, SettleUpdateLogs, SettleAuditLogs
     DEF Settle
<1>4. ASSUME NEW r \in Requests, UserPatchOrder(r) PROVE TransitionsLogged'
  BY <1>4, StartAdvance, OthersAdvance, AdvanceKeeps DEF UserPatchOrder
<1>5. ASSUME NEW r \in Requests, AdminPatchOrder(r) PROVE TransitionsLogged'
  BY <1>5, StartAdvance, OthersAdvance, AdvanceKeeps DEF AdminPatchOrder
<1>6. ASSUME NEW r \in Requests, Delete(r) \/ Lose(r) PROVE TransitionsLogged'
  BY <1>6, StartAdvance, OthersAdvance, SettlersAdvance, AdvanceKeeps DEF Delete
<1>7. ASSUME \/ \E s \in Subjects : CatalogueLiveness(s)
             \/ \E i \in SaleItems, p \in Prices : CataloguePrice(i, p)
      PROVE  TransitionsLogged'
  BY <1>7, SameTransitions DEF CatalogueLiveness, CataloguePrice
<1> QED BY <1>1, <1>2, <1>3, <1>4, <1>5, <1>6, <1>7 DEF Next

-----------------------------------------------------------------------------
(* The theorems                                                            *)

LEMMA InitRows == Init => RowsInv
BY InitTyped, InitStanding, InitChecked, InitStamps, InitLogged
   DEF RowsInv, Inv, Typed, Standing, Checked

LEMMA NextRows == RowsInv /\ [Next]_vars => RowsInv' /\ [Ledger!Next]_Entries
<1> SUFFICES ASSUME RowsInv, [Next]_vars PROVE RowsInv' /\ [Ledger!Next]_Entries
  OBVIOUS
<1>1. Typed /\ Standing /\ Checked
  BY DEF RowsInv, Inv, Typed, Standing, Checked
<1>2. /\ StoredRowsConsistent /\ StampsMatchStatus /\ SettledOnce /\ TransitionsLogged
      /\ CreatesPass /\ UserWritesChecked
  BY DEF RowsInv
<1>3. Typed'
  BY <1>1, NextTyped
<1>4. Standing'
  BY <1>1, <1>3, NextStanding
<1>5. RowStep
  BY <1>1, <1>2, NextShape
<1>6. Checked'
  BY <1>1, <1>5, LinesStep, NextChecked
<1>7. StoredRowsConsistent' /\ SettledOnce' /\ TransitionsLogged'
  BY <1>1, <1>2, <1>5, RowsStep, SettledOnceStep, NextLogged
<1>8. [Ledger!Next]_Entries
  BY <1>1, <1>3, <1>5, LedgerStep
<1>9. StampsMatchStatus'
  BY <1>1, <1>2, <1>8, LedgerStamps
<1> QED BY <1>3, <1>4, <1>6, <1>7, <1>8, <1>9 DEF RowsInv, Inv, Typed, Standing, Checked

\* The inductive invariant of the rows, the ledger entries and the audit log
\* holds in every reachable state.
THEOREM RowsInvCorrect == Spec => []RowsInv
BY InitRows, NextRows, PTL DEF Spec

\* The assertion of the creating transaction (persistOrderWithLine) never rolls
\* a request back: what the schemas admit and the lookups check is enough,
\* whatever price and visibility do between the lookup and the insert.
THEOREM CreatesNeverFail == Spec => []NoInvariantError
<1>1. RowsInv => NoInvariantError
  BY DEF RowsInv, CreatesPass, NoInvariantError
<1> QED BY <1>1, RowsInvCorrect, PTL

\* The rules asserted only at creation hold of every stored row for good, though
\* every PATCH writes by id alone after reading in an earlier statement.
THEOREM RowsCorrect == Spec => []StoredRowsConsistent
<1>1. RowsInv => StoredRowsConsistent
  BY DEF RowsInv
<1> QED BY <1>1, RowsInvCorrect, PTL

\* An order no administrator rewrote carries exactly the stamps its status calls
\* for: confirmPayment and cancelOrder set both in one conditional update.
THEOREM StampsCorrect == Spec => []StampsMatchStatus
<1>1. RowsInv => StampsMatchStatus
  BY DEF RowsInv
<1> QED BY <1>1, RowsInvCorrect, PTL

\* Only real transitions are logged (emitAudit): at most one transition event
\* per order, its settler's own, and logged before the settler answers.
THEOREM AuditCorrect == Spec => []TransitionsAuditedOnce
<1>1. ASSUME RowsInv PROVE TransitionsAuditedOnce
  <2>1. Typed /\ SettledOnce /\ TransitionsLogged
    BY <1>1 DEF RowsInv, Inv, Typed
  <2>2. ASSUME NEW o \in OrderIds, NEW a \in TransitionAudits(o)
        PROVE  /\ a.by \in Requests /\ Settler(a.by, o) /\ a = TransitionOf(a.by)
               /\ req[a.by].written # NULL
    BY <2>1, <2>2 DEF TransitionsLogged, TransitionAudits, Typed, TypeOK, AuditRecord, Settler
  <2>3. ASSUME NEW o \in OrderIds, ~Corrected(o),
               NEW a \in TransitionAudits(o), NEW b \in TransitionAudits(o)
        PROVE  a = b
    BY <2>1, <2>2, <2>3 DEF SettledOnce
  <2>4. ASSUME NEW r \in Requests, req[r].kind \in Settlements, req[r].written # NULL,
               req[r].pc = "done"
        PROVE  \E a \in TransitionAudits(req[r].target) : a.by = r
    <3>1. TransitionOf(r) \in audit
      BY <2>1, <2>4 DEF TransitionsLogged
    <3>2. TransitionOf(r) \in TransitionAudits(req[r].target) /\ TransitionOf(r).by = r
      BY <3>1 DEF TransitionAudits, TransitionOf
    <3> QED BY <3>2
  <2> QED BY <2>2, <2>3, <2>4 DEF TransitionsAuditedOnce
<1> QED BY <1>1, RowsInvCorrect, PTL

\* The component implements its abstract specification: seen as ledger entries,
\* the rows start and step as OrderLedger allows, and nothing else changes them.
THEOREM LedgerCorrect == Spec => ImplementsLedger
<1>1. RowsInv /\ [Next]_vars => [Ledger!Next]_Entries
  BY NextRows
<1> QED BY <1>1, InitLedger, RowsInvCorrect, PTL DEF Spec, ImplementsLedger, Ledger!Spec, Entries

=============================================================================
