------------------------------- MODULE Cursors -------------------------------
(***************************************************************************)
(* Keyset pagination: the cursors a list answers with and the rows that    *)
(* come after one (lib/cursor, domain/donation-item/list-helpers.ts,       *)
(* domain/order/admin-services.ts).  An instant is the millisecond that    *)
(* both the timestamp column and toISOString keep, so the base64url JSON   *)
(* of a cursor loses nothing and a cursor is the tuple it encodes.         *)
(***************************************************************************)
EXTENDS Integers

\* The sort key of a catalogue row; an order has no displayOrder.
Cursor == [order : Int, created : Int, id : Int]

NextCursorFrom(row) == [order |-> row.order, created |-> row.created, id |-> row.id]

\* ORDER BY displayOrder ASC, createdAt DESC, id DESC: does a precede b?
Precedes(a, b) ==
  \/ a.order < b.order
  \/ a.order = b.order /\ a.created > b.created
  \/ a.order = b.order /\ a.created = b.created /\ a.id > b.id

\* Faulty variant: rows with the instant of the last one are passed over.
CursorWhereNoTie(p, row) ==
  \/ row.order > p.order
  \/ row.order = p.order /\ row.created < p.created

CursorWhere(p, row) ==
  \/ row.order > p.order
  \/ row.order = p.order /\ row.created < p.created
  \/ row.order = p.order /\ row.created = p.created /\ row.id < p.id

\* ORDER BY createdAt DESC, id DESC
OrderPrecedes(a, b) ==
  \/ a.created > b.created
  \/ a.created = b.created /\ a.id > b.id

OrderCursorWhere(p, row) ==
  \/ row.created < p.created
  \/ row.created = p.created /\ row.id < p.id

=============================================================================
