------------------------------ MODULE MCOrders ------------------------------
(***************************************************************************)
(* A small instance of Orders: one charity with one sale item, one order   *)
(* id, which may hold a pending order at the start, and three concurrent   *)
(* requests of any kind.                                                   *)
(***************************************************************************)
EXTENDS Orders, TLC

CONSTANTS c1, i1, d1, d2, e1

MCCharityOf == [i \in {i1} |-> c1]

Donation(frequency, billingDay) ==
  [subject |-> c1, amount |-> 3, frequency |-> frequency, billingDay |-> billingDay,
   donor |-> d1, receipt |-> e1]

\* A recurring donation with its billing day, and one without.
MCDonationBodies == {Donation("RECURRING", TRUE), Donation("RECURRING", FALSE)}

MCPurchaseBodies == {[item |-> i1, quantity |-> 2, donor |-> d1]}

Edit(donor, receipt, status, paid) ==
  [donor |-> donor, receipt |-> receipt, status |-> status,
   paidAt |-> paid, cancelledAt |-> ABSENT]

\* An empty body, a new donor, and a receipt option.
MCUserPatches ==
  {NoPatch, Edit(d2, ABSENT, ABSENT, ABSENT), Edit(ABSENT, e1, ABSENT, ABSENT)}

\* An empty body, a reset to PENDING, and a refund with its stamp cleared and a
\* receipt option, which a purchase must not have.
MCAdminPatches ==
  {NoPatch, Edit(ABSENT, ABSENT, "PENDING", ABSENT),
   Edit(ABSENT, e1, "REFUNDED", FALSE)}

MCStoredOrders ==
  {FreshRow([subject |-> i1, quantity |-> 2, unitPrice |-> 1,
             frequency |-> "NONE", billingDay |-> FALSE], d1, NULL, FALSE),
   FreshRow([subject |-> c1, quantity |-> 1, unitPrice |-> 3,
             frequency |-> "RECURRING", billingDay |-> TRUE], d1, e1, TRUE)}

Symmetry == Permutations(Requests)
=============================================================================
