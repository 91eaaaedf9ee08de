---------------------------- MODULE OrderLedger ----------------------------
(***************************************************************************)
(* What the order component promises to the rest of the system, with no    *)
(* requests, transactions or retries in sight: every order id is a ledger  *)
(* entry that is opened once, settled once (paid or cancelled, and stamped *)
(* accordingly), corrected only by an administrator, and erased for good.  *)
(* Module Orders is shown to implement it.                                 *)
(***************************************************************************)
CONSTANT OrderIds

VARIABLE ledger

OrderStatus == {"PENDING", "PAID", "FAILED", "CANCELLED", "REFUNDED"}

\* "unborn": the id was never used; "erased": the row was hard-deleted.
Entry == [status: OrderStatus \cup {"unborn", "erased"},
          paidAt: BOOLEAN, cancelledAt: BOOLEAN, corrected: BOOLEAN]

Blank(s) == [status |-> s, paidAt |-> FALSE, cancelledAt |-> FALSE, corrected |-> FALSE]

TypeOK == ledger \in [OrderIds -> Entry]

Init == ledger \in [OrderIds -> {Blank("unborn"), Blank("PENDING")}]

Open(o) ==
  /\ ledger[o].status = "unborn"
  /\ ledger' = [ledger EXCEPT ![o] = Blank("PENDING")]

Pay(o) ==
  /\ ledger[o].status = "PENDING"
  /\ ledger' = [ledger EXCEPT ![o] = [@ EXCEPT !.status = "PAID", !.paidAt = TRUE]]

Cancel(o) ==
  /\ ledger[o].status = "PENDING"
  /\ ledger' = [ledger EXCEPT ![o] = [@ EXCEPT !.status = "CANCELLED", !.cancelledAt = TRUE]]

\* An administrator may set any status and any stamp, and the entry stays marked.
Correct(o) ==
  /\ ledger[o].status \in OrderStatus
  /\ ledger'[o].status \in OrderStatus
  /\ ledger'[o].corrected
  /\ ledger'[o] \in Entry
  /\ ledger' = [ledger EXCEPT ![o] = ledger'[o]]

Erase(o) ==
  /\ ledger[o].status \in OrderStatus
  /\ ledger' = [ledger EXCEPT ![o] = Blank("erased")]

Next == \E o \in OrderIds : Open(o) \/ Pay(o) \/ Cancel(o) \/ Correct(o) \/ Erase(o)

Spec == Init /\ [][Next]_ledger

\* An entry no administrator touched carries exactly the stamp its status calls for.
StampsMatchStatus ==
  \A o \in OrderIds : ~ledger[o].corrected =>
    /\ ledger[o].paidAt = (ledger[o].status = "PAID")
    /\ ledger[o].cancelledAt = (ledger[o].status = "CANCELLED")
    /\ ledger[o].status \notin {"FAILED", "REFUNDED"}
=============================================================================
