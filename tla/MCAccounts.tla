----------------------------- MODULE MCAccounts -----------------------------
(* Accounts on a small instance: one account registered beforehand, one    *)
(* free id, two requests of any kind and one login, one Google identity    *)
(* whose e-mail either account may own.                                    *)
EXTENDS Accounts, TLC

CONSTANTS AnyRequests, LoginRequests

MCRequests == AnyRequests \cup LoginRequests

MCServes == [r \in MCRequests |-> IF r \in LoginRequests THEN {"login"} ELSE Kinds \ {"none"}]

MCEmailOf == [s \in Subs |-> CHOOSE e \in Emails : TRUE]

Symmetric ==
  UNION {Permutations(S) : S \in {AnyRequests, Passwords, Opened}}

=============================================================================
