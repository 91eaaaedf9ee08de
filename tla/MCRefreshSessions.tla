------------------------- MODULE MCRefreshSessions -------------------------
(***************************************************************************)
(* A small instance of RefreshSessions: three requests, one token minted   *)
(* before the start and three that may be minted, two passwords.           *)
(***************************************************************************)
EXTENDS RefreshSessions, TLC

\* The requests are interchangeable; so are the tokens not minted yet, and the
\* two passwords.
Symmetry ==
  Permutations(Requests) \cup Permutations(Tokens \ StoredTokens) \cup Permutations(Passwords)
=============================================================================
