----------------------------- MODULE MCCatalogue -----------------------------
(***************************************************************************)
(* Catalogue on a small instance: a charity that may exist or not, a child *)
(* of each kind, two categories, two requests.                             *)
(***************************************************************************)
EXTENDS Catalogue, TLC

CONSTANTS c1, p1, s1, k1, k2, r1, r2

MCRequests == {r1, r2}

NoBody == [start |-> Keep, end |-> Keep, logo |-> Keep, cats |-> Keep, other |-> FALSE]

Png(entity, id) == [entity |-> entity, id |-> id, purpose |-> "logo", ext |-> "png"]

\* Bodies with one concern each: the window, the image, the categories alone
\* and with another field.
MCBodies ==
  {[NoBody EXCEPT !.start = a, !.end = b] :
     a, b \in {Keep, NULL, 1, 2}}
  \cup {[NoBody EXCEPT !.logo = l] :
          l \in {Png("charities", c1), Png("sale-items", s1), Png("sale-items", p1)}}
  \cup {[NoBody EXCEPT !.cats = ks, !.other = o] :
          ks \in {<<>>, <<k1>>, <<k1, k2>>, <<k2, k2>>}, o \in BOOLEAN}

Symmetric == Permutations(MCRequests)

=============================================================================
