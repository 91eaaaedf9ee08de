------------------------- MODULE MCCatalogueCache -------------------------
(***************************************************************************)
(* One charity and its project, seen through the project's page and the    *)
(* project list, with two clients and one administrator.                   *)
(***************************************************************************)
EXTENDS CatalogueCache, TLC

CONSTANTS c1, p1

MCCharityOf == p1 :> c1

MCKeys == {<<"detail", p1>>, <<"list", "project">>}

=============================================================================
