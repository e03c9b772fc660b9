------------------------- MODULE MCStateStore -------------------------
(* An instance of StateStore: two repositories of one slug, a statefile of an
   older version among them. *)
EXTENDS StateStore, TLC

CONSTANTS a1, a2, b1, old, r1, r2, p1, p2, p3

OneSlug_RepoIn == (a1 :> r1) @@ (a2 :> r1) @@ (b1 :> r2) @@ (old :> r1)
OneSlug_RepoFor == (p1 :> r1) @@ (p2 :> r1) @@ (p3 :> r2)
=======================================================================
