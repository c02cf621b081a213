---------------------------- MODULE MCAccessCatalog ----------------------------
(* A small instance of AccessCatalog for TLC: a group with a selector, and a *)
(* policy that grants it; another group and policy are still to be created.  *)
EXTENDS AccessCatalog, TLC

CONSTANTS g1, g2, p1, p2, a1, s1, s2, t1

MCInitial ==
  (g1 :> {Exists, Active, Selects(s1)} @@ g2 :> {}
   @@ p1 :> {Exists, Active, Grants(g1), Covers(a1)} @@ p2 :> {})
================================================================================
