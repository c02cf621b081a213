----------------------------- MODULE MCBlueprints -----------------------------
(* A small instance of Blueprints for TLC. *)
EXTENDS Blueprints, TLC

CONSTANTS a1, a2, d1, t1, i1, i2, i3, i4, b1, b2

LOCAL Listed(id, order, body) == [id |-> id, order |-> order, body |-> body]

MCFirst == <<Listed(i1, 0, b1), Listed(i2, 1, b1)>>

\* from one to the other an item stays and is changed, the others go, and the
\* new ones do not all ask for the places they get
MCItemLists ==
  {MCFirst, <<Listed(i3, 5, b1), Listed(i2, 1, b2), Listed(i4, 0, b1)>>}

MCMaxWrites == [x \in {d1, t1} |-> IF x = d1 THEN 1 ELSE 2]

AdminSymmetry == Permutations(Admins)
===============================================================================
