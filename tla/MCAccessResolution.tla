-------------------------- MODULE MCAccessResolution --------------------------
(* Small instances of AccessResolution for TLC: one policy that grants every *)
(* group to the agent.                                                       *)
EXTENDS AccessResolution, TLC

CONSTANTS q1, q2, g1, g2, p1, a1, s1, t1

\* the policy grants the groups; g1 has a selector, g2 an explicit tool
MCInitial ==
  [x \in Things |->
     {Exists, Active} \cup
     CASE x = g1 -> {Selects(s1)}
       [] x = g2 -> {Lists(t1)}
       [] x = p1 -> {Grants(g) : g \in Groups} \cup {Covers(a1)}]

MCMatches == [s \in Selectors |-> Tools]
===============================================================================
