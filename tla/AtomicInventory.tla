--------------------------- MODULE AtomicInventory ---------------------------
(***************************************************************************)
(* What the commands on a source and its tools promise, however their      *)
(* loads and saves interleave: every stored event is the outcome of a      *)
(* command deciding on the tool, or the source, as it is at that moment.   *)
(***************************************************************************)
EXTENDS Integers

CONSTANTS
  Tools,   \* tools the upstream may offer
  Defs,    \* definitions a tool may have
  None,    \* no definition
  NoHash   \* inventory hash of a source never synchronised

VARIABLES
  tool,    \* status, enabled flag and definition of each tool
  source   \* inventory hash, failure count and health of the source

Inventories == [Tools -> Defs \cup {None}]

Absent == [status |-> "absent", enabled |-> FALSE, def |-> None]

Init ==
  /\ tool = [t \in Tools |-> Absent]
  /\ source = [hash |-> NoHash, failures |-> 0, health |-> "unknown"]

\* the tool becomes what the event of the command says
Becomes(t, status, enabled, def) ==
  /\ tool' = [tool EXCEPT ![t] = [status |-> status, enabled |-> enabled,
                                  def |-> def]]
  /\ UNCHANGED source

Discover(t, d) ==
  /\ tool[t] = Absent
  /\ Becomes(t, "active", TRUE, d)

Redefine(t, d) ==
  /\ tool[t] # Absent
  /\ tool[t].def # d
  /\ Becomes(t, tool[t].status, tool[t].enabled, d)

Restore(t, d) ==
  /\ tool[t].status = "deprecated"
  /\ Becomes(t, "active", TRUE, d)

Enable(t) ==
  /\ tool[t].status = "active"
  /\ ~tool[t].enabled
  /\ Becomes(t, tool[t].status, TRUE, tool[t].def)

Disable(t) ==
  /\ tool[t].enabled
  /\ Becomes(t, tool[t].status, FALSE, tool[t].def)

Delete(t) ==
  /\ tool[t] # Absent
  /\ Becomes(t, "deprecated", FALSE, tool[t].def)

Remove(t) == Becomes(t, Absent.status, Absent.enabled, Absent.def)

Ingest(inventory) ==
  /\ source.hash # inventory
  /\ source' = [hash |-> inventory, failures |-> 0, health |-> "healthy"]
  /\ UNCHANGED tool

FailSync ==
  /\ source' = [hash |-> source.hash, failures |-> source.failures + 1,
                health |-> IF source.failures >= 2 THEN "unhealthy"
                           ELSE "degraded"]
  /\ UNCHANGED tool

Next ==
  \/ \E t \in Tools :
       \/ Enable(t) \/ Disable(t) \/ Delete(t) \/ Remove(t)
       \/ \E d \in Defs : Discover(t, d) \/ Redefine(t, d) \/ Restore(t, d)
  \/ FailSync
  \/ \E inventory \in Inventories : Ingest(inventory)

Spec == Init /\ [][Next]_<<tool, source>>

=============================================================================
