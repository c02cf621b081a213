---------------------------- MODULE AccessCatalog ----------------------------
(***************************************************************************)
(* The tool groups and access policies of tools-provider: the commands of  *)
(* the administrators, the events they append and the projection of these  *)
(* events to the read model that decides what agents may use.              *)
(*                                                                         *)
(* A group or a policy is a set of marks: that it exists, that it is       *)
(* active, the selectors, explicit and excluded tools of a group, the      *)
(* groups a policy grants and the agents whose claims it matches.  An      *)
(* event puts marks on and takes marks off; a command appends its events   *)
(* at once, the projector applies them one by one.                         *)
(*                                                                         *)
(* A command whose copy of the aggregate is no longer the latest version   *)
(* is refused by the event store and changes nothing, so that a command    *)
(* that succeeds is one step; a deletion is two.                           *)
(***************************************************************************)
EXTENDS Integers, Sequences, FiniteSets

CONSTANTS
  Groups,       \* tool groups
  Policies,     \* access policies
  Agents,       \* agents, told apart by their claims
  Selectors,    \* tool selectors
  Tools,        \* tools in the read model
  Initial,      \* marks of each group and policy, all of them projected
  MaxEvents,    \* bound: events appended
  MaxRestarts   \* bound: restarts of the projector

Things == Groups \cup Policies

Exists == <<"exists">>
Active == <<"active">>
Selects(s) == <<"selector", s>>
Lists(t) == <<"explicit", t>>
Excludes(t) == <<"excluded", t>>
Grants(g) == <<"grants", g>>
Covers(a) == <<"covers", a>>

SelectorMarks == {Selects(s) : s \in Selectors}
ListMarks == {Lists(t) : t \in Tools}
ExclusionMarks == {Excludes(t) : t \in Tools}
GrantMarks == {Grants(g) : g \in Groups}
CoverMarks == {Covers(a) : a \in Agents}

GroupMarks == SelectorMarks \cup ListMarks \cup ExclusionMarks
Marks == {Exists, Active} \cup GroupMarks \cup GrantMarks \cup CoverMarks

ASSUME CatalogAssumption ==
  /\ IsFiniteSet(Marks)
  /\ Initial \in [Things -> SUBSET Marks]
  /\ \A x \in Things : Initial[x] = {} \/ Exists \in Initial[x]
  /\ MaxEvents \in Nat
  /\ MaxRestarts \in Nat

VARIABLES
  write,        \* event stream of each group and policy, as its state
  deleted,      \* those whose deletion was saved
  gone,         \* those whose stream was removed
  log,          \* events, in the order of the category
  done,         \* how many of them have been projected
  read,         \* the DTOs
  restarts      \* restarts of the projector so far

streamVars == <<write, deleted, gone, log>>
projectorVars == <<done, read, restarts>>
catalogVars == <<streamVars, projectorVars>>

Event == [of : Things, kind : {"created", "changed", "deleted"},
          on : SUBSET Marks, off : SUBSET Marks]

-----------------------------------------------------------------------------
(* Events. *)

Created(x, marks) == [of |-> x, kind |-> "created",
                      on |-> {Exists, Active} \cup marks, off |-> {}]
Changed(x, on, off) == [of |-> x, kind |-> "changed", on |-> on, off |-> off]
Deleted(x) == [of |-> x, kind |-> "deleted", on |-> {}, off |-> {Active}]

\* the orders in which a set of marks may be gone through
Orders(S) ==
  {f \in [1 .. Cardinality(S) -> S] :
     /\ \A i, j \in DOMAIN f : f[i] = f[j] => i = j
     /\ \A m \in S : \E i \in DOMAIN f : f[i] = m}

Putting(x, f) == [i \in DOMAIN f |-> Changed(x, {f[i]}, {})]
Taking(x, f) == [i \in DOMAIN f |-> Changed(x, {}, {f[i]})]

\* one event, when it changes something
Replacing(x, all, on) ==
  IF write[x] \cap all = on THEN << >> ELSE << Changed(x, on, all \ on) >>

\* the sync commands: first what is not wanted, then what is missing
Diff(x, all, wanted) ==
  {Taking(x, o[1]) \o Putting(x, o[2]) :
     o \in Orders((write[x] \cap all) \ wanted) \X Orders(wanted \ write[x])}

Live(x) == Exists \in write[x] /\ x \notin gone

\* append events s, after which x has the given marks
Commit(x, s, marks) ==
  /\ s # << >>
  /\ Len(log) + Len(s) <= MaxEvents
  /\ log' = log \o s
  /\ write' = [write EXCEPT ![x] = marks]
  /\ UNCHANGED <<gone, projectorVars>>

CatalogInit ==
  /\ write = Initial
  /\ deleted = {}
  /\ gone = {}
  /\ log = << >>
  /\ done = 0
  /\ read = Initial
  /\ restarts = 0

-----------------------------------------------------------------------------
(* The commands on groups. *)

\* a new group, with the selectors, explicit and excluded tools it is given
CreateGroup(g, selectors, listed, excluded) ==
  /\ Exists \notin write[g]
  /\ \E a \in Orders(selectors), b \in Orders(listed), c \in Orders(excluded) :
       Commit(g, <<Created(g, {})>>
                   \o (Putting(g, a) \o Putting(g, b) \o Putting(g, c)),
              {Exists, Active} \cup selectors \cup listed \cup excluded)
  /\ UNCHANGED deleted

\* a selector, explicit or excluded tool is added
AddMember(g, m) ==
  /\ Live(g)
  /\ m \notin write[g]
  /\ Commit(g, <<Changed(g, {m}, {})>>, write[g] \cup {m})
  /\ UNCHANGED deleted

\* a selector, explicit or excluded tool is removed
RemoveMember(g, m) ==
  /\ Live(g)
  /\ m \in write[g]
  /\ Commit(g, <<Changed(g, {}, {m})>>, write[g] \ {m})
  /\ UNCHANGED deleted

AddSelector(g, s) == AddMember(g, Selects(s))
AddExplicitTool(g, t) == AddMember(g, Lists(t))
RemoveSelector(g, s) == RemoveMember(g, Selects(s))
RemoveExplicitTool(g, t) == RemoveMember(g, Lists(t))
ExcludeTool(g, t) == AddMember(g, Excludes(t))
IncludeTool(g, t) == RemoveMember(g, Excludes(t))

SyncSelectors(g, wanted) ==
  /\ Live(g)
  /\ \E s \in Diff(g, SelectorMarks, wanted) :
       Commit(g, s, (write[g] \ SelectorMarks) \cup wanted)
  /\ UNCHANGED deleted

SyncTools(g, listed, excluded) ==
  /\ Live(g)
  /\ \E r \in Diff(g, ListMarks, listed), s \in Diff(g, ExclusionMarks, excluded) :
       Commit(g, r \o s, (write[g] \ (ListMarks \cup ExclusionMarks))
                           \cup listed \cup excluded)
  /\ UNCHANGED deleted

-----------------------------------------------------------------------------
(* The commands on policies; a policy may grant groups that do not exist. *)

DefinePolicy(p, granted, covered) ==
  /\ Exists \notin write[p]
  /\ granted # {}
  /\ Commit(p, <<Created(p, granted \cup covered)>>,
            {Exists, Active} \cup granted \cup covered)
  /\ UNCHANGED deleted

UpdatePolicy(p, granted, covered) ==
  /\ Live(p)
  /\ granted # {}
  /\ Commit(p, Replacing(p, CoverMarks, covered)
                 \o Replacing(p, GrantMarks, granted),
            (write[p] \ (CoverMarks \cup GrantMarks)) \cup granted \cup covered)
  /\ UNCHANGED deleted

-----------------------------------------------------------------------------
(* The commands on both. *)

Activate(x) ==
  /\ Live(x)
  /\ Active \notin write[x]
  /\ Commit(x, <<Changed(x, {Active}, {})>>, write[x] \cup {Active})
  /\ UNCHANGED deleted

Deactivate(x) ==
  /\ Live(x)
  /\ Active \in write[x]
  /\ Commit(x, <<Changed(x, {}, {Active})>>, write[x] \ {Active})
  /\ UNCHANGED deleted

\* a deletion: the event is saved, then the stream is removed
Delete(x) ==
  /\ Live(x)
  /\ Commit(x, <<Deleted(x)>>, write[x] \ {Active})
  /\ deleted' = deleted \cup {x}

ActivateGroup(g) == Activate(g)
DeactivateGroup(g) == Deactivate(g)
DeleteGroup(g) == Delete(g)

ActivatePolicy(p) == Activate(p)
DeactivatePolicy(p) == Deactivate(p)
DeletePolicy(p) == Delete(p)

Remove(x) ==
  /\ x \in deleted \ gone
  /\ gone' = gone \cup {x}
  /\ UNCHANGED <<write, deleted, log, projectorVars>>

-----------------------------------------------------------------------------
(* The projector. *)

\* the DTO is written afresh, unless there is one
ProjectedCreation(dto, e) == IF Exists \in dto THEN dto ELSE e.on

\* the change of a group or policy without DTO is dropped
ProjectedChange(dto, e) ==
  IF Exists \in dto THEN (dto \ e.off) \cup e.on ELSE dto

Projected(dto, e) ==
  CASE e.kind = "created" -> ProjectedCreation(dto, e)
    [] e.kind = "changed" -> ProjectedChange(dto, e)
    [] e.kind = "deleted" -> {}

\* the next event is projected; one whose stream was removed may also be lost
Project ==
  /\ done < Len(log)
  /\ done' = done + 1
  /\ LET e == log[done + 1]
     IN \/ read' = [read EXCEPT ![e.of] = Projected(@, e)]
        \/ e.of \in gone /\ UNCHANGED read
  /\ UNCHANGED <<streamVars, restarts>>

\* variant: what was delivered and not acknowledged is not delivered again
RestartSkipping ==
  /\ restarts < MaxRestarts
  /\ restarts' = restarts + 1
  /\ done' \in done .. Len(log)
  /\ UNCHANGED <<streamVars, read>>

\* events projected but not acknowledged are delivered again
Restart ==
  /\ restarts < MaxRestarts
  /\ restarts' = restarts + 1
  /\ done' \in 0 .. done
  /\ UNCHANGED <<streamVars, read>>

GroupCommand(g) ==
  \/ \E selectors \in SUBSET SelectorMarks, listed \in SUBSET ListMarks,
        excluded \in SUBSET ExclusionMarks :
       CreateGroup(g, selectors, listed, excluded)
  \/ \E s \in Selectors : AddSelector(g, s) \/ RemoveSelector(g, s)
  \/ \E t \in Tools : AddExplicitTool(g, t) \/ RemoveExplicitTool(g, t)
                       \/ ExcludeTool(g, t) \/ IncludeTool(g, t)
  \/ \E wanted \in SUBSET SelectorMarks : SyncSelectors(g, wanted)
  \/ \E listed \in SUBSET ListMarks, excluded \in SUBSET ExclusionMarks :
       SyncTools(g, listed, excluded)
  \/ ActivateGroup(g) \/ DeactivateGroup(g) \/ DeleteGroup(g)

PolicyCommand(p) ==
  \/ \E granted \in SUBSET GrantMarks, covered \in SUBSET CoverMarks :
       DefinePolicy(p, granted, covered) \/ UpdatePolicy(p, granted, covered)
  \/ ActivatePolicy(p) \/ DeactivatePolicy(p) \/ DeletePolicy(p)

Administer ==
  \/ \E g \in Groups : GroupCommand(g)
  \/ \E p \in Policies : PolicyCommand(p)
  \/ \E x \in Things : Remove(x)

CatalogNext == Administer \/ Project \/ Restart

CatalogSpec == CatalogInit /\ [][CatalogNext]_catalogVars

-----------------------------------------------------------------------------
(* Properties. *)

\* Types of the catalogue's variables.
CatalogTypeOK ==
  /\ write \in [Things -> SUBSET Marks]
  /\ read \in [Things -> SUBSET Marks]
  /\ deleted \subseteq Things
  /\ gone \subseteq deleted
  /\ log \in Seq(Event)
  /\ done \in 0 .. Len(log)
  /\ restarts \in 0 .. MaxRestarts

(* Once every event has been projected, a group or policy that was never   *)
(* deleted is in the read model as the commands left it, although the      *)
(* projector has restarted and applied a stretch of events twice           *)
(* (the idempotency checks of the projection handlers).                    *)
ReadModelConverged ==
  done = Len(log) => \A x \in Things \ deleted : read[x] = write[x]

-----------------------------------------------------------------------------
(* The strengthening that makes the invariants inductive. *)

Touches(e, x, m) == e.of = x /\ m \in e.on \cup e.off

\* the last event about mark m of x, if there is one
LastTouch(i, x, m) ==
  /\ i \in DOMAIN log /\ Touches(log[i], x, m)
  /\ \A j \in DOMAIN log : j > i => ~Touches(log[j], x, m)

(* The last event about a mark decides it in the write model; in the read  *)
(* model too once it was projected, also while the projector is repeating  *)
(* earlier events; a mark no event is about is the same in both.           *)
LastWord(x) ==
  \A m \in Marks :
    /\ \A i \in DOMAIN log : LastTouch(i, x, m) =>
         /\ m \in log[i].on <=> m \in write[x]
         /\ i <= done \/ (log[i].kind = "created" /\ Exists \in read[x]) =>
              (m \in read[x] <=> m \in write[x])
    /\ (\A i \in DOMAIN log : ~Touches(log[i], x, m)) =>
         (m \in read[x] <=> m \in write[x])

\* a group or policy is created once, before anything else, and stays
CreatedFirst(x) ==
  /\ \A i \in DOMAIN log : log[i].of = x =>
       /\ Exists \in write[x]
       /\ log[i].kind # "deleted"
       /\ log[i].kind = "changed" => Exists \notin log[i].on \cup log[i].off
       /\ log[i].kind = "created" =>
            /\ Exists \in log[i].on /\ log[i].off = {}
            /\ \A j \in DOMAIN log : log[j].of = x /\ j # i =>
                 j > i /\ log[j].kind = "changed"
  /\ Exists \in write[x] \/ write[x] = {}
  /\ {Exists} \subseteq read[x] \cap write[x] \/ read[x] = {}

CatalogIInv ==
  /\ CatalogTypeOK
  /\ \A x \in Things \ deleted : LastWord(x) /\ CreatedFirst(x)
=============================================================================
