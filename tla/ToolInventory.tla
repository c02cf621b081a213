---------------------------- MODULE ToolInventory ----------------------------
(***************************************************************************)
(* The tool inventory of one registered source in tools-provider: inventory*)
(* refreshes, the admin's commands on tools, the deletion of a tool, of    *)
(* the source or of orphaned tools, and the projection of the tools'       *)
(* events to the read model the agents are served from.                    *)
(*                                                                         *)
(* Aggregates are event-sourced: a command loads an aggregate, decides on  *)
(* its copy and appends events, and the store refuses an append whose copy *)
(* is no longer the latest version.  The event category is consumed in     *)
(* order by one projector.  A worker is an HTTP request being handled; it  *)
(* keeps the processor between awaits, and at says at which await it is:   *)
(*   idle    no request               start   saving SyncStarted           *)
(*   fetch   fetching the spec        failed  saving SyncFailed            *)
(*   sync    between two tools        save    saving a discovered tool     *)
(*   admin   saving an admin command  delete  saving a Deleted event       *)
(*   remove  removing a tool stream   purge   removing a tool's DTO        *)
(*   query   listing the DTOs         next    between two tools to delete  *)
(*   dereg   saving Deregistered      drop    removing the source stream   *)
(*   dropread  removing the source's DTO                                   *)
(***************************************************************************)
EXTENDS Integers, Sequences, FiniteSets

CONSTANTS
  Tools,        \* tools the upstream may offer
  Defs,         \* definitions a tool may have
  None,         \* no definition, no tool
  NoHash,       \* inventory hash of a source never synchronised
  Workers,      \* requests handled at the same time
  Refreshers,   \* workers that may run a refresh
  Commands,     \* kinds of command sent
  Faults,       \* which calls may fail: "fetch", "store"
  MaxJobs,      \* bound: commands sent
  MaxChanges    \* bound: changes of the upstream specification

AllCommands == {"refresh", "edit", "enable", "disable", "describe",
                "deleteTool", "deleteSource", "cleanup"}

ASSUME InventoryAssumption ==
  /\ None \notin Defs \cup Tools
  /\ NoHash \notin [Tools -> Defs \cup {None}]

\* a specification and an answer of the read model are lists
ASSUME FiniteAssumption == IsFiniteSet(Tools)

ASSUME CommandAssumption ==
  /\ Refreshers \subseteq Workers
  /\ Commands \subseteq AllCommands
  /\ Faults \subseteq {"fetch", "store"}
  /\ MaxJobs \in Nat
  /\ MaxChanges \in Nat

VARIABLES
  upstream,     \* the specification the upstream serves
  tool,         \* event stream of each SourceTool, as its aggregate state
  source,       \* event stream of the UpstreamSource, as its state
  log,          \* tool events not yet projected
  readTool,     \* SourceToolDto of each tool in the read model
  readSource,   \* the SourceDto is in the read model
  at, op,       \* await at which a worker is, and its command
  cur, held,    \* tool a worker is handling, and its copy of the aggregate
  src,          \* a worker's copy of the source aggregate
  spec, todo,   \* fetched inventory, and tools still to go through
  jobs,         \* commands sent
  changes,      \* changes of the specification so far
  fails         \* failed syncs stored since the last stored inventory

writeVars == <<tool, source, fails>>
readVars == <<log, readTool, readSource>>
workVars == <<op, cur, held, src, spec, todo>>
envVars == <<upstream, jobs, changes>>
vars == <<writeVars, readVars, at, workVars, envVars>>

-----------------------------------------------------------------------------
(* Values. *)

Inventories == [Tools -> Defs \cup {None}]

Status == {"absent", "active", "deprecated"}
Health == {"unknown", "healthy", "degraded", "unhealthy"}

\* own: the admin's description is in force; base: version at the last removal
ToolState == [ver : Nat, base : Nat, status : Status, enabled : BOOLEAN,
              def : Defs \cup {None}, own : BOOLEAN]

NoTool == [ver |-> 0, base |-> 0, status |-> "absent", enabled |-> FALSE,
           def |-> None, own |-> FALSE]

SourceState == [ver : Nat, exists : BOOLEAN, enabled : BOOLEAN,
                hash : Inventories \cup {NoHash}, failures : Nat,
                health : Health]

NewSource == [ver |-> 0, exists |-> TRUE, enabled |-> TRUE, hash |-> NoHash,
              failures |-> 0, health |-> "unknown"]

Dto == [present : BOOLEAN, enabled : BOOLEAN, def : Defs \cup {None},
        own : BOOLEAN]

NoDto == [present |-> FALSE, enabled |-> FALSE, def |-> None, own |-> FALSE]

Kinds == {"Discovered", "Enabled", "Disabled", "DefinitionUpdated",
          "Restored", "Updated", "Deleted"}

Event == [kind : Kinds, tool : Tools, def : Defs \cup {None}, ver : Nat]

Points == {"idle", "start", "fetch", "failed", "sync", "save", "admin",
           "delete", "remove", "purge", "query", "next", "dereg", "drop",
           "dropread"}

Ops == {"none", "refresh", "enable", "disable", "describe", "tool", "source",
        "orphans"}

\* the tools of an inventory
Offered(inventory) == {t \in Tools : inventory[t] # None}

Exists(s) == s.status # "absent"

-----------------------------------------------------------------------------
(* Aggregates: what an event does to the write model and to a DTO. *)

\* SourceToolState.on
Apply(s, kind, d) ==
  CASE kind \in {"Discovered", "Restored"} ->
         [s EXCEPT !.status = "active", !.enabled = TRUE, !.def = d,
                   !.own = @ /\ kind = "Restored"]
    [] kind = "Enabled"  -> [s EXCEPT !.enabled = TRUE]
    [] kind = "Disabled" -> [s EXCEPT !.enabled = FALSE]
    [] kind = "Updated"  -> [s EXCEPT !.own = TRUE]
    [] kind = "DefinitionUpdated" -> [s EXCEPT !.def = d]
    [] kind = "Deleted"  -> [s EXCEPT !.status = "deprecated",
                                      !.enabled = FALSE]

Appended(s, kind, d) == [Apply(s, kind, d) EXCEPT !.ver = s.ver + 1]

\* variant: discovered tools are served as disabled
NewDtoDisabled(d) ==
  [present |-> TRUE, enabled |-> FALSE, def |-> d, own |-> FALSE]

NewDto(d) == [present |-> TRUE, enabled |-> TRUE, def |-> d, own |-> FALSE]

\* variant: only the summary fields are rewritten
RedefinedSummary(dto, d) == [dto EXCEPT !.own = FALSE]

\* a new definition brings its own description
Redefined(dto, d) == [dto EXCEPT !.def = d, !.own = FALSE]

\* the projection handlers; an event of a tool without DTO is dropped
Projected(dto, e) ==
  CASE e.kind = "Discovered" /\ ~dto.present -> NewDto(e.def)
    [] e.kind = "Enabled" /\ dto.present  -> [dto EXCEPT !.enabled = TRUE]
    [] e.kind = "Disabled" /\ dto.present -> [dto EXCEPT !.enabled = FALSE]
    [] e.kind = "Updated" /\ dto.present  -> [dto EXCEPT !.own = TRUE]
    [] e.kind = "DefinitionUpdated" /\ dto.present -> Redefined(dto, e.def)
    [] e.kind = "Restored" /\ dto.present ->
         [Redefined(dto, e.def) EXCEPT !.enabled = TRUE]
    [] OTHER -> dto

\* variant: counts down
NextAttemptDown(failures) == failures - 1

\* mark_sync_failed
NextAttempt(failures) == failures + 1

\* variant: unhealthy one failure early
HealthAfterEarly(failures) ==
  IF failures >= 2 THEN "unhealthy" ELSE "degraded"

HealthAfter(failures) ==
  IF failures >= 3 THEN "unhealthy" ELSE "degraded"

\* variant: a changed tool is restored
NextEventRestoring(s, d) ==
  CASE ~Exists(s) -> "Discovered"
    [] Exists(s) /\ s.def # d -> "Restored"
    [] s.status = "deprecated" /\ s.def = d -> "Restored"
    [] OTHER -> "none"

\* variant: known tools are left as they are
NextEventNewOnly(s, d) == IF Exists(s) THEN "none" ELSE "Discovered"

\* what _sync_tools does next with its copy s of a tool defined as d
NextEvent(s, d) ==
  CASE ~Exists(s) -> "Discovered"
    [] Exists(s) /\ s.def # d -> "DefinitionUpdated"
    [] s.status = "deprecated" /\ s.def = d -> "Restored"
    [] OTHER -> "none"

\* enable, disable and update refuse what changes nothing
Accepts(command, s) ==
  CASE command = "enable" -> s.status = "active" /\ ~s.enabled
    [] command = "disable" -> Exists(s) /\ s.enabled
    [] command = "describe" -> Exists(s)

EventOf(command) ==
  CASE command = "enable" -> "Enabled"
    [] command = "disable" -> "Disabled"
    [] command = "describe" -> "Updated"

-----------------------------------------------------------------------------
(* Event store and workers. *)

\* the latest version of a stream is the one the worker loaded
ToolFresh(w) == held[w].ver = tool[cur[w]].ver
SourceFresh(w) == src[w].ver = source.ver

Goto(w, point) == at' = [at EXCEPT ![w] = point]

End(w) ==
  /\ Goto(w, "idle")
  /\ op' = [op EXCEPT ![w] = "none"]
  /\ held' = [held EXCEPT ![w] = NoTool]
  /\ src' = [src EXCEPT ![w] = NewSource]
  /\ spec' = [spec EXCEPT ![w] = NoHash]
  /\ todo' = [todo EXCEPT ![w] = {}]
  /\ cur' = [cur EXCEPT ![w] = None]

\* append an event to the stream of tool t, whose latest state is tool[t]
Store(t, kind, d) ==
  /\ tool' = [tool EXCEPT ![t] = Appended(@, kind, d)]
  /\ log' = IF kind = "Deleted" THEN log
            ELSE Append(log, [kind |-> kind, tool |-> t, def |-> d,
                              ver |-> tool[t].ver + 1])
  /\ UNCHANGED <<source, fails, readTool, readSource>>

StoreSource(s) ==
  /\ source' = [s EXCEPT !.ver = @ + 1]
  /\ UNCHANGED <<tool, readVars>>

Begin(w, command, as, point) ==
  /\ at[w] = "idle"
  /\ command \in Commands
  /\ jobs < MaxJobs
  /\ jobs' = jobs + 1
  /\ Goto(w, point)
  /\ op' = [op EXCEPT ![w] = as]
  /\ UNCHANGED <<writeVars, readVars, upstream, changes>>

Init ==
  /\ upstream \in Inventories
  /\ tool = [t \in Tools |-> NoTool]
  /\ source = NewSource
  /\ log = << >>
  /\ readTool = [t \in Tools |-> NoDto]
  /\ readSource = TRUE
  /\ at = [w \in Workers |-> "idle"]
  /\ op = [w \in Workers |-> "none"]
  /\ cur = [w \in Workers |-> None]
  /\ held = [w \in Workers |-> NoTool]
  /\ src = [w \in Workers |-> NewSource]
  /\ spec = [w \in Workers |-> NoHash]
  /\ todo = [w \in Workers |-> {}]
  /\ jobs = 0
  /\ changes = 0
  /\ fails = 0

-----------------------------------------------------------------------------
(* RefreshInventoryCommand. *)

\* load the source; a missing or disabled source ends the request at once
BeginRefresh(w) ==
  /\ w \in Refreshers
  /\ source.exists
  /\ source.enabled
  /\ Begin(w, "refresh", "refresh", "start")
  /\ src' = [src EXCEPT ![w] = source]
  /\ UNCHANGED <<cur, held, spec, todo>>

MarkSyncStarted(w) ==
  /\ at[w] = "start"
  /\ SourceFresh(w)
  /\ StoreSource(source)
  /\ src' = [src EXCEPT ![w] = source']
  /\ Goto(w, "fetch")
  /\ UNCHANGED <<fails, op, cur, held, spec, todo, envVars>>

FetchFails(w) ==
  /\ at[w] = "fetch"
  /\ "fetch" \in Faults
  /\ Goto(w, "failed")
  /\ UNCHANGED <<writeVars, readVars, workVars, envVars>>

MarkSyncFailed(w) ==
  /\ at[w] = "failed"
  /\ SourceFresh(w)
  /\ StoreSource([source EXCEPT
                     !.failures = NextAttempt(src[w].failures),
                     !.health = HealthAfter(NextAttempt(src[w].failures))])
  /\ fails' = fails + 1
  /\ End(w)
  /\ UNCHANGED envVars

\* the fetched inventory has the stored hash, and the refresh is not forced
FetchUnchanged(w) ==
  /\ at[w] = "fetch"
  /\ src[w].hash = upstream
  /\ End(w)
  /\ UNCHANGED <<writeVars, readVars, envVars>>

FetchInventory(w) ==
  /\ at[w] = "fetch"
  /\ spec' = [spec EXCEPT ![w] = upstream]
  /\ todo' = [todo EXCEPT ![w] = Offered(upstream)]
  /\ Goto(w, "sync")
  /\ UNCHANGED <<writeVars, readVars, op, cur, held, src, envVars>>

\* _sync_tools: load the next discovered tool
SyncTool(w, t) ==
  /\ at[w] = "sync"
  /\ t \in todo[w]
  /\ todo' = [todo EXCEPT ![w] = @ \ {t}]
  /\ cur' = [cur EXCEPT ![w] = t]
  /\ held' = [held EXCEPT ![w] = tool[t]]
  /\ Goto(w, IF NextEvent(tool[t], spec[w][t]) = "none" THEN "sync" ELSE "save")
  /\ UNCHANGED <<writeVars, readVars, op, src, spec, envVars>>

\* add_async or update_async of the tool, perhaps followed by a restore
SaveTool(w) ==
  LET t == cur[w]
      d == spec[w][t]
  IN /\ at[w] = "save"
     /\ ToolFresh(w)
     /\ Store(t, NextEvent(held[w], d), d)
     /\ held' = [held EXCEPT ![w] = tool'[t]]
     /\ Goto(w, IF NextEvent(tool'[t], d) = "none" THEN "sync" ELSE "save")
     /\ UNCHANGED <<op, cur, src, spec, todo, envVars>>

\* variant: a stored inventory does not reset the failure count
IngestKeepingFailures(w) ==
  /\ at[w] = "sync"
  /\ todo[w] = {}
  /\ src[w].hash # spec[w]
  /\ SourceFresh(w)
  /\ StoreSource([source EXCEPT !.hash = spec[w], !.health = "healthy"])
  /\ fails' = 0
  /\ End(w)
  /\ UNCHANGED envVars

\* update_inventory ignores an inventory with the stored hash (forced refresh)
Ingest(w) ==
  /\ at[w] = "sync"
  /\ todo[w] = {}
  /\ src[w].hash # spec[w]
  /\ SourceFresh(w)
  /\ StoreSource([source EXCEPT !.hash = spec[w], !.failures = 0,
                                !.health = "healthy"])
  /\ fails' = 0
  /\ End(w)
  /\ UNCHANGED envVars

IngestUnchanged(w) ==
  /\ at[w] = "sync"
  /\ todo[w] = {}
  /\ src[w].hash = spec[w]
  /\ End(w)
  /\ UNCHANGED <<writeVars, readVars, envVars>>

AppendRaises(fresh) == ~fresh \/ "store" \in Faults

\* a call to the stores raises, and so does the handler
SaveRaises(w) ==
  /\ \/ at[w] \in {"start", "failed", "dereg"} /\ AppendRaises(SourceFresh(w))
     \/ /\ at[w] = "sync" /\ todo[w] = {} /\ src[w].hash # spec[w]
        /\ AppendRaises(SourceFresh(w))
     \/ at[w] \in {"save", "admin"} /\ AppendRaises(ToolFresh(w))
     \/ at[w] = "delete" /\ op[w] = "tool" /\ AppendRaises(ToolFresh(w))
     \/ at[w] = "remove" /\ op[w] = "tool" /\ "store" \in Faults
     \/ at[w] \in {"drop", "dropread"} /\ "store" \in Faults
  /\ End(w)
  /\ UNCHANGED <<writeVars, readVars, envVars>>

-----------------------------------------------------------------------------
(* The admin's commands. *)

\* UpdateSourceCommand: only the version of the source matters here
UpdateSource(w) ==
  /\ "edit" \in Commands
  /\ at[w] = "idle"
  /\ jobs < MaxJobs
  /\ source.exists
  /\ StoreSource(source)
  /\ jobs' = jobs + 1
  /\ UNCHANGED <<fails, at, workVars, upstream, changes>>

\* EnableToolCommand, DisableToolCommand and UpdateToolCommand: load, decide
BeginAdmin(w, command, t) ==
  /\ command \in {"enable", "disable", "describe"}
  /\ Accepts(command, tool[t])
  /\ Begin(w, command, command, "admin")
  /\ cur' = [cur EXCEPT ![w] = t]
  /\ held' = [held EXCEPT ![w] = tool[t]]
  /\ UNCHANGED <<src, spec, todo>>

SaveAdmin(w) ==
  /\ at[w] = "admin"
  /\ ToolFresh(w)
  /\ Store(cur[w], EventOf(op[w]), tool[cur[w]].def)
  /\ End(w)
  /\ UNCHANGED envVars

-----------------------------------------------------------------------------
(* DeleteToolCommand, DeleteSourceCommand, CleanupOrphanedToolsCommand. *)

BeginDeleteTool(w, t) ==
  /\ Exists(tool[t])
  /\ Begin(w, "deleteTool", "tool", "delete")
  /\ cur' = [cur EXCEPT ![w] = t]
  /\ held' = [held EXCEPT ![w] = tool[t]]
  /\ UNCHANGED <<src, spec, todo>>

BeginDeleteSource(w) ==
  /\ source.exists
  /\ Begin(w, "deleteSource", "source", "query")
  /\ src' = [src EXCEPT ![w] = source]
  /\ UNCHANGED <<cur, held, spec, todo>>

\* the source is not among those of the read model: its tools are orphans
BeginCleanup(w) ==
  /\ ~readSource
  /\ Begin(w, "cleanup", "orphans", "query")
  /\ UNCHANGED <<cur, held, src, spec, todo>>

\* the tools to delete are looked up in the read model
QueryTools(w) ==
  /\ at[w] = "query"
  /\ todo' = [todo EXCEPT ![w] = {t \in Tools : readTool[t].present}]
  /\ Goto(w, "next")
  /\ UNCHANGED <<writeVars, readVars, op, cur, held, src, spec, envVars>>

\* load the next tool; one missing in the write model only loses its DTO
NextVictim(w, t) ==
  /\ at[w] = "next"
  /\ t \in todo[w]
  /\ todo' = [todo EXCEPT ![w] = @ \ {t}]
  /\ cur' = [cur EXCEPT ![w] = t]
  /\ held' = [held EXCEPT ![w] = tool[t]]
  /\ Goto(w, IF Exists(tool[t]) THEN "delete" ELSE "purge")
  /\ UNCHANGED <<writeVars, readVars, op, src, spec, envVars>>

SaveDeleted(w) ==
  /\ at[w] = "delete"
  /\ ToolFresh(w)
  /\ Store(cur[w], "Deleted", None)
  /\ Goto(w, "remove")
  /\ UNCHANGED <<workVars, envVars>>

\* remove_async: the stream goes, whatever was appended meanwhile
RemoveStream(w) ==
  /\ at[w] = "remove"
  /\ tool' = [tool EXCEPT ![cur[w]] =
                [NoTool EXCEPT !.ver = tool[cur[w]].ver + 1,
                               !.base = tool[cur[w]].ver + 1]]
  /\ IF op[w] = "tool" THEN End(w)
     ELSE Goto(w, "purge") /\ UNCHANGED workVars
  /\ UNCHANGED <<source, fails, readVars, envVars>>

PurgeDto(w) ==
  /\ at[w] = "purge"
  /\ readTool' = [readTool EXCEPT ![cur[w]] = NoDto]
  /\ Goto(w, "next")
  /\ UNCHANGED <<writeVars, log, readSource, workVars, envVars>>

\* a tool that cannot be deleted is logged and left
SkipVictim(w) ==
  /\ op[w] \in {"source", "orphans"}
  /\ \/ at[w] = "delete" /\ (~ToolFresh(w) \/ "store" \in Faults)
     \/ at[w] \in {"remove", "purge"} /\ "store" \in Faults
  /\ Goto(w, "next")
  /\ UNCHANGED <<writeVars, readVars, workVars, envVars>>

EndCascade(w) ==
  /\ at[w] = "next"
  /\ todo[w] = {}
  /\ IF op[w] = "orphans" THEN End(w)
     ELSE Goto(w, "dereg") /\ UNCHANGED workVars
  /\ UNCHANGED <<writeVars, readVars, envVars>>

Deregister(w) ==
  /\ at[w] = "dereg"
  /\ SourceFresh(w)
  /\ StoreSource([source EXCEPT !.enabled = FALSE])
  /\ Goto(w, "drop")
  /\ UNCHANGED <<fails, workVars, envVars>>

DropSource(w) ==
  /\ at[w] = "drop"
  /\ StoreSource([source EXCEPT !.exists = FALSE])
  /\ Goto(w, "dropread")
  /\ UNCHANGED <<fails, workVars, envVars>>

PurgeSource(w) ==
  /\ at[w] = "dropread"
  /\ readSource' = FALSE
  /\ End(w)
  /\ UNCHANGED <<writeVars, log, readTool, envVars>>

-----------------------------------------------------------------------------
(* The projector, and the upstream. *)

\* an event is projected; one whose stream was removed may also be lost
Project ==
  /\ log # << >>
  /\ log' = Tail(log)
  /\ LET e == Head(log)
     IN \/ readTool' = [readTool EXCEPT ![e.tool] = Projected(@, e)]
        \/ e.ver <= tool[e.tool].base /\ UNCHANGED readTool
  /\ UNCHANGED <<writeVars, readSource, at, workVars, envVars>>

UpstreamChanges(t, d) ==
  /\ changes < MaxChanges
  /\ d # upstream[t]
  /\ upstream' = [upstream EXCEPT ![t] = d]
  /\ changes' = changes + 1
  /\ UNCHANGED <<writeVars, readVars, at, workVars, jobs>>

RefreshStep(w) ==
  \/ MarkSyncStarted(w) \/ FetchFails(w) \/ MarkSyncFailed(w)
  \/ FetchUnchanged(w) \/ FetchInventory(w) \/ SaveTool(w)
  \/ Ingest(w) \/ IngestUnchanged(w)
  \/ \E t \in Tools : SyncTool(w, t)

DeleteStep(w) ==
  \/ QueryTools(w) \/ SaveDeleted(w) \/ RemoveStream(w) \/ PurgeDto(w)
  \/ SkipVictim(w) \/ EndCascade(w)
  \/ Deregister(w) \/ DropSource(w) \/ PurgeSource(w)
  \/ \E t \in Tools : NextVictim(w, t)

\* one step of a request being handled
Work(w) == RefreshStep(w) \/ SaveAdmin(w) \/ DeleteStep(w) \/ SaveRaises(w)

Request(w) ==
  \/ BeginRefresh(w) \/ UpdateSource(w) \/ BeginDeleteSource(w)
  \/ BeginCleanup(w)
  \/ \E t \in Tools :
       \/ BeginDeleteTool(w, t)
       \/ \E command \in Commands : BeginAdmin(w, command, t)

Next ==
  \/ \E w \in Workers : Request(w) \/ Work(w)
  \/ Project
  \/ \E t \in Tools, d \in Defs \cup {None} : UpstreamChanges(t, d)

\* awaited calls return, and the projector keeps reading the category
Fairness == WF_vars(Project) /\ \A w \in Workers : WF_vars(Work(w))

Spec == Init /\ [][Next]_vars /\ Fairness

-----------------------------------------------------------------------------
(* Properties. *)

\* Every variable has its type.
TypeOK ==
  /\ upstream \in Inventories
  /\ tool \in [Tools -> ToolState]
  /\ source \in SourceState
  /\ log \in Seq(Event)
  /\ readTool \in [Tools -> Dto]
  /\ readSource \in BOOLEAN
  /\ at \in [Workers -> Points]
  /\ op \in [Workers -> Ops]
  /\ cur \in [Workers -> Tools \cup {None}]
  /\ held \in [Workers -> ToolState]
  /\ src \in [Workers -> SourceState]
  /\ spec \in [Workers -> Inventories \cup {NoHash}]
  /\ todo \in [Workers -> SUBSET Tools]
  /\ jobs \in Nat
  /\ changes \in Nat
  /\ fails \in Nat

RefreshPoints == {"start", "fetch", "failed", "sync", "save"}

\* the command a worker handles, by the await at which it is
Handling(w) ==
  /\ at[w] \in RefreshPoints => op[w] = "refresh" /\ w \in Refreshers
  /\ at[w] = "admin" => op[w] \in {"enable", "disable", "describe"}
  /\ at[w] \in {"delete", "remove"} => op[w] \in {"tool", "source", "orphans"}
  /\ at[w] \in {"query", "next", "purge"} => op[w] \in {"source", "orphans"}
  /\ at[w] \in {"dereg", "drop", "dropread"} => op[w] = "source"

(* The copy a worker decides on is no newer than the aggregate, and equals *)
(* it while the versions agree.                                            *)
ToolCopy(w) ==
  at[w] \in {"save", "admin", "delete", "remove", "purge"} =>
    /\ cur[w] \in Tools
    /\ held[w].ver <= tool[cur[w]].ver
    /\ ToolFresh(w) => held[w] = tool[cur[w]]

SourceCopy(w) ==
  op[w] \in {"refresh", "source"} =>
    /\ src[w].ver <= source.ver
    /\ SourceFresh(w) => src[w] = source

\* what a worker is about to save follows from the copy it holds
Decided(w) ==
  /\ at[w] \in {"sync", "save"} =>
       /\ spec[w] \in Inventories
       /\ \A t \in todo[w] : spec[w][t] \in Defs
  /\ at[w] = "save" => /\ spec[w][cur[w]] \in Defs
                       /\ NextEvent(held[w], spec[w][cur[w]]) # "none"
  /\ at[w] = "admin" => Accepts(op[w], held[w])
  /\ at[w] = "delete" => Exists(held[w])

InOrder(w) == Handling(w) /\ ToolCopy(w) /\ SourceCopy(w) /\ Decided(w)

(* SourceTool documents that deprecated tools are automatically disabled:  *)
(* no interleaving of an enable or a refresh with a deletion, which is     *)
(* what deprecates a tool, leaves a deprecated tool enabled.               *)
DeprecatedNeverEnabled ==
  \A t \in Tools :
    /\ tool[t].status = "deprecated" => ~tool[t].enabled
    /\ tool[t].status = "absent" => ~tool[t].enabled /\ tool[t].def = None

(* mark_sync_failed counts from the copy of the source loaded before the   *)
(* fetch: however refreshes overlap, the count is the number of failures   *)
(* stored since the last stored inventory, and the health follows it.      *)
FailureCountExact ==
  /\ source.failures = fails
  /\ source.health \in
       CASE fails = 0 -> {"unknown", "healthy"}
         [] fails \in 1 .. 2 -> {"degraded"}
         [] OTHER -> {"unhealthy"}

\* The inductive invariant.
IInv ==
  /\ TypeOK
  /\ \A w \in Workers : InOrder(w)
  /\ DeprecatedNeverEnabled
  /\ FailureCountExact

(* A refresh never undoes an admin's disable: an active tool that is       *)
(* disabled is enabled by an enable command and by nothing else.           *)
AdminDisableHolds ==
  [][\A t \in Tools :
       tool[t].status = "active" /\ ~tool[t].enabled /\ tool'[t].enabled =>
         \E w \in Workers : op[w] = "enable" /\ cur[w] = t /\ SaveAdmin(w)]_vars

\* the tool and the source without their versions
AtomicTool(s) == [status |-> s.status, enabled |-> s.enabled, def |-> s.def]

Atomic ==
  INSTANCE AtomicInventory WITH
    tool <- [t \in Tools |-> AtomicTool(tool[t])],
    source <- [hash |-> source.hash, failures |-> source.failures,
               health |-> source.health]

(* Commands whose loads, decisions and appends interleave have the effect  *)
(* of commands that run one at a time.                                     *)
RefinesAtomicInventory == Atomic!Spec

\* Tool t has been gone through by the refresh that w handles.
Passed(w, t) ==
  /\ at[w] \in {"sync", "save"}
  /\ t \notin todo[w]
  /\ at[w] = "save" => cur[w] # t
  /\ spec[w][t] # None

\* If it is active, it has the definition that was fetched.
InStep(w, t) ==
  Passed(w, t) /\ tool[t].status = "active" => tool[t].def = spec[w][t]

(* However many refreshes overlap, with deletions and with admins, an      *)
(* active tool that _sync_tools has gone through gets another definition   *)
(* than the one it was given only when a refresh that overlaps saves it.   *)
OutdatedByRefresh ==
  [][\A w \in Workers, t \in Tools :
       InStep(w, t) /\ ~InStep(w, t)' =>
         \E v \in Workers \ {w} : SaveTool(v) /\ cur[v] = t]_vars

OneRefresher == \A v, w \in Refreshers : v = w

(* So with one refresh at a time the tools it has gone through are in step *)
(* with what it fetched, whatever admins do to them meanwhile.             *)
SyncedSoFar == OneRefresher => \A w \in Workers, t \in Tools : InStep(w, t)

(* Then the inventory whose hash update_inventory stores has reached the   *)
(* tools: every active tool in it has the definition that was fetched, and *)
(* it is safe to skip the next refresh when the hash is the same.  Nothing *)
(* in the code keeps refreshes from overlapping; when they do,             *)
(* OutdatedByRefresh is all that is left.                                  *)
IngestReachedTools ==
  [][\A w \in Workers : OneRefresher /\ Ingest(w) =>
       \A t \in Tools : tool[t].status = "active" /\ spec[w][t] # None =>
                          tool[t].def = spec[w][t]]_vars

\* the read model shows the tool as it is, unless it has ever been deleted
InSync(t) ==
  tool[t].base = 0 /\ tool[t].status # "deprecated" =>
    /\ readTool[t].present <=> Exists(tool[t])
    /\ Exists(tool[t]) => /\ readTool[t].enabled = tool[t].enabled
                          /\ readTool[t].def = tool[t].def

(* Once its events are projected, a tool that was never deleted is in the  *)
(* read model as it is in the write model, whatever deletions of other     *)
(* requests were refused or undone on the way.                             *)
ReadModelInSync == log = << >> => \A t \in Tools : InSync(t)

\* The read model catches up with the last command.
ReadModelCatchesUp == <>[](\A t \in Tools : InSync(t))

\* what a request has loaded and fetched, and where it is
Job(w) == <<at[w], op[w], cur[w], held[w], src[w], spec[w], todo[w]>>

\* events that _sync_tools may still have to save for its current tool
SavesLeft(w) ==
  IF held[w].status = "deprecated" /\ held[w].def # spec[w][cur[w]] THEN 2 ELSE 1

\* how many steps a request has left at most
StepsLeft(w) ==
  LET all == Cardinality(Tools)
      left == Cardinality(todo[w])
  IN CASE at[w] = "start" -> 3 * all + 3
       [] at[w] = "fetch" -> 3 * all + 2
       [] at[w] = "sync"  -> 3 * left + 1
       [] at[w] = "save"  -> 3 * left + 1 + SavesLeft(w)
       [] at[w] \in {"failed", "admin", "dropread"} -> 1
       [] at[w] = "query" -> 4 * all + 5
       [] at[w] = "next"  -> 4 * left + 4
       [] at[w] = "delete" -> IF op[w] = "tool" THEN 2 ELSE 4 * left + 7
       [] at[w] = "remove" -> IF op[w] = "tool" THEN 1 ELSE 4 * left + 6
       [] at[w] = "purge" -> 4 * left + 5
       [] at[w] = "dereg" -> 3
       [] at[w] = "drop"  -> 2
       [] at[w] = "idle"  -> 0

(* Every request ends after a number of steps that the tools bound: no     *)
(* step of its own is repeated, whatever is refused, skipped or appended   *)
(* meanwhile, and no step of another prolongs it.  In particular           *)
(* _sync_tools saves at most two events for a tool.                        *)
RequestsAdvance ==
  [][\A w \in Workers : at[w] # "idle" =>
       \/ Work(w) /\ StepsLeft(w)' < StepsLeft(w)
       \/ ~Work(w) /\ UNCHANGED Job(w)]_vars

=============================================================================
