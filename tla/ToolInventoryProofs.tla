------------------------- MODULE ToolInventoryProofs -------------------------
(* Safety of ToolInventory for every value of its constants. *)
EXTENDS ToolInventory, SequenceTheorems, FiniteSetTheorems, TLAPS

USE InventoryAssumption, CommandAssumption

-----------------------------------------------------------------------------
(* Operators. *)

\* The initial values of tools and sources are values of their types.
LEMMA InitialValues ==
  /\ NoTool \in ToolState
  /\ NewSource \in SourceState
  /\ NoDto \in Dto
<1>1. NoTool \in ToolState
  BY DEF NoTool, ToolState, Status
<1>2. NewSource \in SourceState
  BY DEF NewSource, SourceState, Health
<1>3. NoDto \in Dto
  BY DEF NoDto, Dto
<1> QED
  BY <1>1, <1>2, <1>3

(* An event turns a tool into a tool, one version later, and only that of  *)
(* a discovery or of a restore drops the admin's description.              *)
LEMMA AppendedTyped ==
  ASSUME NEW s \in ToolState, NEW kind \in Kinds, NEW d \in Defs \cup {None}
  PROVE  /\ Appended(s, kind, d) \in ToolState
         /\ Appended(s, kind, d).ver = s.ver + 1
<1>1. Apply(s, kind, d) \in ToolState
  <2>1. CASE kind \in {"Discovered", "Restored"}
    BY <2>1 DEF Apply, ToolState, Status
  <2>2. CASE kind = "Enabled"
    BY <2>2 DEF Apply, ToolState
  <2>3. CASE kind = "Disabled"
    BY <2>3 DEF Apply, ToolState
  <2>4. CASE kind = "Updated"
    BY <2>4 DEF Apply, ToolState
  <2>5. CASE kind = "DefinitionUpdated"
    BY <2>5 DEF Apply, ToolState
  <2>6. CASE kind = "Deleted"
    BY <2>6 DEF Apply, ToolState, Status
  <2> QED
    BY <2>1, <2>2, <2>3, <2>4, <2>5, <2>6 DEF Kinds
<1>2. s.ver + 1 \in Nat
  BY DEF ToolState
<1> QED
  BY <1>1, <1>2 DEF Appended, ToolState

Is(s, status, enabled, def) ==
  s.status = status /\ s.enabled = enabled /\ s.def = def

\* What an event does to the status, the enabled flag and the definition.
LEMMA AppendedIs ==
  ASSUME NEW s \in ToolState, NEW d \in Defs \cup {None}
  PROVE  /\ Is(Appended(s, "Discovered", d), "active", TRUE, d)
         /\ Is(Appended(s, "Restored", d), "active", TRUE, d)
         /\ Is(Appended(s, "Enabled", d), s.status, TRUE, s.def)
         /\ Is(Appended(s, "Disabled", d), s.status, FALSE, s.def)
         /\ Is(Appended(s, "Updated", d), s.status, s.enabled, s.def)
         /\ Is(Appended(s, "DefinitionUpdated", d), s.status, s.enabled, d)
         /\ Is(Appended(s, "Deleted", d), "deprecated", FALSE, s.def)
<1>1. Is(Appended(s, "Discovered", d), "active", TRUE, d)
  BY DEF Is, Appended, Apply, ToolState
<1>2. Is(Appended(s, "Restored", d), "active", TRUE, d)
  BY DEF Is, Appended, Apply, ToolState
<1>3. Is(Appended(s, "Enabled", d), s.status, TRUE, s.def)
  BY DEF Is, Appended, Apply, ToolState
<1>4. Is(Appended(s, "Disabled", d), s.status, FALSE, s.def)
  BY DEF Is, Appended, Apply, ToolState
<1>5. Is(Appended(s, "Updated", d), s.status, s.enabled, s.def)
  BY DEF Is, Appended, Apply, ToolState
<1>6. Is(Appended(s, "DefinitionUpdated", d), s.status, s.enabled, d)
  BY DEF Is, Appended, Apply, ToolState
<1>7. Is(Appended(s, "Deleted", d), "deprecated", FALSE, s.def)
  BY DEF Is, Appended, Apply, ToolState
<1> QED
  BY <1>1, <1>2, <1>3, <1>4, <1>5, <1>6, <1>7

\* A projected event turns a DTO into a DTO.
LEMMA ProjectedTyped ==
  ASSUME NEW dto \in Dto, NEW e \in Event
  PROVE  Projected(dto, e) \in Dto
<1>1. e.def \in Defs \cup {None}
  BY DEF Event
<1>2. NewDto(e.def) \in Dto /\ Redefined(dto, e.def) \in Dto
  BY <1>1 DEF NewDto, Redefined, Dto
<1> QED
  BY <1>2 DEF Projected, Dto

\* What _sync_tools decides, and which of its decisions change a tool.
LEMMA NextEventIs ==
  ASSUME NEW s \in ToolState, NEW d \in Defs
  PROVE  /\ NextEvent(s, d) \in
              {"Discovered", "DefinitionUpdated", "Restored", "none"}
         /\ NextEvent(s, d) = "Discovered" <=> s.status = "absent"
         /\ NextEvent(s, d) = "DefinitionUpdated" =>
              s.status # "absent" /\ s.def # d
         /\ NextEvent(s, d) = "Restored" =>
              s.status = "deprecated" /\ s.def = d
         /\ NextEvent(s, d) = "none" => s.status = "active" /\ s.def = d
BY DEF NextEvent, Exists, ToolState, Status

-----------------------------------------------------------------------------
(* Types. *)

WriteTyped ==
  /\ tool \in [Tools -> ToolState]
  /\ source \in SourceState
  /\ fails \in Nat

ReadTyped ==
  /\ log \in Seq(Event)
  /\ readTool \in [Tools -> Dto]
  /\ readSource \in BOOLEAN

WorkTyped ==
  /\ op \in [Workers -> Ops]
  /\ cur \in [Workers -> Tools \cup {None}]
  /\ held \in [Workers -> ToolState]
  /\ src \in [Workers -> SourceState]
  /\ spec \in [Workers -> Inventories \cup {NoHash}]
  /\ todo \in [Workers -> SUBSET Tools]

AtTyped == at \in [Workers -> Points]

EnvTyped ==
  /\ upstream \in Inventories
  /\ jobs \in Nat
  /\ changes \in Nat

\* The type invariant by parts, which most actions leave alone.
LEMMA TypeParts ==
  TypeOK <=> WriteTyped /\ ReadTyped /\ WorkTyped /\ AtTyped /\ EnvTyped
BY DEF TypeOK, WriteTyped, ReadTyped, WorkTyped, AtTyped, EnvTyped

LEMMA TypePartsNext ==
  TypeOK' <=> WriteTyped' /\ ReadTyped' /\ WorkTyped' /\ AtTyped' /\ EnvTyped'
BY DEF TypeOK, WriteTyped, ReadTyped, WorkTyped, AtTyped, EnvTyped

LEMMA PartsUnchanged ==
  /\ WriteTyped /\ UNCHANGED writeVars => WriteTyped'
  /\ ReadTyped /\ UNCHANGED readVars => ReadTyped'
  /\ WorkTyped /\ UNCHANGED workVars => WorkTyped'
  /\ AtTyped /\ UNCHANGED at => AtTyped'
  /\ EnvTyped /\ UNCHANGED envVars => EnvTyped'
BY DEF WriteTyped, ReadTyped, WorkTyped, AtTyped, EnvTyped,
       writeVars, readVars, workVars, envVars

\* Moving a worker to another await keeps it typed.
LEMMA GotoTyped ==
  ASSUME AtTyped, NEW w \in Workers, NEW point \in Points, Goto(w, point)
  PROVE  AtTyped'
BY DEF AtTyped, Goto

\* Ending a request leaves the worker idle with nothing in hand.
LEMMA EndTyped ==
  ASSUME AtTyped, WorkTyped, NEW w \in Workers, End(w)
  PROVE  AtTyped' /\ WorkTyped'
<1>1. AtTyped'
  BY GotoTyped DEF End, Points
<1>2. WorkTyped'
  BY InitialValues DEF End, WorkTyped, Ops
<1> QED
  BY <1>1, <1>2

\* Appending an event to a tool's stream.
LEMMA StoreTyped ==
  ASSUME WriteTyped, ReadTyped, NEW t \in Tools, NEW kind \in Kinds,
         NEW d \in Defs \cup {None}, Store(t, kind, d)
  PROVE  WriteTyped' /\ ReadTyped'
<1>1. Appended(tool[t], kind, d) \in ToolState /\ tool[t].ver \in Nat
  BY AppendedTyped DEF WriteTyped, ToolState
<1>2. WriteTyped'
  BY <1>1 DEF Store, WriteTyped
<1>3. [kind |-> kind, tool |-> t, def |-> d, ver |-> tool[t].ver + 1] \in Event
  BY <1>1 DEF Event
<1>4. log' \in Seq(Event)
  BY <1>3, AppendProperties DEF Store, ReadTyped
<1>5. ReadTyped'
  BY <1>4 DEF Store, ReadTyped
<1> QED
  BY <1>2, <1>5

\* Appending an event to the source's stream.
LEMMA StoreSourceTyped ==
  ASSUME WriteTyped, ReadTyped, NEW s \in SourceState, StoreSource(s),
         fails' \in Nat
  PROVE  WriteTyped' /\ ReadTyped'
<1>1. source' \in SourceState
  BY DEF StoreSource, SourceState
<1> QED
  BY <1>1 DEF StoreSource, WriteTyped, ReadTyped, readVars

\* Beginning a request.
LEMMA BeginTyped ==
  ASSUME TypeOK, NEW w \in Workers, NEW command, NEW as \in Ops,
         NEW point \in Points, Begin(w, command, as, point)
  PROVE  /\ WriteTyped' /\ ReadTyped' /\ AtTyped' /\ EnvTyped'
         /\ op' \in [Workers -> Ops]
<1>1. WriteTyped' /\ ReadTyped'
  BY TypeParts, PartsUnchanged DEF Begin
<1>2. AtTyped'
  BY TypeParts, GotoTyped DEF Begin
<1>3. EnvTyped'
  BY TypeParts DEF Begin, EnvTyped
<1>4. op' \in [Workers -> Ops]
  BY DEF Begin, TypeOK
<1> QED
  BY <1>1, <1>2, <1>3, <1>4

-----------------------------------------------------------------------------
(* Types are kept by every action. *)

\* The actions of a refresh.
LEMMA RefreshTyped ==
  ASSUME TypeOK, NEW w \in Workers, InOrder(w), RefreshStep(w)
  PROVE  TypeOK'
<1> USE TypeParts, TypePartsNext, PartsUnchanged
<1>1. CASE MarkSyncStarted(w)
  <2>1. WriteTyped' /\ ReadTyped'
    BY <1>1, StoreSourceTyped DEF MarkSyncStarted, WriteTyped
  <2>2. AtTyped'
    BY <1>1, GotoTyped DEF MarkSyncStarted, Points
  <2>3. WorkTyped'
    BY <1>1, <2>1 DEF MarkSyncStarted, WorkTyped, WriteTyped
  <2> QED
    BY <1>1, <2>1, <2>2, <2>3 DEF MarkSyncStarted
<1>2. CASE FetchFails(w)
  BY <1>2, GotoTyped DEF FetchFails, Points
<1>3. CASE MarkSyncFailed(w)
  <2> DEFINE failed == [source EXCEPT
                          !.failures = NextAttempt(src[w].failures),
                          !.health = HealthAfter(NextAttempt(src[w].failures))]
  <2>1. NextAttempt(src[w].failures) \in Nat
    BY DEF WorkTyped, SourceState, NextAttempt
  <2>2. HealthAfter(NextAttempt(src[w].failures)) \in Health
    BY DEF HealthAfter, Health
  <2>3. failed \in SourceState
    BY <2>1, <2>2 DEF WriteTyped, SourceState
  <2>4. fails' \in Nat
    BY <1>3 DEF MarkSyncFailed, WriteTyped
  <2>5. WriteTyped' /\ ReadTyped'
    BY <1>3, <2>3, <2>4, StoreSourceTyped DEF MarkSyncFailed
  <2> QED
    BY <1>3, <2>5, EndTyped DEF MarkSyncFailed
<1>4. CASE FetchUnchanged(w)
  BY <1>4, EndTyped DEF FetchUnchanged
<1>5. CASE FetchInventory(w)
  <2>1. AtTyped'
    BY <1>5, GotoTyped DEF FetchInventory, Points
  <2>2. WorkTyped'
    BY <1>5 DEF FetchInventory, WorkTyped, EnvTyped, Offered
  <2> QED
    BY <1>5, <2>1, <2>2 DEF FetchInventory
<1>6. CASE SaveTool(w)
  <2>1. /\ cur[w] \in Tools
        /\ spec[w][cur[w]] \in Defs
        /\ NextEvent(held[w], spec[w][cur[w]]) # "none"
    BY <1>6 DEF SaveTool, InOrder, ToolCopy, Decided
  <2>2. NextEvent(held[w], spec[w][cur[w]]) \in Kinds
    BY <2>1, NextEventIs DEF WorkTyped, Kinds
  <2>3. WriteTyped' /\ ReadTyped'
    BY <1>6, <2>1, <2>2, StoreTyped DEF SaveTool
  <2>4. AtTyped'
    BY <1>6, GotoTyped DEF SaveTool, Points
  <2>5. WorkTyped'
    BY <1>6, <2>1, <2>3 DEF SaveTool, WorkTyped, WriteTyped
  <2> QED
    BY <1>6, <2>3, <2>4, <2>5 DEF SaveTool
<1>7. CASE Ingest(w)
  <2> DEFINE synced == [source EXCEPT !.hash = spec[w], !.failures = 0,
                                      !.health = "healthy"]
  <2>1. synced \in SourceState
    BY DEF WriteTyped, WorkTyped, SourceState, Health
  <2>2. fails' \in Nat
    BY <1>7 DEF Ingest
  <2>3. WriteTyped' /\ ReadTyped'
    BY <1>7, <2>1, <2>2, StoreSourceTyped DEF Ingest
  <2> QED
    BY <1>7, <2>3, EndTyped DEF Ingest
<1>8. CASE IngestUnchanged(w)
  BY <1>8, EndTyped DEF IngestUnchanged
<1>9. ASSUME NEW t \in Tools, SyncTool(w, t)
      PROVE  TypeOK'
  <2>1. AtTyped'
    BY <1>9, GotoTyped DEF SyncTool, Points
  <2>2. WorkTyped'
    BY <1>9 DEF SyncTool, WorkTyped, WriteTyped
  <2> QED
    BY <1>9, <2>1, <2>2 DEF SyncTool
<1> QED
  BY <1>1, <1>2, <1>3, <1>4, <1>5, <1>6, <1>7, <1>8, <1>9 DEF RefreshStep

\* The actions of a deletion.
LEMMA DeleteTyped ==
  ASSUME TypeOK, NEW w \in Workers, InOrder(w), DeleteStep(w)
  PROVE  TypeOK'
<1> USE TypeParts, TypePartsNext, PartsUnchanged
<1>1. CASE QueryTools(w)
  <2>1. AtTyped'
    BY <1>1, GotoTyped DEF QueryTools, Points
  <2>2. WorkTyped'
    BY <1>1 DEF QueryTools, WorkTyped
  <2> QED
    BY <1>1, <2>1, <2>2 DEF QueryTools
<1>2. CASE SaveDeleted(w)
  <2>1. cur[w] \in Tools
    BY <1>2 DEF SaveDeleted, InOrder, ToolCopy
  <2>2. WriteTyped' /\ ReadTyped'
    BY <1>2, <2>1, StoreTyped DEF SaveDeleted, Kinds
  <2> QED
    BY <1>2, <2>2, GotoTyped DEF SaveDeleted, Points
<1>3. CASE RemoveStream(w)
  <2>1. cur[w] \in Tools
    BY <1>3 DEF RemoveStream, InOrder, ToolCopy
  <2> DEFINE next == tool[cur[w]].ver + 1
  <2>2. next \in Nat
    BY <2>1 DEF WriteTyped, ToolState
  <2> HIDE DEF next
  <2>3. [NoTool EXCEPT !.ver = next, !.base = next] \in ToolState
    BY <2>2 DEF NoTool, ToolState, Status
  <2>4. WriteTyped'
    BY <1>3, <2>1, <2>3 DEF RemoveStream, WriteTyped, next
  <2>5. AtTyped' /\ WorkTyped'
    BY <1>3, EndTyped, GotoTyped DEF RemoveStream, Points
  <2> QED
    BY <1>3, <2>4, <2>5 DEF RemoveStream
<1>4. CASE PurgeDto(w)
  <2>1. ReadTyped'
    BY <1>4, InitialValues DEF PurgeDto, ReadTyped
  <2> QED
    BY <1>4, <2>1, GotoTyped DEF PurgeDto, Points
<1>5. CASE SkipVictim(w)
  BY <1>5, GotoTyped DEF SkipVictim, Points
<1>6. CASE EndCascade(w)
  <2>1. AtTyped' /\ WorkTyped'
    BY <1>6, EndTyped, GotoTyped DEF EndCascade, Points
  <2> QED
    BY <1>6, <2>1 DEF EndCascade
<1>7. CASE Deregister(w)
  <2>1. [source EXCEPT !.enabled = FALSE] \in SourceState
    BY DEF WriteTyped, SourceState
  <2>2. WriteTyped' /\ ReadTyped'
    BY <1>7, <2>1, StoreSourceTyped DEF Deregister, WriteTyped
  <2> QED
    BY <1>7, <2>2, GotoTyped DEF Deregister, Points
<1>8. CASE DropSource(w)
  <2>1. [source EXCEPT !.exists = FALSE] \in SourceState
    BY DEF WriteTyped, SourceState
  <2>2. WriteTyped' /\ ReadTyped'
    BY <1>8, <2>1, StoreSourceTyped DEF DropSource, WriteTyped
  <2> QED
    BY <1>8, <2>2, GotoTyped DEF DropSource, Points
<1>9. CASE PurgeSource(w)
  <2>1. ReadTyped'
    BY <1>9 DEF PurgeSource, ReadTyped
  <2> QED
    BY <1>9, <2>1, EndTyped DEF PurgeSource
<1>10. ASSUME NEW t \in Tools, NextVictim(w, t)
       PROVE  TypeOK'
  <2>1. AtTyped'
    BY <1>10, GotoTyped DEF NextVictim, Points
  <2>2. WorkTyped'
    BY <1>10 DEF NextVictim, WorkTyped, WriteTyped
  <2> QED
    BY <1>10, <2>1, <2>2 DEF NextVictim
<1> QED
  BY <1>1, <1>2, <1>3, <1>4, <1>5, <1>6, <1>7, <1>8, <1>9, <1>10
  DEF DeleteStep

\* The beginning of a request.
LEMMA RequestTyped ==
  ASSUME TypeOK, NEW w \in Workers, Request(w)
  PROVE  TypeOK'
<1> USE TypeParts, TypePartsNext, PartsUnchanged
<1>1. CASE BeginRefresh(w)
  <2>1. WriteTyped' /\ ReadTyped' /\ AtTyped' /\ EnvTyped'
        /\ op' \in [Workers -> Ops]
    BY <1>1, BeginTyped DEF BeginRefresh, Points, Ops
  <2> QED
    BY <1>1, <2>1 DEF BeginRefresh, WorkTyped, WriteTyped
<1>2. CASE UpdateSource(w)
  <2>1. WriteTyped' /\ ReadTyped'
    BY <1>2, StoreSourceTyped DEF UpdateSource, WriteTyped
  <2>2. EnvTyped'
    BY <1>2 DEF UpdateSource, EnvTyped
  <2> QED
    BY <1>2, <2>1, <2>2 DEF UpdateSource
<1>3. CASE BeginDeleteSource(w)
  <2>1. WriteTyped' /\ ReadTyped' /\ AtTyped' /\ EnvTyped'
        /\ op' \in [Workers -> Ops]
    BY <1>3, BeginTyped DEF BeginDeleteSource, Points, Ops
  <2> QED
    BY <1>3, <2>1 DEF BeginDeleteSource, WorkTyped, WriteTyped
<1>4. CASE BeginCleanup(w)
  <2>1. WriteTyped' /\ ReadTyped' /\ AtTyped' /\ EnvTyped'
        /\ op' \in [Workers -> Ops]
    BY <1>4, BeginTyped DEF BeginCleanup, Points, Ops
  <2> QED
    BY <1>4, <2>1 DEF BeginCleanup, WorkTyped
<1>5. ASSUME NEW t \in Tools, BeginDeleteTool(w, t)
      PROVE  TypeOK'
  <2>1. WriteTyped' /\ ReadTyped' /\ AtTyped' /\ EnvTyped'
        /\ op' \in [Workers -> Ops]
    BY <1>5, BeginTyped DEF BeginDeleteTool, Points, Ops
  <2> QED
    BY <1>5, <2>1 DEF BeginDeleteTool, WorkTyped, WriteTyped
<1>6. ASSUME NEW t \in Tools, NEW command \in Commands, BeginAdmin(w, command, t)
      PROVE  TypeOK'
  <2>1. command \in Ops
    BY <1>6 DEF BeginAdmin, Ops
  <2>2. WriteTyped' /\ ReadTyped' /\ AtTyped' /\ EnvTyped'
        /\ op' \in [Workers -> Ops]
    BY <1>6, <2>1, BeginTyped DEF BeginAdmin, Points
  <2> QED
    BY <1>6, <2>2 DEF BeginAdmin, WorkTyped, WriteTyped
<1> QED
  BY <1>1, <1>2, <1>3, <1>4, <1>5, <1>6 DEF Request

\* An admin's save, and an exception.
LEMMA AdminTyped ==
  ASSUME TypeOK, NEW w \in Workers, InOrder(w), SaveAdmin(w) \/ SaveRaises(w)
  PROVE  TypeOK'
<1> USE TypeParts, TypePartsNext, PartsUnchanged
<1>1. CASE SaveAdmin(w)
  <2>1. cur[w] \in Tools /\ EventOf(op[w]) \in Kinds
    BY <1>1 DEF SaveAdmin, InOrder, ToolCopy, Handling, EventOf, Kinds
  <2>2. tool[cur[w]].def \in Defs \cup {None}
    BY <2>1 DEF WriteTyped, ToolState
  <2>3. WriteTyped' /\ ReadTyped'
    BY <1>1, <2>1, <2>2, StoreTyped DEF SaveAdmin
  <2> QED
    BY <1>1, <2>3, EndTyped DEF SaveAdmin
<1>2. CASE SaveRaises(w)
  BY <1>2, EndTyped DEF SaveRaises
<1> QED
  BY <1>1, <1>2

\* The projector, and the upstream.
LEMMA EnvironmentTyped ==
  ASSUME TypeOK,
         \/ Project
         \/ \E t \in Tools, d \in Defs \cup {None} : UpstreamChanges(t, d)
  PROVE  TypeOK'
<1> USE TypeParts, TypePartsNext, PartsUnchanged
<1>1. CASE Project
  <2> DEFINE e == Head(log)
  <2>1. e \in Event /\ Tail(log) \in Seq(Event)
    BY <1>1, HeadTailProperties DEF Project, ReadTyped
  <2>2. e.tool \in Tools
    BY <2>1 DEF Event
  <2>3. Projected(readTool[e.tool], e) \in Dto
    BY <2>1, <2>2, ProjectedTyped DEF ReadTyped
  <2>4. readTool' \in [Tools -> Dto]
    BY <1>1, <2>3 DEF Project, ReadTyped
  <2>5. ReadTyped'
    BY <1>1, <2>1, <2>4 DEF Project, ReadTyped
  <2> QED
    BY <1>1, <2>5 DEF Project
<1>2. ASSUME NEW t \in Tools, NEW d \in Defs \cup {None}, UpstreamChanges(t, d)
      PROVE  TypeOK'
  <2>1. EnvTyped'
    BY <1>2 DEF UpstreamChanges, EnvTyped, Inventories
  <2> QED
    BY <1>2, <2>1 DEF UpstreamChanges
<1> QED
  BY <1>1, <1>2

\* Initially everything has its type.
LEMMA InitTyped == Init => TypeOK
<1> SUFFICES ASSUME Init PROVE TypeOK
  OBVIOUS
<1>1. WriteTyped /\ ReadTyped
  BY InitialValues DEF Init, WriteTyped, ReadTyped
<1>2. WorkTyped /\ AtTyped /\ EnvTyped
  BY InitialValues DEF Init, WorkTyped, AtTyped, EnvTyped, Points, Ops
<1> QED
  BY <1>1, <1>2, TypeParts

\* Every step keeps the types.
LEMMA StepTyped == TypeOK /\ (\A w \in Workers : InOrder(w)) /\ Next => TypeOK'
<1> SUFFICES ASSUME TypeOK, \A w \in Workers : InOrder(w), Next
             PROVE  TypeOK'
  OBVIOUS
<1>1. ASSUME NEW w \in Workers, Request(w)
      PROVE  TypeOK'
  BY <1>1, RequestTyped
<1>2. ASSUME NEW w \in Workers, Work(w)
      PROVE  TypeOK'
  BY <1>2, RefreshTyped, DeleteTyped, AdminTyped DEF Work
<1> QED
  BY <1>1, <1>2, EnvironmentTyped DEF Next

-----------------------------------------------------------------------------
(* What a step changes. *)

ToolStep(w) == SaveTool(w) \/ SaveAdmin(w) \/ SaveDeleted(w) \/ RemoveStream(w)

SourceStep(w) ==
  \/ MarkSyncStarted(w) \/ MarkSyncFailed(w) \/ Ingest(w)
  \/ UpdateSource(w) \/ Deregister(w) \/ DropSource(w)

\* Which steps of a worker touch the streams.
LEMMA WorkerWrites ==
  ASSUME NEW w \in Workers, Request(w) \/ Work(w)
  PROVE  /\ UNCHANGED tool \/ ToolStep(w)
         /\ UNCHANGED <<source, fails>> \/ SourceStep(w)
<1>1. Request(w) => UNCHANGED writeVars \/ UpdateSource(w)
  BY DEF Request, BeginRefresh, BeginDeleteSource, BeginCleanup,
     BeginDeleteTool, BeginAdmin, Begin
<1>2. RefreshStep(w) =>
        \/ UNCHANGED writeVars
        \/ SaveTool(w)
        \/ MarkSyncStarted(w) \/ MarkSyncFailed(w) \/ Ingest(w)
  BY DEF RefreshStep, FetchFails, FetchUnchanged, FetchInventory,
     IngestUnchanged, SyncTool
<1>3. DeleteStep(w) =>
        \/ UNCHANGED writeVars
        \/ SaveDeleted(w) \/ RemoveStream(w)
        \/ Deregister(w) \/ DropSource(w)
  BY DEF DeleteStep, QueryTools, PurgeDto, SkipVictim, EndCascade,
     PurgeSource, NextVictim
<1>4. SaveRaises(w) => UNCHANGED writeVars
  BY DEF SaveRaises
<1>5. SaveTool(w) \/ SaveAdmin(w) \/ SaveDeleted(w) => UNCHANGED <<source, fails>>
  BY DEF SaveTool, SaveAdmin, SaveDeleted, Store
<1>6. RemoveStream(w) => UNCHANGED <<source, fails>>
  BY DEF RemoveStream
<1>7. SourceStep(w) => UNCHANGED tool
  BY DEF SourceStep, MarkSyncStarted, MarkSyncFailed, Ingest,
     UpdateSource, Deregister, DropSource, StoreSource
<1>8. UNCHANGED writeVars \/ ToolStep(w) \/ SourceStep(w)
  BY <1>1, <1>2, <1>3, <1>4 DEF Work, ToolStep, SourceStep
<1> QED
  BY <1>5, <1>6, <1>7, <1>8 DEF writeVars, ToolStep

\* Which steps touch the streams.
LEMMA WhoWrites ==
  ASSUME Next
  PROVE  /\ UNCHANGED tool \/ \E w \in Workers : ToolStep(w)
         /\ UNCHANGED <<source, fails>> \/ \E w \in Workers : SourceStep(w)
<1>1. Project => UNCHANGED writeVars
  BY DEF Project
<1>2. ASSUME NEW t \in Tools, NEW d \in Defs \cup {None}, UpstreamChanges(t, d)
      PROVE  UNCHANGED writeVars
  BY <1>2 DEF UpstreamChanges
<1> QED
  BY <1>1, <1>2, WorkerWrites DEF Next, writeVars

(* The change of one tool by one stored event, decided on the tool as it   *)
(* is at that moment.                                                      *)
Becomes(t, status, enabled, def) == Is(tool'[t], status, enabled, def)

ToolChange(w, t) ==
  \/ \E d \in Defs : tool[t].status = "absent" /\ Becomes(t, "active", TRUE, d)
  \/ \E d \in Defs : /\ tool[t].status # "absent" /\ tool[t].def # d
                     /\ Becomes(t, tool[t].status, tool[t].enabled, d)
  \/ \E d \in Defs : /\ tool[t].status = "deprecated"
                     /\ Becomes(t, "active", TRUE, d)
  \/ /\ op[w] = "enable" /\ SaveAdmin(w)
     /\ tool[t].status = "active" /\ ~tool[t].enabled
     /\ Becomes(t, tool[t].status, TRUE, tool[t].def)
  \/ /\ tool[t].status # "absent" /\ tool[t].enabled
     /\ Becomes(t, tool[t].status, FALSE, tool[t].def)
  \/ /\ tool[t].status # "absent"
     /\ Becomes(t, tool[t].status, tool[t].enabled, tool[t].def)
  \/ /\ tool[t].status # "absent"
     /\ Becomes(t, "deprecated", FALSE, tool[t].def)
  \/ Becomes(t, "absent", FALSE, None)

\* Storing an event of a tool: its next version, and no other tool.
LEMMA StoreIs ==
  ASSUME TypeOK, NEW t \in Tools, NEW kind \in Kinds, NEW d \in Defs \cup {None},
         Store(t, kind, d)
  PROVE  /\ tool'[t] = Appended(tool[t], kind, d)
         /\ tool'[t].ver = tool[t].ver + 1
         /\ \A s \in Tools \ {t} : tool'[s] = tool[s]
<1>1. tool'[t] = Appended(tool[t], kind, d)
  BY DEF Store, TypeOK
<1>2. \A s \in Tools \ {t} : tool'[s] = tool[s]
  BY DEF Store, TypeOK
<1> QED
  BY <1>1, <1>2, AppendedTyped DEF TypeOK

(* Optimistic concurrency at work: what is stored for a tool is the change *)
(* a command would make that decides on the latest state of the stream.    *)
LEMMA ToolStepIs ==
  ASSUME TypeOK, NEW w \in Workers, InOrder(w), ToolStep(w)
  PROVE  /\ cur[w] \in Tools
         /\ ToolChange(w, cur[w])
         /\ tool'[cur[w]].ver = tool[cur[w]].ver + 1
         /\ \A s \in Tools \ {cur[w]} : tool'[s] = tool[s]
<1> DEFINE t == cur[w]
           d == spec[w][t]
<1>1. t \in Tools
  BY DEF ToolStep, SaveTool, SaveAdmin, SaveDeleted, RemoveStream, InOrder, ToolCopy
<1>2. tool[t] \in ToolState /\ tool[t].def \in Defs \cup {None}
  BY <1>1 DEF TypeOK, ToolState
<1>3. CASE SaveTool(w)
  <2>1. held[w] = tool[t] /\ d \in Defs
    BY <1>3 DEF SaveTool, InOrder, ToolCopy, Decided
  <2>2. NextEvent(tool[t], d) \in {"Discovered", "DefinitionUpdated", "Restored"}
    BY <1>2, <1>3, <2>1, NextEventIs DEF SaveTool, InOrder, Decided
  <2>3. Store(t, NextEvent(tool[t], d), d)
    BY <1>3, <2>1 DEF SaveTool
  <2> HIDE DEF d
  <2>4. /\ tool'[t] = Appended(tool[t], NextEvent(tool[t], d), d)
        /\ tool'[t].ver = tool[t].ver + 1
        /\ \A s \in Tools \ {t} : tool'[s] = tool[s]
    BY <1>1, <2>1, <2>2, <2>3, StoreIs DEF Kinds
  <2>5. CASE NextEvent(tool[t], d) = "Discovered"
    <3>0. Is(Appended(tool[t], "Discovered", d), "active", TRUE, d)
      BY <1>2, <2>1, AppendedIs, Zenon
    <3>1. Becomes(t, "active", TRUE, d)
      BY <2>4, <2>5, <3>0, Zenon DEF Becomes
    <3> QED
      BY <1>1, <1>2, <2>1, <2>4, <2>5, <3>1, NextEventIs DEF ToolChange
  <2>6. CASE NextEvent(tool[t], d) = "DefinitionUpdated"
    <3>1. Becomes(t, tool[t].status, tool[t].enabled, d)
      BY <1>2, <2>1, <2>4, <2>6, AppendedIs DEF Becomes
    <3> QED
      BY <1>1, <1>2, <2>1, <2>4, <2>6, <3>1, NextEventIs DEF ToolChange
  <2>7. CASE NextEvent(tool[t], d) = "Restored"
    <3>0. Is(Appended(tool[t], "Restored", d), "active", TRUE, d)
      BY <1>2, <2>1, AppendedIs, Zenon
    <3>1. Becomes(t, "active", TRUE, d)
      BY <2>4, <2>7, <3>0, Zenon DEF Becomes
    <3> QED
      BY <1>1, <1>2, <2>1, <2>4, <2>7, <3>1, NextEventIs DEF ToolChange
  <2> QED
    BY <2>2, <2>5, <2>6, <2>7
<1>4. CASE SaveAdmin(w)
  <2>1. /\ held[w] = tool[t]
        /\ op[w] \in {"enable", "disable", "describe"}
        /\ Accepts(op[w], tool[t])
    BY <1>4 DEF SaveAdmin, InOrder, ToolCopy, Handling, Decided
  <2>2. EventOf(op[w]) \in Kinds
    BY <2>1 DEF EventOf, Kinds
  <2>3. Store(t, EventOf(op[w]), tool[t].def)
    BY <1>4 DEF SaveAdmin
  <2>4. /\ tool'[t] = Appended(tool[t], EventOf(op[w]), tool[t].def)
        /\ tool'[t].ver = tool[t].ver + 1
        /\ \A s \in Tools \ {t} : tool'[s] = tool[s]
    BY <1>1, <1>2, <2>2, <2>3, StoreIs
  <2>5. CASE op[w] = "enable"
    <3>1. EventOf(op[w]) = "Enabled" /\ tool[t].status = "active" /\ ~tool[t].enabled
      BY <2>1, <2>5 DEF EventOf, Accepts
    <3>0. Is(Appended(tool[t], "Enabled", tool[t].def), tool[t].status, TRUE, tool[t].def)
      BY <1>2, AppendedIs, Zenon
    <3>2. Becomes(t, tool[t].status, TRUE, tool[t].def)
      BY <2>4, <3>0, <3>1, Zenon DEF Becomes
    <3> QED
      BY <1>1, <1>4, <2>4, <2>5, <3>1, <3>2 DEF ToolChange
  <2>6. CASE op[w] = "disable"
    <3>1. EventOf(op[w]) = "Disabled" /\ tool[t].status # "absent" /\ tool[t].enabled
      BY <2>1, <2>6 DEF EventOf, Accepts, Exists
    <3>0. Is(Appended(tool[t], "Disabled", tool[t].def), tool[t].status, FALSE, tool[t].def)
      BY <1>2, AppendedIs, Zenon
    <3>2. Becomes(t, tool[t].status, FALSE, tool[t].def)
      BY <2>4, <3>0, <3>1, Zenon DEF Becomes
    <3> QED
      BY <1>1, <2>4, <3>1, <3>2 DEF ToolChange
  <2>7. CASE op[w] = "describe"
    <3>1. EventOf(op[w]) = "Updated" /\ tool[t].status # "absent"
      BY <2>1, <2>7 DEF EventOf, Accepts, Exists
    <3>2. Becomes(t, tool[t].status, tool[t].enabled, tool[t].def)
      BY <1>2, <2>4, <3>1, AppendedIs DEF Becomes
    <3> QED
      BY <1>1, <2>4, <3>1, <3>2 DEF ToolChange
  <2> QED
    BY <2>1, <2>5, <2>6, <2>7
<1>5. CASE SaveDeleted(w)
  <2>1. tool[t].status # "absent"
    BY <1>5 DEF SaveDeleted, InOrder, ToolCopy, Decided, Exists
  <2>2. /\ tool'[t] = Appended(tool[t], "Deleted", None)
        /\ tool'[t].ver = tool[t].ver + 1
        /\ \A s \in Tools \ {t} : tool'[s] = tool[s]
    BY <1>1, <1>5, StoreIs DEF SaveDeleted, Kinds
  <2>3. Becomes(t, "deprecated", FALSE, tool[t].def)
    BY <1>2, <2>2, AppendedIs DEF Becomes
  <2> QED
    BY <1>1, <2>1, <2>2, <2>3 DEF ToolChange
<1>6. CASE RemoveStream(w)
  <2>1. /\ tool'[t] = [NoTool EXCEPT !.ver = tool[t].ver + 1,
                                     !.base = tool[t].ver + 1]
        /\ \A s \in Tools \ {t} : tool'[s] = tool[s]
    BY <1>1, <1>6 DEF RemoveStream, TypeOK
  <2>2. Becomes(t, "absent", FALSE, None) /\ tool'[t].ver = tool[t].ver + 1
    BY <2>1 DEF Becomes, Is, NoTool
  <2> QED
    BY <1>1, <2>1, <2>2 DEF ToolChange
<1> QED
  BY <1>3, <1>4, <1>5, <1>6 DEF ToolStep

\* A stream that changes gets a new version.
LEMMA VersionsGrow ==
  ASSUME TypeOK, \A w \in Workers : InOrder(w), Next
  PROVE  /\ \A t \in Tools : tool'[t] = tool[t]
                             \/ tool'[t].ver = tool[t].ver + 1
         /\ source' = source \/ source'.ver = source.ver + 1
<1>1. ASSUME NEW w \in Workers, ToolStep(w), NEW t \in Tools
      PROVE  tool'[t] = tool[t] \/ tool'[t].ver = tool[t].ver + 1
  <2>1. CASE t = cur[w]
    BY <1>1, <2>1, ToolStepIs
  <2>2. CASE t # cur[w]
    BY <1>1, <2>2, ToolStepIs
  <2> QED
    BY <2>1, <2>2
<1>2. ASSUME NEW s \in SourceState, StoreSource(s), s.ver = source.ver
      PROVE  source'.ver = source.ver + 1
  BY <1>2 DEF StoreSource, SourceState
<1>3. ASSUME NEW w \in Workers, SourceStep(w)
      PROVE  source'.ver = source.ver + 1
  BY <1>3 DEF SourceStep, MarkSyncStarted, MarkSyncFailed, Ingest,
     UpdateSource, Deregister, DropSource, StoreSource, TypeOK, SourceState
<1> QED
  BY <1>1, <1>3, WhoWrites

\* The seven variables of a worker.
Keeps(v) ==
  /\ at'[v] = at[v] /\ op'[v] = op[v] /\ cur'[v] = cur[v]
  /\ held'[v] = held[v] /\ src'[v] = src[v]
  /\ spec'[v] = spec[v] /\ todo'[v] = todo[v]

(* A worker that does nothing keeps its copies in order while others       *)
(* write: the versions tell whether they did.                              *)
LEMMA KeepsInOrder ==
  ASSUME TypeOK, \A w \in Workers : InOrder(w), Next,
         NEW v \in Workers, Keeps(v)
  PROVE  InOrder(v)'
<1> USE DEF InOrder, Keeps
<1>1. Handling(v)' /\ Decided(v)'
  BY DEF Handling, Decided
<1>2. ToolCopy(v)'
  <2>1. SUFFICES ASSUME at[v] \in {"save", "admin", "delete", "remove", "purge"}
                 PROVE  /\ held[v].ver <= tool'[cur[v]].ver
                        /\ held[v].ver = tool'[cur[v]].ver =>
                             held[v] = tool'[cur[v]]
    BY DEF ToolCopy, ToolFresh
  <2>2. /\ cur[v] \in Tools /\ held[v].ver <= tool[cur[v]].ver
        /\ held[v].ver = tool[cur[v]].ver => held[v] = tool[cur[v]]
    BY <2>1 DEF ToolCopy, ToolFresh
  <2>3. held[v].ver \in Nat /\ tool[cur[v]].ver \in Nat
    BY <2>2 DEF TypeOK, ToolState
  <2>4. tool'[cur[v]] = tool[cur[v]] \/ tool'[cur[v]].ver = tool[cur[v]].ver + 1
    BY <2>2, VersionsGrow
  <2> QED
    BY <2>2, <2>3, <2>4
<1>3. SourceCopy(v)'
  <2>1. SUFFICES ASSUME op[v] \in {"refresh", "source"}
                 PROVE  /\ src[v].ver <= source'.ver
                        /\ src[v].ver = source'.ver => src[v] = source'
    BY DEF SourceCopy, SourceFresh
  <2>2. /\ src[v].ver <= source.ver
        /\ src[v].ver = source.ver => src[v] = source
    BY <2>1 DEF SourceCopy, SourceFresh
  <2>3. src[v].ver \in Nat /\ source.ver \in Nat
    BY DEF TypeOK, SourceState
  <2> QED
    BY <2>2, <2>3, VersionsGrow
<1> QED
  BY <1>1, <1>2, <1>3

\* A step of one worker leaves the others where they are.
LEMMA OthersKeep ==
  ASSUME TypeOK, NEW w \in Workers, Request(w) \/ Work(w),
         NEW v \in Workers, v # w
  PROVE  Keeps(v)
<1> USE DEF TypeOK, Keeps
<1>1. ASSUME NEW point, Goto(w, point)
      PROVE  at'[v] = at[v]
  BY <1>1 DEF Goto
<1>2. End(w) => Keeps(v)
  BY <1>1 DEF End
<1>3. UNCHANGED workVars => /\ op'[v] = op[v] /\ cur'[v] = cur[v]
                            /\ held'[v] = held[v] /\ src'[v] = src[v]
                            /\ spec'[v] = spec[v] /\ todo'[v] = todo[v]
  BY DEF workVars
<1>4. ASSUME NEW command, NEW as, NEW point, Begin(w, command, as, point)
      PROVE  at'[v] = at[v] /\ op'[v] = op[v]
  BY <1>1, <1>4 DEF Begin
<1>5. CASE Request(w)
  <2>1. CASE BeginRefresh(w)
    BY <1>4, <2>1 DEF BeginRefresh
  <2>2. CASE UpdateSource(w)
    BY <1>3, <2>2 DEF UpdateSource
  <2>3. CASE BeginDeleteSource(w)
    BY <1>4, <2>3 DEF BeginDeleteSource
  <2>4. CASE BeginCleanup(w)
    BY <1>4, <2>4 DEF BeginCleanup
  <2>5. ASSUME NEW t \in Tools, BeginDeleteTool(w, t)
        PROVE  Keeps(v)
    BY <1>4, <2>5 DEF BeginDeleteTool
  <2>6. ASSUME NEW t \in Tools, NEW command \in Commands,
               BeginAdmin(w, command, t)
        PROVE  Keeps(v)
    BY <1>4, <2>6 DEF BeginAdmin
  <2> QED
    BY <1>5, <2>1, <2>2, <2>3, <2>4, <2>5, <2>6 DEF Request
<1>6. CASE RefreshStep(w)
  <2>1. CASE MarkSyncStarted(w)
    BY <1>1, <2>1 DEF MarkSyncStarted
  <2>2. CASE FetchFails(w)
    BY <1>1, <1>3, <2>2 DEF FetchFails
  <2>3. CASE MarkSyncFailed(w) \/ FetchUnchanged(w) \/ Ingest(w) \/ IngestUnchanged(w)
    BY <1>2, <2>3 DEF MarkSyncFailed, FetchUnchanged, Ingest, IngestUnchanged
  <2>4. CASE FetchInventory(w)
    BY <1>1, <2>4 DEF FetchInventory
  <2>5. CASE SaveTool(w)
    <3>1. at'[v] = at[v]
      BY <1>1, <2>5 DEF SaveTool
    <3> QED
      BY <2>5, <3>1 DEF SaveTool
  <2>6. ASSUME NEW t \in Tools, SyncTool(w, t)
        PROVE  Keeps(v)
    <3>1. at'[v] = at[v]
      BY <1>1, <2>6 DEF SyncTool
    <3> QED
      BY <2>6, <3>1 DEF SyncTool
  <2> QED
    BY <1>6, <2>1, <2>2, <2>3, <2>4, <2>5, <2>6 DEF RefreshStep
<1>7. CASE SaveAdmin(w) \/ SaveRaises(w)
  BY <1>2, <1>7 DEF SaveAdmin, SaveRaises
<1>8. CASE DeleteStep(w)
  <2>1. CASE QueryTools(w)
    BY <1>1, <2>1 DEF QueryTools
  <2>2. CASE \/ SaveDeleted(w) \/ PurgeDto(w) \/ SkipVictim(w)
             \/ Deregister(w) \/ DropSource(w)
    BY <1>1, <1>3, <2>2 DEF SaveDeleted, PurgeDto, SkipVictim, Deregister,
       DropSource
  <2>3. CASE RemoveStream(w) \/ EndCascade(w)
    BY <1>1, <1>2, <1>3, <2>3 DEF RemoveStream, EndCascade
  <2>4. CASE PurgeSource(w)
    BY <1>2, <2>4 DEF PurgeSource
  <2>5. ASSUME NEW t \in Tools, NextVictim(w, t)
        PROVE  Keeps(v)
    <3>1. at'[v] = at[v]
      BY <1>1, <2>5 DEF NextVictim
    <3> QED
      BY <2>5, <3>1 DEF NextVictim
  <2> QED
    BY <1>8, <2>1, <2>2, <2>3, <2>4, <2>5 DEF DeleteStep
<1> QED
  BY <1>5, <1>6, <1>7, <1>8 DEF Work

-----------------------------------------------------------------------------
(* A worker's own steps keep it in order. *)

\* An idle worker is in order.
LEMMA EndInOrder ==
  ASSUME TypeOK, NEW w \in Workers, End(w)
  PROVE  InOrder(w)'
<1>1. at'[w] = "idle" /\ op'[w] = "none"
  BY DEF End, Goto, TypeOK
<1> QED
  BY <1>1 DEF InOrder, Handling, ToolCopy, SourceCopy, Decided, RefreshPoints

\* Beginning a request with fresh copies.
LEMMA RequestInOrder ==
  ASSUME TypeOK, NEW w \in Workers, InOrder(w), Request(w)
  PROVE  InOrder(w)'
<1> USE DEF InOrder
<1>1. ASSUME NEW command, NEW as, NEW point, Begin(w, command, as, point)
      PROVE  /\ at'[w] = point /\ op'[w] = as
             /\ UNCHANGED <<tool, source>>
  BY <1>1 DEF Begin, Goto, TypeOK, writeVars
<1>2. CASE BeginRefresh(w)
  <2>1. at'[w] = "start" /\ op'[w] = "refresh" /\ src'[w] = source'
    BY <1>1, <1>2 DEF BeginRefresh, TypeOK
  <2>2. SourceCopy(w)'
    BY <1>1, <1>2, <2>1 DEF BeginRefresh, SourceCopy, TypeOK, SourceState
  <2> QED
    BY <1>2, <2>1, <2>2 DEF BeginRefresh, Handling, ToolCopy, Decided
<1>3. CASE UpdateSource(w)
  <2>1. at'[w] = "idle" /\ op'[w] = op[w] /\ src'[w] = src[w]
    BY <1>3 DEF UpdateSource, workVars
  <2>2. source'.ver = source.ver + 1
    BY <1>3 DEF UpdateSource, StoreSource, TypeOK, SourceState
  <2>3. SourceCopy(w)'
    BY <2>1, <2>2 DEF SourceCopy, SourceFresh, TypeOK, SourceState
  <2> QED
    BY <2>1, <2>3 DEF Handling, ToolCopy, Decided, RefreshPoints
<1>4. CASE BeginDeleteSource(w)
  <2>1. at'[w] = "query" /\ op'[w] = "source" /\ src'[w] = source'
    BY <1>1, <1>4 DEF BeginDeleteSource, TypeOK
  <2>2. SourceCopy(w)'
    BY <1>1, <1>4, <2>1 DEF BeginDeleteSource, SourceCopy, TypeOK, SourceState
  <2> QED
    BY <2>1, <2>2 DEF Handling, ToolCopy, Decided, RefreshPoints
<1>5. CASE BeginCleanup(w)
  <2>1. at'[w] = "query" /\ op'[w] = "orphans"
    BY <1>1, <1>5 DEF BeginCleanup
  <2> QED
    BY <2>1 DEF Handling, ToolCopy, SourceCopy, Decided, RefreshPoints
<1>6. ASSUME NEW t \in Tools, BeginDeleteTool(w, t)
      PROVE  InOrder(w)'
  <2>1. /\ at'[w] = "delete" /\ op'[w] = "tool"
        /\ cur'[w] = t /\ held'[w] = tool'[t] /\ Exists(tool'[t])
    BY <1>1, <1>6 DEF BeginDeleteTool, TypeOK
  <2>2. tool'[t].ver \in Nat
    BY <1>1, <1>6 DEF BeginDeleteTool, TypeOK, ToolState
  <2>3. ToolCopy(w)'
    BY <2>1, <2>2 DEF ToolCopy
  <2> QED
    BY <2>1, <2>3 DEF Handling, SourceCopy, Decided, RefreshPoints
<1>7. ASSUME NEW t \in Tools, NEW command \in Commands, BeginAdmin(w, command, t)
      PROVE  InOrder(w)'
  <2>1. /\ at'[w] = "admin" /\ op'[w] = command
        /\ command \in {"enable", "disable", "describe"}
        /\ cur'[w] = t /\ held'[w] = tool'[t] /\ Accepts(command, tool'[t])
    BY <1>1, <1>7 DEF BeginAdmin, TypeOK
  <2>2. tool'[t].ver \in Nat
    BY <1>1, <1>7 DEF BeginAdmin, TypeOK, ToolState
  <2>3. ToolCopy(w)'
    BY <2>1, <2>2 DEF ToolCopy
  <2> QED
    BY <2>1, <2>3 DEF Handling, SourceCopy, Decided, RefreshPoints
<1> QED
  BY <1>2, <1>3, <1>4, <1>5, <1>6, <1>7 DEF Request

\* The steps of a refresh.
LEMMA RefreshInOrder ==
  ASSUME TypeOK, TypeOK', NEW w \in Workers, InOrder(w), RefreshStep(w)
  PROVE  InOrder(w)'
<1> USE DEF InOrder
<1>1. ASSUME NEW point, Goto(w, point)
      PROVE  at'[w] = point
  BY <1>1 DEF Goto, TypeOK
<1>2. at[w] \in RefreshPoints => op[w] = "refresh" /\ w \in Refreshers
  BY DEF Handling
<1>3. op[w] = "refresh" => SourceCopy(w) /\ src[w].ver <= source.ver
  BY DEF SourceCopy
<1>4. CASE MarkSyncStarted(w)
  <2>1. at'[w] = "fetch" /\ op'[w] = "refresh" /\ src'[w] = source'
    BY <1>1, <1>2, <1>4 DEF MarkSyncStarted, TypeOK, RefreshPoints
  <2>2. SourceCopy(w)'
    BY <2>1 DEF SourceCopy, TypeOK, SourceState
  <2> QED
    BY <1>2, <1>4, <2>1, <2>2
    DEF MarkSyncStarted, Handling, ToolCopy, Decided, RefreshPoints
<1>5. CASE FetchFails(w)
  <2>1. at'[w] = "failed"
    BY <1>1, <1>5 DEF FetchFails
  <2>2. UNCHANGED <<source, workVars>>
    BY <1>5 DEF FetchFails, writeVars
  <2> QED
    BY <1>2, <1>5, <2>1, <2>2 DEF FetchFails, Handling, ToolCopy, SourceCopy,
       SourceFresh, Decided, RefreshPoints, workVars
<1>6. CASE MarkSyncFailed(w) \/ FetchUnchanged(w) \/ Ingest(w) \/ IngestUnchanged(w)
  BY <1>6, EndInOrder DEF MarkSyncFailed, FetchUnchanged, Ingest, IngestUnchanged
<1>7. CASE FetchInventory(w)
  <2>1. /\ at'[w] = "sync" /\ op'[w] = "refresh" /\ w \in Refreshers
        /\ src'[w] = src[w] /\ UNCHANGED source
    BY <1>1, <1>2, <1>7 DEF FetchInventory, RefreshPoints, writeVars
  <2>2. spec'[w] = upstream /\ todo'[w] = Offered(upstream)
    BY <1>7 DEF FetchInventory, TypeOK
  <2>3. upstream \in Inventories /\ \A t \in Offered(upstream) : upstream[t] \in Defs
    BY DEF TypeOK, Inventories, Offered
  <2>4. SourceCopy(w)'
    BY <1>2, <1>7, <2>1 DEF FetchInventory, SourceCopy, SourceFresh, RefreshPoints
  <2> QED
    BY <2>1, <2>2, <2>3, <2>4 DEF Handling, ToolCopy, Decided
<1>8. CASE SaveTool(w)
  <2> DEFINE t == cur[w]
  <2>1. /\ op'[w] = "refresh" /\ w \in Refreshers
        /\ cur'[w] = t /\ spec'[w] = spec[w] /\ todo'[w] = todo[w]
        /\ src'[w] = src[w]
    BY <1>2, <1>8 DEF SaveTool, RefreshPoints
  <2>2. /\ t \in Tools
        /\ spec[w] \in Inventories /\ spec[w][t] \in Defs
        /\ \A s \in todo[w] : spec[w][s] \in Defs
    BY <1>8 DEF SaveTool, ToolCopy, Decided
  <2>3. held'[w] = tool'[t] /\ tool'[t].ver \in Nat
    BY <1>8, <2>2 DEF SaveTool, TypeOK, ToolState
  <2>4. /\ at'[w] \in {"sync", "save"}
        /\ at'[w] = "save" => NextEvent(tool'[t], spec[w][t]) # "none"
    BY <1>1, <1>8 DEF SaveTool
  <2>5. UNCHANGED source
    BY <1>8 DEF SaveTool, Store
  <2>6. SourceCopy(w)'
    BY <1>2, <1>8, <2>1, <2>5 DEF SaveTool, SourceCopy, SourceFresh, RefreshPoints
  <2>7. Handling(w)'
    BY <2>1, <2>4 DEF Handling
  <2>8. ToolCopy(w)'
    BY <2>1, <2>2, <2>3 DEF ToolCopy
  <2>9. Decided(w)'
    BY <2>1, <2>2, <2>3, <2>4 DEF Decided
  <2> QED
    BY <2>6, <2>7, <2>8, <2>9
<1>9. ASSUME NEW t \in Tools, SyncTool(w, t)
      PROVE  InOrder(w)'
  <2>1. /\ op'[w] = "refresh" /\ w \in Refreshers /\ cur'[w] = t
        /\ spec'[w] = spec[w] /\ src'[w] = src[w]
    BY <1>2, <1>9 DEF SyncTool, TypeOK, RefreshPoints
  <2>2. UNCHANGED <<tool, source>>
    BY <1>9 DEF SyncTool, writeVars
  <2>3. held'[w] = tool'[t] /\ tool'[t].ver \in Nat
    BY <1>9, <2>2 DEF SyncTool, TypeOK, ToolState
  <2>4. /\ spec[w] \in Inventories /\ spec[w][t] \in Defs
        /\ \A s \in todo'[w] : spec[w][s] \in Defs
    BY <1>9 DEF SyncTool, Decided, TypeOK
  <2>5. /\ at'[w] \in {"sync", "save"}
        /\ at'[w] = "save" => NextEvent(tool'[t], spec[w][t]) # "none"
    BY <1>1, <1>9, <2>2 DEF SyncTool
  <2>6. SourceCopy(w)'
    BY <1>2, <1>9, <2>1, <2>2 DEF SyncTool, SourceCopy, SourceFresh, RefreshPoints
  <2>7. Handling(w)'
    BY <2>1, <2>5 DEF Handling
  <2>8. ToolCopy(w)'
    BY <2>1, <2>3 DEF ToolCopy
  <2>9. Decided(w)'
    BY <2>1, <2>3, <2>4, <2>5 DEF Decided
  <2> QED
    BY <2>6, <2>7, <2>8, <2>9
<1> QED
  BY <1>4, <1>5, <1>6, <1>7, <1>8, <1>9 DEF RefreshStep

\* The steps of a deletion.
LEMMA DeleteInOrder ==
  ASSUME TypeOK, TypeOK', NEW w \in Workers, InOrder(w), DeleteStep(w)
  PROVE  InOrder(w)'
<1> USE DEF InOrder
<1>1. ASSUME NEW point, Goto(w, point)
      PROVE  at'[w] = point
  BY <1>1 DEF Goto, TypeOK
<1>2. ASSUME UNCHANGED <<source, op, src>>
      PROVE  SourceCopy(w)'
  BY <1>2 DEF SourceCopy, SourceFresh
<1>3. CASE QueryTools(w)
  <2>1. at'[w] = "next" /\ op'[w] \in {"source", "orphans"}
    BY <1>1, <1>3 DEF QueryTools, Handling
  <2> QED
    BY <1>2, <1>3, <2>1 DEF QueryTools, Handling, ToolCopy, Decided,
       RefreshPoints, writeVars
<1>4. CASE SaveDeleted(w)
  <2>1. at'[w] = "remove" /\ op'[w] \in {"tool", "source", "orphans"}
    BY <1>1, <1>4 DEF SaveDeleted, Handling, workVars
  <2>2. UNCHANGED <<source, op, src, cur, held>> /\ cur[w] \in Tools
    BY <1>4 DEF SaveDeleted, Store, workVars, ToolCopy
  <2>3. tool'[cur[w]].ver = tool[cur[w]].ver + 1
    BY <1>4, ToolStepIs DEF ToolStep
  <2>4. held[w].ver <= tool[cur[w]].ver
    BY <1>4 DEF SaveDeleted, ToolCopy
  <2>5. held[w].ver \in Nat /\ tool[cur[w]].ver \in Nat
    BY <2>2 DEF TypeOK, ToolState
  <2>6. ToolCopy(w)'
    BY <2>2, <2>3, <2>4, <2>5 DEF ToolCopy, ToolFresh
  <2> QED
    BY <1>2, <2>1, <2>2, <2>6 DEF Handling, Decided, RefreshPoints
<1>5. CASE RemoveStream(w)
  <2>1. CASE op[w] = "tool"
    BY <1>5, <2>1, EndInOrder DEF RemoveStream
  <2>2. CASE op[w] # "tool"
    <3>1. at'[w] = "purge" /\ UNCHANGED workVars
      BY <1>1, <1>5, <2>2 DEF RemoveStream
    <3>2. op'[w] \in {"source", "orphans"}
      BY <1>5, <2>2, <3>1 DEF RemoveStream, Handling, workVars
    <3>3. UNCHANGED <<source, op, src, cur, held>> /\ cur[w] \in Tools
      BY <1>5, <3>1 DEF RemoveStream, workVars, ToolCopy
    <3>4. tool'[cur[w]].ver = tool[cur[w]].ver + 1
      BY <1>5, ToolStepIs DEF ToolStep
    <3>5. held[w].ver <= tool[cur[w]].ver
      BY <1>5 DEF RemoveStream, ToolCopy
    <3>6. held[w].ver \in Nat /\ tool[cur[w]].ver \in Nat
      BY <3>3 DEF TypeOK, ToolState
    <3>7. ToolCopy(w)'
      BY <3>3, <3>4, <3>5, <3>6 DEF ToolCopy, ToolFresh
    <3> QED
      BY <1>2, <3>1, <3>2, <3>3, <3>7 DEF Handling, Decided, RefreshPoints
  <2> QED
    BY <2>1, <2>2
<1>6. CASE PurgeDto(w)
  <2>1. at'[w] = "next" /\ op'[w] \in {"source", "orphans"}
    BY <1>1, <1>6 DEF PurgeDto, Handling, workVars
  <2> QED
    BY <1>2, <1>6, <2>1 DEF PurgeDto, Handling, ToolCopy, Decided,
       RefreshPoints, writeVars, workVars
<1>7. CASE SkipVictim(w)
  <2>1. at'[w] = "next" /\ op'[w] \in {"source", "orphans"}
    BY <1>1, <1>7 DEF SkipVictim, workVars
  <2> QED
    BY <1>2, <1>7, <2>1 DEF SkipVictim, Handling, ToolCopy, Decided,
       RefreshPoints, writeVars, workVars
<1>8. CASE EndCascade(w)
  <2>1. CASE op[w] = "orphans"
    BY <1>8, <2>1, EndInOrder DEF EndCascade
  <2>2. CASE op[w] # "orphans"
    <3>1. at'[w] = "dereg" /\ UNCHANGED workVars
      BY <1>1, <1>8, <2>2 DEF EndCascade
    <3>2. op'[w] = "source"
      BY <1>8, <2>2, <3>1 DEF EndCascade, Handling, workVars
    <3> QED
      BY <1>2, <1>8, <3>1, <3>2 DEF EndCascade, Handling, ToolCopy, Decided,
         RefreshPoints, writeVars, workVars
  <2> QED
    BY <2>1, <2>2
<1>9. CASE Deregister(w) \/ DropSource(w)
  <2>1. at'[w] \in {"drop", "dropread"} /\ op'[w] = "source" /\ src'[w] = src[w]
    BY <1>1, <1>9 DEF Deregister, DropSource, Handling, workVars
  <2>2. src[w].ver <= source.ver /\ source'.ver = source.ver + 1
    BY <1>9, <2>1 DEF Deregister, DropSource, StoreSource, Handling, SourceCopy,
       TypeOK, SourceState
  <2>3. src[w].ver \in Nat /\ source.ver \in Nat
    BY DEF TypeOK, SourceState
  <2>4. SourceCopy(w)'
    BY <2>1, <2>2, <2>3 DEF SourceCopy, SourceFresh
  <2> QED
    BY <2>1, <2>4 DEF Handling, ToolCopy, Decided, RefreshPoints
<1>10. CASE PurgeSource(w)
  BY <1>10, EndInOrder DEF PurgeSource
<1>11. ASSUME NEW t \in Tools, NextVictim(w, t)
       PROVE  InOrder(w)'
  <2>1. /\ op'[w] \in {"source", "orphans"} /\ cur'[w] = t
        /\ UNCHANGED <<tool, source, op, src>>
    BY <1>11 DEF NextVictim, Handling, TypeOK, writeVars
  <2>2. held'[w] = tool'[t] /\ tool'[t].ver \in Nat
    BY <1>11, <2>1 DEF NextVictim, TypeOK, ToolState
  <2>3. /\ at'[w] \in {"delete", "purge"}
        /\ at'[w] = "delete" => Exists(tool'[t])
    BY <1>1, <1>11, <2>1 DEF NextVictim
  <2>4. ToolCopy(w)'
    BY <2>1, <2>2 DEF ToolCopy
  <2> QED
    BY <1>2, <2>1, <2>2, <2>3, <2>4 DEF Handling, Decided, RefreshPoints
<1> QED
  BY <1>3, <1>4, <1>5, <1>6, <1>7, <1>8, <1>9, <1>10, <1>11 DEF DeleteStep

-----------------------------------------------------------------------------
(* The inductive invariant. *)

\* Every worker stays in order.
LEMMA StepInOrder ==
  ASSUME TypeOK, TypeOK', \A w \in Workers : InOrder(w), Next,
         NEW v \in Workers
  PROVE  InOrder(v)'
<1>1. ASSUME NEW w \in Workers, Request(w) \/ Work(w)
      PROVE  InOrder(v)'
  <2>1. CASE w # v
    BY <1>1, <2>1, OthersKeep, KeepsInOrder
  <2>2. CASE w = v /\ Request(w)
    BY <2>2, RequestInOrder
  <2>3. CASE w = v /\ RefreshStep(w)
    BY <2>3, RefreshInOrder
  <2>4. CASE w = v /\ DeleteStep(w)
    BY <2>4, DeleteInOrder
  <2>5. CASE w = v /\ (SaveAdmin(w) \/ SaveRaises(w))
    BY <2>5, EndInOrder DEF SaveAdmin, SaveRaises
  <2> QED
    BY <1>1, <2>1, <2>2, <2>3, <2>4, <2>5 DEF Work
<1>2. ASSUME Project
      PROVE  InOrder(v)'
  <2>1. Keeps(v)
    BY <1>2 DEF Project, Keeps, workVars
  <2> QED
    BY <2>1, KeepsInOrder
<1>3. ASSUME NEW t \in Tools, NEW d \in Defs \cup {None}, UpstreamChanges(t, d)
      PROVE  InOrder(v)'
  <2>1. Keeps(v)
    BY <1>3 DEF UpstreamChanges, Keeps, workVars
  <2> QED
    BY <2>1, KeepsInOrder
<1> QED
  BY <1>1, <1>2, <1>3 DEF Next

\* A deprecated tool is never enabled, whatever is stored for it.
LEMMA StepDeprecated ==
  ASSUME TypeOK, \A w \in Workers : InOrder(w), DeprecatedNeverEnabled, Next
  PROVE  DeprecatedNeverEnabled'
<1>1. ASSUME NEW w \in Workers, NEW t \in Tools, ToolChange(w, t)
      PROVE  /\ tool'[t].status = "deprecated" => ~tool'[t].enabled
             /\ tool'[t].status = "absent" =>
                  ~tool'[t].enabled /\ tool'[t].def = None
  <2>1. /\ tool[t].status = "deprecated" => ~tool[t].enabled
        /\ tool[t].status = "absent" => ~tool[t].enabled /\ tool[t].def = None
    BY DEF DeprecatedNeverEnabled
  <2> QED
    BY <1>1, <2>1 DEF ToolChange, Becomes, Is
<1>2. ASSUME NEW w \in Workers, ToolStep(w), NEW t \in Tools
      PROVE  tool'[t] = tool[t] \/ ToolChange(w, t)
  BY <1>2, ToolStepIs
<1>3. \A t \in Tools : tool'[t] = tool[t] \/ \E w \in Workers : ToolChange(w, t)
  BY <1>2, WhoWrites
<1> QED
  BY <1>1, <1>3 DEF DeprecatedNeverEnabled

(* The change of the source by one stored event, decided on the source as  *)
(* it is at that moment.                                                   *)
SourceChange ==
  \/ /\ source'.hash = source.hash /\ source'.failures = source.failures
     /\ source'.health = source.health /\ fails' = fails
  \/ /\ source'.hash = source.hash /\ source'.failures = source.failures + 1
     /\ source'.health = HealthAfter(source.failures + 1) /\ fails' = fails + 1
  \/ \E inventory \in Inventories :
       /\ source.hash # inventory
       /\ source'.hash = inventory /\ source'.failures = 0
       /\ source'.health = "healthy" /\ fails' = 0

\* Optimistic concurrency at work, for the source.
LEMMA SourceStepIs ==
  ASSUME TypeOK, NEW w \in Workers, InOrder(w), SourceStep(w)
  PROVE  SourceChange
<1>1. source \in SourceState
  BY DEF TypeOK
<1>2. CASE MarkSyncFailed(w)
  <2>1. src[w] = source
    BY <1>2 DEF MarkSyncFailed, InOrder, Handling, SourceCopy, RefreshPoints
  <2> DEFINE health == HealthAfter(NextAttempt(source.failures))
  <2>2. source' = [[source EXCEPT !.failures = NextAttempt(source.failures),
                                  !.health = health]
                     EXCEPT !.ver = @ + 1]
    BY <1>2, <2>1 DEF MarkSyncFailed, StoreSource
  <2> HIDE DEF health
  <2>3. /\ source'.hash = source.hash /\ source'.health = health
        /\ source'.failures = NextAttempt(source.failures)
    BY <1>1, <2>2 DEF SourceState
  <2>4. fails' = fails + 1
    BY <1>2 DEF MarkSyncFailed
  <2> QED
    BY <2>3, <2>4 DEF SourceChange, NextAttempt, health
<1>3. CASE Ingest(w)
  <2>1. src[w] = source /\ spec[w] \in Inventories /\ source.hash # spec[w]
    BY <1>3 DEF Ingest, InOrder, Handling, SourceCopy, Decided, RefreshPoints
  <2>2. source'.hash = spec[w] /\ source'.failures = 0 /\ source'.health = "healthy"
    BY <1>1, <1>3 DEF Ingest, StoreSource, SourceState
  <2>3. fails' = 0
    BY <1>3 DEF Ingest
  <2> QED
    BY <2>1, <2>2, <2>3 DEF SourceChange
<1>4. CASE \/ MarkSyncStarted(w) \/ UpdateSource(w)
           \/ Deregister(w) \/ DropSource(w)
  BY <1>1, <1>4 DEF MarkSyncStarted, UpdateSource, Deregister, DropSource,
     StoreSource, SourceState, SourceChange
<1> QED
  BY <1>2, <1>3, <1>4 DEF SourceStep

\* The failure count is the number of failures.
LEMMA StepFailures ==
  ASSUME TypeOK, \A w \in Workers : InOrder(w), FailureCountExact, Next
  PROVE  FailureCountExact'
<1>1. CASE UNCHANGED <<source, fails>>
  BY <1>1 DEF FailureCountExact
<1>2. CASE SourceChange
  <2>1. source.failures = fails /\ fails \in Nat
    BY DEF FailureCountExact, TypeOK
  <2>2. CASE /\ source'.failures = source.failures
             /\ source'.health = source.health /\ fails' = fails
    BY <2>2 DEF FailureCountExact
  <2>3. CASE /\ source'.failures = source.failures + 1
             /\ source'.health = HealthAfter(source.failures + 1)
             /\ fails' = fails + 1
    BY <2>1, <2>3 DEF FailureCountExact, HealthAfter
  <2>4. CASE /\ source'.failures = 0 /\ source'.health = "healthy"
             /\ fails' = 0
    BY <2>4 DEF FailureCountExact
  <2> QED
    BY <1>2, <2>2, <2>3, <2>4 DEF SourceChange
<1> QED
  BY <1>1, <1>2, WhoWrites, SourceStepIs

LEMMA InitIInv == Init => IInv
<1> SUFFICES ASSUME Init PROVE IInv
  OBVIOUS
<1>1. TypeOK
  BY InitTyped
<1>2. \A w \in Workers : InOrder(w)
  BY DEF Init, InOrder, Handling, ToolCopy, SourceCopy, Decided, RefreshPoints
<1>3. DeprecatedNeverEnabled
  BY DEF Init, DeprecatedNeverEnabled, NoTool
<1>4. FailureCountExact
  BY DEF Init, FailureCountExact, NewSource
<1> QED
  BY <1>1, <1>2, <1>3, <1>4 DEF IInv

LEMMA StepIInv == IInv /\ [Next]_vars => IInv'
<1> SUFFICES ASSUME IInv, [Next]_vars PROVE IInv'
  OBVIOUS
<1>1. CASE Next
  <2>1. TypeOK'
    BY <1>1, StepTyped DEF IInv
  <2>2. \A w \in Workers : InOrder(w)'
    BY <1>1, <2>1, StepInOrder DEF IInv
  <2>3. DeprecatedNeverEnabled'
    BY <1>1, StepDeprecated DEF IInv
  <2>4. FailureCountExact'
    BY <1>1, StepFailures DEF IInv
  <2> QED
    BY <2>1, <2>2, <2>3, <2>4 DEF IInv
<1>2. CASE UNCHANGED vars
  BY <1>2 DEF vars, writeVars, readVars, workVars, envVars, IInv, TypeOK,
     InOrder, Handling, ToolCopy, ToolFresh, SourceCopy, SourceFresh, Decided,
     DeprecatedNeverEnabled, FailureCountExact
<1> QED
  BY <1>1, <1>2

(* Every copy a worker decides on is the aggregate itself as long as the   *)
(* versions agree, and what it is about to store follows from that copy.   *)
THEOREM CommandsInOrder == Spec => []IInv
<1>1. Init => IInv
  BY InitIInv
<1>2. IInv /\ [Next]_vars => IInv'
  BY StepIInv
<1> QED
  BY <1>1, <1>2, PTL DEF Spec

(* Tools, source, event log, read model and workers keep their types. *)
THEOREM TypeCorrect == Spec => []TypeOK
<1>1. IInv => TypeOK
  BY DEF IInv
<1> QED
  BY <1>1, CommandsInOrder, PTL

(* A deprecated tool is disabled, for any number of tools, definitions and *)
(* concurrent requests.                                                    *)
THEOREM DeprecatedDisabled == Spec => []DeprecatedNeverEnabled
<1>1. IInv => DeprecatedNeverEnabled
  BY DEF IInv
<1> QED
  BY <1>1, CommandsInOrder, PTL

(* The failure count and the health of the source are those of the         *)
(* failures stored since the last inventory, however refreshes overlap.    *)
THEOREM FailuresCounted == Spec => []FailureCountExact
<1>1. IInv => FailureCountExact
  BY DEF IInv
<1> QED
  BY <1>1, CommandsInOrder, PTL

-----------------------------------------------------------------------------
(* What commands may do to tools and source. *)

(* No refresh undoes an admin's disable: only a restore enables a tool     *)
(* besides the enable command, and only of a deprecated tool.              *)
THEOREM DisableHolds == Spec => AdminDisableHolds
<1> DEFINE Held == \A t \in Tools :
              tool[t].status = "active" /\ ~tool[t].enabled /\ tool'[t].enabled =>
                \E w \in Workers : op[w] = "enable" /\ cur[w] = t /\ SaveAdmin(w)
<1>1. IInv /\ [Next]_vars => Held
  <2> SUFFICES ASSUME IInv, [Next]_vars PROVE Held
    OBVIOUS
  <2>1. CASE UNCHANGED tool
    BY <2>1
  <2>2. ASSUME NEW w \in Workers, ToolStep(w)
        PROVE  Held
    <3>1. /\ cur[w] \in Tools /\ ToolChange(w, cur[w])
          /\ \A s \in Tools \ {cur[w]} : tool'[s] = tool[s]
      BY <2>2, ToolStepIs DEF IInv
    <3>2. SUFFICES ASSUME tool[cur[w]].status = "active", ~tool[cur[w]].enabled,
                          tool'[cur[w]].enabled
                   PROVE  op[w] = "enable" /\ SaveAdmin(w)
      BY <3>1
    <3> QED
      BY <3>1, <3>2 DEF ToolChange, Becomes, Is
  <2> QED
    BY <2>1, <2>2, WhoWrites DEF vars, writeVars
<1> HIDE DEF Held
<1>2. Spec => [][Held]_vars
  BY <1>1, CommandsInOrder, PTL DEF Spec
<1> QED
  BY <1>2 DEF AdminDisableHolds, Held

ToolView == [t \in Tools |-> AtomicTool(tool[t])]

SourceView == [hash |-> source.hash, failures |-> source.failures,
               health |-> source.health]

\* The abstract tools when one of them changes.
LEMMA ViewChanges ==
  ASSUME NEW t \in Tools, \A s \in Tools \ {t} : tool'[s] = tool[s],
         NEW status, NEW enabled, NEW def, Becomes(t, status, enabled, def)
  PROVE  ToolView' = [ToolView EXCEPT ![t] = [status |-> status,
                                              enabled |-> enabled, def |-> def]]
<1>1. AtomicTool(tool'[t]) = [status |-> status, enabled |-> enabled, def |-> def]
  BY DEF AtomicTool, Becomes, Is
<1>2. \A s \in Tools \ {t} : AtomicTool(tool'[s]) = AtomicTool(tool[s])
  OBVIOUS
<1>3. ToolView' = [s \in Tools |-> AtomicTool(tool'[s])]
  BY DEF ToolView, AtomicTool
<1> QED
  BY <1>1, <1>2, <1>3 DEF ToolView

\* A stored event of a tool is an abstract command on it.
LEMMA ToolStepAtomic ==
  ASSUME IInv, NEW w \in Workers, ToolStep(w), UNCHANGED source
  PROVE  [Atomic!Next]_<<ToolView, SourceView>>
<1> DEFINE t == cur[w]
<1>1. /\ t \in Tools /\ ToolChange(w, t)
      /\ \A s \in Tools \ {t} : tool'[s] = tool[s]
  BY ToolStepIs DEF IInv
<1>2. UNCHANGED SourceView
  BY DEF SourceView
<1>3. tool[t] \in ToolState /\ tool[t].enabled \in BOOLEAN
  BY <1>1 DEF IInv, TypeOK, ToolState
<1>4. ToolView[t] = [status |-> tool[t].status, enabled |-> tool[t].enabled,
                     def |-> tool[t].def]
  BY <1>1 DEF ToolView, AtomicTool
<1>5. ASSUME tool[t].status = "absent"
      PROVE  ToolView[t] = Atomic!Absent
  <2>1. ~tool[t].enabled /\ tool[t].def = None
    BY <1>1, <1>5 DEF IInv, DeprecatedNeverEnabled
  <2>2. tool[t].enabled = FALSE
    BY <1>3, <2>1
  <2> QED
    BY <1>4, <1>5, <2>1, <2>2, Zenon DEF Atomic!Absent
<1>6. /\ ToolView[t].status = tool[t].status
      /\ ToolView[t].enabled = tool[t].enabled
      /\ ToolView[t].def = tool[t].def
  BY <1>4
<1>7. ASSUME tool[t].status # "absent"
      PROVE  ToolView[t] # Atomic!Absent
  <2>1. Atomic!Absent.status = "absent"
    BY DEF Atomic!Absent
  <2> QED
    BY <1>6, <1>7, <2>1
<1>8. ToolView = [s \in Tools |-> ToolView[s]]
  BY DEF ToolView
<1> HIDE DEF t
<1>9. ASSUME NEW status, NEW enabled, NEW def, Becomes(t, status, enabled, def)
      PROVE  Atomic!Becomes(t, status, enabled, def)
  <2>1. ToolView' = [ToolView EXCEPT ![t] = [status |-> status,
                                             enabled |-> enabled, def |-> def]]
    BY <1>1, <1>9, ViewChanges, Zenon
  <2> QED
    BY <1>2, <2>1, Zenon DEF Atomic!Becomes, ToolView, SourceView
<1>10. ASSUME NEW d \in Defs, tool[t].status = "absent", Becomes(t, "active", TRUE, d)
       PROVE  Atomic!Discover(t, d)
  BY <1>5, <1>9, <1>10, Zenon DEF Atomic!Discover, ToolView
<1>11. ASSUME NEW d \in Defs, tool[t].status # "absent", tool[t].def # d,
              Becomes(t, tool[t].status, tool[t].enabled, d)
       PROVE  Atomic!Redefine(t, d)
  BY <1>6, <1>7, <1>9, <1>11, Zenon DEF Atomic!Redefine, ToolView
<1>12. ASSUME NEW d \in Defs, tool[t].status = "deprecated",
              Becomes(t, "active", TRUE, d)
       PROVE  Atomic!Restore(t, d)
  BY <1>6, <1>9, <1>12, Zenon DEF Atomic!Restore, ToolView
<1>13. ASSUME tool[t].status = "active", ~tool[t].enabled,
              Becomes(t, tool[t].status, TRUE, tool[t].def)
       PROVE  Atomic!Enable(t)
  BY <1>6, <1>9, <1>13, Zenon DEF Atomic!Enable, ToolView
<1>14. ASSUME tool[t].enabled, Becomes(t, tool[t].status, FALSE, tool[t].def)
       PROVE  Atomic!Disable(t)
  BY <1>6, <1>9, <1>14, Zenon DEF Atomic!Disable, ToolView
<1>15. ASSUME tool[t].status # "absent",
              Becomes(t, tool[t].status, tool[t].enabled, tool[t].def)
       PROVE  UNCHANGED <<ToolView, SourceView>>
  <2>1. ToolView' = [ToolView EXCEPT ![t] =
                       [status |-> tool[t].status, enabled |-> tool[t].enabled,
                        def |-> tool[t].def]]
    BY <1>1, <1>15, ViewChanges, Zenon
  <2>2. ToolView' = [ToolView EXCEPT ![t] = ToolView[t]]
    BY <1>4, <2>1
  <2> QED
    BY <1>2, <1>8, <2>2
<1>16. ASSUME tool[t].status # "absent", Becomes(t, "deprecated", FALSE, tool[t].def)
       PROVE  Atomic!Delete(t)
  BY <1>6, <1>7, <1>9, <1>16, Zenon DEF Atomic!Delete, ToolView
<1>17. ASSUME Becomes(t, "absent", FALSE, None)
       PROVE  Atomic!Remove(t)
  BY <1>9, <1>17, Zenon DEF Atomic!Remove, Atomic!Absent
<1> QED
  BY <1>1, <1>10, <1>11, <1>12, <1>13, <1>14, <1>15, <1>16, <1>17, Zenon
     DEF ToolChange, Atomic!Next

\* A stored event of the source is an abstract command on it.
LEMMA SourceStepAtomic ==
  ASSUME IInv, NEW w \in Workers, SourceStep(w), UNCHANGED tool
  PROVE  [Atomic!Next]_<<ToolView, SourceView>>
<1>1. SourceChange
  BY SourceStepIs DEF IInv
<1>2. UNCHANGED ToolView
  BY DEF ToolView
<1>3. source.failures \in Nat
  BY DEF IInv, TypeOK, SourceState
<1>4. ASSUME source'.hash = source.hash, source'.failures = source.failures,
             source'.health = source.health
      PROVE  UNCHANGED SourceView
  BY <1>4 DEF SourceView
<1>5. ASSUME source'.hash = source.hash,
             source'.failures = source.failures + 1,
             source'.health = HealthAfter(source.failures + 1)
      PROVE  Atomic!FailSync
  <2>1. HealthAfter(source.failures + 1) =
          IF source.failures >= 2 THEN "unhealthy" ELSE "degraded"
    BY <1>3 DEF HealthAfter
  <2> QED
    BY <1>2, <1>5, <2>1 DEF Atomic!FailSync, ToolView, SourceView
<1>6. ASSUME NEW inventory \in Inventories, source.hash # inventory,
             source'.hash = inventory, source'.failures = 0,
             source'.health = "healthy"
      PROVE  Atomic!Ingest(inventory)
  BY <1>2, <1>6 DEF Atomic!Ingest, ToolView, SourceView
<1>7. Atomic!Inventories = Inventories
  BY DEF Atomic!Inventories, Inventories
<1> QED
  BY <1>1, <1>2, <1>4, <1>5, <1>6, <1>7, Zenon DEF SourceChange, Atomic!Next

(* Commands whose loads, decisions and appends interleave have the effect  *)
(* of commands run one at a time, for any number of requests and tools.    *)
THEOREM ImplementsAtomicInventory == Spec => RefinesAtomicInventory
<1>1. Init => Atomic!Init
  <2> SUFFICES ASSUME Init PROVE Atomic!Init
    OBVIOUS
  <2>1. ToolView = [t \in Tools |-> Atomic!Absent]
    BY DEF Init, ToolView, AtomicTool, NoTool, Atomic!Absent
  <2>2. SourceView = [hash |-> NoHash, failures |-> 0, health |-> "unknown"]
    BY DEF Init, SourceView, NewSource
  <2> QED
    BY <2>1, <2>2 DEF Atomic!Init, ToolView, SourceView
<1>2. IInv /\ [Next]_vars => [Atomic!Next]_<<ToolView, SourceView>>
  <2> SUFFICES ASSUME IInv, [Next]_vars
               PROVE  [Atomic!Next]_<<ToolView, SourceView>>
    OBVIOUS
  <2>1. CASE UNCHANGED writeVars
    BY <2>1 DEF writeVars, ToolView, SourceView
  <2>2. ASSUME NEW w \in Workers, ToolStep(w)
        PROVE  [Atomic!Next]_<<ToolView, SourceView>>
    <3>1. UNCHANGED source
      BY <2>2 DEF ToolStep, SaveTool, SaveAdmin, SaveDeleted, RemoveStream, Store
    <3> QED
      BY <2>2, <3>1, ToolStepAtomic
  <2>3. ASSUME NEW w \in Workers, SourceStep(w)
        PROVE  [Atomic!Next]_<<ToolView, SourceView>>
    <3>1. UNCHANGED tool
      BY <2>3 DEF SourceStep, MarkSyncStarted, MarkSyncFailed, Ingest, Deregister,
         DropSource, UpdateSource, StoreSource
    <3> QED
      BY <2>3, <3>1, SourceStepAtomic
  <2> QED
    BY <2>1, <2>2, <2>3, WhoWrites DEF vars, writeVars
<1> QED
  BY <1>1, <1>2, CommandsInOrder, PTL
     DEF Spec, RefinesAtomicInventory, Atomic!Spec, ToolView, SourceView

-----------------------------------------------------------------------------
(* What a refresh has gone through. *)

\* Storing anything but a discovered tool redefines no active tool.
LEMMA DefinitionsKept ==
  ASSUME IInv, NEW v \in Workers, ToolStep(v), ~SaveTool(v),
         NEW t \in Tools, tool'[t].status = "active"
  PROVE  tool[t].status = "active" /\ tool'[t].def = tool[t].def
<1>1. /\ cur[v] \in Tools
      /\ \A s \in Tools \ {cur[v]} : tool'[s] = tool[s]
      /\ TypeOK /\ InOrder(v)
  BY ToolStepIs DEF IInv
<1>2. tool[t] \in ToolState /\ tool[t].def \in Defs \cup {None}
  BY <1>1 DEF TypeOK, ToolState
<1>3. SUFFICES ASSUME t = cur[v] PROVE tool[t].status = "active" /\ tool'[t].def = tool[t].def
  BY <1>1
<1>4. CASE SaveAdmin(v)
  <2>1. op[v] \in {"enable", "disable", "describe"}
    BY <1>1, <1>4 DEF SaveAdmin, InOrder, Handling
  <2>2. EventOf(op[v]) \in {"Enabled", "Disabled", "Updated"}
    BY <2>1 DEF EventOf
  <2>3. tool'[t] = Appended(tool[t], EventOf(op[v]), tool[t].def)
    BY <1>1, <1>2, <1>3, <1>4, <2>2, StoreIs DEF SaveAdmin, Kinds
  <2>4. /\ Is(Appended(tool[t], "Enabled", tool[t].def),
              tool[t].status, TRUE, tool[t].def)
        /\ Is(Appended(tool[t], "Disabled", tool[t].def),
              tool[t].status, FALSE, tool[t].def)
        /\ Is(Appended(tool[t], "Updated", tool[t].def),
              tool[t].status, tool[t].enabled, tool[t].def)
    BY <1>2, AppendedIs, Zenon
  <2>5. tool'[t].status = tool[t].status /\ tool'[t].def = tool[t].def
    BY <2>2, <2>3, <2>4, Zenon DEF Is
  <2> QED
    BY <2>5
<1>5. CASE SaveDeleted(v)
  <2>1. tool'[t] = Appended(tool[t], "Deleted", None)
    BY <1>1, <1>3, <1>5, StoreIs DEF SaveDeleted, Kinds
  <2>2. Is(Appended(tool[t], "Deleted", None), "deprecated", FALSE, tool[t].def)
    BY <1>2, AppendedIs, Zenon
  <2>3. Appended(tool[t], "Deleted", None).status = "deprecated"
    BY <2>2 DEF Is
  <2> QED
    BY <2>1, <2>3
<1>6. CASE RemoveStream(v)
  <2>1. tool'[t] = [NoTool EXCEPT !.ver = tool[t].ver + 1,
                                  !.base = tool[t].ver + 1]
    BY <1>1, <1>3, <1>6 DEF RemoveStream, TypeOK
  <2> QED
    BY <2>1 DEF NoTool
<1> QED
  BY <1>4, <1>5, <1>6 DEF ToolStep

\* The steps of a worker into the loop of _sync_tools, or within it.
LEMMA SyncSteps ==
  ASSUME TypeOK, NEW w \in Workers, Request(w) \/ Work(w),
         at'[w] \in {"sync", "save"}
  PROVE  FetchInventory(w) \/ SaveTool(w) \/ \E t \in Tools : SyncTool(w, t)
<1> USE DEF TypeOK
<1>1. ASSUME NEW point, Goto(w, point)
      PROVE  at'[w] = point
  BY <1>1 DEF Goto
<1>2. ~End(w)
  BY <1>1 DEF End
<1>3. ~Request(w)
  <2>1. ~BeginRefresh(w) /\ ~BeginDeleteSource(w) /\ ~BeginCleanup(w)
    BY <1>1 DEF BeginRefresh, BeginDeleteSource, BeginCleanup, Begin
  <2>2. ~UpdateSource(w)
    BY DEF UpdateSource
  <2>3. \A t \in Tools : ~BeginDeleteTool(w, t)
    BY <1>1 DEF BeginDeleteTool, Begin
  <2>4. \A t \in Tools, command \in Commands : ~BeginAdmin(w, command, t)
    BY <1>1 DEF BeginAdmin, Begin
  <2> QED
    BY <2>1, <2>2, <2>3, <2>4 DEF Request
<1>4. ~SaveAdmin(w) /\ ~SaveRaises(w)
  BY <1>2 DEF SaveAdmin, SaveRaises
<1>5. ~DeleteStep(w)
  <2>1. ~QueryTools(w) /\ ~SaveDeleted(w) /\ ~PurgeDto(w) /\ ~SkipVictim(w)
    BY <1>1 DEF QueryTools, SaveDeleted, PurgeDto, SkipVictim
  <2>2. ~RemoveStream(w) /\ ~EndCascade(w)
    BY <1>1, <1>2 DEF RemoveStream, EndCascade
  <2>3. ~Deregister(w) /\ ~DropSource(w) /\ ~PurgeSource(w)
    BY <1>1, <1>2 DEF Deregister, DropSource, PurgeSource
  <2>4. \A t \in Tools : ~NextVictim(w, t)
    BY <1>1 DEF NextVictim
  <2> QED
    BY <2>1, <2>2, <2>3, <2>4 DEF DeleteStep
<1>6. RefreshStep(w)
  BY <1>3, <1>4, <1>5 DEF Work
<1>7. ~MarkSyncStarted(w) /\ ~FetchFails(w)
  BY <1>1 DEF MarkSyncStarted, FetchFails
<1>8. ~MarkSyncFailed(w) /\ ~FetchUnchanged(w) /\ ~Ingest(w) /\ ~IngestUnchanged(w)
  BY <1>2 DEF MarkSyncFailed, FetchUnchanged, Ingest, IngestUnchanged
<1> QED
  BY <1>6, <1>7, <1>8 DEF RefreshStep

\* A worker's own steps: the tool it leaves has the definition it fetched.
LEMMA OwnStepSynced ==
  ASSUME IInv, NEW w \in Workers, NEW t \in Tools, InStep(w, t),
         Request(w) \/ Work(w)
  PROVE  InStep(w, t)'
<1>1. TypeOK /\ InOrder(w)
  BY DEF IInv
<1>2. SUFFICES ASSUME Passed(w, t)', tool'[t].status = "active"
               PROVE  tool'[t].def = spec'[w][t]
  BY DEF InStep
<1>3. FetchInventory(w) \/ SaveTool(w) \/ \E s \in Tools : SyncTool(w, s)
  BY <1>1, <1>2, SyncSteps DEF Passed
<1>4. CASE FetchInventory(w)
  BY <1>1, <1>2, <1>4 DEF FetchInventory, Passed, TypeOK, Offered
<1>5. ASSUME NEW s \in Tools, SyncTool(w, s)
      PROVE  tool'[t].def = spec'[w][t]
  <2>1. /\ at[w] = "sync" /\ spec' = spec /\ tool' = tool /\ cur'[w] = s
        /\ todo'[w] = todo[w] \ {s} /\ s \in todo[w]
        /\ at'[w] = IF NextEvent(tool[s], spec[w][s]) = "none" THEN "sync" ELSE "save"
    BY <1>1, <1>5 DEF SyncTool, Goto, TypeOK, writeVars
  <2>2. CASE t # s
    BY <1>2, <2>1, <2>2 DEF InStep, Passed
  <2>3. CASE t = s
    <3>1. NextEvent(tool[s], spec[w][s]) = "none"
      BY <1>2, <2>1, <2>3 DEF Passed
    <3>2. tool[s] \in ToolState /\ spec[w][s] \in Defs
      BY <1>1, <2>1 DEF TypeOK, InOrder, Decided
    <3> QED
      BY <2>1, <2>3, <3>1, <3>2, NextEventIs
  <2> QED
    BY <2>2, <2>3
<1>6. CASE SaveTool(w)
  <2>1. /\ cur[w] \in Tools
        /\ \A s \in Tools \ {cur[w]} : tool'[s] = tool[s]
    BY <1>1, <1>6, ToolStepIs DEF ToolStep
  <2>2. /\ at[w] = "save" /\ spec' = spec /\ cur' = cur /\ todo' = todo
        /\ at'[w] = IF NextEvent(tool'[cur[w]], spec[w][cur[w]]) = "none"
                    THEN "sync" ELSE "save"
    BY <1>1, <1>6 DEF SaveTool, Goto, TypeOK
  <2>3. CASE t # cur[w]
    BY <1>2, <2>1, <2>2, <2>3 DEF InStep, Passed
  <2>4. CASE t = cur[w]
    <3>1. NextEvent(tool'[t], spec[w][t]) = "none"
      BY <1>2, <2>2, <2>4 DEF Passed
    <3>2. TypeOK'
      BY <1>6, StepTyped DEF IInv, Next, Work, RefreshStep
    <3>3. tool'[t] \in ToolState /\ spec[w][t] \in Defs
      BY <1>1, <2>2, <2>4, <3>2 DEF TypeOK, InOrder, Decided
    <3> QED
      BY <2>2, <3>1, <3>3, NextEventIs
  <2> QED
    BY <2>3, <2>4
<1> QED
  BY <1>3, <1>4, <1>5, <1>6

\* Steps of the others: only a refresh redefines an active tool.
LEMMA OtherStepSynced ==
  ASSUME IInv, NEW w \in Workers, NEW t \in Tools, InStep(w, t), Keeps(w),
         \/ UNCHANGED tool
         \/ \E v \in Workers : ToolStep(v) /\ ~(SaveTool(v) /\ cur[v] = t)
  PROVE  InStep(w, t)'
<1>1. SUFFICES ASSUME Passed(w, t)', tool'[t].status = "active"
               PROVE  tool'[t].def = spec'[w][t]
  BY DEF InStep
<1>2. Passed(w, t) /\ spec'[w] = spec[w]
  BY <1>1 DEF Passed, Keeps
<1>3. CASE UNCHANGED tool
  BY <1>1, <1>2, <1>3 DEF InStep
<1>4. ASSUME NEW v \in Workers, ToolStep(v), ~(SaveTool(v) /\ cur[v] = t)
      PROVE  tool'[t].def = spec'[w][t]
  <2>1. CASE SaveTool(v)
    <3>1. tool'[t] = tool[t]
      BY <1>4, <2>1, ToolStepIs DEF IInv
    <3> QED
      BY <1>1, <1>2, <3>1 DEF InStep
  <2>2. CASE ~SaveTool(v)
    <3>1. tool[t].status = "active" /\ tool'[t].def = tool[t].def
      BY <1>1, <1>4, <2>2, DefinitionsKept
    <3> QED
      BY <1>2, <3>1 DEF InStep
  <2> QED
    BY <2>1, <2>2
<1> QED
  BY <1>3, <1>4

\* What _sync_tools has gone through stays in step with the spec it fetched,
\* until another refresh saves it.
LEMMA StepInStep ==
  ASSUME IInv, [Next]_vars, NEW w \in Workers, NEW t \in Tools, InStep(w, t),
         \A v \in Workers \ {w} : ~(SaveTool(v) /\ cur[v] = t)
  PROVE  InStep(w, t)'
<1>1. TypeOK
  BY DEF IInv
<1>2. ASSUME NEW v \in Workers, Request(v) \/ Work(v)
      PROVE  InStep(w, t)'
  <2>1. CASE v = w
    BY <1>2, <2>1, OwnStepSynced
  <2>2. CASE v # w
    <3>1. Keeps(w)
      BY <1>1, <1>2, <2>2, OthersKeep
    <3>2. UNCHANGED tool \/ ToolStep(v)
      BY <1>2, WorkerWrites
    <3> QED
      BY <2>2, <3>1, <3>2, OtherStepSynced
  <2> QED
    BY <2>1, <2>2
<1>3. ASSUME UNCHANGED <<tool, at, workVars>>
      PROVE  InStep(w, t)'
  BY <1>3 DEF InStep, Passed, workVars
<1>4. ASSUME NEW s \in Tools, NEW d \in Defs \cup {None}, UpstreamChanges(s, d)
      PROVE  InStep(w, t)'
  BY <1>3, <1>4 DEF UpstreamChanges, writeVars
<1>5. Project => InStep(w, t)'
  BY <1>3 DEF Project, writeVars
<1>6. UNCHANGED vars => InStep(w, t)'
  BY <1>3 DEF vars, writeVars
<1> QED
  BY <1>2, <1>4, <1>5, <1>6 DEF Next

(* For any number of refreshes that overlap: an active tool that one has   *)
(* gone through gets another definition than the one it fetched only when  *)
(* another refresh saves it - no admin, deletion or failing save does it.  *)
THEOREM RefreshesOnlyOvertaken == Spec => OutdatedByRefresh
<1> DEFINE ByRefresh ==
      \A w \in Workers, t \in Tools :
        InStep(w, t) /\ ~InStep(w, t)' =>
          \E v \in Workers \ {w} : SaveTool(v) /\ cur[v] = t
<1>1. IInv /\ [Next]_vars => ByRefresh
  BY StepInStep
<1> HIDE DEF ByRefresh
<1>2. Spec => [][ByRefresh]_vars
  BY <1>1, CommandsInOrder, PTL DEF Spec
<1> QED
  BY <1>2 DEF OutdatedByRefresh, ByRefresh

\* With one refresh at a time there is no other refresh.
LEMMA StepSynced ==
  ASSUME IInv, SyncedSoFar, [Next]_vars
  PROVE  SyncedSoFar'
<1>1. SUFFICES ASSUME OneRefresher, NEW w \in Workers, NEW t \in Tools
               PROVE  InStep(w, t)'
  BY DEF SyncedSoFar, OneRefresher
<1>2. InStep(w, t)
  BY <1>1 DEF SyncedSoFar
<1>3. CASE Passed(w, t)
  <2>1. ASSUME NEW v \in Workers \ {w}
        PROVE  ~SaveTool(v)
    BY <1>1, <1>3, <2>1
       DEF SaveTool, Passed, IInv, InOrder, Handling, RefreshPoints, OneRefresher
  <2> QED
    BY <1>2, <2>1, StepInStep
<1>4. CASE ~Passed(w, t)
  <2>1. CASE \E v \in Workers \ {w} : SaveTool(v) /\ cur[v] = t
    <3>1. PICK v \in Workers \ {w} : SaveTool(v)
      BY <2>1
    <3>2. Keeps(w)
      BY <3>1, OthersKeep DEF IInv, Work, RefreshStep
    <3> QED
      BY <1>4, <3>2 DEF Keeps, Passed, InStep
  <2>2. CASE ~\E v \in Workers \ {w} : SaveTool(v) /\ cur[v] = t
    BY <1>2, <2>2, StepInStep
  <2> QED
    BY <2>1, <2>2
<1> QED
  BY <1>3, <1>4

(* With one refresh at a time, every active tool it has gone through has   *)
(* the definition it fetched, whatever the other requests do meanwhile.    *)
THEOREM SyncKept == Spec => []SyncedSoFar
<1>1. Init => SyncedSoFar
  BY DEF Init, SyncedSoFar, InStep, Passed
<1>2. IInv /\ SyncedSoFar /\ [Next]_vars => SyncedSoFar'
  BY StepSynced
<1> QED
  BY <1>1, <1>2, CommandsInOrder, PTL DEF Spec

(* With one refresh at a time, which the code does not ensure, the stored  *)
(* hash never claims an inventory that has not reached the tools: what     *)
(* makes it safe to skip the refresh of an unchanged inventory.            *)
THEOREM HashReachedTools == Spec => IngestReachedTools
<1> DEFINE Reached ==
      \A w \in Workers : OneRefresher /\ Ingest(w) =>
        \A t \in Tools : tool[t].status = "active" /\ spec[w][t] # None =>
                           tool[t].def = spec[w][t]
<1>1. SyncedSoFar => Reached
  BY DEF SyncedSoFar, InStep, Passed, Ingest
<1> HIDE DEF Reached
<1>2. Spec => [][Reached]_vars
  BY <1>1, SyncKept, PTL
<1> QED
  BY <1>2 DEF IngestReachedTools, Reached

-----------------------------------------------------------------------------
(* The read model follows the event log.                                    *)

\* the DTO of tool t after event e
Seen(dto, e, t) == IF e.tool = t THEN Projected(dto, e) ELSE dto

\* f is the DTO of tool t before, between and after the events of the log
Replays(f, t) ==
  /\ f \in [0 .. Len(log) -> Dto]
  /\ f[0] = readTool[t]
  /\ \A i \in 1 .. Len(log) : f[i] = Seen(f[i - 1], log[i], t)

\* a DTO shows the tool; deprecating a tool is not projected
Shows(dto, s) ==
  /\ dto.present <=> Exists(s)
  /\ Exists(s) => dto.def = s.def
  /\ s.status = "active" => dto.enabled = s.enabled

(* When the log has been projected, the DTO of a tool whose stream was     *)
(* never removed shows the tool, and it is not there before the tool is.   *)
Follows(t) ==
  tool[t].base = 0 =>
    \E f \in [0 .. Len(log) -> Dto] :
      /\ Replays(f, t)
      /\ Shows(f[Len(log)], tool[t])
      /\ \A i \in 0 .. Len(log) : f[i].present => Exists(tool[t])

\* A DTO is removed after the stream of its tool.
Removed(w) == at[w] = "purge" => tool[cur[w]].base > 0

\* The tools still to delete exist, or are already removed.
Victims(w) ==
  at[w] \in {"next", "delete", "remove", "purge"} /\ op[w] # "tool" =>
    \A t \in todo[w] : Exists(tool[t]) \/ tool[t].base > 0

ReadIInv ==
  /\ \A t \in Tools : Follows(t)
  /\ \A i \in 1 .. Len(log) : log[i].ver >= 1
  /\ \A w \in Workers : Removed(w) /\ Victims(w)

\* An event keeps the version at which the stream was last removed.
LEMMA AppendedBase ==
  ASSUME NEW s \in ToolState, NEW kind \in Kinds, NEW d \in Defs \cup {None}
  PROVE  Appended(s, kind, d).base = s.base
<1>1. Apply(s, kind, d).base = s.base
  BY DEF Apply, ToolState, Kinds
<1>2. Apply(s, kind, d) = [Apply(s, kind, d) EXCEPT !.base = s.base]
  BY <1>1 DEF Apply, ToolState, Kinds
<1> QED
  BY <1>1 DEF Appended

(* The projection of an event that a command has just stored shows the     *)
(* tool that the event has made.                                           *)
LEMMA ProjectionShows ==
  ASSUME NEW s \in ToolState, NEW dto \in Dto, Shows(dto, s),
         NEW kind \in Kinds \ {"Deleted"}, NEW d \in Defs \cup {None},
         NEW e, e.kind = kind, e.def = d,
         kind = "Discovered" <=> ~Exists(s),
         kind = "Enabled" => s.status = "active"
  PROVE  /\ Shows(Projected(dto, e), Appended(s, kind, d))
         /\ Exists(Appended(s, kind, d))
<1> DEFINE r == Appended(s, kind, d)
<1>1. dto.present <=> kind # "Discovered"
  BY DEF Shows, Dto
<1>2. CASE kind = "Discovered"
  <2>1. Is(r, "active", TRUE, d)
    BY <1>2, AppendedIs, Zenon
  <2>2. Projected(dto, e) = NewDto(d)
    BY <1>1, <1>2 DEF Projected
  <2>3. r.status = "active" /\ r.enabled /\ r.def = d
    BY <2>1 DEF Is
  <2> HIDE DEF r
  <2>4. Shows(NewDto(d), r) /\ Exists(r)
    BY <2>3 DEF Shows, NewDto, Exists
  <2> QED
    BY <2>2, <2>4, <1>2 DEF r
<1>3. CASE kind = "Restored"
  <2>1. Is(r, "active", TRUE, d)
    BY <1>3, AppendedIs, Zenon
  <2>2. Projected(dto, e) = [Redefined(dto, d) EXCEPT !.enabled = TRUE]
    BY <1>1, <1>3 DEF Projected
  <2> QED
    BY <1>1, <1>3, <2>1, <2>2 DEF Shows, Is, Redefined, Exists, Dto
<1>4. CASE kind = "Enabled"
  <2>1. Is(r, s.status, TRUE, s.def)
    BY <1>4, AppendedIs, Zenon
  <2>2. Projected(dto, e) = [dto EXCEPT !.enabled = TRUE]
    BY <1>1, <1>4 DEF Projected
  <2> QED
    BY <1>4, <2>1, <2>2 DEF Shows, Is, Exists, Dto
<1>5. CASE kind = "Disabled"
  <2>1. Is(r, s.status, FALSE, s.def)
    BY <1>5, AppendedIs, Zenon
  <2>2. Projected(dto, e) = [dto EXCEPT !.enabled = FALSE]
    BY <1>1, <1>5 DEF Projected
  <2> QED
    BY <1>5, <2>1, <2>2 DEF Shows, Is, Exists, Dto
<1>6. CASE kind = "Updated"
  <2>1. Is(r, s.status, s.enabled, s.def)
    BY <1>6, AppendedIs, Zenon
  <2>2. Projected(dto, e) = [dto EXCEPT !.own = TRUE]
    BY <1>1, <1>6 DEF Projected
  <2> QED
    BY <1>6, <2>1, <2>2 DEF Shows, Is, Exists, Dto
<1>7. CASE kind = "DefinitionUpdated"
  <2>1. Is(r, s.status, s.enabled, d)
    BY <1>7, AppendedIs, Zenon
  <2>2. Projected(dto, e) = Redefined(dto, d)
    BY <1>1, <1>7 DEF Projected
  <2> QED
    BY <1>1, <1>7, <2>1, <2>2 DEF Shows, Is, Redefined, Exists, Dto
<1> QED
  BY <1>2, <1>3, <1>4, <1>5, <1>6, <1>7 DEF Kinds


\* an event that a command may store for tool t
Legal(t, kind) ==
  /\ kind \in Kinds
  /\ kind = "Discovered" <=> ~Exists(tool[t])
  /\ kind = "Enabled" => tool[t].status = "active"

\* What a command stores is an event that its tool may have.
LEMMA StoresLegal ==
  ASSUME TypeOK, NEW w \in Workers, InOrder(w),
         SaveTool(w) \/ SaveAdmin(w) \/ SaveDeleted(w)
  PROVE  /\ cur[w] \in Tools
         /\ \E kind \in Kinds, d \in Defs \cup {None} :
              Legal(cur[w], kind) /\ Store(cur[w], kind, d)
<1> DEFINE t == cur[w]
           d == spec[w][t]
<1>1. t \in Tools
  BY DEF SaveTool, SaveAdmin, SaveDeleted, InOrder, ToolCopy
<1>2. tool[t] \in ToolState /\ tool[t].def \in Defs \cup {None}
  BY <1>1 DEF TypeOK, ToolState
<1>3. CASE SaveTool(w)
  <2>1. held[w] = tool[t] /\ d \in Defs
    BY <1>3 DEF SaveTool, InOrder, ToolCopy, Decided
  <2>2. Store(t, NextEvent(tool[t], d), d)
    BY <1>3, <2>1 DEF SaveTool
  <2>3. NextEvent(tool[t], d) # "none"
    BY <1>3, <2>1 DEF SaveTool, InOrder, Decided
  <2> HIDE DEF d
  <2>4. Legal(t, NextEvent(tool[t], d))
    BY <1>2, <2>1, <2>3, NextEventIs DEF Legal, Kinds, Exists
  <2> QED
    BY <1>1, <2>1, <2>2, <2>4 DEF Legal
<1>4. CASE SaveAdmin(w)
  <2>1. /\ op[w] \in {"enable", "disable", "describe"}
        /\ Accepts(op[w], tool[t])
    BY <1>4 DEF SaveAdmin, InOrder, ToolCopy, Handling, Decided
  <2>2. Legal(t, EventOf(op[w]))
    BY <2>1 DEF EventOf, Legal, Kinds, Accepts, Exists
  <2>3. Store(t, EventOf(op[w]), tool[t].def)
    BY <1>4 DEF SaveAdmin
  <2> QED
    BY <1>1, <1>2, <2>2, <2>3 DEF Legal
<1>5. CASE SaveDeleted(w)
  <2>1. Legal(t, "Deleted")
    BY <1>5 DEF SaveDeleted, InOrder, ToolCopy, Decided, Legal, Kinds
  <2>2. Store(t, "Deleted", None)
    BY <1>5 DEF SaveDeleted
  <2> QED
    BY <1>1, <2>1, <2>2 DEF Legal
<1> QED
  BY <1>3, <1>4, <1>5

\* Storing an event neither removes a stream nor a tool.
LEMMA StoreKeeps ==
  ASSUME TypeOK, NEW u \in Tools, NEW kind \in Kinds, NEW d \in Defs \cup {None},
         Legal(u, kind), Store(u, kind, d), NEW t \in Tools
  PROVE  /\ tool'[t].base = tool[t].base
         /\ Exists(tool[t]) => Exists(tool'[t])
<1>1. CASE t # u
  BY <1>1, StoreIs
<1>2. CASE t = u
  <2>1. tool'[u] = Appended(tool[u], kind, d) /\ tool[u] \in ToolState
    BY StoreIs DEF TypeOK
  <2>2. tool'[t].base = tool[t].base
    BY <1>2, <2>1, AppendedBase
  <2> DEFINE r(k) == Appended(tool[u], k, d)
  <2>3. /\ Is(r("Discovered"), "active", TRUE, d)
        /\ Is(r("Restored"), "active", TRUE, d)
        /\ Is(r("Enabled"), tool[u].status, TRUE, tool[u].def)
        /\ Is(r("Disabled"), tool[u].status, FALSE, tool[u].def)
        /\ Is(r("Updated"), tool[u].status, tool[u].enabled, tool[u].def)
        /\ Is(r("DefinitionUpdated"), tool[u].status, tool[u].enabled, d)
        /\ Is(r("Deleted"), "deprecated", FALSE, tool[u].def)
    BY <2>1, AppendedIs, Zenon
  <2> HIDE DEF r
  <2>4. r(kind).status \in {"active", "deprecated", tool[u].status}
    BY <2>3 DEF Is, Kinds
  <2>5. tool'[u].status \in {"active", "deprecated", tool[u].status}
    BY <2>1, <2>4 DEF r
  <2> QED
    BY <1>2, <2>2, <2>5 DEF Exists
<1> QED
  BY <1>1, <1>2

(* A stored event is replayed last, and the DTO it leaves shows the tool;  *)
(* Deleted is not projected, and a deprecated tool keeps its definition.   *)
LEMMA StoreFollows ==
  ASSUME TypeOK, TypeOK', NEW u \in Tools, NEW kind \in Kinds,
         NEW d \in Defs \cup {None}, Legal(u, kind), Store(u, kind, d),
         NEW t \in Tools, Follows(t)
  PROVE  Follows(t)'
<1> SUFFICES ASSUME tool'[t].base = 0
             PROVE  \E f \in [0 .. Len(log') -> Dto] :
                      /\ Replays(f, t)'
                      /\ Shows(f[Len(log')], tool'[t])
                      /\ \A i \in 0 .. Len(log') : f[i].present => Exists(tool'[t])
  BY DEF Follows
<1>1. tool[t].base = 0 /\ (Exists(tool[t]) => Exists(tool'[t]))
  BY StoreKeeps
<1>2. PICK f \in [0 .. Len(log) -> Dto] :
        /\ Replays(f, t)
        /\ Shows(f[Len(log)], tool[t])
        /\ \A i \in 0 .. Len(log) : f[i].present => Exists(tool[t])
  BY <1>1 DEF Follows
<1>3. /\ tool'[u] = Appended(tool[u], kind, d) /\ tool[u] \in ToolState
      /\ \A s \in Tools \ {u} : tool'[s] = tool[s]
      /\ tool'[u].ver = tool[u].ver + 1
  BY StoreIs DEF TypeOK
<1>4. Len(log) \in Nat /\ readTool' = readTool
  BY DEF TypeOK, Store
<1>5. CASE kind = "Deleted"
  <2>1. log' = log
    BY <1>5 DEF Store
  <2>2. Shows(f[Len(log)], tool'[t])
    <3>1. CASE t # u
      BY <1>2, <1>3, <3>1
    <3>2. CASE t = u
      <4>1. Is(tool'[u], "deprecated", FALSE, tool[u].def)
        BY <1>3, <1>5, AppendedIs, Zenon
      <4>2. Exists(tool[u]) /\ Exists(tool'[u])
        BY <1>5, <4>1 DEF Legal, Exists, Is
      <4> QED
        BY <1>2, <3>2, <4>1, <4>2 DEF Shows, Is
    <3> QED
      BY <3>1, <3>2
  <2>3. Replays(f, t)'
    BY <1>2, <1>4, <2>1 DEF Replays
  <2> QED
    BY <1>1, <1>2, <2>1, <2>2, <2>3
<1>6. CASE kind # "Deleted"
  <2>e. PICK e : e = [kind |-> kind, tool |-> u, def |-> d,
                      ver |-> tool[u].ver + 1]
    OBVIOUS
  <2>n. PICK n \in Nat : n = Len(log)
    BY <1>4
  <2> DEFINE g == [i \in 0 .. n + 1 |->
                     IF i <= n THEN f[i] ELSE Seen(f[n], e, t)]
  <2>1. log' = Append(log, e) /\ e \in Event
    BY <1>3, <1>6, <2>e DEF Store, Event, ToolState
  <2>2. /\ Len(log') = n + 1 /\ log'[n + 1] = e
        /\ \A i \in 1 .. n : log'[i] = log[i]
    BY <2>1, <2>n DEF TypeOK
  <2>3. f[n] \in Dto
    BY <2>n
  <2>4. Seen(f[n], e, t) \in Dto
    BY <2>1, <2>3, ProjectedTyped DEF Seen
  <2>5. g \in [0 .. n + 1 -> Dto]
    BY <2>4, <2>n
  <2>6. g[n + 1] = Seen(f[n], e, t) /\ \A i \in 0 .. n : g[i] = f[i]
    OBVIOUS
  <2>7. /\ Shows(Seen(f[n], e, t), tool'[t])
        /\ Seen(f[n], e, t).present => Exists(tool'[t])
    <3>1. CASE t # u
      BY <1>2, <1>3, <2>e, <2>n, <3>1 DEF Seen
    <3>2. CASE t = u
      <4>1. e.kind = kind /\ e.def = d /\ e.tool = u
        BY <2>e
      <4>2. /\ kind = "Discovered" <=> ~Exists(tool[u])
            /\ kind = "Enabled" => tool[u].status = "active"
            /\ kind \in Kinds \ {"Deleted"}
        BY <1>6 DEF Legal
      <4>3. Shows(f[n], tool[u])
        BY <1>2, <2>n, <3>2
      <4>4. /\ Shows(Projected(f[n], e), Appended(tool[u], kind, d))
            /\ Exists(Appended(tool[u], kind, d))
        BY <1>3, <2>3, <4>1, <4>2, <4>3, ProjectionShows
      <4> QED
        BY <1>3, <3>2, <4>1, <4>4 DEF Seen
    <3> QED
      BY <3>1, <3>2
  <2> HIDE DEF g
  <2>8. Replays(g, t)'
    <3>1. g[0] = readTool'[t]
      BY <1>2, <1>4, <2>6, <2>n DEF Replays
    <3>2. ASSUME NEW i \in 1 .. n + 1
          PROVE  g[i] = Seen(g[i - 1], log'[i], t)
      <4>1. CASE i = n + 1
        BY <2>2, <2>6, <2>n, <4>1
      <4>2. CASE i \in 1 .. n
        BY <1>2, <2>2, <2>6, <2>n, <4>2 DEF Replays
      <4> QED
        BY <2>n, <4>1, <4>2
    <3> QED
      BY <2>2, <2>5, <3>1, <3>2 DEF Replays
  <2>9. ASSUME NEW i \in 0 .. n + 1, g[i].present
        PROVE  Exists(tool'[t])
    <3>1. CASE i = n + 1
      BY <2>6, <2>7, <2>9, <3>1
    <3>2. CASE i \in 0 .. n
      BY <1>1, <1>2, <2>6, <2>9, <2>n, <3>2
    <3> QED
      BY <2>n, <3>1, <3>2
  <2> QED
    BY <2>2, <2>5, <2>6, <2>7, <2>8, <2>9
<1> QED
  BY <1>5, <1>6

(* Projecting an event is the first step of the replay; an event of a tool *)
(* whose stream was never removed is never lost.                           *)
LEMMA ProjectFollows ==
  ASSUME TypeOK, TypeOK', Project, NEW t \in Tools, Follows(t),
         \A i \in 1 .. Len(log) : log[i].ver >= 1
  PROVE  Follows(t)'
<1> SUFFICES ASSUME tool[t].base = 0
             PROVE  \E f \in [0 .. Len(log') -> Dto] :
                      /\ Replays(f, t)'
                      /\ Shows(f[Len(log')], tool[t])
                      /\ \A i \in 0 .. Len(log') : f[i].present => Exists(tool[t])
  BY DEF Follows, Project, writeVars
<1>1. PICK f \in [0 .. Len(log) -> Dto] :
        /\ Replays(f, t)
        /\ Shows(f[Len(log)], tool[t])
        /\ \A i \in 0 .. Len(log) : f[i].present => Exists(tool[t])
  BY DEF Follows
<1>n. PICK n \in Nat : Len(log) = n + 1
  <2>1. Len(log) \in Nat /\ Len(log) # 0
    BY DEF Project, TypeOK
  <2>2. Len(log) - 1 \in Nat /\ Len(log) = (Len(log) - 1) + 1
    BY <2>1
  <2> QED
    BY <2>2
<1> DEFINE e == Head(log)
           g == [i \in 0 .. n |-> f[i + 1]]
<1>2. /\ Len(log') = n
      /\ \A i \in 1 .. n : log'[i] = log[i + 1]
      /\ e = log[1] /\ e \in Event
  BY <1>n DEF Project, TypeOK
<1>3. readTool'[t] = f[1]
  <2>1. e.tool \in Tools /\ e.ver \in Nat /\ e.ver >= 1
    <3>1. 1 \in 1 .. Len(log)
      BY <1>n
    <3>2. e.ver >= 1
      BY <1>2, <3>1
    <3> HIDE DEF e
    <3> QED
      BY <1>2, <3>2 DEF Event
  <2>2. f[1] = Seen(readTool[t], e, t)
    BY <1>1, <1>2, <1>n DEF Replays
  <2>3. \/ readTool' = [readTool EXCEPT ![e.tool] = Projected(@, e)]
        \/ e.ver <= tool[e.tool].base /\ readTool' = readTool
    BY DEF Project
  <2> HIDE DEF e
  <2>4. CASE e.tool # t
    BY <2>1, <2>2, <2>3, <2>4 DEF Seen, TypeOK
  <2>5. CASE e.tool = t
    BY <2>1, <2>2, <2>3, <2>5 DEF Seen, TypeOK
  <2> QED
    BY <2>4, <2>5
<1>4. g \in [0 .. n -> Dto] /\ \A i \in 0 .. n : g[i] = f[i + 1]
  BY <1>n
<1> HIDE DEF g
<1>5. Replays(g, t)'
  <2>1. ASSUME NEW i \in 1 .. n
        PROVE  g[i] = Seen(g[i - 1], log'[i], t)
    <3>1. /\ i + 1 \in 1 .. Len(log) /\ (i - 1) + 1 = i /\ (i + 1) - 1 = i
          /\ i - 1 \in 0 .. n /\ i \in 0 .. n
      BY <1>n
    <3>2. f[i + 1] = Seen(f[(i + 1) - 1], log[i + 1], t)
      BY <1>1, <3>1 DEF Replays
    <3> QED
      BY <1>2, <1>4, <3>1, <3>2
  <2>2. g[0] = f[1]
    BY <1>4, <1>n
  <2> QED
    BY <1>2, <1>3, <1>4, <2>1, <2>2 DEF Replays
<1> QED
  BY <1>1, <1>2, <1>4, <1>5, <1>n

\* What a step does to the tools, the log and the DTOs.
ReadStep(w) ==
  SaveTool(w) \/ SaveAdmin(w) \/ SaveDeleted(w) \/ RemoveStream(w) \/ PurgeDto(w)

LEMMA WhoReads ==
  ASSUME Next
  PROVE  \/ UNCHANGED <<tool, log, readTool>>
         \/ \E w \in Workers : ReadStep(w)
         \/ Project
<1>1. ASSUME NEW w \in Workers, Request(w)
      PROVE  UNCHANGED <<tool, log, readTool>>
  BY <1>1 DEF Request, BeginRefresh, UpdateSource, BeginDeleteSource,
     BeginCleanup, BeginDeleteTool, BeginAdmin, Begin, StoreSource, writeVars,
     readVars
<1>2. ASSUME NEW w \in Workers, RefreshStep(w)
      PROVE  UNCHANGED <<tool, log, readTool>> \/ SaveTool(w)
  BY <1>2 DEF RefreshStep, MarkSyncStarted, FetchFails, MarkSyncFailed,
     FetchUnchanged, FetchInventory, Ingest, IngestUnchanged, SyncTool,
     StoreSource, writeVars, readVars
<1>3. ASSUME NEW w \in Workers, DeleteStep(w)
      PROVE  UNCHANGED <<tool, log, readTool>> \/ ReadStep(w)
  BY <1>3 DEF DeleteStep, QueryTools, SkipVictim, EndCascade, Deregister,
     DropSource, PurgeSource, NextVictim, StoreSource, writeVars, readVars,
     ReadStep
<1>4. ASSUME NEW w \in Workers, SaveRaises(w)
      PROVE  UNCHANGED <<tool, log, readTool>>
  BY <1>4 DEF SaveRaises, writeVars, readVars
<1>5. ASSUME NEW t \in Tools, NEW d \in Defs \cup {None}, UpstreamChanges(t, d)
      PROVE  UNCHANGED <<tool, log, readTool>>
  BY <1>5 DEF UpstreamChanges, writeVars, readVars
<1> QED
  BY <1>1, <1>2, <1>3, <1>4, <1>5 DEF Next, Work, ReadStep

(* A stream that is gone has a base, for good: only its removal makes a    *)
(* tool disappear, and no step takes the base away.                        *)
LEMMA GoneForGood ==
  ASSUME TypeOK, \A w \in Workers : InOrder(w), Next, NEW t \in Tools
  PROVE  /\ tool[t].base > 0 => tool'[t].base > 0
         /\ Exists(tool[t]) => Exists(tool'[t]) \/ tool'[t].base > 0
<1>1. ASSUME NEW w \in Workers, SaveTool(w) \/ SaveAdmin(w) \/ SaveDeleted(w)
      PROVE  /\ tool'[t].base = tool[t].base
             /\ Exists(tool[t]) => Exists(tool'[t])
  <2>1. PICK kind \in Kinds, d \in Defs \cup {None} :
          Legal(cur[w], kind) /\ Store(cur[w], kind, d)
    BY <1>1, StoresLegal
  <2> QED
    BY <1>1, <2>1, StoresLegal, StoreKeeps
<1>2. ASSUME NEW w \in Workers, RemoveStream(w)
      PROVE  tool'[t] = tool[t] \/ tool'[t].base > 0
  <2>1. cur[w] \in Tools /\ tool[cur[w]].ver \in Nat
    BY <1>2 DEF RemoveStream, InOrder, ToolCopy, TypeOK, ToolState
  <2>2. tool' = [tool EXCEPT ![cur[w]] =
                   [NoTool EXCEPT !.ver = tool[cur[w]].ver + 1,
                                  !.base = tool[cur[w]].ver + 1]]
    BY <1>2 DEF RemoveStream
  <2>3. CASE t = cur[w]
    BY <2>1, <2>2, <2>3 DEF NoTool, TypeOK
  <2>4. CASE t # cur[w]
    BY <2>2, <2>4 DEF TypeOK
  <2> QED
    BY <2>3, <2>4
<1>3. ASSUME NEW w \in Workers, ToolStep(w)
      PROVE  /\ tool[t].base > 0 => tool'[t].base > 0
             /\ Exists(tool[t]) => Exists(tool'[t]) \/ tool'[t].base > 0
  BY <1>1, <1>2, <1>3 DEF ToolStep
<1> QED
  BY <1>3, WhoWrites

LEMMA StepFollows ==
  ASSUME IInv, TypeOK', ReadIInv, Next, NEW t \in Tools
  PROVE  Follows(t)'
<1> USE DEF IInv
<1>1. CASE UNCHANGED <<tool, log, readTool>>
  BY <1>1 DEF ReadIInv, Follows, Replays
<1>2. ASSUME NEW w \in Workers, SaveTool(w) \/ SaveAdmin(w) \/ SaveDeleted(w)
      PROVE  Follows(t)'
  <2>1. PICK kind \in Kinds, d \in Defs \cup {None} :
          Legal(cur[w], kind) /\ Store(cur[w], kind, d)
    BY <1>2, StoresLegal
  <2> QED
    BY <1>2, <2>1, StoresLegal, StoreFollows DEF ReadIInv
<1>3. ASSUME NEW w \in Workers, RemoveStream(w)
      PROVE  Follows(t)'
  <2>1. cur[w] \in Tools /\ tool[cur[w]].ver \in Nat
    BY <1>3 DEF RemoveStream, InOrder, ToolCopy, TypeOK, ToolState
  <2>2. /\ tool' = [tool EXCEPT ![cur[w]] =
                   [NoTool EXCEPT !.ver = tool[cur[w]].ver + 1,
                                  !.base = tool[cur[w]].ver + 1]]
        /\ log' = log /\ readTool' = readTool
    BY <1>3 DEF RemoveStream, readVars
  <2>3. CASE t = cur[w]
    <3>1. tool'[t].base # 0
      BY <2>1, <2>2, <2>3 DEF NoTool, TypeOK
    <3> QED
      BY <3>1 DEF Follows
  <2>4. CASE t # cur[w]
    <3>1. tool'[t] = tool[t]
      BY <2>2, <2>4 DEF TypeOK
    <3> QED
      BY <2>2, <3>1 DEF ReadIInv, Follows, Replays
  <2> QED
    BY <2>3, <2>4
<1>4. ASSUME NEW w \in Workers, PurgeDto(w)
      PROVE  Follows(t)'
  <2>1. /\ readTool' = [readTool EXCEPT ![cur[w]] = NoDto]
        /\ tool' = tool /\ log' = log
    BY <1>4 DEF PurgeDto, writeVars
  <2>2. tool[cur[w]].base > 0
    BY <1>4 DEF PurgeDto, ReadIInv, Removed
  <2>3. CASE t = cur[w]
    BY <2>1, <2>2, <2>3 DEF Follows
  <2>4. CASE t # cur[w]
    <3>1. readTool'[t] = readTool[t]
      BY <2>1, <2>4 DEF TypeOK
    <3> QED
      BY <2>1, <3>1 DEF ReadIInv, Follows, Replays
  <2> QED
    BY <2>3, <2>4
<1>5. CASE Project
  BY <1>5, ProjectFollows DEF ReadIInv
<1> QED
  BY <1>1, <1>2, <1>3, <1>4, <1>5, WhoReads DEF ReadStep

\* Every event has a version of its own stream.
LEMMA StepVersions ==
  ASSUME IInv, \A i \in 1 .. Len(log) : log[i].ver >= 1, Next
  PROVE  \A i \in 1 .. Len(log') : log'[i].ver >= 1
<1> USE DEF IInv
<1>1. ASSUME NEW w \in Workers, SaveTool(w) \/ SaveAdmin(w) \/ SaveDeleted(w)
      PROVE  \A i \in 1 .. Len(log') : log'[i].ver >= 1
  <2>1. PICK kind \in Kinds, d \in Defs \cup {None} : Store(cur[w], kind, d)
    BY <1>1, StoresLegal
  <2>2. tool[cur[w]].ver \in Nat
    BY <1>1, StoresLegal DEF TypeOK, ToolState
  <2>3. \/ log' = log
        \/ \E e : e.ver >= 1 /\ log' = Append(log, e)
    BY <2>1, <2>2 DEF Store
  <2>4. ASSUME NEW e, e.ver >= 1, log' = Append(log, e), NEW i \in 1 .. Len(log')
        PROVE  log'[i].ver >= 1
    <3>1. log \in Seq(Event) /\ Len(log) \in Nat
      BY DEF TypeOK
    <3>2. Len(log') = Len(log) + 1 /\ log'[Len(log) + 1] = e
      BY <2>4, <3>1, AppendProperties
    <3>3. \A j \in 1 .. Len(log) : log'[j] = log[j]
      BY <2>4, <3>1, AppendProperties
    <3>4. i \in 1 .. Len(log) \/ i = Len(log) + 1
      BY <3>1, <3>2
    <3> QED
      BY <2>4, <3>2, <3>3, <3>4
  <2> QED
    BY <2>3, <2>4
<1>2. CASE Project
  BY <1>2 DEF Project, TypeOK
<1>3. ASSUME NEW w \in Workers, RemoveStream(w) \/ PurgeDto(w)
      PROVE  log' = log
  BY <1>3 DEF RemoveStream, PurgeDto, readVars
<1> QED
  BY <1>1, <1>2, <1>3, WhoReads DEF ReadStep

\* the awaits between which a cascade goes through its tools
Cascading == {"next", "delete", "remove", "purge"}

\* The steps that leave a worker in a cascade.
CascadeStep(w) ==
  \/ QueryTools(w) \/ SaveDeleted(w) \/ RemoveStream(w) \/ PurgeDto(w)
  \/ SkipVictim(w) \/ \E t \in Tools : NextVictim(w, t)
  \/ \E t \in Tools : BeginDeleteTool(w, t)

LEMMA CascadeSteps ==
  ASSUME TypeOK, NEW w \in Workers, Request(w) \/ Work(w), at'[w] \in Cascading
  PROVE  CascadeStep(w)
<1> USE DEF TypeOK, Cascading
<1>1. ASSUME NEW point, Goto(w, point)
      PROVE  at'[w] = point
  BY <1>1 DEF Goto
<1>2. ~End(w)
  BY <1>1 DEF End
<1>3. CASE Request(w)
  <2>1. ~BeginRefresh(w) /\ ~BeginDeleteSource(w) /\ ~BeginCleanup(w)
    BY <1>1 DEF BeginRefresh, BeginDeleteSource, BeginCleanup, Begin
  <2>2. ~UpdateSource(w)
    BY DEF UpdateSource
  <2>3. ASSUME NEW t \in Tools, NEW command \in Commands
        PROVE  ~BeginAdmin(w, command, t)
    BY <1>1 DEF BeginAdmin, Begin
  <2> QED
    BY <1>3, <2>1, <2>2, <2>3 DEF Request, CascadeStep
<1>4. ~RefreshStep(w)
  <2>1. ~MarkSyncStarted(w) /\ ~FetchFails(w) /\ ~FetchInventory(w)
    BY <1>1 DEF MarkSyncStarted, FetchFails, FetchInventory
  <2>2. ~MarkSyncFailed(w) /\ ~FetchUnchanged(w) /\ ~Ingest(w) /\ ~IngestUnchanged(w)
    BY <1>2 DEF MarkSyncFailed, FetchUnchanged, Ingest, IngestUnchanged
  <2>3. ~SaveTool(w)
    BY <1>1 DEF SaveTool
  <2>4. ASSUME NEW t \in Tools
        PROVE  ~SyncTool(w, t)
    BY <1>1 DEF SyncTool
  <2> QED
    BY <2>1, <2>2, <2>3, <2>4 DEF RefreshStep
<1>5. ~SaveAdmin(w) /\ ~SaveRaises(w)
  BY <1>2 DEF SaveAdmin, SaveRaises
<1>6. CASE DeleteStep(w)
  <2>1. ~EndCascade(w)
    BY <1>1, <1>2 DEF EndCascade
  <2>2. ~Deregister(w) /\ ~DropSource(w) /\ ~PurgeSource(w)
    BY <1>1, <1>2 DEF Deregister, DropSource, PurgeSource
  <2> QED
    BY <1>6, <2>1, <2>2 DEF DeleteStep, CascadeStep
<1> QED
  BY <1>3, <1>4, <1>5, <1>6 DEF Work

(* The tools a cascade goes through are those of the read model, and none  *)
(* of them is there before the tool itself: what the write model does not  *)
(* have any more has been removed.                                         *)
LEMMA StepVictims ==
  ASSUME IInv, IInv', ReadIInv, Next, NEW v \in Workers
  PROVE  Removed(v)' /\ Victims(v)'
<1> USE DEF IInv, Cascading
<1>1. ASSUME NEW t \in Tools
      PROVE  /\ tool[t].base > 0 => tool'[t].base > 0
             /\ Exists(tool[t]) => Exists(tool'[t]) \/ tool'[t].base > 0
  BY GoneForGood
<1>2. ASSUME NEW t \in Tools, Exists(tool[t]) \/ tool[t].base > 0
      PROVE  Exists(tool'[t]) \/ tool'[t].base > 0
  BY <1>1, <1>2
<1>3. Removed(v) /\ Victims(v) /\ todo[v] \subseteq Tools
  BY DEF ReadIInv, TypeOK
<1>4. CASE Keeps(v)
  <2>1. at[v] = "purge" => cur[v] \in Tools
    BY DEF InOrder, ToolCopy
  <2>2. Removed(v)'
    BY <1>1, <1>3, <1>4, <2>1 DEF Removed, Keeps
  <2>3. Victims(v)'
    BY <1>2, <1>3, <1>4 DEF Victims, Keeps
  <2> QED
    BY <2>2, <2>3
<1>5. CASE at'[v] \notin Cascading
  BY <1>5 DEF Removed, Victims
<1>6. CASE CascadeStep(v)
  <2>a. ASSUME NEW point, Goto(v, point)
        PROVE  at'[v] = point
    BY <2>a DEF Goto, TypeOK
  <2>b. op \in [Workers -> Ops] /\ todo \in [Workers -> SUBSET Tools]
    BY DEF TypeOK
  <2>1. CASE QueryTools(v)
    <3>1. at'[v] = "next"
      BY <2>a, <2>1 DEF QueryTools
    <3>2. todo'[v] = {t \in Tools : readTool[t].present} /\ tool' = tool
      BY <2>b, <2>1 DEF QueryTools, writeVars
    <3>3. ASSUME NEW t \in Tools, readTool[t].present, tool[t].base = 0
          PROVE  Exists(tool[t])
      <4>1. PICK f \in [0 .. Len(log) -> Dto] :
              /\ Replays(f, t)
              /\ \A i \in 0 .. Len(log) : f[i].present => Exists(tool[t])
        BY <3>3 DEF ReadIInv, Follows
      <4>2. 0 \in 0 .. Len(log) /\ f[0] = readTool[t]
        BY <4>1 DEF Replays, TypeOK
      <4> QED
        BY <3>3, <4>1, <4>2
    <3>4. \A t \in Tools : tool[t].base \in Nat
      BY DEF TypeOK, ToolState
    <3> QED
      BY <3>1, <3>2, <3>3, <3>4 DEF Removed, Victims
  <2>2. CASE SaveDeleted(v) \/ SkipVictim(v) \/ PurgeDto(v)
    <3>1. at'[v] \in {"remove", "next"} /\ at[v] \in Cascading
      BY <2>a, <2>2 DEF SaveDeleted, SkipVictim, PurgeDto
    <3>2. todo' = todo /\ op' = op
      BY <2>2 DEF SaveDeleted, SkipVictim, PurgeDto, workVars
    <3> QED
      BY <1>2, <1>3, <3>1, <3>2 DEF Removed, Victims
  <2>3. CASE RemoveStream(v)
    <3>1. at[v] = "remove" /\ cur[v] \in Tools /\ tool[cur[v]].ver \in Nat
      BY <2>3 DEF RemoveStream, InOrder, ToolCopy, TypeOK, ToolState
    <3>2. CASE op[v] = "tool"
      <4>1. at'[v] = "idle"
        BY <2>a, <2>3, <3>2 DEF RemoveStream, End
      <4> QED
        BY <4>1 DEF Removed, Victims
    <3>3. CASE op[v] # "tool"
      <4>1. at'[v] = "purge" /\ todo' = todo /\ op' = op /\ cur' = cur
        BY <2>a, <2>3, <3>3 DEF RemoveStream, workVars
      <4>2. tool'[cur[v]].base > 0
        BY <2>3, <3>1 DEF RemoveStream, NoTool, TypeOK
      <4>3. Removed(v)'
        BY <4>1, <4>2 DEF Removed
      <4>4. Victims(v)'
        BY <1>2, <1>3, <3>1, <4>1 DEF Victims
      <4> QED
        BY <4>3, <4>4
    <3> QED
      BY <3>2, <3>3
  <2>4. ASSUME NEW t \in Tools, NextVictim(v, t)
        PROVE  Removed(v)' /\ Victims(v)'
    <3>1. /\ at[v] = "next" /\ t \in todo[v] /\ op[v] # "tool"
          /\ tool' = tool /\ op' = op
      BY <2>4 DEF NextVictim, InOrder, Handling, writeVars
    <3>2. todo'[v] = todo[v] \ {t} /\ cur'[v] = t
      BY <2>b, <2>4 DEF NextVictim, TypeOK
    <3>3. at'[v] = IF Exists(tool[t]) THEN "delete" ELSE "purge"
      BY <2>a, <2>4 DEF NextVictim
    <3>4. \A s \in todo[v] : Exists(tool[s]) \/ tool[s].base > 0
      BY <1>3, <3>1 DEF Victims
    <3>5. Removed(v)'
      BY <3>1, <3>2, <3>3, <3>4 DEF Removed
    <3>6. Victims(v)'
      BY <3>1, <3>2, <3>4 DEF Victims
    <3> QED
      BY <3>5, <3>6
  <2>5. ASSUME NEW t \in Tools, BeginDeleteTool(v, t)
        PROVE  Removed(v)' /\ Victims(v)'
    <3>1. at'[v] = "delete" /\ op'[v] = "tool"
      BY <2>a, <2>b, <2>5 DEF BeginDeleteTool, Begin
    <3> QED
      BY <3>1 DEF Removed, Victims
  <2> QED
    BY <1>6, <2>1, <2>2, <2>3, <2>4, <2>5 DEF CascadeStep
<1>7. ASSUME NEW w \in Workers, Request(w) \/ Work(w)
      PROVE  Keeps(v) \/ at'[v] \notin Cascading \/ CascadeStep(v)
  BY <1>7, OthersKeep, CascadeSteps
<1>8. Project => Keeps(v)
  BY DEF Project, Keeps, workVars
<1>9. ASSUME NEW t \in Tools, NEW d \in Defs \cup {None}, UpstreamChanges(t, d)
      PROVE  Keeps(v)
  BY <1>9 DEF UpstreamChanges, Keeps, workVars
<1> QED
  BY <1>4, <1>5, <1>6, <1>7, <1>8, <1>9 DEF Next

LEMMA InitReads == Init => ReadIInv
<1> SUFFICES ASSUME Init PROVE ReadIInv
  OBVIOUS
<1>1. ASSUME NEW t \in Tools
      PROVE  Follows(t)
  <2> DEFINE f == [i \in 0 .. 0 |-> NoDto]
  <2>1. Len(log) = 0 /\ readTool[t] = NoDto /\ tool[t] = NoTool
    BY DEF Init
  <2>2. f \in [0 .. 0 -> Dto] /\ f[0] = NoDto
    BY InitialValues
  <2> HIDE DEF f
  <2>3. Replays(f, t)
    BY <2>1, <2>2 DEF Replays
  <2>4. Shows(f[0], NoTool) /\ ~f[0].present
    BY <2>2 DEF Shows, NoDto, NoTool, Exists
  <2>5. \A i \in 0 .. 0 : ~f[i].present
    BY <2>4
  <2> QED
    BY <2>1, <2>2, <2>3, <2>4, <2>5 DEF Follows
<1>2. \A i \in 1 .. Len(log) : log[i].ver >= 1
  BY DEF Init
<1>3. \A w \in Workers : Removed(w) /\ Victims(w)
  BY DEF Init, Removed, Victims
<1> QED
  BY <1>1, <1>2, <1>3 DEF ReadIInv

LEMMA StepReads == IInv /\ IInv' /\ ReadIInv /\ [Next]_vars => ReadIInv'
<1> SUFFICES ASSUME IInv, IInv', ReadIInv, [Next]_vars
             PROVE  ReadIInv'
  OBVIOUS
<1>1. CASE Next
  <2>1. \A t \in Tools : Follows(t)'
    BY <1>1, StepFollows DEF IInv
  <2>2. \A i \in 1 .. Len(log') : log'[i].ver >= 1
    BY <1>1, StepVersions DEF ReadIInv
  <2>3. \A w \in Workers : Removed(w)' /\ Victims(w)'
    BY <1>1, StepVictims
  <2> QED
    BY <2>1, <2>2, <2>3 DEF ReadIInv
<1>2. CASE UNCHANGED vars
  BY <1>2 DEF vars, writeVars, readVars, workVars, ReadIInv, Follows, Replays,
     Removed, Victims
<1> QED
  BY <1>1, <1>2

(* Once the log is projected, every tool that was never deleted is served  *)
(* as it is, for any number of tools and of concurrent requests.           *)
THEOREM ReadModelFollowsTools == Spec => []ReadModelInSync
<1>1. Init => ReadIInv
  BY InitReads
<1>2. IInv /\ IInv' /\ ReadIInv /\ [Next]_vars => ReadIInv'
  BY StepReads
<1>3. IInv /\ ReadIInv => ReadModelInSync
  <2> SUFFICES ASSUME IInv, ReadIInv, log = << >>
               PROVE  \A t \in Tools : InSync(t)
    BY Zenon DEF ReadModelInSync
  <2> SUFFICES ASSUME NEW t \in Tools
               PROVE  InSync(t)
    OBVIOUS
  <2>1. SUFFICES ASSUME tool[t].base = 0, tool[t].status # "deprecated"
                 PROVE  /\ readTool[t].present <=> Exists(tool[t])
                        /\ Exists(tool[t]) => /\ readTool[t].enabled = tool[t].enabled
                                              /\ readTool[t].def = tool[t].def
    BY DEF InSync
  <2>2. Len(log) = 0
    OBVIOUS
  <2>3. Shows(readTool[t], tool[t])
    BY <2>1, <2>2 DEF ReadIInv, Follows, Replays
  <2>4. tool[t].status \in Status
    BY DEF IInv, TypeOK, ToolState
  <2> QED
    BY <2>1, <2>3, <2>4 DEF Shows, Exists, Status
<1> QED
  BY <1>1, <1>2, <1>3, CommandsInOrder, PTL DEF Spec

-----------------------------------------------------------------------------
(* Requests end. *)

\* What is left to go through is finite, and grows shorter by one.
LEMMA LeftCounted ==
  ASSUME NEW S \in SUBSET Tools
  PROVE  /\ Cardinality(Tools) \in Nat
         /\ Cardinality(S) \in Nat
         /\ Cardinality(S) <= Cardinality(Tools)
         /\ \A t \in S : Cardinality(S \ {t}) = Cardinality(S) - 1
<1>1. IsFiniteSet(S) /\ Cardinality(S) <= Cardinality(Tools)
  BY FiniteAssumption, FS_Subset
<1>2. Cardinality(Tools) \in Nat /\ Cardinality(S) \in Nat
  BY <1>1, FiniteAssumption, FS_CardinalityType
<1>3. \A t \in S : Cardinality(S \ {t}) = Cardinality(S) - 1
  BY <1>1, FS_RemoveElement
<1> QED
  BY <1>1, <1>2, <1>3

\* A request under way has a step left.
LEMMA StepsCounted ==
  ASSUME TypeOK, NEW w \in Workers
  PROVE  /\ StepsLeft(w) \in Nat
         /\ at[w] # "idle" => StepsLeft(w) > 0
<1> DEFINE all == Cardinality(Tools)
           left == Cardinality(todo[w])
<1>1. all \in Nat /\ left \in Nat
  BY LeftCounted DEF TypeOK
<1>2. at[w] \in Points
  BY DEF TypeOK
<1>3. SavesLeft(w) \in {1, 2}
  BY DEF SavesLeft
<1> HIDE DEF all, left
<1>4. CASE at[w] \in {"start", "fetch", "sync", "failed", "admin", "dropread",
                      "dereg", "drop", "idle"}
  BY <1>1, <1>4 DEF StepsLeft, all, left
<1>5. CASE at[w] = "save"
  BY <1>1, <1>3, <1>5 DEF StepsLeft, left
<1>6. CASE at[w] \in {"query", "next", "delete", "remove", "purge"}
  BY <1>1, <1>6 DEF StepsLeft, all, left
<1> QED
  BY <1>2, <1>4, <1>5, <1>6 DEF Points

\* A request that ends has no step left.
LEMMA EndAdvances ==
  ASSUME TypeOK, NEW w \in Workers, at[w] # "idle", End(w)
  PROVE  StepsLeft(w)' < StepsLeft(w)
<1>1. at'[w] = "idle"
  BY DEF End, Goto, TypeOK
<1>2. StepsLeft(w)' = 0
  BY <1>1 DEF StepsLeft
<1> QED
  BY <1>2, StepsCounted

(* An event that _sync_tools saves gives the tool the fetched definition,   *)
(* and leaves nothing to do but for a deprecated tool with another one.    *)
LEMMA SavedOnce ==
  ASSUME NEW s \in ToolState, NEW d \in Defs, NEW u,
         u = Appended(s, NextEvent(s, d), d), NextEvent(s, d) # "none"
  PROVE  /\ u.def = d
         /\ NextEvent(u, d) = "none" \/ (s.status = "deprecated" /\ s.def # d)
<1>1. CASE NextEvent(s, d) = "Discovered"
  <2>1. Is(u, "active", TRUE, d)
    BY <1>1, AppendedIs
  <2> QED
    BY <2>1 DEF Is, NextEvent, Exists
<1>2. CASE NextEvent(s, d) = "Restored"
  <2>1. Is(u, "active", TRUE, d)
    BY <1>2, AppendedIs
  <2> QED
    BY <2>1 DEF Is, NextEvent, Exists
<1>3. CASE NextEvent(s, d) = "DefinitionUpdated"
  <2>1. Is(u, s.status, s.enabled, d)
    BY <1>3, AppendedIs
  <2>2. s.status \in {"active", "deprecated"} /\ s.def # d
    BY <1>3, NextEventIs DEF ToolState, Status
  <2> QED
    BY <2>1, <2>2 DEF Is, NextEvent, Exists
<1> QED
  BY <1>1, <1>2, <1>3, NextEventIs

(* A tool costs a refresh the look at it and at most two events: after the *)
(* second it is active with the definition fetched.                        *)
LEMMA RefreshAdvances ==
  ASSUME TypeOK, NEW w \in Workers, InOrder(w), RefreshStep(w)
  PROVE  at[w] # "idle" /\ StepsLeft(w)' < StepsLeft(w)
<1> DEFINE all == Cardinality(Tools)
           left == Cardinality(todo[w])
<1>1. all \in Nat /\ left \in Nat /\ left <= all
  BY LeftCounted DEF TypeOK
<1>2. ASSUME NEW point, Goto(w, point)
      PROVE  at'[w] = point
  BY <1>2 DEF Goto, TypeOK
<1> HIDE DEF all, left
<1>3. CASE MarkSyncStarted(w)
  <2>1. at[w] = "start" /\ at'[w] = "fetch"
    BY <1>2, <1>3 DEF MarkSyncStarted
  <2>2. StepsLeft(w) = 3 * all + 3 /\ StepsLeft(w)' = 3 * all + 2
    BY <2>1 DEF StepsLeft, all
  <2> QED
    BY <1>1, <2>1, <2>2
<1>4. CASE FetchFails(w)
  <2>1. at[w] = "fetch" /\ at'[w] = "failed"
    BY <1>2, <1>4 DEF FetchFails
  <2>2. StepsLeft(w) = 3 * all + 2 /\ StepsLeft(w)' = 1
    BY <2>1 DEF StepsLeft, all
  <2> QED
    BY <1>1, <2>1, <2>2
<1>5. CASE MarkSyncFailed(w)
  BY <1>5, EndAdvances DEF MarkSyncFailed
<1>6. CASE FetchUnchanged(w)
  BY <1>6, EndAdvances DEF FetchUnchanged
<1>7. CASE Ingest(w)
  BY <1>7, EndAdvances DEF Ingest
<1>8. CASE IngestUnchanged(w)
  BY <1>8, EndAdvances DEF IngestUnchanged
<1>9. CASE FetchInventory(w)
  <2>1. at[w] = "fetch" /\ at'[w] = "sync" /\ todo'[w] = Offered(upstream)
    BY <1>2, <1>9 DEF FetchInventory, TypeOK
  <2>2. Offered(upstream) \in SUBSET Tools
    BY DEF Offered
  <2>3. Cardinality(todo'[w]) \in Nat /\ Cardinality(todo'[w]) <= all
    BY <2>1, <2>2, LeftCounted DEF all
  <2>4. StepsLeft(w) = 3 * all + 2 /\ StepsLeft(w)' = 3 * Cardinality(todo'[w]) + 1
    BY <2>1 DEF StepsLeft, all
  <2> QED
    BY <1>1, <2>1, <2>3, <2>4
<1>10. ASSUME NEW t \in Tools, SyncTool(w, t)
       PROVE  at[w] # "idle" /\ StepsLeft(w)' < StepsLeft(w)
  <2>1. /\ at[w] = "sync" /\ t \in todo[w] /\ todo'[w] = todo[w] \ {t}
        /\ at'[w] \in {"sync", "save"}
    BY <1>2, <1>10 DEF SyncTool, TypeOK
  <2>2. Cardinality(todo'[w]) = left - 1
    BY <2>1, LeftCounted DEF left, TypeOK
  <2>3. SavesLeft(w)' \in {1, 2}
    BY DEF SavesLeft
  <2>4. StepsLeft(w) = 3 * left + 1
    BY <2>1 DEF StepsLeft, left
  <2>5. \/ StepsLeft(w)' = 3 * (left - 1) + 1
        \/ StepsLeft(w)' = 3 * (left - 1) + 1 + SavesLeft(w)'
    BY <2>1, <2>2 DEF StepsLeft
  <2> QED
    BY <1>1, <2>1, <2>3, <2>4, <2>5
<1>11. CASE SaveTool(w)
  <2> DEFINE t == cur[w]
             d == spec[w][t]
             kind == NextEvent(held[w], d)
  <2>1. /\ t \in Tools /\ d \in Defs /\ kind # "none"
        /\ held[w].ver = tool[t].ver => held[w] = tool[t]
    BY <1>11 DEF SaveTool, InOrder, ToolCopy, ToolFresh, Decided
  <2>2. held[w] = tool[t] /\ tool[t] \in ToolState
    BY <1>11, <2>1 DEF SaveTool, ToolFresh, TypeOK
  <2>3. kind \in Kinds
    BY <2>1, <2>2, NextEventIs DEF Kinds
  <2>4. tool'[t] = Appended(tool[t], kind, d)
    <3>1. Store(t, kind, d)
      BY <1>11 DEF SaveTool
    <3> HIDE DEF t, d, kind
    <3> QED
      BY <2>1, <2>3, <3>1, StoreIs
  <2>5. /\ cur'[w] = t /\ spec'[w] = spec[w] /\ todo'[w] = todo[w]
        /\ held'[w] = tool'[t]
    BY <1>11 DEF SaveTool, TypeOK
  <2>6. /\ at[w] = "save"
        /\ at'[w] = IF NextEvent(tool'[t], d) = "none" THEN "sync" ELSE "save"
    BY <1>2, <1>11 DEF SaveTool
  <2>7. StepsLeft(w) = 3 * left + 1 + SavesLeft(w)
    BY <2>6 DEF StepsLeft, left
  <2>8. SavesLeft(w) \in {1, 2}
    BY DEF SavesLeft
  <2>9. CASE at'[w] = "sync"
    <3>1. StepsLeft(w)' = 3 * left + 1
      BY <2>5, <2>9 DEF StepsLeft, left
    <3> QED
      BY <1>1, <2>6, <2>7, <2>8, <3>1
  <2>10. CASE at'[w] = "save"
    <3>1. NextEvent(tool'[t], d) # "none"
      BY <2>6, <2>10
    <3>2. tool'[t].def = d /\ tool[t].status = "deprecated" /\ tool[t].def # d
      <4>1. kind = NextEvent(tool[t], d)
        BY <2>2
      <4> HIDE DEF t, d, kind
      <4> QED
        BY <2>1, <2>2, <2>4, <3>1, <4>1, SavedOnce
    <3>3. SavesLeft(w) = 2
      BY <2>2, <3>2 DEF SavesLeft
    <3>4. SavesLeft(w)' = 1
      BY <2>5, <3>2 DEF SavesLeft
    <3>5. StepsLeft(w)' = 3 * left + 1 + 1
      BY <2>5, <2>10, <3>4 DEF StepsLeft, left
    <3> QED
      BY <1>1, <2>6, <2>7, <3>3, <3>5
  <2> QED
    BY <2>6, <2>9, <2>10
<1> QED
  BY <1>3, <1>4, <1>5, <1>6, <1>7, <1>8, <1>9, <1>10, <1>11 DEF RefreshStep

(* A victim is taken off the list before it is deleted, so a cascade goes  *)
(* on whether the deletion succeeds or not.                                *)
LEMMA DeleteAdvances ==
  ASSUME TypeOK, NEW w \in Workers, InOrder(w), DeleteStep(w)
  PROVE  at[w] # "idle" /\ StepsLeft(w)' < StepsLeft(w)
<1> DEFINE all == Cardinality(Tools)
           left == Cardinality(todo[w])
<1>1. all \in Nat /\ left \in Nat /\ left <= all
  BY LeftCounted DEF TypeOK
<1>2. ASSUME NEW point, Goto(w, point)
      PROVE  at'[w] = point
  BY <1>2 DEF Goto, TypeOK
<1>3. at[w] \in {"delete", "remove"} => op[w] \in {"tool", "source", "orphans"}
  BY DEF InOrder, Handling
<1> HIDE DEF all, left
<1>4. CASE QueryTools(w)
  <2>1. at[w] = "query" /\ at'[w] = "next" /\ todo'[w] \in SUBSET Tools
    BY <1>2, <1>4 DEF QueryTools, TypeOK
  <2>2. Cardinality(todo'[w]) \in Nat /\ Cardinality(todo'[w]) <= all
    BY <2>1, LeftCounted DEF all
  <2>3. StepsLeft(w) = 4 * all + 5 /\ StepsLeft(w)' = 4 * Cardinality(todo'[w]) + 4
    BY <2>1 DEF StepsLeft, all
  <2> QED
    BY <1>1, <2>1, <2>2, <2>3
<1>5. ASSUME NEW t \in Tools, NextVictim(w, t)
      PROVE  at[w] # "idle" /\ StepsLeft(w)' < StepsLeft(w)
  <2>1. /\ at[w] = "next" /\ t \in todo[w] /\ todo'[w] = todo[w] \ {t}
        /\ at'[w] \in {"delete", "purge"}
    BY <1>2, <1>5 DEF NextVictim, TypeOK
  <2>2. Cardinality(todo'[w]) = left - 1
    BY <2>1, LeftCounted DEF left, TypeOK
  <2>3. StepsLeft(w) = 4 * left + 4
    BY <2>1 DEF StepsLeft, left
  <2>4. StepsLeft(w)' \in {2, 4 * (left - 1) + 7, 4 * (left - 1) + 5}
    BY <2>1, <2>2 DEF StepsLeft
  <2> QED
    BY <1>1, <2>1, <2>3, <2>4
<1>6. CASE SaveDeleted(w)
  <2>1. /\ at[w] = "delete" /\ at'[w] = "remove"
        /\ op'[w] = op[w] /\ todo'[w] = todo[w]
    BY <1>2, <1>6 DEF SaveDeleted, workVars
  <2>2. CASE op[w] = "tool"
    BY <2>1, <2>2 DEF StepsLeft
  <2>3. CASE op[w] # "tool"
    <3>1. StepsLeft(w) = 4 * left + 7 /\ StepsLeft(w)' = 4 * left + 6
      BY <2>1, <2>3 DEF StepsLeft, left
    <3> QED
      BY <1>1, <2>1, <3>1
  <2> QED
    BY <2>2, <2>3
<1>7. CASE RemoveStream(w)
  <2>1. at[w] = "remove"
    BY <1>7 DEF RemoveStream
  <2>2. CASE End(w)
    BY <2>1, <2>2, EndAdvances
  <2>3. CASE op[w] # "tool" /\ Goto(w, "purge") /\ UNCHANGED workVars
    <3>1. at'[w] = "purge" /\ todo'[w] = todo[w]
      BY <1>2, <2>3 DEF workVars
    <3>2. StepsLeft(w) = 4 * left + 6 /\ StepsLeft(w)' = 4 * left + 5
      BY <2>1, <2>3, <3>1 DEF StepsLeft, left
    <3> QED
      BY <1>1, <2>1, <3>2
  <2> QED
    BY Zenon, <1>7, <2>2, <2>3 DEF RemoveStream
<1>8. CASE PurgeDto(w)
  <2>1. at[w] = "purge" /\ at'[w] = "next" /\ todo'[w] = todo[w]
    BY <1>2, <1>8 DEF PurgeDto, workVars
  <2>2. StepsLeft(w) = 4 * left + 5 /\ StepsLeft(w)' = 4 * left + 4
    BY <2>1 DEF StepsLeft, left
  <2> QED
    BY <1>1, <2>1, <2>2
<1>9. CASE SkipVictim(w)
  <2>1. /\ at[w] \in {"delete", "remove", "purge"} /\ op[w] # "tool"
        /\ at'[w] = "next" /\ todo'[w] = todo[w]
    BY <1>2, <1>9 DEF SkipVictim, workVars
  <2>2. /\ StepsLeft(w) \in {4 * left + 7, 4 * left + 6, 4 * left + 5}
        /\ StepsLeft(w)' = 4 * left + 4
    BY <2>1 DEF StepsLeft, left
  <2> QED
    BY <1>1, <2>1, <2>2
<1>10. CASE EndCascade(w)
  <2>1. at[w] = "next"
    BY <1>10 DEF EndCascade
  <2>2. CASE End(w)
    BY <2>1, <2>2, EndAdvances
  <2>3. CASE Goto(w, "dereg")
    <3>1. at'[w] = "dereg"
      BY <1>2, <2>3
    <3>2. StepsLeft(w) = 4 * left + 4 /\ StepsLeft(w)' = 3
      BY <2>1, <3>1 DEF StepsLeft, left
    <3> QED
      BY <1>1, <2>1, <3>2
  <2> QED
    BY Zenon, <1>10, <2>2, <2>3 DEF EndCascade
<1>11. CASE Deregister(w)
  <2>1. at[w] = "dereg" /\ at'[w] = "drop"
    BY <1>2, <1>11 DEF Deregister
  <2> QED
    BY <2>1 DEF StepsLeft
<1>12. CASE DropSource(w)
  <2>1. at[w] = "drop" /\ at'[w] = "dropread"
    BY <1>2, <1>12 DEF DropSource
  <2> QED
    BY <2>1 DEF StepsLeft
<1>13. CASE PurgeSource(w)
  BY <1>13, EndAdvances DEF PurgeSource
<1> QED
  BY <1>4, <1>5, <1>6, <1>7, <1>8, <1>9, <1>10, <1>11, <1>12, <1>13 DEF DeleteStep

\* Every step of a request brings it nearer to its end.
LEMMA WorkAdvances ==
  ASSUME TypeOK, NEW w \in Workers, InOrder(w), Work(w)
  PROVE  StepsLeft(w)' < StepsLeft(w)
<1>1. CASE SaveAdmin(w)
  BY <1>1, EndAdvances DEF SaveAdmin
<1>2. CASE SaveRaises(w)
  <2>1. at[w] # "idle"
    BY <1>2 DEF SaveRaises
  <2> QED
    BY <1>2, <2>1, EndAdvances DEF SaveRaises
<1> QED
  BY <1>1, <1>2, RefreshAdvances, DeleteAdvances DEF Work

\* Steps of others leave a request where it is.
LEMMA OthersLeaveJob ==
  ASSUME TypeOK, NEW w \in Workers, at[w] # "idle", Next, ~Work(w)
  PROVE  UNCHANGED Job(w)
<1>1. ~Request(w)
  BY DEF Request, BeginRefresh, UpdateSource, BeginDeleteSource, BeginCleanup,
     BeginDeleteTool, BeginAdmin, Begin
<1>2. ASSUME NEW v \in Workers, Request(v) \/ Work(v)
      PROVE  UNCHANGED Job(w)
  <2>1. v # w
    BY <1>1, <1>2
  <2> QED
    BY <1>2, <2>1, OthersKeep DEF Keeps, Job
<1>3. CASE Project
  BY <1>3 DEF Project, workVars, Job
<1>4. ASSUME NEW t \in Tools, NEW d \in Defs \cup {None}, UpstreamChanges(t, d)
      PROVE  UNCHANGED Job(w)
  BY <1>4 DEF UpstreamChanges, workVars, Job
<1> QED
  BY <1>2, <1>3, <1>4 DEF Next

(* A refresh, a deletion or an admin's command always ends, unless its     *)
(* next step is never taken: every step is one of those that the tools     *)
(* bound, for any number of requests that append to the same streams and   *)
(* of calls that fail.                                                     *)
THEOREM RequestsGoForward == Spec => RequestsAdvance
<1>1. ASSUME IInv, [Next]_vars, NEW w \in Workers, at[w] # "idle"
      PROVE  \/ Work(w) /\ StepsLeft(w)' < StepsLeft(w)
             \/ ~Work(w) /\ UNCHANGED Job(w)
  <2>1. TypeOK /\ InOrder(w)
    BY <1>1 DEF IInv
  <2>2. CASE Work(w)
    BY <2>1, <2>2, WorkAdvances
  <2>3. CASE Next /\ ~Work(w)
    BY <1>1, <2>1, <2>3, OthersLeaveJob
  <2>4. CASE UNCHANGED vars /\ ~Work(w)
    BY <2>4 DEF vars, workVars, Job
  <2> QED
    BY <1>1, <2>2, <2>3, <2>4
<1>2. IInv /\ [Next]_vars =>
        [\A w \in Workers : at[w] # "idle" =>
           \/ Work(w) /\ StepsLeft(w)' < StepsLeft(w)
           \/ ~Work(w) /\ UNCHANGED Job(w)]_vars
  BY <1>1
<1> QED
  BY <1>2, CommandsInOrder, PTL DEF Spec, RequestsAdvance

=============================================================================
