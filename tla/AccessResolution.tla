-------------------------- MODULE AccessResolution --------------------------
(***************************************************************************)
(* What tools an agent is listed, and may call: GetAgentToolsQuery and the *)
(* call endpoint of tools-provider, on the read model that AccessCatalog   *)
(* and the tool inventory project, through two caches in Redis: the groups *)
(* of an agent (by a hash of its claims) and the tools of a group.  Both   *)
(* only expire; nothing invalidates them.                                  *)
(*                                                                         *)
(* A query is a request being handled; at says at which await it is:       *)
(*   idle      no request               cache   reading the agent's groups *)
(*   policies  reading the policies     keep    caching the agent's groups *)
(*   groups    reading those groups     manifest  reading a group's tools  *)
(*   load      reading the group        match   reading the enabled tools  *)
(*   store     caching the group's tools                                   *)
(*   tools     reading the tools        execute reading the tool to call   *)
(***************************************************************************)
EXTENDS AccessCatalog

CONSTANTS
  Queries,      \* requests handled at the same time
  Matches,      \* tools each selector matches
  None,         \* no group, tool or agent
  CacheFaults,  \* Redis may fail
  MaxSwitches   \* bound: tools enabled or disabled

ASSUME ResolutionAssumption ==
  /\ Matches \in [Selectors -> SUBSET Tools]
  /\ None \notin Groups \cup Tools \cup Agents
  /\ CacheFaults \in BOOLEAN
  /\ MaxSwitches \in Nat

VARIABLES
  enabled,      \* tools enabled in the read model
  switches,     \* tools enabled or disabled so far
  access,       \* the set of groups cached for each agent, if any
  manifest,     \* the set of tools cached for each group, if any
  at, job,      \* await at which a query is, and what it has gathered
  seen          \* history: what the read model said during each query

toolVars == <<enabled, switches>>
cacheVars == <<access, manifest>>
vars == <<catalogVars, toolVars, cacheVars, at, job, seen>>

Points == {"idle", "cache", "policies", "keep", "groups", "manifest", "load",
           "match", "store", "tools", "execute"}

\* todo: groups still to go through; cur, dto: the group being resolved;
\* part: its tools; found: tools with their groups
Job == [agent : Agents \cup {None}, todo : SUBSET Groups,
        cur : Groups \cup {None}, dto : SUBSET Marks, part : SUBSET Tools,
        found : SUBSET (Groups \X Tools)]

NoJob == [agent |-> None, todo |-> {}, cur |-> None, dto |-> {}, part |-> {},
          found |-> {}]

\* groups that were active, and tools enabled
Seen == [active : SUBSET Groups, enabled : SUBSET Tools]

NothingSeen == [active |-> {}, enabled |-> {}]

-----------------------------------------------------------------------------
(* What the read model says. *)

\* _evaluate_policies: the groups of all active policies that match
GroupsOf(a) ==
  {g \in Groups : \E p \in Policies :
     {Active, Covers(a), Grants(g)} \subseteq read[p]}

ActiveGroups == {g \in Groups : {Exists, Active} \subseteq read[g]}

SelectorsOf(dto) == {s \in Selectors : Selects(s) \in dto}

\* a tool is matched when it is enabled and every selector matches it
Matched(dto) ==
  {t \in enabled : \A s \in SelectorsOf(dto) : t \in Matches[s]}

\* the explicit tools are added, enabled or not, and the excluded removed
Members(dto, matched) ==
  {t \in matched \cup {u \in Tools : Lists(u) \in dto} : Excludes(t) \notin dto}

ToolsOf(g) ==
  Members(read[g], IF SelectorsOf(read[g]) = {} THEN {} ELSE Matched(read[g]))

\* the tools the groups and policies give an agent now
Entitled(a) == {t \in enabled : \E g \in GroupsOf(a) \cap ActiveGroups : t \in ToolsOf(g)}

\* the tools that are read for the answer, without the disabled ones
Listed(q) == {t \in enabled : \E g \in Groups : <<g, t>> \in job[q].found}

-----------------------------------------------------------------------------
(* Queries. *)

Now == [active |-> ActiveGroups, enabled |-> enabled]

\* what the read model has come to say is noted for the queries under way
Note ==
  seen' = [q \in Queries |->
             IF at[q] = "idle" THEN NothingSeen
             ELSE [active |-> seen[q].active \cup ActiveGroups',
                   enabled |-> seen[q].enabled \cup enabled']]

Quiet == UNCHANGED <<catalogVars, toolVars>>

Goto(q, point, j) ==
  /\ at' = [at EXCEPT ![q] = point]
  /\ job' = [job EXCEPT ![q] = j]
  /\ UNCHANGED seen

End(q) ==
  /\ at' = [at EXCEPT ![q] = "idle"]
  /\ job' = [job EXCEPT ![q] = NoJob]
  /\ seen' = [seen EXCEPT ![q] = NothingSeen]

\* agent a lists its tools, or calls one of them
Begin(q, a) ==
  /\ at[q] = "idle"
  /\ at' = [at EXCEPT ![q] = "cache"]
  /\ job' = [job EXCEPT ![q] = [NoJob EXCEPT !.agent = a]]
  /\ seen' = [seen EXCEPT ![q] = Now]
  /\ Quiet /\ UNCHANGED cacheVars

\* go on with these groups, or answer that there is nothing
WithGroups(q, point, groups) ==
  IF groups = {} THEN End(q)
  ELSE Goto(q, point, [job[q] EXCEPT !.todo = groups])

ReadAccess(q) ==
  /\ at[q] = "cache"
  /\ \/ \E groups \in access[job[q].agent] : WithGroups(q, "groups", groups)
     \/ /\ access[job[q].agent] = {} \/ CacheFaults
        /\ Goto(q, "policies", job[q])
  /\ Quiet /\ UNCHANGED cacheVars

EvaluatePolicies(q) ==
  /\ at[q] = "policies"
  /\ Goto(q, "keep", [job[q] EXCEPT !.todo = GroupsOf(job[q].agent)])
  /\ Quiet /\ UNCHANGED cacheVars

KeepAccess(q) ==
  /\ at[q] = "keep"
  /\ \/ access' = [access EXCEPT ![job[q].agent] = {job[q].todo}]
     \/ CacheFaults /\ UNCHANGED access
  /\ WithGroups(q, "groups", job[q].todo)
  /\ Quiet /\ UNCHANGED manifest

\* variant: the state of the groups is not looked at
ReadGroupsAny(q) ==
  /\ at[q] = "groups"
  /\ WithGroups(q, "manifest", job[q].todo)
  /\ Quiet /\ UNCHANGED cacheVars

\* the groups that exist and are active
ReadGroups(q) ==
  /\ at[q] = "groups"
  /\ WithGroups(q, "manifest", job[q].todo \cap ActiveGroups)
  /\ Quiet /\ UNCHANGED cacheVars

\* the tools of group g are found: on with the next group
Collect(q, g, tools) ==
  Goto(q, IF job[q].todo = {g} THEN "tools" ELSE "manifest",
       [job[q] EXCEPT !.todo = @ \ {g}, !.cur = None, !.dto = {}, !.part = {},
                      !.found = @ \cup ({g} \X tools)])

ReadManifest(q, g) ==
  /\ at[q] = "manifest"
  /\ g \in job[q].todo
  /\ \/ \E tools \in manifest[g] : Collect(q, g, tools)
     \/ /\ manifest[g] = {} \/ CacheFaults
        /\ Goto(q, "load", [job[q] EXCEPT !.cur = g])
  /\ Quiet /\ UNCHANGED cacheVars

\* a group deleted meanwhile has no tools; one without selectors matches none
LoadGroup(q) ==
  LET g == job[q].cur
      dto == read[g]
  IN /\ at[q] = "load"
     /\ \/ Exists \notin dto /\ Collect(q, g, {})
        \/ /\ Exists \in dto /\ SelectorsOf(dto) = {}
           /\ Goto(q, "store", [job[q] EXCEPT !.part = Members(dto, {})])
        \/ /\ Exists \in dto /\ SelectorsOf(dto) # {}
           /\ Goto(q, "match", [job[q] EXCEPT !.dto = dto])
     /\ Quiet /\ UNCHANGED cacheVars

MatchTools(q) ==
  /\ at[q] = "match"
  /\ Goto(q, "store", [job[q] EXCEPT
                         !.part = Members(job[q].dto, Matched(job[q].dto)),
                         !.dto = {}])
  /\ Quiet /\ UNCHANGED cacheVars

StoreManifest(q) ==
  /\ at[q] = "store"
  /\ \/ manifest' = [manifest EXCEPT ![job[q].cur] = {job[q].part}]
     \/ CacheFaults /\ UNCHANGED manifest
  /\ Collect(q, job[q].cur, job[q].part)
  /\ Quiet /\ UNCHANGED access

\* the tools found are read, and the disabled ones left out; a call goes on
\* when its tool is among them
Answer(q) ==
  /\ at[q] = "tools"
  /\ End(q) \/ (Listed(q) # {} /\ Goto(q, "execute", job[q]))
  /\ Quiet /\ UNCHANGED cacheVars

\* ExecuteToolCommand reads the tool again: it runs, or is disabled by now
Execute(q) ==
  /\ at[q] = "execute"
  /\ End(q)
  /\ Quiet /\ UNCHANGED cacheVars

Step(q) ==
  \/ ReadAccess(q) \/ EvaluatePolicies(q) \/ KeepAccess(q) \/ ReadGroups(q)
  \/ \E g \in Groups : ReadManifest(q, g)
  \/ LoadGroup(q) \/ MatchTools(q) \/ StoreManifest(q)
  \/ Answer(q) \/ Execute(q)

-----------------------------------------------------------------------------
(* The caches' time to live, the inventory and the catalogue. *)

ExpireAccess(a) ==
  /\ access[a] # {}
  /\ access' = [access EXCEPT ![a] = {}]
  /\ Quiet /\ UNCHANGED <<manifest, at, job, seen>>

\* variant: manifests are stored without a time to live
ExpireManifestNever(g) ==
  /\ manifest[g] = {{}}
  /\ manifest' = [manifest EXCEPT ![g] = {}]
  /\ Quiet /\ UNCHANGED <<access, at, job, seen>>

ExpireManifest(g) ==
  /\ manifest[g] # {}
  /\ manifest' = [manifest EXCEPT ![g] = {}]
  /\ Quiet /\ UNCHANGED <<access, at, job, seen>>

\* the projection of an Enabled, Disabled or Deleted event of a tool
SwitchTool(t) ==
  /\ switches < MaxSwitches
  /\ switches' = switches + 1
  /\ enabled' = IF t \in enabled THEN enabled \ {t} ELSE enabled \cup {t}
  /\ UNCHANGED <<catalogVars, cacheVars, at, job>>
  /\ Note

Catalog ==
  /\ CatalogNext
  /\ UNCHANGED <<toolVars, cacheVars, at, job>>
  /\ Note

Init ==
  /\ CatalogInit
  /\ enabled = Tools
  /\ switches = 0
  /\ access = [a \in Agents |-> {}]
  /\ manifest = [g \in Groups |-> {}]
  /\ at = [q \in Queries |-> "idle"]
  /\ job = [q \in Queries |-> NoJob]
  /\ seen = [q \in Queries |-> NothingSeen]

Next ==
  \/ Catalog
  \/ \E t \in Tools : SwitchTool(t)
  \/ \E q \in Queries :
       \/ Step(q)
       \/ \E a \in Agents : Begin(q, a)
  \/ \E a \in Agents : ExpireAccess(a)
  \/ \E g \in Groups : ExpireManifest(g)

Spec == Init /\ [][Next]_vars

\* awaited calls return, the projector goes on, and cached values expire
FairSpec ==
  /\ Spec
  /\ WF_vars(Catalog /\ Project)
  /\ \A q \in Queries : WF_vars(Step(q))
  /\ \A a \in Agents : WF_vars(ExpireAccess(a))
  /\ \A g \in Groups : WF_vars(ExpireManifest(g))

-----------------------------------------------------------------------------
(* Properties. *)

\* Types of the variables.
TypeOK ==
  /\ CatalogTypeOK
  /\ enabled \subseteq Tools
  /\ switches \in 0 .. MaxSwitches
  /\ access \in [Agents -> SUBSET SUBSET Groups]
  /\ manifest \in [Groups -> SUBSET SUBSET Tools]
  /\ at \in [Queries -> Points]
  /\ job \in [Queries -> Job]
  /\ seen \in [Queries -> Seen]

(* Stale as both caches may be, switching off works at once: no tool is    *)
(* listed or called that was disabled, or that comes from a group that was *)
(* inactive or deleted, in the read model during the whole request         *)
(* (GetAgentToolsQuery reads the groups and the tools themselves afresh).  *)
SwitchedOffNotListed ==
  [][\A q \in Queries : Answer(q) =>
       \A t \in Listed(q) :
         /\ t \in seen[q].enabled
         /\ \E g \in seen[q].active : <<g, t>> \in job[q].found]_vars

(* Once the administrators stop, every agent is in the end answered with   *)
(* the tools that the policies and groups give it, however many answers    *)
(* were computed from older ones and cached meanwhile (the times to live). *)
AnswersConverge ==
  <>[][\A q \in Queries : Answer(q) => Listed(q) = Entitled(job[q].agent)]_vars
-----------------------------------------------------------------------------
(* What the convergence of the answers rests on. *)

\* the answers that the read model gives now to what is cached and gathered
Says == [granted |-> [a \in Agents |-> GroupsOf(a)],
         active |-> ActiveGroups,
         tools |-> [g \in Groups |-> ToolsOf(g)],
         dto |-> read]

\* what a query has gathered at this await is what is said
Current(says, point, j) ==
  LET groups == says.granted[j.agent] \cap says.active
  IN /\ point \in {"keep", "groups"} => j.todo = says.granted[j.agent]
     /\ point \in {"cache", "policies", "keep", "groups"} => j.found = {}
     /\ point \in {"manifest", "load", "match", "store"} => j.todo \subseteq groups
     /\ point = "match" => j.dto = says.dto[j.cur] /\ SelectorsOf(j.dto) # {}
     /\ point = "store" => j.part = says.tools[j.cur]
     /\ point = "tools" => j.todo = {}
     /\ point \in {"manifest", "load", "match", "store", "tools"} =>
          j.found = {f \in (groups \ j.todo) \X Tools : f[2] \in says.tools[f[1]]}

\* nothing cached and nothing gathered is older than the read model
Settled ==
  /\ \A a \in Agents : access[a] \subseteq {Says.granted[a]}
  /\ \A g \in Groups : manifest[g] \subseteq {Says.tools[g]}
  /\ \A q \in Queries : at[q] # "idle" => Current(Says, at[q], job[q])

\* a query ends without reading the tools: the agent has no groups
GivesUp(q) == at[q] \in {"cache", "keep", "groups"} /\ at'[q] = "idle"

(* Once the caches and the queries under way hold nothing stale, they      *)
(* never do again while the read model stays as it is, and every agent is  *)
(* answered exactly what policies and groups give it, also when it is told *)
(* early that this is nothing: queries cache only what they have computed  *)
(* from the read model or from what was cached                             *)
(* (AccessResolver.resolve_agent_access, GetAgentToolsQueryHandler).       *)
ExactOnceSettled ==
  [][Settled =>
       /\ UNCHANGED <<read, enabled>> => Settled'
       /\ \A q \in Queries :
            /\ Answer(q) => Listed(q) = Entitled(job[q].agent)
            /\ GivesUp(q) => Entitled(job[q].agent) = {}]_vars

\* how many steps a query has left at most
StepsLeft(q) ==
  LET all == Cardinality(Groups)
      left == Cardinality(job[q].todo)
  IN CASE at[q] = "cache"    -> 4 * all + 6
       [] at[q] = "policies" -> 4 * all + 5
       [] at[q] = "keep"     -> 4 * all + 4
       [] at[q] = "groups"   -> 4 * all + 3
       [] at[q] = "manifest" -> 4 * left + 2
       [] at[q] = "load"     -> 4 * left + 1
       [] at[q] = "match"    -> 4 * left
       [] at[q] = "store"    -> 4 * left - 1
       [] at[q] = "tools"    -> 2
       [] at[q] = "execute"  -> 1
       [] at[q] = "idle"     -> 0

(* A query goes through each of its groups once, with at most four reads   *)
(* and writes each: nothing that changes in the catalogue, the caches or   *)
(* the inventory sends it back, nor touches what it has gathered           *)
(* (GetAgentToolsQueryHandler, _resolve_group_tools).                      *)
QueriesAdvance ==
  [][\A q \in Queries : at[q] # "idle" =>
       \/ Step(q) /\ StepsLeft(q)' < StepsLeft(q)
       \/ ~Step(q) /\ UNCHANGED <<at[q], job[q]>>]_vars

=============================================================================
