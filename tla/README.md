# Verification of tools-provider

This directory holds a formal model of the stateful core of the repository:
TLA+ modules translated from the Python source, configurations that check
them with TLC on small instances, and theorems that TLAPS proves for every
value of the constants.  `PROJECT.json` lists the components, the runs, the
mutants (plausible bugs that each property must notice), the source lines of
every definition, the hazards and the theorems.

    tlc -workers 2 -config FlowFaults.cfg MCConversationFlow.tla
    tlapm ConversationFlowProofs.tla

## 1. The system

The repository holds four applications under `src/`.  agent-host lets a user
talk to an agent through a browser; tools-provider finds the tools of upstream
services, decides who may use them and executes them; knowledge-manager keeps
vocabularies; upstream-sample is a shop to try tools on.  What is modelled is in
bold.

| Part | State it keeps | Operations | Talks to | What makes it correct |
| --- | --- | --- | --- | --- |
| **agent-host: orchestrator** (`application/orchestrator`) | per connection a `ConversationContext`: orchestrator state, current item, item answers | flow start, pause, cancel; user message; widget response; present item; complete flow | connection manager, commands on the conversation, agent, LLM scoring | items are answered in order and completely; completion covers every item; a user who answers gets to the end |
| **agent-host: connection manager** (`application/websocket`) | connections and their indexes, connection state machine, heartbeats | connect, disconnect, ping, pong, clean-up, broadcast | orchestrator, message router, browser | tracking follows the state machine; dead clients are forgotten |
| **agent-host: agent and LLM providers** (`application/agents`, `application/orchestrator/agent`, `infrastructure/llm_provider_factory.py`) | one agent, one override of the model for each provider, settings | streaming runs, scoring, generation, model change, settings | LLM services, tools-provider | a run asks the model it has chosen; every handler ends |
| **agent-host: templates and definitions** (`application/commands/template`, `definition`) | state-based aggregates with a version, files to seed them | view, update, create, delete, export, import, seed, reset | MongoDB, administrators' forms | no change is overwritten unseen; an update saves the items it was given |
| agent-host: conversation aggregate (`domain/entities/conversation.py`) | messages, template progress, scores, deadline, status | 11 commands: get, mutate, update | orchestrator, REST API | lifecycle, scores and deadlines stay consistent under any order of commands |
| agent-host: evaluation sessions, REST chat, rate limits, sessions, token cache | pending questions, token buckets, caches | timed questions, streaming chat | LLM providers, tools-provider | limits hold under concurrency; sessions end |
| **tools-provider: sources and tools** (`domain/entities/upstream_source.py`, `source_tool.py`) | event-sourced aggregates, read model | register, refresh, enable, disable, update, delete, clean up | KurrentDB, MongoDB, upstream services | overlapping commands behave as if run one at a time; a stored inventory hash is that of definitions the tools have; the read model follows |
| **tools-provider: tool execution** (`application/services/tool_executor.py`, `infrastructure/adapters/keycloak_token_exchanger.py`) | circuit breakers, token cache, polling loops | execute, exchange token, poll, reset a breaker | Keycloak, upstream services | the count decides the circuit; tests are in flight; circuits recover; executions end |
| **tools-provider: MCP execution** (`infrastructure/mcp`, `application/services/mcp_tool_executor.py`) | a pool of connected transports, child processes and their pipes | execute a tool, list tools | plugins, remote MCP servers | one process for a singleton; no process without an owner; calls end |
| **tools-provider: groups, policies, access resolution** (`application/commands/tool_group`, `access_policy`, `queries/agent`, `services/access_resolver.py`) | event-sourced aggregates, read model, two caches in Redis | group and policy commands, an agent's list of tools | Redis, read model | the read model is what the commands left; nothing switched off is listed; answers converge |
| tools-provider: adapters, built-in tools, labels, authentication, notifications | caches, sessions | fetch a specification, run a tool, log in | outside services | tokens are valid |
| knowledge-manager | namespaces with terms, relationships, rules, revisions | namespace commands | Qdrant, Neo4j | revisions number the changes |
| upstream-sample | an in-memory shop | CRUD | none | none worth modelling |

The Neuroglia framework, MongoDB, KurrentDB, Redis, Keycloak, the LLM services
and the browser are external.

**How they interact.**  A browser opens a WebSocket; the endpoint calls
`ConnectionManager.connect`, which calls `Orchestrator.initialize` and
`start_conversation_flow`, and then reads messages one by one and routes them to
handlers, which call the orchestrator.  The orchestrator sends its messages over
the connection and changes the stored conversation through mediator commands,
whose domain events are broadcast to every connection of the conversation.  What
it presents comes from a template, which administrators edit.  A message of the
user starts a run of the agent, which asks a language model in rounds and has
the tool calls of the answers executed.  Everything runs on one event loop: code
between two awaits is atomic, and every await is a point where another handler,
a background flow task, the heartbeat or the clean-up task may run.

When the agent needs a tool it calls tools-provider, which resolves what the
agent's groups allow, looks the tool up in its read model and executes it: over
HTTP, exchanging the user's token at Keycloak, or over a plugin's pipes.  The
read models are fed from the event streams of the tools, groups and policies,
which administrators and inventory refreshes change.

**What is hard.**  Handlers that keep using state read before an await; flows
started beside the receive loop that works on the same context; two connections
of one conversation, each with a context of its own, writing one aggregate; one
agent and one override of the model shared by everybody; one pipe shared by
calls that do not look at whose answer they take; commands whose failure is only
logged; refreshes that overlap each other, an administrator or a deletion;
projections that lag behind the streams or see events twice; caches that nothing
invalidates; forms saved over a document somebody else has changed; answers that
reach a circuit breaker after it changed its state; several tasks that close one
connection.  `PROJECT.json` "hazards" names each at its line, with the
properties that watch it.

## 2. The modules

| Module | What it is |
| --- | --- |
| `TemplateRun` | abstract: items answered one after the other, then completion |
| `ConversationFlow` | the orchestrator; implements `TemplateRun` |
| `AtomicInventory` | abstract: inventory commands that run one at a time |
| `ToolInventory` | sources, tools, their commands and projection; implements `AtomicInventory` |
| `CircuitBreakers` | abstract: whom breakers let through, without states or counters |
| `ToolExecution` | executions and circuit breakers; implements `CircuitBreakers` |
| `WsConnections` | the connection manager |
| `AccessCatalog` | tool groups and access policies: commands, events, projection |
| `AccessResolution` | what an agent is listed and may call; extends `AccessCatalog`, and is proved to implement it |
| `McpExecution` | calls over the Model Context Protocol |
| `Blueprints` | templates and agent definitions with their administrators |
| `AgentRuns` | the agent, its providers and their models |
| `*Proofs` | the theorems about a module |
| `MC*` | the instances that TLC checks |

A definition with the comment "variant" is a wrong form of the one below it,
used as a mutant; the specification never refers to it.

### ConversationFlow

A connection `c` has a receive loop, thread `<<c, 0>>`, and the background tasks
that `handle_flow_start` creates, threads `<<c, 1>>` and so on.  `pc[t]` is the
await at which a thread stands and an action is the code up to the next await:

| Code | Actions |
| --- | --- |
| `orchestrator.py`: initialize, start_conversation_flow, cleanup | `Connect`, `StartConversationFlow`, `Disconnect` |
| `template/flow_runner.py`, `item_presenter.py` | `RunProactiveFlow`, `PresentItem`, `LoadFails`, `FinishRender`, `RenderFails`, `CompleteFlow`, `PersistCompletion`, `AdvanceToNextItem` |
| `handlers/message_handler.py`, agent | `UserMessage`, `PersistUserMessage`, `AgentAnswers`, `NoReply`, `CompleteMessage` |
| `handlers/widget_handler.py`, `data_handlers.py` | `SubmitResponse`, `RespondInBatch`, `RespondLast`, `RecordResponse`, `AdvanceTemplate` |
| `handlers/flow_handler.py` | `FlowStart`, `FlowPause`, `FlowCancel` |

`state`, `index`, `item` are the context's fields, `held` and `batch` a
handler's local variables, `responses`, `progress`, `completed` and `pending` the
stored aggregate.  `lost` is a history variable: items whose
`RecordItemResponseCommand` failed or raised, which the code only logs.  Widget values,
scores and texts are left out: the properties ask which widgets were answered.

### ToolInventory

One source with its tools.  `tool` and `source` are the event streams, each as
the state its events give with a version; `log` the events not yet projected;
`readTool` the DTOs.  A worker is an HTTP request: `at` is the await it is at,
`held` and `src` are its copies of the aggregates, `spec` and `todo` the fetched
inventory and the tools still to go through.

| Code | Actions |
| --- | --- |
| `refresh_inventory_command.py` | `BeginRefresh`, `MarkSyncStarted`, `FetchFails`, `MarkSyncFailed`, `FetchUnchanged`, `FetchInventory`, `SyncTool`, `SaveTool`, `Ingest`, `IngestUnchanged`, `SaveRaises` |
| enable, disable and update tool, update source | `BeginAdmin`, `SaveAdmin`, `UpdateSource` |
| delete tool, delete source, clean up orphans | `BeginDeleteTool`, `BeginDeleteSource`, `BeginCleanup`, `QueryTools`, `NextVictim`, `SaveDeleted`, `RemoveStream`, `PurgeDto`, `SkipVictim`, `EndCascade`, `Deregister`, `DropSource`, `PurgeSource` |
| `source_tool_projection_handlers.py` | `Project` with `NewDto`, `Redefined`, `Projected` |

What it takes from outside the repository: the event-sourcing repository refuses
an append whose copy is not the latest version; a removed stream may be created
again and keeps numbering its versions; events of a removed stream may be lost
before they are projected; the projector handles events one at a time and in
order; the inventory hash identifies the full definitions; a forced refresh with
an unchanged hash ends in `update_async` without events.

### ToolExecution

A request walks from the token cache to the exchange, the call of the source and
the polling; `pc` is the await it is at.  Every service has a breaker: `state`,
`failures`, `tests` (`half_open_calls`) and `cooled` (the recovery timeout has
passed since the last failure).  `probes` is a history variable, the requests
admitted as test calls of the current half-open phase.  `Admit`, `OnSuccess` and
`OnFailure` are the breaker's three locked sections; the call between them is
not under the lock, so answers arrive in any order.  `failures` stops at the
threshold because the code only asks whether the count has reached it.  A
call ends in an answer or in an exception raised inside it (`Raises`): because
the service is down, or because the tool is `faulty` - Keycloak is up and refuses
its tokens (`_do_exchange` raises on every status but 200, and on a 200 it
cannot read), or its requests cannot be sent.  Some calls of a faulty tool may
succeed, as a tool is called for several users.  An answer of a source counts as
a success whatever its status, so statuses of sources are left out.

### WsConnections

`at[c]` is the await at which the endpoint of connection `c` stands (`connect`,
then the receive loop, then the `finally` clause); the heartbeat task visits a
snapshot of the connections, the clean-up task closes idle ones.  `disconnect`
has two parts, `Disconnect` and `DisconnectEnds`, because it awaits the close
message and the close of the socket; `closes[t]` is the connection a task is
closing.  All connections belong to one conversation, so that a handler's
broadcast may fail on another connection and disconnect it.  A client answers
pings, or is frozen (socket open, no answers), or has gone; a send to a client
that has gone may go unnoticed or raise.  The receive loop ends when the client
has gone or the server closed the connection (`ReceiveEnds`), and at a frame it
cannot read, malformed or binary, from a client whose end may be open
(`ReceiveBreaks`): then the `finally` clause's `disconnect` has a socket to close
and two parts, between which others may disconnect the connection too.

`CONNECTED` and `AUTHENTICATED` are one state because nothing is awaited between
them; nothing in the code enters `PAUSED` or `RECONNECTING`.  A failing send
inside `disconnect` disconnects again until Python's recursion limit is hit and
caught; its outcome, one finished disconnect, is what the model has.

### AccessCatalog and AccessResolution

A group or a policy is a set of marks (that it exists, is active, its selectors,
explicit and excluded tools, the groups it grants, the agents it matches); an
event puts marks on and takes marks off.  `write` is each stream as the state its
events give, `log` the events in the order of the category, `done` how many of
them are projected, `dto` the read model.  A command that is no longer on the latest version
is refused by the event store and changes nothing, so one that succeeds is one
step; a deletion is two, the saved event and the removal of the stream.

| Code | Actions |
| --- | --- |
| `commands/tool_group`, `domain/entities/tool_group.py` | `CreateGroup`, `AddSelector`, `RemoveSelector`, `AddExplicitTool`, `RemoveExplicitTool`, `ExcludeTool`, `IncludeTool`, `SyncSelectors`, `SyncTools`, activate, deactivate and delete |
| `commands/access_policy`, `domain/entities/access_policy.py` | `DefinePolicy`, `UpdatePolicy`, activate, deactivate and delete |
| both deletions' second call | `Remove` |
| the two modules of projection handlers | `Project`; `Restart` delivers a stretch of events again |
| `get_agent_tools_query.py`, `access_resolver.py` | `Begin`, `ReadAccess`, `EvaluatePolicies`, `KeepAccess`, `ReadGroups`, `ReadManifest`, `LoadGroup`, `MatchTools`, `StoreManifest`, `Answer` |
| `execute_tool_command.py`: which tool is called | `Execute` |
| Redis | `ExpireAccess`, `ExpireManifest` |
| enabling and disabling of a tool, as the read model shows it | `SwitchTool` |

A query is at one await (`at`) with what it has gathered (`job`); `access` and
`manifest` are the two caches, of an agent's groups and of a group's tools.
Nothing in the code invalidates them, so they only expire.  `seen` is a history
variable: which groups were active and which tools enabled at some moment of a
query.  That deliveries may be repeated after a restart is what
`docs/architecture/read-model-reconciliation.md:369-375` says of the subscription.

### McpExecution

A call is a tool call of an agent or the listing of a source by a refresh; a
transport is named after the call that made it and has a process, an input and an
output pipe.  `pool` is the singleton pool, `queue` its lock with those waiting.

| Code | Actions |
| --- | --- |
| `transport_factory.py`: get_transport, `_create_transport` | `Arrive`, `Unresolved`, `CreateTransient`, `ReusePooled`, `CreateSingleton` |
| `stdio_transport.py`, `http_transport.py`: connect | `Spawn`, `SpawnFails`, `Initialized` |
| the same: `_send_request` | `Read`, `TimeOut`, `Lose` |
| the adapter's disconnect | `Disconnect` |
| the server and the operating system (external) | `Answer`, `Notify`, `Exit`, `Reap` |

A line on a pipe is an answer to some call, a message nobody asked for, an
overlong line, or the rest of one; a reader takes the first line, whoever's it is.
`overlapped` and `misled` are history variables: transports that were asked while
another call was waiting for them, and those whose handshake took a message
nobody had asked for as its answer.

### Blueprints

`store` is the sequence of documents kept under each identifier (the database
has no unique index on the slug, so two creations may both succeed), `form` what
each administrator sees, `at` and `job` the write a request waits for with its
documents.

| Code | Actions |
| --- | --- |
| get, export | `View` |
| update template, update definition, import | `Update`, then for templates `Sync` and `Finish` (the loops over the items), then `Write` |
| create, import | `Create`, `Add` |
| delete | `Delete`, `Mark`, `Erase` |
| a write that fails or is refused by the repository's version | `Fail` |
| database reset | `Begin`, `Drop`, `Seed`, `AddSeed`, `Done` |
| a restart, with seeding at start-up | `Restart` |

A document has two versions: the `version` of the state, which the form sends
back, and the `stamp` that the repository compares when it writes.  The loops
over sets of item ids are steps of their own, in any order, because Python
iterates sets in any order; nothing else happens in between, as they have no
await.

### AgentRuns

A handler chooses a model, by a field of the agent and one of the provider that
everybody else sets as well, and asks later; a run asks again in every round.
`llm` is the agent's provider, `override` the override of each provider,
`configured` and `default` the settings, `task` each connection's handler,
`saving` the settings that administrators are applying: no lock keeps two from
overlapping, and a default that is no name of a type is only logged.

| Code | Actions |
| --- | --- |
| `agent_runner.py` run_stream, `react_agent.py` | `StartRun`, `ReadHistory`, `Ask`, `Post`, `AnswerText`, `AnswerCalls`, `RunTool`, `NextRound`, `Fail` |
| response scoring, item generation | `StartChat`, then `Ask`, `Post` and the answer |
| `handlers/model_handler.py` | `ChangeModel` |
| `settings_controller.py`, `llm_provider_factory.py` | `SaveSettings`, `Reconfigure`, `SetDefault` |

A flow that runs in the background beside a receive loop counts as a connection
of its own.  `Slow` are the providers that fetch an OAuth token before they build
a request.  `disturbed` is a history variable: the handlers whose choice
somebody else has touched since; the property speaks of the others.  It is what
the code guarantees: nothing keeps the choice of a run from being changed.

## 3. What TLC checks

| Run | Question | Instance | Properties |
| --- | --- | --- | --- |
| `FlowFaults` | what reaches the aggregate when the flow is restarted in the background and any call may fail? | 1 connection, 1 background task, 2 items (the second confirmed), all faults, 1 message | `TypeOK`, `StoredResponsesComplete`, `NoItemSkipped`, `RepliesAccounted`, `RefinesTemplateRun` |
| `FlowPatientUser` | does a user who answers get to the end? | 1 connection, 1 background task, 3 items (confirmation first, two widgets, one widget), no faults | `SuspendedAwaitsResponse`, `PatientUserCompletes` |
| `InvCommands` | do overlapping commands of every kind act as if run one at a time? | 2 requests at a time, 4 in all, 1 tool, 2 definitions, 1 change upstream, calls fail | `TypeOK`, `FailureCountExact`, `AdminDisableHolds`, `OutdatedByRefresh`, `RefinesAtomicInventory` |
| `InvReadModel` | do inventories reach the tools, and the tools the agents, with one refresh at a time? | 2 requests at a time, 3 in all, one of them may refresh, calls fail | `ReadModelInSync`, `IngestReachedTools`, `ReadModelCatchesUp` |
| `ExecCalls` | do breakers stay consistent and recover when late answers, outages and resets mix? | 2 requests, Keycloak and 1 source that go down, 1 tool that becomes faulty, threshold 2, 1 test call, 2 polls | `TypeOK`, `RefinesBreakers`, `HalfOpenProbed`, `OwnFailuresOnly`, `CircuitRecovers` |
| `WsLifecycle` | is tracking right when several tasks close a connection, and are dead clients forgotten? | 2 connections, 1 of them with a slow connect and a client that may freeze, go or send garbage, 2 missed pongs | `TypeOK`, `TrackedIffOpen`, `ReturnedUntracked`, `GoneForgotten`, `FrozenForgotten` |
| `AccCatalog` | is a read model that has caught up what the commands left, when events are delivered twice? | 2 groups, 2 policies, 2 selectors, 1 tool, 1 agent, 3 events, 1 restart | `ReadModelConverged` |
| `AccAnswers` | is nothing listed that was switched off, and do answers converge, with caches that are never invalidated? | 2 queries, 1 group, 1 policy, a failing cache, 1 event, 1 tool switched once | `SwitchedOffNotListed`, `AnswersConverge` |
| `McpCalls` | who owns a process, whose answers are these, and do calls end? | 2 calls over a pooled plugin, a plugin per call and a remote server, 1 unasked message, overlong lines | `TypeOK`, `OneServerPerSource`, `ProcessesOwned`, `AnswersAccountedFor`, `CallsEnd` |
| `McpStray` | is a call given its own answer? (violation) | 2 calls of one singleton plugin | `OwnAnswer` |
| `Blueprints` | is a form only saved over what it was opened on, with exactly its items? | 1 definition, 1 template with a file, 2 administrators (symmetric), 1 reset or restart | `TypeOK`, `ItemsReplaced`, `VersionNamesContent`, `SavedAsSeen` |
| `AgentModels` | does a run that nobody disturbs ask its own model in every round? | 2 conversations, one with a model of its own; 2 providers, 4 names of models, 2 changes, which may overlap | `TypeOK`, `OwnModelAsked`, `HandlersEnd` |

Every property of a passing run has a mutant: a plausible bug in one definition
that the same run must find.

The type invariant of `AccessResolution` is in no run: it is proved
(`ResolutionTypeCorrect`), and the run asks what is not.

**Bounds, and why they are enough.**

- *Flow*: two items show order and completion, three a middle item;
  `MaxRestarts` = 1 background task beside the receive loop is the smallest
  overlap, and a second task does only what the first does (two were explored
  during development); `MaxProgress` stops answers after progress has passed the
  number of items (answers to re-presented items raise it beyond; 7 lets all
  three items be answered twice); failing calls and informational items, of
  which `SuspendedAwaitsResponse` makes exceptions, were explored with it during
  development and are in its theorem;
  `MaxMessages` = 1 because a message leaves nothing behind but its placeholder.
  Two connections of one conversation are beyond the time of a run; they were
  explored during development, and `ImplementsTemplateRun` is proved for any
  number.  Templates that let the conversation continue after the last item
  (`ContinueAfter`) are covered by the proofs only: without them a run shows
  what is stored as completed.
- *Inventory*: `MaxJobs` = 4 requests with two at a time let one request
  overtake two others at any await; two definitions tell old from new; one
  change upstream makes two fetches differ; one tool, because requests touch
  tools one at a time - the theorems hold for any number.
- *Execution*: two requests put one call in flight while another opens, tests or
  closes the circuit; threshold 2 tells one failure from enough; with one test
  call the second request meets a full half-open circuit.
- *Connections*: two connections let one broadcast to, and close, the other
  while its `connect` is under way; two missed pongs tell counting from not
  counting (the code's default is 3).
- *Access*: `MaxEvents` = 3 is a creation or deletion with two changes between,
  and a redelivery of any stretch of them; groups and policies do not depend on
  each other before a query.  `AccAnswers` gives queries one event and one
  switched tool to be caught by at each of their awaits.
- *MCP*: two calls make every overlap of a reader with an answer, of a first
  start with another and of a time-out with a late answer; one unasked message,
  during the handshake or after it, shifts all that follow.
- *Blueprints*: two lists of items of which one item stays and is changed, others
  go, and new ones ask for places they do not get; `MaxWrites` lets both
  administrators write, `MaxCreated` and `MaxResets` = 1 let an identifier be
  used again.
- *Agents*: `MaxRounds` = 2 gives a run a round after the tools; `MaxTools` = 1
  of up to `MaxCalls` = 2 calls shows that the rest are dropped; two changes
  let one undo another, and two settings overlap while they are applied.

What a bound could hide from the safety properties is covered by the theorems,
which have none of these limits.

**Symmetry** is used only where it is sound: workers in `InvCommands`,
administrators in `Blueprints`; no run with a liveness property uses it.

**Fairness.**  Weak fairness of server steps everywhere: the event loop runs
every ready task, and awaited calls return or fail (HTTP calls, commands and
sends have timeouts; the sends and closes of `WsConnections` are assumed to
end).  In addition:

- `PatientUserSpec` has strong fairness of the user's answers to what the
  current item still asks for: the socket delivers an answer in its turn after
  whatever the client sent before.  Nothing is assumed of starts, pauses or
  messages.
- `ToolInventory` has weak fairness of each request and of the projector.
- `ToolExecution` has weak fairness of time: recovery timeouts pass and cached
  tokens expire.  `BusySpec` adds that tools go on being called with arguments
  that render, since an open circuit is only tested by a caller.  That tools do
  not remain faulty is no fairness but a hypothesis of `CircuitRecovers`.
- `WsConnections` (`RunningSpec`) has weak fairness of the endpoints, of the
  heartbeat's sweep and visits and of unfinished closes; none of the client's
  steps and none of the clean-up task.
- `AccessResolution` (`FairSpec`) has weak fairness of the projector, of the
  steps of each query and of the expiry of each cached value; none of the
  administrators, nor of new queries.
- `McpExecution` and `AgentRuns` (`FairSpec`) have weak fairness of a call's, or
  a handler's, next step, which a time limit or a failure always allows; nothing
  of servers, administrators or users.

`CHECK_DEADLOCK FALSE` is set in all runs but `AccAnswers`, because the systems may come to rest:
the bounds on requests, events and messages are reached, clients stop sending,
all connections are closed.

### Violation found

| Run | What the code does | What is said |
| --- | --- | --- |
| `McpStray` | `stdio_transport.py:307` takes the next line as the answer to whatever it asked and never compares ids; the transport of a singleton source is shared, so a call whose predecessor timed out, or that overlaps another, is given the other's answer | `infrastructure/mcp/models.py:116`: "Correlation ID matching the request" |

### Other divergences, modelled as the code has them and not asserted

Orchestrator and connections:

- `COMPLETED` and `ERROR` are called terminal in `context.py`, and a cancel
  leaves them; responses are accepted in any state; `template_progress` counts
  advances beyond the template when items are presented again.
- A paused flow ignores a flow start, which acts only in `READY`
  (`flow_handler.py:67`), although `:85-86` says that it resumes; an item
  without required widgets stays for ever although `item_presenter.py:184`
  announces an auto-advance.
- When the next item cannot be loaded after a response, the handler ends with the
  context still `SUSPENDED` on the item just completed, and no further answer to it
  is needed or announced (`flow_runner.py:252-262`): the hypothesis of
  `SuspendedAwaitsResponse`.  A background flow that is rendering while the
  receive loop completes the template sets a completed context to `SUSPENDED` again.
- A `SendMessageCommand` that fails is only logged and the agent answers a message
  that was not stored; a `CompleteMessageCommand` that fails leaves its placeholder
  PENDING for good (`message_handler.py:136-143`, `:163-164`).
- A template edited while a conversation runs on it shifts the items behind the
  conversation's index.
- A broadcast that fails while a connection initialises disconnects it;
  `initialize` then stores a context that nobody releases
  (`orchestrator.py:211`, `:273`, `manager.py:258-260`).
- A client that has never answered a ping is never counted as missing one, and
  the pings keep it from idling: only the transport's own keep-alive ends it.
  Pongs are read between handlers, so a handler longer than the allowance gets a
  responsive client disconnected; `heartbeat_timeout_seconds` is not used.

Inventory, execution and MCP:

- An older refresh may overwrite a tool after a newer one stored its hash; later
  refreshes find the hash unchanged and skip the tools
  (`refresh_inventory_command.py:235`, against `:79`).
- A tool that the upstream no longer offers is not deprecated; deleting a source
  leaves tools that had no DTO yet (`delete_source_command.py:86`), and a
  conflict on the source leaves its tools deleted and its hash in place (`:140`);
  a refreshed definition replaces an administrator's description in the read
  model; a successful refresh without changes leaves the source degraded
  although `enums/source.py:26` calls healthy "Last sync successful"; deleting a
  tool leaves its DTO although `delete_tool_command.py:25-26` says it is removed.
- An answer to a call admitted earlier closes an open circuit at once
  (`keycloak_token_exchanger.py:217`), although
  `docs/troubleshooting/circuit-breaker.md:13` leaves open only for half-open.
  A 5xx answer of a source is a success for the breaker although `:39` there
  lists consistent 5xx errors as a trigger.  A token that Keycloak refuses is a
  failure of the one circuit all users share (`keycloak_token_exchanger.py:542`):
  an expired session or a wrong audience of one tool, called often enough, has
  the exchanges of all others rejected although Keycloak is up, and keeps the
  circuit from closing; an open source circuit met during the
  exchange is reported as a failed token exchange.  A polled operation that runs
  into `poll_timeout` is reported as retryable although it goes on upstream.
- The handshake takes the first line for the answer to `initialize`, whatever it
  is (`stdio_transport.py:149-164`); a message the server had sent before makes it
  connect early and leaves the real answer for the first call.
- The process of a transient MCP source is never disconnected after a call
  (`mcp_tool_executor.py:181`; `domain/enums/source.py:102` and
  `docs/architecture/mcp-tools.md:121` say it is): `ProcessesOwned` allows for
  it.  `transport.py` says "NOT thread-safe" of what overlapping calls share;
  `release_transport`, `close_all` and `health_check` are never called; a write
  to a plugin has no time limit; a remote server's JSON-RPC errors with codes of
  -32000 and above become empty successes.

Access:

- The cache of an agent's groups is not invalidated when a policy changes
  (`access_resolver.py:192`, `:195`; `docs/implementation/agent-tools-query.md:373-374`
  says it is): an answer is late by up to two times to live, the manifest's included.
- The DTO of a deleted group may remain when the stream is removed before the
  event is projected.  A synchronisation of selectors is projected removal by
  removal before the additions: the group is widened for a moment, and a
  manifest cached then lasts its time to live.  Selectors are all required,
  while their docstring says any.

Templates and definitions:

- Every `clear_*` flag of a definition's form is without effect
  (`update_definition_command.py:141-143`, against
  `admin_definitions_controller.py:106-109`); repeated item ids break the
  replacement of items; two overlapping creations of a slug both succeed.
- A slug that is used again, or reset, starts at version 1, so that a form of the
  earlier blueprint passes the version check; the deletion of a template checks
  no version; a deletion is two calls, and an update accepted between them is
  lost.

Agents and conversation:

- A run without a model of its own clears the override but keeps whichever
  provider was set last (`agent_runner.py:122`, "Clear any previous override to
  use default model"); scoring without a model sets the override "default" on
  the default provider; a model change, even a refused one, sets the override of
  a provider others are using; changed settings close a provider's client under
  running streams.
- The history that a run sends already holds the user's message and the empty
  placeholder, so the message is sent twice; tool calls beyond
  `max_tool_calls_per_iteration` are announced and get no result; the agent's
  time limit and `retry_on_error` are not implemented; a failed tool call is not
  forwarded to the browser; a stream that ends without its end marker counts as
  an answer in text and its tool calls are dropped.
- Not modelled, seen while reading: the score of an item's second widget
  replaces that of its first, and a first score of 0 has the maximum added again
  (`conversation.py:391`); `data_handlers.py:131` computes a time with
  `minute - 1`; a cancel reopens a completed conversation; nothing calls the rate
  limiter; a request that has waited for another's refresh of the OpenAI token
  deletes the other's lock (`openai_token_cache.py:294`); navigation back, pause
  and resume of the REST API cannot succeed (`chat_controller.py:408`, `:469`).

## 4. What is proved

TLAPS proves every theorem for any number of connections, items, widgets, tools,
requests, services, groups, policies, calls, sources, administrators, providers
and models, from
the named assumptions of the modules (`ItemsAssumption`, `ModeAssumption`,
`WidgetsAssumption`, `BoundsAssumption`, `InventoryAssumption`, `FiniteAssumption`,
`CommandAssumption`,
`ExecutionAssumption`, `TasksDiffer`, `MaxMissedPositive`, `CatalogAssumption`,
`ResolutionAssumption`, `McpAssumption`, `BlueprintsAssumption`,
`AgentAssumption`), which only
give the constants their types; TLC evaluates them in every run.  Some are more
than a type: the tools of a source, the widgets of a template and the marks of
groups and policies are finitely many (`FiniteAssumption` and `WidgetsAssumption`
are only used to bound the steps of a request and of a submission), and the items
of a list in `Blueprints` have different ids, which the code does not check (see the
divergences).

| Module | Theorems |
| --- | --- |
| `ConversationFlowProofs` | `InOrder`, `TypeCorrect`, `ResponsesComplete`, `AnswersInOrder`, `CompletionCovers`, `CompletionIsStored`, `PresentsInOrder`, `ImplementsTemplateRun`, `RepliesOwned`, `SuspendedAwaits`, `HandlersGoForward` |
| `ToolInventoryProofs` | `CommandsInOrder`, `TypeCorrect`, `DeprecatedDisabled`, `FailuresCounted`, `DisableHolds`, `ImplementsAtomicInventory`, `RefreshesOnlyOvertaken`, `SyncKept`, `HashReachedTools`, `ReadModelFollowsTools`, `RequestsGoForward` |
| `ToolExecutionProofs` | `BreakerConsistent`, `TypeCorrect`, `CountRight`, `ImplementsBreakers`, `HalfOpenHasProbe`, `FailuresAreOwn`, `RequestsGoForward` |
| `WsConnectionsProofs` | `ConnectionsConsistent`, `TypeCorrect`, `TrackingFollowsState`, `ReturnUntracks`, `LifecycleRespected`, `GoneOnlyLeaves`, `FrozenUsesAllowance` |
| `AccessResolutionProofs` | of `AccessCatalog`: `CatalogConsistent`, `CatalogTypeCorrect`, `ReadModelFollows`; of `AccessResolution`: `ResolutionImplementsCatalog`, `ResolutionTypeCorrect`, `NothingSwitchedOff`, `SettledAnswersExact`, `QueriesGoForward` |
| `McpExecutionProofs` | `PoolConsistent`, `McpTypeCorrect`, `OneServer`, `LockInTurn`, `LockNeverLost`, `NoProcessLost`, `AnswersExplained`, `CallsGoForward` |
| `BlueprintsProofs` | `BlueprintsTypeCorrect`, `UpdatesSaveTheItems`, `VersionsAreUnambiguous`, `NoChangeOverwritten` |
| `AgentRunsProofs` | `ChoicesHold`, `AgentTypeCorrect`, `OwnModelIsAsked`, `TasksAdvance` |

**ConversationFlow.**  That answers come in order is not inductive: the step
that stores a response reads an item completed several awaits earlier.  `IInv`
adds `ContextInOrder` (everything before the context's index is answered),
`HeldInOrder` (the response being persisted is complete, the index is at most
its item, and everything before it is answered) and `ArgInOrder` (what a thread
is about to load or render has everything before it answered).  They hold
because a background task always starts at item 0: while a response is being
persisted the index can only go back.  Answered items never become unanswered,
so all three survive the steps of other threads.  `ImplementsTemplateRun` then
maps storing a response to `AnswerItem` or a stutter, and the completion command
to `Complete`.  The proofs cover reactive conversations (`Proactive` = FALSE),
which no run instantiates.

`RepliesOwned` is about every step and any failing calls.  `Orphans` counts the
PENDING placeholders beyond those whose loop waits for the agent or is about to
store its reply; each step either moves one loop into or out of that set together
with one placeholder, and leaves the difference alone, or it is a handler that
gives up (`GivesUp`).

`SuspendedAwaits` needs to know where in a handler an item may be complete although
nobody is going to answer it, with a background flow beside it that presents
items again.  `Sound` says that a complete interactive item other than the last
has its loop at work on going on: it holds the item's response, or the rest of
the batch will complete it, or it is loading the item that follows.  `There` and
`Shown` say that whoever rests in `SUSPENDED` has an item and, without a background
flow (`Restarted`), one that asks for something; `OffUntilOpen` that nothing runs
before the connection is open.

**ToolInventory.**  What a request stores was decided on a copy loaded earlier.
`IInv` says that a copy whose version is still the latest equals the aggregate
(`ToolCopy`, `SourceCopy`) and that what is about to be stored follows from the
copy (`Decided`).  A successful append therefore decides on the aggregate
itself, and `ImplementsAtomicInventory` maps it to the corresponding command of
`AtomicInventory`; everything else stutters.  `InStep` (a
tool that a refresh has gone through has the definition fetched) is kept, relative
to `IInv`, by every step but another refresh's save: nothing else changes the
definition of an active tool, and a tool that is deleted and created again is
created by a refresh.  That is `RefreshesOnlyOvertaken`, for any number of
refreshes that overlap; `SyncKept` and `HashReachedTools` follow for one refresh
at a time, which is their hypothesis and not ensured by the code.

`ReadModelFollowsTools` is about a log that grows while it is read, of which the
projector may have any part behind it.  `Follows` says that for every tool that
was never deleted the events that are left, applied to the DTO of the moment,
lead to a DTO that shows the tool as it is (`Replays`, `Shows`); a cascade
deletes DTOs past the log, and `Removed` and `Victims` say that it does so only
for tools whose stream it has removed.  At the end of the log nothing is left to
apply, and `Follows` is the property.

**ToolExecution.**  Leaving the half-open state clears the probes and entering
it admits one, so the probes are always in flight and as many as `tests`; the
failure count is cleared when a circuit closes and at the threshold when it
opens, so it decides the state whatever answer comes in.  The invariant is
proved breaker by breaker (`AdmitKeeps`, `SuccessKeeps`, `FailureKeeps`) and
lifted to requests by the fact that a request waits for one service.

`ImplementsBreakers` hides state and counters: `CircuitBreakers` says only that a
service that has failed often enough since its last answer is left alone until
it has rested, and then gets a limited number of calls at a time.  A call maps to
`Enter` when it is admitted and to `Succeed` or `Fail` when its answer is
counted; a rejected call, polling intervals and the token cache stutter.  The
refinement does not hold of the type invariant alone: that a half-open service
has rested has to be part of the invariant (`TestsCounted`), because the code
looks at the clock only when it leaves the open state; and that the count is at
the threshold exactly while the circuit is not closed (`CountDecides`, proved as
`CountRight`) is what lets the abstract breaker do without a state.

**WsConnections.**  `connect` goes on after another task may have closed its
connection, and `transition_to` refuses to leave `CLOSED`: that is what keeps
`TrackedIffOpen`.  `ReturnedUntracked` needs `ClosesOwn` (a returned endpoint
whose connection is still tracked is itself closing it), the type invariant
needs `Allowance` (an open connection has missed fewer pongs than the maximum),
and both need `OpenedFirst` (only accepted connections are being closed).

**AccessCatalog.**  That a read model catches up is about the whole log, which
a redelivery goes through again from an earlier point.  `LastWord` says that the
last event about a mark decides it in the write model, and in the read model as
long as the projector is past it; after a restart it will pass it again.
`CreatedFirst` says that a
group or policy is created before anything else and once, so that a creation that
is delivered again finds its DTO and does nothing.  `ReadModelConverged` is
`LastWord` at the end of the log.

**AccessResolution.**  A step of a query or a cache changes nothing of the
catalogue, so the composition implements `CatalogSpec`.  `NothingSwitchedOff`
holds whatever the caches hold, because a query reads itself which of its groups
are active and, at the end, which of its tools are enabled; `Noted` relates what
it has gathered to what the read model said in the meantime.

`SettledAnswersExact` is the safety half of `AnswersConverge`.  `Settled` says
that whatever is cached or already gathered by a query is what the read model
says now (`Current`, await by await).  It survives every step that leaves the
read model alone, because a query stores in a cache only what it has computed
from the read model or from another cache; and in a settled state an answer, and
an early empty one (`GivesUp`), is exactly `Entitled`.  What remains for fairness
is that every query takes its next step, of which it has a bounded number
(`QueriesGoForward`), and that every cached value expires once.

**McpExecution.**  `OneServerPerSource` is about processes, the code's care is about
the lock and the pool.  `IInv` links them: whoever connects or closes a pooled
transport holds the lock (`LockInv`); a call connects its own transport and uses
another one only if that came from the pool (`OwnInv`); and the pool has every
pooled transport that is connected and is no longer being connected or closed,
and none for a source that is being connected (`PoolInv`).  Of two running
servers of one source both would have to be in the pool, or hold the lock, or
one be connected while the pool still has the other; none is possible.
`ProcessesOwned` follows from the same three parts.

`LockInTurn` is about the queue of the lock itself (`TurnInv`): it lists the calls
at, or inside, the critical section, each once, in the order of arrival.  That
a call is never dropped from it while it waits, whichever way the holder leaves
the section, gives `LockNeverLost`: the head of the queue is the waiting call or
one that arrived before it.

`AnswersExplained` follows requests through the pipes (`AnswerInv`).  A request,
then its answer, is once in the pipes of the transport it was sent over and
nowhere else, until a call reads it (`PipeAt`, `TokensAt`, `ResultAt`); so it is
given to one call only, and to one that asked the same process.  The answer to
the handshake is followed in the same way: it can stay in a pipe only if the
handshake ended on a message nobody asked for (`misled`).  As long as nothing has put a transport out of step, at most one call waits for it and
whatever is in its pipes belongs to that call (`StepAt`): a call is then given
its own answer although nobody compares the ids.  What puts it out of step is
exactly what the property lists, and it never comes back into step (`Excused` is
stable).  Every step changes one call and one transport, so most of the invariant
is kept by all steps alike (`Kept`), and each action only has to say what it does
to its own pipes.

**Blueprints.**  `ItemsInv` follows the loops of an update: whatever the order of
iteration, what is removed, refreshed and inserted so far leaves a list without
repeated ids from which the reordering makes the list asked for.  `VersionInv`
says that of the documents, forms and requests of one identifier that is not
used again, those with the same version have the same content (`Traced`,
`Untouched`, `FormsAgree`), that a form is never ahead of the document
(`FormsBehind`) and that the write of a request follows from what it read
(`UpdatesFollow`, `MarksFollow`); `SavedAsSeen` and `VersionNamesContent`
follow.

**AgentRuns.**  `Chosen` says of a handler that nobody disturbed that the agent's
provider and the provider's override are still those it has set, `AtPoint` that
the provider it is waiting for is the one it has chosen; the lemma about `Choose`
shows that whoever sets either marks all others concerned as disturbed.

**Nothing is prolonged.**  `CallsGoForward`, `TasksAdvance`, the two theorems
`RequestsGoForward`, `QueriesGoForward`, `GoneOnlyLeaves` and
`FrozenUsesAllowance` are the safety halves of `CallsEnd`, `HandlersEnd`,
`ReadModelCatchesUp`, `CircuitRecovers`, `AnswersConverge`, `GoneForgotten` and
`FrozenForgotten`; `HandlersGoForward` says the same of the conversation's
handlers and background tasks.  Each names a number (`StepsLeft`, `PlacesLeft`,
`VisitsLeft`) that every step of an activity makes smaller and no step of another
makes larger, for any number of activities and any values of the bounds on
rounds, polls, groups, widgets and tools: loops over tools, widgets and groups,
rounds of the agent and polls cannot be restarted by what others do meanwhile.
They need facts of their own: an input is disabled only while its handler runs
(`InputOn`), a client that has gone had been accepted (`GoneAccepted`), an
active connection has missed fewer pongs than allowed (`Allowance`), a receive loop
runs nothing before its connection is open (`OffUntilOpen`), and a tool for which
`_sync_tools` has saved an event needs a second one only if it was deprecated
with another definition (`SavedOnce`).  `LifecycleRespected` says of the
connections that tasks which disconnect them at any await of `connect` only take
them along the transition table.

**Only model-checked**: all liveness (`PatientUserCompletes`,
`ReadModelCatchesUp`, `CircuitRecovers`, `GoneForgotten`, `FrozenForgotten`,
`AnswersConverge`, `CallsEnd`, `HandlersEnd`), as fairness and ENABLED are out of
the prover's reach.  The theorems above prove of all but the first that what is
under way can only come to its end, of `AnswersConverge` also that it is enough
for caches and queries to have been renewed once, and of `CallsEnd` that no lock
is lost; that the next step is taken is what TLC adds.  Of a conversation as a
whole no such measure is stated, although each of its handlers has one: a restart
begins again at the first item, so `PatientUserCompletes` rests on the user.

## 5. What is not modelled

- Within the modelled parts: loading of definitions and tools and the rendering
  of widgets (orchestrator); registration, labels and the fields of definitions
  (inventory); validation of arguments and scopes, built-in tools, other
  authentication modes, breaker events (execution); `stop_async`, resume, rate
  limits and message contents (connections); names, descriptions, priorities and
  pattern syntax, the tool and source entries of the Redis cache, which nothing
  uses, and the stream of an agent's events (access); the contents of messages
  and writes that block (MCP); the fields of a blueprint other than its items,
  the aggregates' partial updates, which no command calls (blueprints); prompts,
  messages, arguments, token counts, the run without streaming, which nothing
  calls (agents).  Nothing cancels an execution in the code, so cancellation is
  not modelled.
- The other components of section 1, each with its reason in `PROJECT.json`.
  Adapters, user interfaces and authentication are input and output around
  outside services; the others are planned.
- Crashes of the process: contexts, breakers, pools and connections are memory
  and start empty, which is the initial state of their modules; restarts are
  modelled where something outlives them, for the subscription of the projector
  and for the seeding of blueprints.

## 6. Plan

Done: (1) the conversation flow with `TemplateRun`, the centre of the product;
(2) the tool inventory with `AtomicInventory`; (3) tool execution; (4) the
connection manager; (5) access: catalogue, queries and caches; (6) MCP
execution; (7) templates and definitions; (8) the agent and its providers.

Next, in this order:

9. The scores and messages of `ConversationAggregate` (its deadline, pause and
   navigation are reached by no command; hazard at `conversation.py:391`).
   Theorem: the total score is the sum of the item scores.
10. `TokenCache`: the OpenAI token and its refresh lock (hazard at
    `openai_token_cache.py:294`).
11. `KnowledgeNamespace` with its revisions.
12. A composition of `WsConnections` and `ConversationFlow` that derives
    `Disconnect` from the connection manager's steps.
