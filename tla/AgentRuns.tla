------------------------------ MODULE AgentRuns ------------------------------
(***************************************************************************)
(* How agent-host asks language models: the runs of the one agent that all *)
(* connections share, the scoring of answers and the generation of items.  *)
(* Each says first which model it wants, by a field of the agent and one   *)
(* of the provider that everybody else sets as well, and asks later; a run *)
(* asks again after every round of tool calls.  An administrator may change*)
(* the settings of the providers at any time.                              *)
(*                                                                         *)
(* A connection handles one message at a time.  at says at which await the *)
(* handler is:                                                             *)
(*   idle     none                     history  loading the conversation   *)
(*   ask      telling the browser      token    getting a provider's token *)
(*   answer   reading the answer       tools    executing tool calls       *)
(* Texts, prompts and arguments are left out.                              *)
(***************************************************************************)
EXTENDS Naturals

CONSTANTS
  Conns,        \* connections, each with a conversation; a flow that runs in
                \* the background counts as one
  Providers,    \* registered providers
  Absent,       \* types of providers that are not registered
  Slow,         \* those that get a token before they send a request
  Models,       \* names of models
  ProviderOf,   \* provider that the prefix of a name says, or None
  Selectable,   \* conversations whose definition lets the user choose a model
  Defined,      \* model of each conversation's definition, or None
  Initial,      \* the default provider at the start
  Configured,   \* model configured for each provider at the start
  Order,        \* place of each provider in the order of reconfiguration
  Choices,      \* settings an administrator may store: models and a default,
                \* or None for a default that is no name of a type
  Fallback,     \* names used to score and to generate without a model
  MaxRounds,    \* max_iterations
  MaxTools,     \* max_tool_calls_per_iteration
  MaxCalls,     \* bound: tool calls in an answer
  StopOnError,  \* stop_on_error
  MaxChanges,   \* bound: changes of models and settings
  None

Kinds == {"run", "score", "generate"}

Types == Providers \cup Absent

ASSUME AgentAssumption ==
  /\ None \notin Types \cup Models
  /\ Providers \cap Absent = {}
  /\ Slow \subseteq Providers
  /\ ProviderOf \in [Models -> Types \cup {None}]
  /\ Defined \in [Conns -> Models \cup {None}]
  /\ Initial \in Providers
  /\ Configured \in [Providers -> Models]
  /\ Order \in [Providers -> Nat]
  /\ \A p \in Providers : ProviderOf[Configured[p]] \in {p, None}
  /\ Choices \subseteq [models : [Providers -> Models], default : Types \cup {None}]
  /\ \A s \in Choices, p \in Providers : ProviderOf[s.models[p]] \in {p, None}
  /\ Fallback \in [{"score", "generate"} -> Models]
  /\ {MaxRounds, MaxTools} \subseteq Nat \ {0}
  /\ {MaxCalls, MaxChanges} \subseteq Nat
  /\ StopOnError \in BOOLEAN

VARIABLES
  llm,          \* the agent's provider
  override,     \* _model_override of each provider
  configured,   \* the model in each provider's settings
  default,      \* the factory's default provider
  saving,       \* settings that each change is applying: a model for each
                \* provider, those still to be reconfigured and the new
                \* default; or None
  model,        \* context.model of each connection
  task,         \* what the handler of each connection is doing
  input,        \* whether the browser's input is enabled, as last told
  changes,      \* changes of models and settings so far
  disturbed     \* history: handlers whose choice somebody else has touched

sharedVars == <<llm, override, configured, default>>
vars == <<sharedVars, saving, model, task, input, changes, disturbed>>

Points == {"idle", "history", "ask", "token", "answer", "tools"}

Settings == [models : [Providers -> Models], left : SUBSET Providers,
             default : Types \cup {None}]

Request == [on : Providers, model : Models]

\* own: the request it has chosen to make; on: the provider it is using;
\* asked: the request it has made last; round: iterations of the run;
\* calls: tool calls of the last answer still to be executed
Task == [kind : Kinds, at : Points \ {"idle"}, own : Request,
         on : Providers \cup {None}, asked : {None} \cup Request,
         round : 1 .. MaxRounds, calls : 0 .. MaxTools]

Idle == [kind |-> "none", at |-> "idle"]

Busy(c) == task[c].at # "idle"

NewTask(kind, at, p, m) ==
  [kind |-> kind, at |-> at, own |-> [on |-> p, model |-> m], on |-> None,
   asked |-> None, round |-> 1, calls |-> 0]

-----------------------------------------------------------------------------
(* The factory and the providers. *)

\* current_model
Current(p) == IF override[p] = None THEN configured[p] ELSE override[p]

\* get_provider_for_model: the provider of the prefix, or the default one
ProviderFor(m) == IF ProviderOf[m] = None THEN default ELSE ProviderOf[m]

\* p is given the model m, or none; the agent uses q.  Others that have chosen
\* p, or run with another provider than q, are disturbed.
Choose(c, p, m, q) ==
  /\ override' = [override EXCEPT ![p] = m]
  /\ llm' = q
  /\ disturbed' = (disturbed \ {c}) \cup
       {d \in Conns \ {c} : Busy(d) /\
          \/ task[d].own.on = p
          \/ task[d].kind = "run" /\ task[d].own.on # q}
  /\ UNCHANGED <<configured, default, saving>>

\* a request for model m is sent to p, or p gets a token first
Send(p, m, t) ==
  IF p \in Slow THEN [t EXCEPT !.at = "token", !.on = p]
  ELSE [t EXCEPT !.at = "answer", !.on = p, !.asked = [on |-> p, model |-> m]]

-----------------------------------------------------------------------------
(* The handlers.  A choice that the factory refuses, for want of the       *)
(* provider, changes nothing.                                              *)

Goto(c, t) ==
  /\ task' = [task EXCEPT ![c] = t]
  /\ UNCHANGED <<sharedVars, saving, model, changes, disturbed>>

\* variant: without a model of its own, the run takes the agent as it is
StartRunAsIs(c) ==
  /\ ~Busy(c)
  /\ LET m == model[c]
         p == IF m = None THEN llm ELSE ProviderFor(m)
     IN /\ p \in Providers
        /\ Choose(c, p, IF m = None THEN override[p] ELSE m, p)
        /\ task' = [task EXCEPT ![c] =
                      NewTask("run", "history", p, IF m = None THEN configured[p] ELSE m)]
  /\ UNCHANGED <<model, input, changes>>

\* a message of the user: the agent is given the provider of the model, or the
\* override of the provider it has is cleared
StartRun(c) ==
  /\ ~Busy(c)
  /\ LET m == model[c]
         p == IF m = None THEN llm ELSE ProviderFor(m)
     IN /\ p \in Providers
        /\ Choose(c, p, m, p)
        /\ task' = [task EXCEPT ![c] =
                      NewTask("run", "history", p, IF m = None THEN configured[p] ELSE m)]
  /\ UNCHANGED <<model, input, changes>>

\* an answer is scored, a report written or an item generated
StartChat(c, kind) ==
  /\ ~Busy(c)
  /\ LET m == IF model[c] = None THEN Fallback[kind] ELSE model[c]
         p == ProviderFor(m)
     IN /\ p \in Providers
        /\ Choose(c, p, m, llm)
        /\ task' = [task EXCEPT ![c] = Send(p, m, NewTask(kind, "ask", p, m))]
  /\ UNCHANGED <<model, input, changes>>

\* the conversation is loaded, if it can be, and the run begins
ReadHistory(c) ==
  /\ task[c].at = "history"
  /\ Goto(c, [task[c] EXCEPT !.at = "ask"])
  /\ input' = [input EXCEPT ![c] = FALSE]

\* the agent asks the provider it has now
Ask(c) ==
  /\ task[c].at = "ask"
  /\ Goto(c, Send(llm, Current(llm), task[c]))
  /\ UNCHANGED input

\* the token is there: the request is built, with the model as it is by now
Post(c) ==
  /\ task[c].at = "token"
  /\ Goto(c, [task[c] EXCEPT !.at = "answer",
                !.asked = [on |-> task[c].on, model |-> Current(task[c].on)]])
  /\ UNCHANGED input

\* the handler is done; after a run the browser's input is enabled
End(c) ==
  /\ task' = [task EXCEPT ![c] = Idle]
  /\ disturbed' = disturbed \ {c}
  /\ UNCHANGED <<sharedVars, saving, model, changes>>
  /\ input' = IF task[c].kind = "run" THEN [input EXCEPT ![c] = TRUE] ELSE input

\* an answer without tool calls, or one that breaks off
AnswerText(c) ==
  /\ task[c].at = "answer"
  /\ End(c)

\* variant: every tool call is executed
AnswerCallsAll(c) ==
  /\ task[c].at = "answer" /\ task[c].kind = "run"
  /\ \E n \in 1 .. MaxCalls : Goto(c, [task[c] EXCEPT !.at = "tools", !.calls = n])
  /\ UNCHANGED input

\* an answer to a run with tool calls, of which so many are executed
AnswerCalls(c) ==
  /\ task[c].at = "answer" /\ task[c].kind = "run"
  /\ \E n \in 1 .. MaxCalls :
       Goto(c, [task[c] EXCEPT !.at = "tools", !.calls = IF n < MaxTools THEN n ELSE MaxTools])
  /\ UNCHANGED input

\* a tool call is executed; that it failed is an answer to the model as well
RunTool(c) ==
  /\ task[c].at = "tools" /\ task[c].calls > 0
  /\ Goto(c, [task[c] EXCEPT !.calls = @ - 1])
  /\ UNCHANGED input

\* variant: the loop has no limit
NextRoundAlways(c) ==
  /\ task[c].at = "tools" /\ task[c].calls = 0
  /\ Goto(c, [task[c] EXCEPT !.at = "ask"])
  /\ UNCHANGED input

\* after the tool calls the model is asked again, or the run is at its limit
NextRound(c) ==
  /\ task[c].at = "tools" /\ task[c].calls = 0
  /\ IF task[c].round < MaxRounds
     THEN /\ Goto(c, [task[c] EXCEPT !.at = "ask", !.round = @ + 1])
          /\ UNCHANGED input
     ELSE End(c)

\* a query, a provider or, where errors stop a run, a tool has failed
Fail(c) ==
  /\ \/ task[c].at \in {"history", "token", "answer"}
     \/ task[c].at = "tools" /\ task[c].calls > 0 /\ StopOnError
  /\ End(c)

-----------------------------------------------------------------------------
(* Changes of models and settings. *)

\* a user chooses a model: the factory is asked for it, to see that there is one
ChangeModel(c, m) ==
  /\ ~Busy(c) /\ c \in Selectable
  /\ changes < MaxChanges
  /\ ProviderFor(m) \in Providers
  /\ Choose(c, ProviderFor(m), m, llm)
  /\ model' = [model EXCEPT ![c] = m]
  /\ changes' = changes + 1
  /\ UNCHANGED <<task, input>>

\* an administrator stores settings, or deletes them, which applies those of
\* the environment; no lock keeps others from doing the same meanwhile
SaveSettings(s) ==
  /\ changes < MaxChanges
  /\ changes' = changes + 1
  /\ saving' = [saving EXCEPT ![changes'] =
       [models |-> s.models, left |-> Providers, default |-> s.default]]
  /\ UNCHANGED <<sharedVars, model, task, input, disturbed>>

\* the next provider takes its settings and closes its client
Reconfigure(n, p) ==
  /\ saving[n] # None /\ p \in saving[n].left
  /\ \A q \in saving[n].left : Order[p] <= Order[q]
  /\ configured' = [configured EXCEPT ![p] = saving[n].models[p]]
  /\ saving' = [saving EXCEPT ![n].left = @ \ {p}]
  /\ disturbed' = disturbed \cup {d \in Conns : Busy(d) /\ task[d].own.on = p}
  /\ UNCHANGED <<llm, override, default, model, task, input, changes>>

\* then the factory takes the default, registered or not; one that is no name
\* of a type is only logged
SetDefault(n) ==
  /\ saving[n] # None /\ saving[n].left = {}
  /\ IF saving[n].default = None THEN UNCHANGED default
     ELSE default' = saving[n].default
  /\ saving' = [saving EXCEPT ![n] = None]
  /\ UNCHANGED <<llm, override, configured, model, task, input, changes, disturbed>>

Init ==
  /\ llm = Initial
  /\ override = [p \in Providers |-> None]
  /\ configured = Configured
  /\ default = Initial
  /\ saving = [n \in 1 .. MaxChanges |-> None]
  /\ model = Defined
  /\ task = [c \in Conns |-> Idle]
  /\ input = [c \in Conns |-> TRUE]
  /\ changes = 0
  /\ disturbed = {}

Proceed(c) ==
  \/ ReadHistory(c) \/ Ask(c) \/ Post(c) \/ AnswerText(c) \/ AnswerCalls(c)
  \/ RunTool(c) \/ NextRound(c) \/ Fail(c)

Next ==
  \/ \E c \in Conns :
       \/ StartRun(c) \/ Proceed(c)
       \/ \E kind \in {"score", "generate"} : StartChat(c, kind)
       \/ \E m \in Models : ChangeModel(c, m)
  \/ \E s \in Choices : SaveSettings(s)
  \/ \E n \in 1 .. MaxChanges :
       \/ \E p \in Providers : Reconfigure(n, p)
       \/ SetDefault(n)

Spec == Init /\ [][Next]_vars

\* a handler that can go on does: queries, providers and tools answer, fail or
\* run into a time limit
FairSpec == Spec /\ \A c \in Conns : WF_vars(Proceed(c))

-----------------------------------------------------------------------------
(* Properties. *)

\* Types of the variables.
TypeOK ==
  /\ llm \in Providers
  /\ override \in [Providers -> Models \cup {None}]
  /\ configured \in [Providers -> Models]
  /\ default \in Types
  /\ saving \in [1 .. MaxChanges -> {None} \cup Settings]
  /\ model \in [Conns -> Models \cup {None}]
  /\ task \in [Conns -> Task \cup {Idle}]
  /\ input \in [Conns -> BOOLEAN]
  /\ changes \in 0 .. MaxChanges
  /\ disturbed \subseteq Conns

Asked(c) == IF Busy(c) THEN task[c].asked ELSE None

(* In every round a conversation asks the model it has chosen, or without  *)
(* one that of the settings, unless somebody else has meanwhile chosen on  *)
(* the same provider, given the agent another one, or changed the settings.*)
OwnModelAsked ==
  \A c \in Conns \ disturbed : Asked(c) # None => Asked(c) = task[c].own

(* Every handler ends, with the browser's input enabled, whatever fails    *)
(* and however often the model asks for tools (max_iterations).            *)
HandlersEnd ==
  \A c \in Conns : Busy(c) ~> (~Busy(c) /\ input[c])

\* how many steps a task has left at most
StepsLeft(t) ==
  (MaxRounds - t.round) * (MaxTools + 4) +
    CASE t.at = "history" -> MaxTools + 5
      [] t.at = "ask"     -> MaxTools + 4
      [] t.at = "token"   -> MaxTools + 3
      [] t.at = "answer"  -> MaxTools + 2
      [] t.at = "tools"   -> t.calls + 1

(* No step of anybody prolongs a task, and the one that ends it leaves the *)
(* browser's input enabled: at most max_iterations rounds of an answer and *)
(* the tool calls it is allowed (run_stream).                              *)
HandlersAdvance ==
  [][\A c \in Conns : Busy(c) /\ task'[c] # task[c] =>
       IF Busy(c)' THEN StepsLeft(task'[c]) < StepsLeft(task[c]) ELSE input'[c]]_vars
=============================================================================
