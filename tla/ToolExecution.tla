---------------------------- MODULE ToolExecution ----------------------------
(***************************************************************************)
(* Execution of HTTP tools by tools-provider: the exchange of the agent's  *)
(* token, the call of the upstream and the polling of an asynchronous      *)
(* operation, each behind the circuit breaker of the service it calls: one *)
(* breaker for Keycloak and one per source.                                *)
(*                                                                         *)
(* A request is an ExecuteToolCommand being handled; pc says at which      *)
(* await it is:                                                            *)
(*   idle       no request             token       reading the token cache *)
(*   exchange   about to call Keycloak    exchanging  waiting for it       *)
(*   store      caching the new token                                      *)
(*   trigger    about to call the source  triggering  waiting for it       *)
(*   poll       about to ask for the status  polling  waiting for it       *)
(* A breaker's lock is held only where its own state is read and written,  *)
(* never during the call it protects, so that answers come in any order.   *)
(***************************************************************************)
EXTENDS Integers, FiniteSets

CONSTANTS
  Requests,     \* requests handled at the same time
  Keycloak,     \* the token service
  Sources,      \* registered sources
  Tools,        \* enabled HTTP tools
  NoTool,       \* no request
  SourceOf,     \* source of each tool
  Exchanged,    \* tools whose source needs an exchanged token
  Polled,       \* tools executed in ASYNC_POLL mode
  Unreliable,   \* services that may be down
  Fallible,     \* tools that may become faulty
  Threshold,    \* failure_threshold
  MaxTests,     \* half_open_max_calls
  MaxPolls      \* max_poll_attempts

Services == Sources \cup {Keycloak}

ASSUME ExecutionAssumption ==
  /\ Keycloak \notin Sources
  /\ NoTool \notin Tools
  /\ SourceOf \in [Tools -> Sources]
  /\ Exchanged \subseteq Tools
  /\ Polled \subseteq Tools
  /\ Unreliable \subseteq Services
  /\ Fallible \subseteq Tools
  /\ Threshold \in Nat \ {0}
  /\ MaxTests \in Nat \ {0}
  /\ MaxPolls \in Nat \ {0}

VARIABLES
  state,        \* CircuitState of each service's breaker
  failures,     \* failure_count, counted up to Threshold
  tests,        \* half_open_calls
  cooled,       \* recovery_timeout has passed since the last failure
  probes,       \* history: calls admitted in the current half-open phase
  pc, tool,     \* await at which a request is, and its tool
  polls,        \* status requests of a polling request
  cached,       \* sources for which an unexpired token is cached
  down,         \* services that do not answer
  faulty        \* tools some of whose calls fail at a service that is up:
                \* Keycloak refuses their tokens, or their requests cannot be sent

breakerVars == <<state, failures, tests, cooled, probes>>
requestVars == <<pc, tool, polls>>
world == <<down, faulty>>
vars == <<breakerVars, requestVars, cached, world>>

-----------------------------------------------------------------------------
(* Requests. *)

Waiting == {"exchanging", "triggering", "polling"}
Awaits == {"idle", "token", "exchange", "store", "trigger", "poll"} \cup Waiting

\* the service that a request is about to call, or is waiting for
Target(p) ==
  IF pc[p] \in {"exchange", "exchanging"} THEN Keycloak ELSE SourceOf[tool[p]]

Calls(p, b) == pc[p] \in Waiting /\ Target(p) = b

Goto(p, l) ==
  /\ pc' = [pc EXCEPT ![p] = l]
  /\ UNCHANGED <<tool, polls>>

End(p) ==
  /\ pc' = [pc EXCEPT ![p] = "idle"]
  /\ tool' = [tool EXCEPT ![p] = NoTool]
  /\ polls' = [polls EXCEPT ![p] = 0]

\* whatever an attempt gave, it is one of max_poll_attempts
NextPoll(p) ==
  \/ polls[p] = MaxPolls /\ End(p)
  \/ /\ polls[p] < MaxPolls
     /\ polls' = [polls EXCEPT ![p] = @ + 1]
     /\ pc' = [pc EXCEPT ![p] = "poll"]
     /\ UNCHANGED tool

-----------------------------------------------------------------------------
(* The circuit breaker. *)

Admits(b) ==
  \/ state[b] = "closed"
  \/ state[b] = "open" /\ cooled[b]
  \/ state[b] = "half_open" /\ tests[b] < MaxTests

\* variants: one test call too many; half_open_calls not reset
TestTooMany(b, p) ==
  /\ \/ state[b] = "open" /\ cooled[b] /\ tests' = [tests EXCEPT ![b] = 1]
     \/ /\ state[b] = "half_open" /\ tests[b] <= MaxTests
        /\ tests' = [tests EXCEPT ![b] = @ + 1]
  /\ state' = [state EXCEPT ![b] = "half_open"]
  /\ probes' = [probes EXCEPT ![b] = @ \cup {p}]
  /\ UNCHANGED <<failures, cooled>>

TestKeepingCount(b, p) ==
  /\ \/ state[b] = "open" /\ cooled[b]
     \/ state[b] = "half_open"
  /\ tests[b] < MaxTests
  /\ tests' = [tests EXCEPT ![b] = @ + 1]
  /\ state' = [state EXCEPT ![b] = "half_open"]
  /\ probes' = [probes EXCEPT ![b] = @ \cup {p}]
  /\ UNCHANGED <<failures, cooled>>

Test(b, p) ==
  /\ \/ state[b] = "open" /\ cooled[b] /\ tests' = [tests EXCEPT ![b] = 1]
     \/ /\ state[b] = "half_open" /\ tests[b] < MaxTests
        /\ tests' = [tests EXCEPT ![b] = @ + 1]
  /\ state' = [state EXCEPT ![b] = "half_open"]
  /\ probes' = [probes EXCEPT ![b] = @ \cup {p}]
  /\ UNCHANGED <<failures, cooled>>

Admit(b, p) ==
  \/ state[b] = "closed" /\ UNCHANGED breakerVars
  \/ Test(b, p)

\* variant: only a closed circuit forgets its failures
OnSuccessKeepingCount(b) ==
  /\ state' = [state EXCEPT ![b] = "closed"]
  /\ failures' = [failures EXCEPT ![b] = IF state[b] = "closed" THEN 0 ELSE @]
  /\ probes' = [probes EXCEPT ![b] = {}]
  /\ UNCHANGED <<tests, cooled>>

\* variant: a test call that succeeds leaves the circuit half-open
OnSuccessHalfOpen(b) ==
  /\ failures' = [failures EXCEPT ![b] = IF state[b] = "closed" THEN 0 ELSE @]
  /\ UNCHANGED <<state, tests, cooled, probes>>

\* any answer counts, whatever its HTTP status and whenever it was asked for
OnSuccess(b) ==
  /\ state' = [state EXCEPT ![b] = "closed"]
  /\ failures' = [failures EXCEPT ![b] = 0]
  /\ probes' = [probes EXCEPT ![b] = {}]
  /\ UNCHANGED <<tests, cooled>>

OnFailure(b) ==
  LET n == IF failures[b] < Threshold THEN failures[b] + 1 ELSE failures[b] IN
  /\ failures' = [failures EXCEPT ![b] = n]
  /\ cooled' = [cooled EXCEPT ![b] = FALSE]
  /\ state' = [state EXCEPT ![b] =
                 IF @ = "half_open" \/ n >= Threshold THEN "open" ELSE @]
  /\ probes' = [probes EXCEPT ![b] = {}]
  /\ UNCHANGED tests

-----------------------------------------------------------------------------
Init ==
  /\ state = [b \in Services |-> "closed"]
  /\ failures = [b \in Services |-> 0]
  /\ tests = [b \in Services |-> 0]
  /\ cooled = [b \in Services |-> TRUE]
  /\ probes = [b \in Services |-> {}]
  /\ pc = [p \in Requests |-> "idle"]
  /\ tool = [p \in Requests |-> NoTool]
  /\ polls = [p \in Requests |-> 0]
  /\ cached = {}
  /\ down = {}
  /\ faulty = {}

-----------------------------------------------------------------------------
(* Handling of a request. *)

Execute(p, t) ==
  /\ pc[p] = "idle"
  /\ tool' = [tool EXCEPT ![p] = t]
  /\ pc' = [pc EXCEPT ![p] = IF t \in Exchanged THEN "token" ELSE "trigger"]
  /\ UNCHANGED <<breakerVars, polls, cached, world>>

ReadCache(p) ==
  /\ pc[p] = "token"
  /\ Goto(p, IF SourceOf[tool[p]] \in cached THEN "trigger" ELSE "exchange")
  /\ UNCHANGED <<breakerVars, cached, world>>

\* the breaker lets the call through
StartCall(p) ==
  /\ \/ pc[p] = "exchange" /\ Goto(p, "exchanging")
     \/ pc[p] = "trigger" /\ Goto(p, "triggering")
     \/ pc[p] = "poll" /\ Goto(p, "polling")
  /\ Admit(Target(p), p)
  /\ UNCHANGED <<cached, world>>

\* circuit_open or circuit_testing, reported as token_exchange_failed
Reject(p) ==
  /\ pc[p] \in {"exchange", "trigger"} /\ ~Admits(Target(p))
  /\ End(p)
  /\ UNCHANGED <<breakerVars, cached, world>>

RejectPoll(p) ==
  /\ pc[p] = "poll" /\ ~Admits(Target(p))
  /\ NextPoll(p)
  /\ UNCHANGED <<breakerVars, cached, world>>

\* variant: the request is rendered inside the protected call
RenderFailsInCall(p) ==
  /\ pc[p] \in {"trigger", "poll"} /\ Admits(Target(p))
  /\ OnFailure(Target(p))
  /\ End(p)
  /\ UNCHANGED <<cached, world>>

\* a template of the execution profile cannot be rendered
RenderFails(p) ==
  /\ pc[p] \in {"trigger", "poll"}
  /\ End(p)
  /\ UNCHANGED <<breakerVars, cached, world>>

Answered(p, l) == pc[p] = l /\ Target(p) \notin down /\ OnSuccess(Target(p))

ExchangeSucceeds(p) ==
  /\ Answered(p, "exchanging")
  /\ Goto(p, "store")
  /\ UNCHANGED <<cached, world>>

StoreToken(p) ==
  /\ pc[p] = "store"
  /\ cached' = cached \cup {SourceOf[tool[p]]}
  /\ Goto(p, "trigger")
  /\ UNCHANGED <<breakerVars, world>>

\* a synchronous result, an error status, or an operation to poll
TriggerAnswered(p) ==
  /\ Answered(p, "triggering")
  /\ \/ End(p)
     \/ /\ tool[p] \in Polled
        /\ pc' = [pc EXCEPT ![p] = "poll"]
        /\ polls' = [polls EXCEPT ![p] = 1]
        /\ UNCHANGED tool
  /\ UNCHANGED <<cached, world>>

\* the operation ended, or is pending, or the status could not be read
PollAnswered(p) ==
  /\ Answered(p, "polling")
  /\ End(p) \/ NextPoll(p)
  /\ UNCHANGED <<cached, world>>

\* no answer, a token refused by a Keycloak that is up, a request that
\* cannot be sent: whatever is raised inside the protected call counts
Raises(p) == Target(p) \in down \/ tool[p] \in faulty

CallFails(p) ==
  /\ pc[p] \in Waiting /\ Raises(p)
  /\ OnFailure(Target(p))
  /\ \/ pc[p] \in {"exchanging", "triggering"} /\ End(p)
     \/ pc[p] = "polling" /\ NextPoll(p)
  /\ UNCHANGED <<cached, world>>

Step(p) ==
  \/ ReadCache(p) \/ StartCall(p) \/ Reject(p) \/ RejectPoll(p)
  \/ RenderFails(p) \/ ExchangeSucceeds(p) \/ StoreToken(p)
  \/ TriggerAnswered(p) \/ PollAnswered(p) \/ CallFails(p)

-----------------------------------------------------------------------------
(* Time, the administrator and the services. *)

Cool(b) ==
  /\ ~cooled[b]
  /\ cooled' = [cooled EXCEPT ![b] = TRUE]
  /\ UNCHANGED <<state, failures, tests, probes, requestVars, cached, world>>

Expire(s) ==
  /\ s \in cached
  /\ cached' = cached \ {s}
  /\ UNCHANGED <<breakerVars, requestVars, world>>

Reset(b) ==
  /\ state' = [state EXCEPT ![b] = "closed"]
  /\ failures' = [failures EXCEPT ![b] = 0]
  /\ tests' = [tests EXCEPT ![b] = 0]
  /\ cooled' = [cooled EXCEPT ![b] = TRUE]
  /\ probes' = [probes EXCEPT ![b] = {}]
  /\ UNCHANGED <<requestVars, cached, world>>

Outage(b) ==
  /\ down' = down \cup {b}
  /\ UNCHANGED <<breakerVars, requestVars, cached, faulty>>

Recover(b) ==
  /\ down' = down \ {b}
  /\ UNCHANGED <<breakerVars, requestVars, cached, faulty>>

Misconfigure(t) ==
  /\ faulty' = faulty \cup {t}
  /\ UNCHANGED <<breakerVars, requestVars, cached, down>>

Correct(t) ==
  /\ faulty' = faulty \ {t}
  /\ UNCHANGED <<breakerVars, requestVars, cached, down>>

Next ==
  \/ \E p \in Requests : Step(p) \/ \E t \in Tools : Execute(p, t)
  \/ \E b \in Services : Cool(b) \/ Reset(b)
  \/ \E b \in Unreliable : Outage(b) \/ Recover(b)
  \/ \E t \in Fallible : Misconfigure(t) \/ Correct(t)
  \/ \E s \in Sources : Expire(s)

Spec == Init /\ [][Next]_vars

\* calls return or time out, handlers go on, and time passes
FairSpec ==
  /\ Spec
  /\ \A p \in Requests : WF_vars(Step(p))
  /\ \A b \in Services : WF_vars(Cool(b))
  /\ \A s \in Sources : WF_vars(Expire(s))

\* ... and every tool goes on being called, with arguments that render
BusySpec ==
  /\ FairSpec
  /\ \A t \in Tools : SF_vars(\E p \in Requests : Execute(p, t))
  /\ \A b \in Services : SF_vars(\E p \in Requests : StartCall(p) /\ Target(p) = b)

-----------------------------------------------------------------------------
(* Properties. *)

(* Types of the variables. *)
TypeOK ==
  /\ state \in [Services -> {"closed", "open", "half_open"}]
  /\ failures \in [Services -> 0 .. Threshold]
  /\ tests \in [Services -> 0 .. MaxTests]
  /\ cooled \in [Services -> BOOLEAN]
  /\ probes \in [Services -> SUBSET Requests]
  /\ pc \in [Requests -> Awaits]
  /\ tool \in [Requests -> Tools \cup {NoTool}]
  /\ polls \in [Requests -> 0 .. MaxPolls]
  /\ cached \subseteq Sources
  /\ down \subseteq Unreliable
  /\ faulty \subseteq Fallible

(* A circuit is closed exactly while it has counted fewer failures than    *)
(* failure_threshold, however late the answers of calls admitted in an     *)
(* earlier phase come in (CircuitBreaker.call, _on_success, _on_failure).  *)
CountDecides ==
  \A b \in Services : state[b] = "closed" <=> failures[b] < Threshold

(* A half-open circuit has as many test calls in flight as it has admitted,*)
(* and at least one, so it never waits in HALF_OPEN for an answer that     *)
(* nobody will bring (CircuitBreaker.call with circuit_testing).           *)
HalfOpenProbed ==
  \A b \in Services :
    state[b] = "half_open" =>
      /\ \A p \in probes[b] : Calls(p, b)
      /\ Cardinality(probes[b]) = tests[b]
      /\ probes[b] # {}

\* the calls in flight, which no breaker keeps
Inside == [b \in Services |-> {p \in Requests : Calls(p, b)}]

Breaker ==
  INSTANCE CircuitBreakers WITH
    streak <- failures, rested <- cooled, testing <- probes, inside <- Inside

(* State, failure count and count of test calls, which each call reads     *)
(* before its await and writes after it, amount to what CircuitBreakers    *)
(* promises: whatever the order of the answers, a service that has failed  *)
(* failure_threshold times since its last answer rests for                 *)
(* recovery_timeout and is then tried by half_open_max_calls requests at   *)
(* a time (CircuitBreaker.call, _on_success, _on_failure, reset).          *)
RefinesBreakers == Breaker!Spec

(* A breaker counts a failure only when a call of its own service ends     *)
(* while that service is down or the tool called is faulty: an outage of   *)
(* another source or of Keycloak, a request rejected by an open circuit,   *)
(* one that cannot be rendered and a cached token cost it nothing. A user  *)
(* or tool whose tokens Keycloak refuses does cost Keycloak's breaker      *)
(* failures, which then rejects the exchanges of all the others            *)
(* (one breaker per key in _get_circuit_breaker, _do_exchange).      *)
OwnFailuresOnly ==
  [][\A b \in Services :
       failures'[b] > failures[b] =>
         \E p \in Requests :
           /\ Calls(p, b) /\ ~Calls(p, b)'
           /\ b \in down \/ tool[p] \in faulty]_vars

(* When a service stays up, with Keycloak that issues the tokens for it,   *)
(* no tool remains faulty, and the service goes on being called, its       *)
(* circuit closes and remains closed, without help from an administrator   *)
(* (CircuitBreaker.call, _should_attempt_reset).                           *)
CircuitRecovers ==
  \A b \in Services :
    <>[](down \cap {b, Keycloak} = {} /\ faulty = {}) => <>[](state[b] = "closed")

\* how many steps a request has left at most
StepsLeft(p) ==
  CASE pc[p] = "token"      -> 2 * MaxPolls + 6
    [] pc[p] = "exchange"   -> 2 * MaxPolls + 5
    [] pc[p] = "exchanging" -> 2 * MaxPolls + 4
    [] pc[p] = "store"      -> 2 * MaxPolls + 3
    [] pc[p] = "trigger"    -> 2 * MaxPolls + 2
    [] pc[p] = "triggering" -> 2 * MaxPolls + 1
    [] pc[p] = "poll"       -> 2 * (MaxPolls - polls[p]) + 2
    [] pc[p] = "polling"    -> 2 * (MaxPolls - polls[p]) + 1
    [] pc[p] = "idle"       -> 0

(* No step of anybody prolongs a request or changes its tool: one exchange,*)
(* one trigger and max_poll_attempts status requests, rejected, failed or  *)
(* answered as they may be, are all there is (execute,                     *)
(* _poll_for_completion).                                                  *)
RequestsAdvance ==
  [][\A p \in Requests :
       pc[p] # "idle" /\ <<pc[p], tool[p], polls[p]>>' # <<pc[p], tool[p], polls[p]>> =>
         /\ StepsLeft(p)' < StepsLeft(p)
         /\ pc'[p] # "idle" => tool'[p] = tool[p]]_vars

-----------------------------------------------------------------------------
(* The strengthening that makes the invariants inductive. *)

\* in every phase, the history of test calls agrees with the breaker's count,
\* and nobody is tested that has not rested
TestsCounted ==
  \A b \in Services :
    /\ IsFiniteSet(probes[b])
    /\ state[b] = "half_open" => tests[b] = Cardinality(probes[b]) /\ tests[b] > 0
    /\ state[b] = "half_open" => cooled[b]
    /\ state[b] # "half_open" => probes[b] = {}

ProbesInFlight == \A b \in Services : \A p \in probes[b] : Calls(p, b)

ToolHeld == \A p \in Requests : pc[p] # "idle" => tool[p] \in Tools

(* A request holds its tool until it ends, test calls are in flight and    *)
(* counted, and the failure count decides the state (CircuitBreaker.call). *)
IInv == TypeOK /\ ToolHeld /\ CountDecides /\ TestsCounted /\ ProbesInFlight
=============================================================================
