------------------------- MODULE ToolExecutionProofs -------------------------
(* Safety of ToolExecution for every value of its constants. *)
EXTENDS ToolExecution, FiniteSetTheorems, TLAPS

USE ExecutionAssumption DEF world

-----------------------------------------------------------------------------
(* The circuit breaker on its own. *)

BreakerTypes ==
  /\ state \in [Services -> {"closed", "open", "half_open"}]
  /\ failures \in [Services -> 0 .. Threshold]
  /\ tests \in [Services -> 0 .. MaxTests]
  /\ cooled \in [Services -> BOOLEAN]
  /\ probes \in [Services -> SUBSET Requests]

BreakerInv == BreakerTypes /\ CountDecides /\ TestsCounted

RequestTypes ==
  /\ pc \in [Requests -> Awaits]
  /\ tool \in [Requests -> Tools \cup {NoTool}]
  /\ polls \in [Requests -> 0 .. MaxPolls]
  /\ ToolHeld

(* Admitting a call keeps the breaker's counts, and makes a test call of   *)
(* it at most (CircuitBreaker.call).                                       *)
LEMMA AdmitKeeps ==
  ASSUME BreakerInv, NEW b \in Services, NEW p \in Requests,
         p \notin probes[b], Admit(b, p)
  PROVE  /\ BreakerInv'
         /\ \A c \in Services : probes'[c] \ {p} \subseteq probes[c]
         /\ \A c \in Services : c # b => probes'[c] = probes[c]
<1>1. CASE state[b] = "closed" /\ UNCHANGED breakerVars
  BY <1>1 DEF BreakerInv, BreakerTypes, CountDecides, TestsCounted, breakerVars
<1>2. CASE Test(b, p)
  <2>1. /\ probes' = [probes EXCEPT ![b] = probes[b] \cup {p}]
        /\ state' = [state EXCEPT ![b] = "half_open"]
        /\ UNCHANGED <<failures, cooled>>
    BY <1>2 DEF Test
  <2>2. /\ state[b] # "closed"
        /\ \/ state[b] = "open" /\ tests' = [tests EXCEPT ![b] = 1]
           \/ /\ state[b] = "half_open" /\ tests[b] < MaxTests
              /\ tests' = [tests EXCEPT ![b] = tests[b] + 1]
    BY <1>2 DEF Test
  <2>3. BreakerTypes'
    BY <2>1, <2>2 DEF BreakerInv, BreakerTypes
  <2>4. CountDecides'
    BY <2>1, <2>2 DEF BreakerInv, BreakerTypes, CountDecides
  <2>5. IsFiniteSet(probes[b]) /\ IsFiniteSet(probes[b] \cup {p})
    BY FS_AddElement DEF BreakerInv, TestsCounted
  <2>6. Cardinality(probes[b] \cup {p}) = Cardinality(probes[b]) + 1
    BY <2>5, FS_AddElement
  <2>7. tests'[b] = Cardinality(probes'[b]) /\ tests'[b] > 0
    <3>1. CASE state[b] = "open"
      <4>1. Cardinality(probes[b]) = 0
        BY <3>1, FS_EmptySet DEF BreakerInv, TestsCounted
      <4> QED
        BY <3>1, <4>1, <2>1, <2>2, <2>6 DEF BreakerInv, BreakerTypes
    <3>2. CASE state[b] = "half_open"
      <4>1. tests[b] = Cardinality(probes[b]) /\ tests[b] \in Nat
        BY <3>2 DEF BreakerInv, BreakerTypes, TestsCounted
      <4>2. tests'[b] = tests[b] + 1
        BY <3>2, <2>2 DEF BreakerInv, BreakerTypes
      <4>3. probes'[b] = probes[b] \cup {p}
        BY <2>1 DEF BreakerInv, BreakerTypes
      <4> QED
        BY <4>1, <4>2, <4>3, <2>6
    <3> QED
      BY <3>1, <3>2, <2>2
  <2>8. TestsCounted'
    <3> SUFFICES ASSUME NEW c \in Services
                 PROVE  /\ IsFiniteSet(probes'[c])
                        /\ state'[c] = "half_open" =>
                             tests'[c] = Cardinality(probes'[c]) /\ tests'[c] > 0
                        /\ state'[c] = "half_open" => cooled'[c]
                        /\ state'[c] # "half_open" => probes'[c] = {}
      BY DEF TestsCounted
    <3>1. CASE c = b
      <4>1. cooled[b]
        BY <1>2 DEF Test, BreakerInv, TestsCounted
      <4> QED
        BY <3>1, <4>1, <2>1, <2>5, <2>7 DEF BreakerInv, BreakerTypes
    <3>2. CASE c # b
      BY <3>2, <2>1, <2>2 DEF BreakerInv, BreakerTypes, TestsCounted
    <3> QED
      BY <3>1, <3>2
  <2> QED
    BY <2>1, <2>3, <2>4, <2>8 DEF BreakerInv, BreakerTypes
<1> QED
  BY <1>1, <1>2 DEF Admit

Cleared(b) ==
  /\ probes'[b] = {}
  /\ \A c \in Services : c # b => probes'[c] = probes[c]

(* An answer closes the circuit, forgets its failures and ends the phase   *)
(* (_on_success).                                                          *)
LEMMA SuccessKeeps ==
  ASSUME BreakerInv, NEW b \in Services, OnSuccess(b)
  PROVE  BreakerInv' /\ Cleared(b)
<1>1. BreakerTypes' /\ CountDecides' /\ Cleared(b)
  BY DEF OnSuccess, BreakerInv, BreakerTypes, CountDecides, Cleared
<1>2. IsFiniteSet({})
  BY FS_EmptySet
<1>3. TestsCounted'
  BY <1>2 DEF OnSuccess, BreakerInv, BreakerTypes, TestsCounted
<1> QED
  BY <1>1, <1>3 DEF BreakerInv

(* A failure is counted, opens the circuit at the threshold or from        *)
(* HALF_OPEN, and ends the phase (_on_failure).                            *)
LEMMA FailureKeeps ==
  ASSUME BreakerInv, NEW b \in Services, OnFailure(b)
  PROVE  /\ BreakerInv' /\ Cleared(b)
         /\ \A c \in Services : c # b => failures'[c] = failures[c]
<1> DEFINE n == IF failures[b] < Threshold THEN failures[b] + 1 ELSE failures[b]
<1>1. /\ failures' = [failures EXCEPT ![b] = n]
      /\ state' = [state EXCEPT ![b] = IF state[b] = "half_open" \/ n >= Threshold
                                         THEN "open" ELSE state[b]]
      /\ cooled' = [cooled EXCEPT ![b] = FALSE]
      /\ probes' = [probes EXCEPT ![b] = {}]
      /\ tests' = tests
  BY DEF OnFailure
<1>2. n \in 0 .. Threshold
  BY DEF BreakerInv, BreakerTypes
<1>3. /\ state[b] = "half_open" => n >= Threshold
      /\ state[b] = "open" => n >= Threshold
  BY DEF BreakerInv, BreakerTypes, CountDecides
<1> HIDE DEF n
<1>4. BreakerTypes'
  BY <1>1, <1>2 DEF BreakerInv, BreakerTypes
<1>5. CountDecides'
  BY <1>1, <1>2, <1>3 DEF BreakerInv, BreakerTypes, CountDecides
<1>6. IsFiniteSet({})
  BY FS_EmptySet
<1>7. TestsCounted'
  BY <1>1, <1>6 DEF BreakerInv, BreakerTypes, TestsCounted
<1>8. Cleared(b) /\ \A c \in Services : c # b => failures'[c] = failures[c]
  BY <1>1 DEF BreakerInv, BreakerTypes, Cleared
<1> QED
  BY <1>4, <1>5, <1>7, <1>8 DEF BreakerInv

LEMMA UnchangedBreaker ==
  ASSUME BreakerInv, UNCHANGED breakerVars
  PROVE  BreakerInv' /\ probes' = probes
  BY DEF BreakerInv, BreakerTypes, CountDecides, TestsCounted, breakerVars

\* Time and the administrator.
LEMMA CoolKeeps ==
  ASSUME BreakerInv, NEW b \in Services, Cool(b)
  PROVE  BreakerInv' /\ probes' = probes
  BY DEF BreakerInv, BreakerTypes, CountDecides, TestsCounted, Cool

LEMMA ResetKeeps ==
  ASSUME BreakerInv, NEW b \in Services, Reset(b)
  PROVE  BreakerInv' /\ Cleared(b)
<1>1. BreakerTypes' /\ CountDecides' /\ Cleared(b)
  BY DEF Reset, BreakerInv, BreakerTypes, CountDecides, Cleared
<1>2. IsFiniteSet({})
  BY FS_EmptySet
<1>3. TestsCounted'
  BY <1>2 DEF Reset, BreakerInv, BreakerTypes, TestsCounted
<1> QED
  BY <1>1, <1>3 DEF BreakerInv

-----------------------------------------------------------------------------
(* Requests. *)

OnlyMoves(p) ==
  \A q \in Requests : q # p => pc'[q] = pc[q] /\ tool'[q] = tool[q]

LEMMA GotoMoves ==
  ASSUME RequestTypes, NEW p \in Requests, NEW l \in Awaits, Goto(p, l),
         pc[p] # "idle"
  PROVE  RequestTypes' /\ OnlyMoves(p) /\ pc'[p] = l /\ tool'[p] = tool[p]
  BY DEF RequestTypes, ToolHeld, Goto, OnlyMoves

LEMMA EndMoves ==
  ASSUME RequestTypes, NEW p \in Requests, End(p)
  PROVE  RequestTypes' /\ OnlyMoves(p) /\ pc'[p] = "idle"
  BY DEF RequestTypes, ToolHeld, End, OnlyMoves, Awaits

LEMMA NextPollMoves ==
  ASSUME RequestTypes, NEW p \in Requests, NextPoll(p), pc[p] # "idle"
  PROVE  RequestTypes' /\ OnlyMoves(p) /\ pc'[p] \in {"idle", "poll"}
<1>1. CASE End(p)
  BY <1>1, EndMoves
<1>2. CASE /\ polls[p] < MaxPolls
           /\ polls' = [polls EXCEPT ![p] = polls[p] + 1]
           /\ pc' = [pc EXCEPT ![p] = "poll"]
           /\ UNCHANGED tool
  BY <1>2 DEF RequestTypes, ToolHeld, OnlyMoves, Awaits
<1> QED
  BY <1>1, <1>2 DEF NextPoll

LEMMA TargetKnown ==
  ASSUME RequestTypes, NEW p \in Requests, pc[p] # "idle"
  PROVE  Target(p) \in Services
  BY DEF RequestTypes, ToolHeld, Target, Services

(* A request whose probe is forgotten, or that is not waiting, may go on   *)
(* without leaving a test call that is not in flight.                      *)
LEMMA ProbesFollow ==
  ASSUME ProbesInFlight, NEW p \in Requests, OnlyMoves(p),
         probes \in [Services -> SUBSET Requests],
         \A c \in Services : probes'[c] \ {p} \subseteq probes[c],
         \A c \in Services : p \in probes'[c] => Calls(p, c)'
  PROVE  ProbesInFlight'
<1> SUFFICES ASSUME NEW c \in Services, NEW q \in probes'[c]
             PROVE  Calls(q, c)'
  BY DEF ProbesInFlight
<1>1. CASE q = p
  BY <1>1
<1>2. CASE q # p
  <2>1. q \in probes[c] /\ q \in Requests
    BY <1>2
  <2>2. Calls(q, c)
    BY <2>1 DEF ProbesInFlight
  <2>3. pc'[q] = pc[q] /\ tool'[q] = tool[q]
    BY <1>2, <2>1 DEF OnlyMoves
  <2> QED
    BY <2>2, <2>3 DEF Calls, Target
<1> QED
  BY <1>1, <1>2

-----------------------------------------------------------------------------
(* Each step of a request. *)

Parts == BreakerInv /\ RequestTypes /\ ProbesInFlight /\ cached \subseteq Sources
           /\ down \subseteq Unreliable /\ faulty \subseteq Fallible

LEMMA PartsOfIInv == IInv <=> Parts
  BY DEF IInv, Parts, TypeOK, BreakerInv, BreakerTypes, RequestTypes

\* A step of p that leaves the breakers alone and starts when p is not waiting.
LEMMA QuietStep ==
  ASSUME Parts, NEW p \in Requests, pc[p] \notin Waiting,
         UNCHANGED breakerVars, RequestTypes', OnlyMoves(p)
  PROVE  BreakerInv' /\ ProbesInFlight'
<1>1. BreakerInv' /\ probes' = probes
  BY UnchangedBreaker DEF Parts
<1>2. \A c \in Services : p \notin probes'[c]
  BY <1>1 DEF Parts, ProbesInFlight, Calls
<1>3. probes \in [Services -> SUBSET Requests]
  BY DEF Parts, BreakerInv, BreakerTypes
<1> QED
  BY <1>1, <1>2, <1>3, ProbesFollow DEF Parts

\* A step of p that ends the call it waited for.
LEMMA AnswerStep ==
  ASSUME Parts, NEW p \in Requests, pc[p] \in Waiting,
         BreakerInv', Cleared(Target(p)), RequestTypes', OnlyMoves(p)
  PROVE  ProbesInFlight'
<1>1. probes \in [Services -> SUBSET Requests]
  BY DEF Parts, BreakerInv, BreakerTypes
<1>2. \A c \in Services : c # Target(p) => p \notin probes[c]
  BY DEF Parts, ProbesInFlight, Calls
<1>3. \A c \in Services : p \notin probes'[c]
  BY <1>2 DEF Cleared
<1>4. \A c \in Services : probes'[c] \ {p} \subseteq probes[c]
  BY DEF Cleared
<1> QED
  BY <1>1, <1>3, <1>4, ProbesFollow DEF Parts

LEMMA StartCallKeeps ==
  ASSUME Parts, NEW p \in Requests, StartCall(p)
  PROVE  Parts'
<1> DEFINE b == Target(p)
<1>1. pc[p] \in {"exchange", "trigger", "poll"}
  BY DEF StartCall
<1>2. b \in Services
  BY <1>1, TargetKnown DEF Parts
<1>3. \A c \in Services : p \notin probes[c]
  BY <1>1 DEF Parts, ProbesInFlight, Calls, Waiting
<1>4. Admit(b, p)
  BY DEF StartCall
<1>5. /\ BreakerInv'
      /\ \A c \in Services : probes'[c] \ {p} \subseteq probes[c]
      /\ \A c \in Services : c # b => probes'[c] = probes[c]
  <2> HIDE DEF b
  <2> QED
    BY <1>2, <1>3, <1>4, AdmitKeeps DEF Parts
<1>6. /\ RequestTypes' /\ OnlyMoves(p)
      /\ pc'[p] \in Waiting /\ Target(p)' = b
  <2>1. CASE pc[p] = "exchange" /\ Goto(p, "exchanging")
    <3>1. RequestTypes' /\ OnlyMoves(p) /\ pc'[p] = "exchanging"
      BY <2>1, GotoMoves DEF Parts, Awaits, Waiting
    <3> QED
      BY <2>1, <3>1 DEF Target, Waiting
  <2>2. CASE pc[p] = "trigger" /\ Goto(p, "triggering")
    <3>1. /\ RequestTypes' /\ OnlyMoves(p)
          /\ pc'[p] = "triggering" /\ tool'[p] = tool[p]
      BY <2>2, GotoMoves DEF Parts, Awaits, Waiting
    <3> QED
      BY <2>2, <3>1 DEF Target, Waiting
  <2>3. CASE pc[p] = "poll" /\ Goto(p, "polling")
    <3>1. /\ RequestTypes' /\ OnlyMoves(p)
          /\ pc'[p] = "polling" /\ tool'[p] = tool[p]
      BY <2>3, GotoMoves DEF Parts, Awaits, Waiting
    <3> QED
      BY <2>3, <3>1 DEF Target, Waiting
  <2> QED
    BY <2>1, <2>2, <2>3 DEF StartCall
<1>7. \A c \in Services : p \in probes'[c] => Calls(p, c)'
  BY <1>3, <1>5, <1>6 DEF Calls
<1>8. ProbesInFlight'
  <2>1. probes \in [Services -> SUBSET Requests]
    BY DEF Parts, BreakerInv, BreakerTypes
  <2> QED
    BY <1>5, <1>6, <1>7, <2>1, ProbesFollow DEF Parts
<1> QED
  BY <1>5, <1>6, <1>8 DEF Parts, StartCall

LEMMA AnsweredKeeps ==
  ASSUME Parts, NEW p \in Requests, NEW l \in Waiting, Answered(p, l)
  PROVE  BreakerInv' /\ Cleared(Target(p)) /\ pc[p] \in Waiting /\ pc[p] # "idle"
<1>1. pc[p] \in Waiting /\ pc[p] # "idle" /\ OnSuccess(Target(p))
  BY DEF Answered, Waiting
<1>2. Target(p) \in Services
  BY <1>1, TargetKnown DEF Parts
<1> QED
  BY <1>1, <1>2, SuccessKeeps DEF Parts

LEMMA StepKeeps ==
  ASSUME Parts, NEW p \in Requests, Step(p)
  PROVE  Parts'
<1>1. CASE ReadCache(p)
  <2>1. pc[p] = "token" /\ pc[p] # "idle" /\ pc[p] \notin Waiting
    BY <1>1 DEF ReadCache, Waiting
  <2>2. PICK l \in {"trigger", "exchange"} : Goto(p, l)
    BY <1>1 DEF ReadCache
  <2>3. l \in Awaits
    BY DEF Awaits
  <2>4. RequestTypes' /\ OnlyMoves(p)
    BY <2>1, <2>2, <2>3, GotoMoves DEF Parts
  <2> QED
    BY <1>1, <2>1, <2>4, QuietStep DEF Parts, ReadCache
<1>2. CASE StartCall(p)
  BY <1>2, StartCallKeeps
<1>3. CASE Reject(p)
  <2>1. pc[p] \notin Waiting /\ RequestTypes' /\ OnlyMoves(p)
    BY <1>3, EndMoves DEF Reject, Parts, Waiting
  <2> QED
    BY <1>3, <2>1, QuietStep DEF Parts, Reject
<1>4. CASE RejectPoll(p)
  <2>1. pc[p] \notin Waiting /\ RequestTypes' /\ OnlyMoves(p)
    BY <1>4, NextPollMoves DEF RejectPoll, Parts, Waiting
  <2> QED
    BY <1>4, <2>1, QuietStep DEF Parts, RejectPoll
<1>5. CASE RenderFails(p)
  <2>1. pc[p] \notin Waiting /\ RequestTypes' /\ OnlyMoves(p)
    BY <1>5, EndMoves DEF RenderFails, Parts, Waiting
  <2> QED
    BY <1>5, <2>1, QuietStep DEF Parts, RenderFails
<1>6. CASE ExchangeSucceeds(p)
  <2>1. BreakerInv' /\ Cleared(Target(p)) /\ pc[p] \in Waiting /\ pc[p] # "idle"
    BY <1>6, AnsweredKeeps DEF ExchangeSucceeds, Waiting
  <2>2. RequestTypes' /\ OnlyMoves(p)
    BY <1>6, <2>1, GotoMoves DEF ExchangeSucceeds, Parts, Awaits
  <2> QED
    BY <1>6, <2>1, <2>2, AnswerStep DEF Parts, ExchangeSucceeds
<1>7. CASE StoreToken(p)
  <2>1. pc[p] = "store" /\ pc[p] # "idle" /\ pc[p] \notin Waiting
    BY <1>7 DEF StoreToken, Waiting
  <2>2. RequestTypes' /\ OnlyMoves(p)
    BY <1>7, <2>1, GotoMoves DEF StoreToken, Parts, Awaits
  <2>3. SourceOf[tool[p]] \in Sources
    BY <2>1 DEF Parts, RequestTypes, ToolHeld
  <2>4. cached' \subseteq Sources
    BY <1>7, <2>3 DEF StoreToken, Parts
  <2> QED
    BY <1>7, <2>1, <2>2, <2>4, QuietStep DEF Parts, StoreToken
<1>8. CASE TriggerAnswered(p)
  <2>1. BreakerInv' /\ Cleared(Target(p)) /\ pc[p] \in Waiting /\ pc[p] # "idle"
    BY <1>8, AnsweredKeeps DEF TriggerAnswered, Waiting
  <2>2. RequestTypes' /\ OnlyMoves(p)
    <3>1. CASE End(p)
      BY <3>1, EndMoves DEF Parts
    <3>2. CASE /\ pc' = [pc EXCEPT ![p] = "poll"]
               /\ polls' = [polls EXCEPT ![p] = 1]
               /\ UNCHANGED tool
      BY <3>2, <2>1 DEF Parts, RequestTypes, ToolHeld, OnlyMoves, Awaits
    <3> QED
      BY <1>8, <3>1, <3>2 DEF TriggerAnswered
  <2> QED
    BY <1>8, <2>1, <2>2, AnswerStep DEF Parts, TriggerAnswered
<1>9. CASE PollAnswered(p)
  <2>1. BreakerInv' /\ Cleared(Target(p)) /\ pc[p] \in Waiting /\ pc[p] # "idle"
    BY <1>9, AnsweredKeeps DEF PollAnswered, Waiting
  <2>2. RequestTypes' /\ OnlyMoves(p)
    BY <1>9, <2>1, EndMoves, NextPollMoves DEF PollAnswered, Parts
  <2> QED
    BY <1>9, <2>1, <2>2, AnswerStep DEF Parts, PollAnswered
<1>10. CASE CallFails(p)
  <2>1. pc[p] \in Waiting /\ pc[p] # "idle" /\ OnFailure(Target(p))
    BY <1>10 DEF CallFails, Waiting
  <2>2. Target(p) \in Services
    BY <2>1, TargetKnown DEF Parts
  <2>3. BreakerInv' /\ Cleared(Target(p))
    BY <2>1, <2>2, FailureKeeps DEF Parts
  <2>4. RequestTypes' /\ OnlyMoves(p)
    BY <1>10, <2>1, EndMoves, NextPollMoves DEF CallFails, Parts
  <2> QED
    BY <1>10, <2>1, <2>3, <2>4, AnswerStep DEF Parts, CallFails
<1> QED
  BY <1>1, <1>2, <1>3, <1>4, <1>5, <1>6, <1>7, <1>8, <1>9, <1>10 DEF Step

-----------------------------------------------------------------------------
(* The inductive invariant. *)

LEMMA InitParts == Init => Parts
<1> SUFFICES ASSUME Init PROVE Parts
  OBVIOUS
<1>1. IsFiniteSet({})
  BY FS_EmptySet
<1>2. BreakerInv
  BY <1>1 DEF Init, BreakerInv, BreakerTypes, CountDecides, TestsCounted
<1>3. RequestTypes
  BY DEF Init, RequestTypes, ToolHeld, Awaits
<1> QED
  BY <1>2, <1>3 DEF Init, Parts, ProbesInFlight

LEMMA NextParts == Parts /\ [Next]_vars => Parts'
<1> SUFFICES ASSUME Parts, [Next]_vars PROVE Parts'
  OBVIOUS
<1>1. ASSUME NEW p \in Requests, Step(p) PROVE Parts'
  BY <1>1, StepKeeps
<1>2. ASSUME NEW p \in Requests, NEW t \in Tools, Execute(p, t) PROVE Parts'
  <2>1. pc[p] \notin Waiting
    BY <1>2 DEF Execute, Waiting
  <2>2. RequestTypes' /\ OnlyMoves(p)
    BY <1>2 DEF Execute, Parts, RequestTypes, ToolHeld, OnlyMoves, Awaits
  <2> QED
    BY <1>2, <2>1, <2>2, QuietStep DEF Parts, Execute
<1>3. ASSUME NEW b \in Services, Cool(b) PROVE Parts'
  <2>1. BreakerInv' /\ probes' = probes
    BY <1>3, CoolKeeps DEF Parts
  <2> QED
    BY <1>3, <2>1 DEF Cool, Parts, RequestTypes, ToolHeld, ProbesInFlight, Calls,
                      Target, requestVars
<1>4. ASSUME NEW b \in Services, Reset(b) PROVE Parts'
  <2>1. BreakerInv' /\ Cleared(b)
    BY <1>4, ResetKeeps DEF Parts
  <2>2. /\ RequestTypes' /\ pc' = pc /\ tool' = tool
        /\ cached' = cached /\ down' = down /\ faulty' = faulty
    BY <1>4 DEF Reset, Parts, RequestTypes, ToolHeld, requestVars, world
  <2>3. \A c \in Services : probes'[c] \subseteq probes[c]
    BY <2>1 DEF Cleared
  <2>4. ProbesInFlight'
    BY <2>2, <2>3 DEF Parts, ProbesInFlight, Calls, Target
  <2> QED
    BY <2>1, <2>2, <2>4 DEF Parts
<1>5. ASSUME UNCHANGED <<breakerVars, requestVars>>,
             cached' \subseteq Sources, down' \subseteq Unreliable,
             faulty' \subseteq Fallible
      PROVE  Parts'
  <2>1. BreakerInv' /\ probes' = probes
    BY <1>5, UnchangedBreaker DEF Parts
  <2> QED
    BY <1>5, <2>1 DEF Parts, RequestTypes, ToolHeld, ProbesInFlight, Calls, Target,
                      requestVars
<1>6. ASSUME NEW b \in Unreliable, Outage(b) \/ Recover(b) PROVE Parts'
  BY <1>5, <1>6 DEF Outage, Recover, Parts
<1>7. ASSUME NEW s \in Sources, Expire(s) PROVE Parts'
  BY <1>5, <1>7 DEF Expire, Parts, world
<1>8. ASSUME NEW t \in Fallible, Misconfigure(t) \/ Correct(t) PROVE Parts'
  BY <1>5, <1>8 DEF Misconfigure, Correct, Parts
<1>9. CASE UNCHANGED vars
  BY <1>5, <1>9 DEF vars, Parts, world
<1> QED
  BY <1>1, <1>2, <1>3, <1>4, <1>6, <1>7, <1>8, <1>9 DEF Next

(* The strengthening is an invariant: whatever the order in which calls    *)
(* are answered, the breaker's counts and the calls in flight agree.       *)
THEOREM BreakerConsistent == Spec => []IInv
<1>1. Init => IInv
  BY InitParts, PartsOfIInv
<1>2. IInv /\ [Next]_vars => IInv'
  <2>1. IInv' <=> Parts'
    BY DEF IInv, Parts, TypeOK, BreakerInv, BreakerTypes, RequestTypes
  <2> QED
    BY <2>1, NextParts, PartsOfIInv
<1> QED
  BY <1>1, <1>2, PTL DEF Spec

(* Types of the variables of ToolExecution. *)
THEOREM TypeCorrect == Spec => []TypeOK
<1>1. IInv => TypeOK
  BY DEF IInv
<1> QED
  BY <1>1, BreakerConsistent, PTL

(* A circuit is closed exactly while its count is below the threshold. *)
THEOREM CountRight == Spec => []CountDecides
<1>1. IInv => CountDecides
  BY DEF IInv
<1> QED
  BY <1>1, BreakerConsistent, PTL

(* A half-open circuit always has a test call in flight. *)
THEOREM HalfOpenHasProbe == Spec => []HalfOpenProbed
<1>1. IInv => HalfOpenProbed
  <2> SUFFICES ASSUME IInv, NEW b \in Services, state[b] = "half_open"
               PROVE  /\ \A p \in probes[b] : Calls(p, b)
                      /\ Cardinality(probes[b]) = tests[b]
                      /\ probes[b] # {}
    BY DEF HalfOpenProbed
  <2>1. /\ \A p \in probes[b] : Calls(p, b)
        /\ tests[b] = Cardinality(probes[b]) /\ tests[b] > 0
    BY DEF IInv, TestsCounted, ProbesInFlight
  <2>2. Cardinality({}) = 0
    BY FS_EmptySet
  <2> QED
    BY <2>1, <2>2
<1> QED
  BY <1>1, BreakerConsistent, PTL

\* A call of b ends that could not succeed, or need not have.
Blamed(b) ==
  \E p \in Requests :
    /\ Calls(p, b) /\ ~Calls(p, b)'
    /\ b \in down \/ tool[p] \in faulty

(* A breaker counts a failure only when a call of its own service ends     *)
(* while the service is down or the tool called is faulty.                 *)
THEOREM FailuresAreOwn == Spec => OwnFailuresOnly
<1>1. IInv /\ [Next]_vars =>
        [\A b \in Services : failures'[b] > failures[b] => Blamed(b)]_vars
  <2> SUFFICES ASSUME IInv, Next, NEW c \in Services, failures'[c] > failures[c]
               PROVE  Blamed(c)
    OBVIOUS
  <2>0. Parts /\ failures[c] \in Nat /\ failures \in [Services -> 0 .. Threshold]
    BY PartsOfIInv DEF IInv, TypeOK
  <2>1. ~(failures' = failures)
    BY <2>0
  <2>2. ASSUME NEW b \in Services, OnSuccess(b) PROVE FALSE
    BY <2>0, <2>2 DEF OnSuccess
  <2>3. ASSUME NEW b \in Services, Reset(b) PROVE FALSE
    BY <2>0, <2>3 DEF Reset
  <2>4. ASSUME NEW p \in Requests, CallFails(p) PROVE Blamed(c)
    <3>1. /\ pc[p] \in Waiting /\ pc[p] # "idle" /\ OnFailure(Target(p))
          /\ Target(p) \in down \/ tool[p] \in faulty
      BY <2>4 DEF CallFails, Raises, Waiting
    <3>2. Target(p) \in Services
      BY <2>0, <3>1, TargetKnown DEF Parts
    <3>3. c # Target(p) => failures'[c] = failures[c]
      BY <2>0, <3>1, <3>2, FailureKeeps DEF Parts
    <3>4. c = Target(p)
      BY <2>0, <3>3
    <3>5. pc'[p] \in {"idle", "poll"}
      BY <2>0, <2>4, <3>1, EndMoves, NextPollMoves DEF CallFails, Parts
    <3> QED
      BY <3>1, <3>4, <3>5 DEF Blamed, Calls, Waiting
  <2>5. ASSUME NEW p \in Requests, NEW l \in Waiting, Answered(p, l) PROVE FALSE
    <3>1. pc[p] # "idle" /\ OnSuccess(Target(p))
      BY <2>5 DEF Answered, Waiting
    <3>2. Target(p) \in Services
      BY <2>0, <3>1, TargetKnown DEF Parts
    <3> QED
      BY <2>2, <3>1, <3>2
  <2>6. ASSUME NEW p \in Requests, StartCall(p) PROVE FALSE
    BY <2>1, <2>6 DEF StartCall, Admit, Test, breakerVars
  <2>7. ASSUME NEW p \in Requests, Step(p) PROVE Blamed(c)
    <3>1. ~ExchangeSucceeds(p) /\ ~TriggerAnswered(p) /\ ~PollAnswered(p)
      BY <2>5 DEF ExchangeSucceeds, TriggerAnswered, PollAnswered, Waiting
    <3>2. /\ ~ReadCache(p) /\ ~Reject(p) /\ ~RejectPoll(p) /\ ~RenderFails(p)
          /\ ~StoreToken(p)
      BY <2>1 DEF ReadCache, Reject, RejectPoll, RenderFails, StoreToken, breakerVars
    <3> QED
      BY <2>4, <2>6, <2>7, <3>1, <3>2 DEF Step
  <2>8. /\ \A p \in Requests, t \in Tools : ~Execute(p, t)
        /\ \A b \in Services : ~Cool(b)
        /\ \A b \in Unreliable : ~Outage(b) /\ ~Recover(b)
        /\ \A t \in Fallible : ~Misconfigure(t) /\ ~Correct(t)
        /\ \A s \in Sources : ~Expire(s)
    BY <2>1 DEF Execute, Cool, Outage, Recover, Misconfigure, Correct, Expire, breakerVars
  <2> QED
    BY <2>3, <2>7, <2>8 DEF Next
<1> QED
  BY <1>1, BreakerConsistent, PTL DEF Spec, OwnFailuresOnly, Blamed
-----------------------------------------------------------------------------
(* Requests only go forward. *)

\* A step of p that ends its request, or brings it nearer to its end.
Advances(p) ==
  /\ pc[p] # "idle"
  /\ \A q \in Requests \ {p} :
       pc'[q] = pc[q] /\ tool'[q] = tool[q] /\ polls'[q] = polls[q]
  /\ StepsLeft(p)' < StepsLeft(p)
  /\ pc'[p] # "idle" => tool'[p] = tool[p]

LEMMA EndAdvances ==
  ASSUME RequestTypes, NEW p \in Requests, pc[p] # "idle", End(p)
  PROVE  Advances(p)
<1>1. /\ \A q \in Requests \ {p} :
           pc'[q] = pc[q] /\ tool'[q] = tool[q] /\ polls'[q] = polls[q]
      /\ pc'[p] = "idle"
  BY DEF End, RequestTypes
<1>2. /\ pc[p] \in Awaits \ {"idle"} /\ polls[p] \in 0 .. MaxPolls /\ MaxPolls \in Nat
  BY ExecutionAssumption DEF RequestTypes
<1>3. StepsLeft(p)' = 0
  BY <1>1 DEF StepsLeft
<1>4. StepsLeft(p) > 0
  BY <1>2 DEF StepsLeft, Awaits, Waiting
<1> QED
  BY <1>1, <1>3, <1>4 DEF Advances

LEMMA GotoAdvances ==
  ASSUME RequestTypes, NEW p \in Requests, NEW l \in Awaits, Goto(p, l),
         \/ pc[p] = "token" /\ l \in {"trigger", "exchange"}
         \/ pc[p] = "exchange" /\ l = "exchanging"
         \/ pc[p] = "exchanging" /\ l = "store"
         \/ pc[p] = "store" /\ l = "trigger"
         \/ pc[p] = "trigger" /\ l = "triggering"
         \/ pc[p] = "poll" /\ l = "polling"
  PROVE  Advances(p)
<1>1. /\ \A q \in Requests \ {p} :
           pc'[q] = pc[q] /\ tool'[q] = tool[q] /\ polls'[q] = polls[q]
      /\ pc'[p] = l /\ polls'[p] = polls[p] /\ tool'[p] = tool[p]
  BY DEF Goto, RequestTypes
<1>2. polls[p] \in 0 .. MaxPolls /\ MaxPolls \in Nat
  BY ExecutionAssumption DEF RequestTypes
<1>3. StepsLeft(p)' < StepsLeft(p)
  BY <1>1, <1>2 DEF StepsLeft
<1> QED
  BY <1>1, <1>3 DEF Advances

LEMMA NextPollAdvances ==
  ASSUME RequestTypes, NEW p \in Requests, pc[p] \in {"poll", "polling"}, NextPoll(p)
  PROVE  Advances(p)
<1>1. CASE End(p)
  BY <1>1, EndAdvances
<1>2. CASE /\ polls[p] < MaxPolls
           /\ polls' = [polls EXCEPT ![p] = polls[p] + 1]
           /\ pc' = [pc EXCEPT ![p] = "poll"]
           /\ UNCHANGED tool
  <2>1. /\ \A q \in Requests \ {p} :
             pc'[q] = pc[q] /\ tool'[q] = tool[q] /\ polls'[q] = polls[q]
        /\ pc'[p] = "poll" /\ polls'[p] = polls[p] + 1 /\ tool'[p] = tool[p]
    BY <1>2 DEF RequestTypes
  <2>2. polls[p] \in 0 .. MaxPolls /\ MaxPolls \in Nat
    BY ExecutionAssumption DEF RequestTypes
  <2>3. StepsLeft(p)' < StepsLeft(p)
    BY <2>1, <2>2 DEF StepsLeft
  <2> QED
    BY <2>1, <2>3 DEF Advances
<1> QED
  BY <1>1, <1>2 DEF NextPoll

LEMMA StepAdvances ==
  ASSUME RequestTypes, NEW p \in Requests, Step(p)
  PROVE  Advances(p)
<1>1. CASE ReadCache(p)
  <2>1. PICK l \in {"trigger", "exchange"} : pc[p] = "token" /\ Goto(p, l)
    BY <1>1 DEF ReadCache
  <2> QED
    BY <2>1, GotoAdvances DEF Awaits
<1>2. CASE StartCall(p)
  BY <1>2, GotoAdvances DEF StartCall, Awaits, Waiting
<1>3. CASE Reject(p) \/ RenderFails(p)
  BY <1>3, EndAdvances DEF Reject, RenderFails
<1>4. CASE RejectPoll(p)
  BY <1>4, NextPollAdvances DEF RejectPoll
<1>5. CASE ExchangeSucceeds(p)
  BY <1>5, GotoAdvances DEF ExchangeSucceeds, Answered, Awaits
<1>6. CASE StoreToken(p)
  BY <1>6, GotoAdvances DEF StoreToken, Awaits
<1>7. CASE TriggerAnswered(p)
  <2>1. pc[p] = "triggering"
    BY <1>7 DEF TriggerAnswered, Answered
  <2>2. CASE End(p)
    BY <2>1, <2>2, EndAdvances
  <2>3. CASE /\ pc' = [pc EXCEPT ![p] = "poll"]
             /\ polls' = [polls EXCEPT ![p] = 1]
             /\ UNCHANGED tool
    <3>1. /\ \A q \in Requests \ {p} :
               pc'[q] = pc[q] /\ tool'[q] = tool[q] /\ polls'[q] = polls[q]
          /\ pc'[p] = "poll" /\ polls'[p] = 1 /\ tool'[p] = tool[p]
      BY <2>3 DEF RequestTypes
    <3>2. StepsLeft(p)' < StepsLeft(p)
      BY <2>1, <3>1, ExecutionAssumption DEF StepsLeft
    <3> QED
      BY <2>1, <3>1, <3>2 DEF Advances
  <2> QED
    BY <1>7, <2>2, <2>3 DEF TriggerAnswered
<1>8. CASE PollAnswered(p)
  BY <1>8, EndAdvances, NextPollAdvances DEF PollAnswered, Answered
<1>9. CASE CallFails(p)
  BY <1>9, EndAdvances, NextPollAdvances DEF CallFails
<1> QED
  BY <1>1, <1>2, <1>3, <1>4, <1>5, <1>6, <1>7, <1>8, <1>9 DEF Step

(* Whatever breakers, services and the administrator do, a request takes   *)
(* at most 2 * max_poll_attempts + 6 steps, each bringing it nearer to its *)
(* end, with the tool it was made for.                                     *)
THEOREM RequestsGoForward == Spec => RequestsAdvance
<1>1. ASSUME IInv, [Next]_vars
      PROVE  [\A p \in Requests :
                pc[p] # "idle" /\ <<pc[p], tool[p], polls[p]>>' # <<pc[p], tool[p], polls[p]>> =>
                  /\ StepsLeft(p)' < StepsLeft(p)
                  /\ pc'[p] # "idle" => tool'[p] = tool[p]]_vars
  <2> SUFFICES ASSUME NEW p \in Requests, pc[p] # "idle",
                      <<pc[p], tool[p], polls[p]>>' # <<pc[p], tool[p], polls[p]>>
               PROVE  Advances(p)
    BY <1>1 DEF Advances
  <2>1. RequestTypes
    BY <1>1, PartsOfIInv DEF Parts
  <2>2. ASSUME NEW q \in Requests, Step(q)
        PROVE  Advances(p)
    BY <2>1, <2>2, StepAdvances DEF Advances
  <2>3. ASSUME NEW q \in Requests, NEW t \in Tools, Execute(q, t)
        PROVE  FALSE
    <3>1. q # p
      BY <2>3 DEF Execute
    <3>2. pc'[p] = pc[p] /\ tool'[p] = tool[p] /\ polls'[p] = polls[p]
      BY <2>1, <2>3, <3>1 DEF Execute, RequestTypes
    <3> QED
      BY <3>2
  <2>4. ~UNCHANGED requestVars
    BY DEF requestVars
  <2>5. /\ \A b \in Services : ~Cool(b) /\ ~Reset(b)
        /\ \A b \in Unreliable : ~Outage(b) /\ ~Recover(b)
        /\ \A t \in Fallible : ~Misconfigure(t) /\ ~Correct(t)
        /\ \A s \in Sources : ~Expire(s)
        /\ ~UNCHANGED vars
    BY <2>4 DEF Cool, Reset, Outage, Recover, Misconfigure, Correct, Expire, vars
  <2> QED
    BY <1>1, <2>2, <2>3, <2>5 DEF Next
<1> QED
  BY BreakerConsistent, <1>1, PTL DEF Spec, RequestsAdvance
-----------------------------------------------------------------------------
(* The breakers keep their promise. *)

Promise == <<failures, cooled, probes, Inside>>

\* A step of p that is no call before it and none after it.
LEMMA InsideStays ==
  ASSUME NEW p \in Requests, OnlyMoves(p), pc[p] \notin Waiting, pc'[p] \notin Waiting
  PROVE  Inside' = Inside
<1>1. ASSUME NEW c \in Services, NEW q \in Requests PROVE Calls(q, c)' <=> Calls(q, c)
  BY DEF OnlyMoves, Calls, Target
<1> QED
  BY <1>1 DEF Inside

\* p starts to wait for b.
LEMMA InsideGrows ==
  ASSUME NEW p \in Requests, NEW b \in Services, OnlyMoves(p),
         pc[p] \notin Waiting, pc'[p] \in Waiting, Target(p)' = b
  PROVE  /\ Inside' = [Inside EXCEPT ![b] = Inside[b] \cup {p}]
         /\ \A c \in Services : p \notin Inside[c]
<1>1. ASSUME NEW c \in Services, NEW q \in Requests
      PROVE  Calls(q, c)' <=> Calls(q, c) \/ (q = p /\ c = b)
  BY DEF OnlyMoves, Calls, Target
<1>2. \A c \in Services : p \notin Inside[c]
  BY DEF Inside, Calls
<1>3. ASSUME NEW c \in Services
      PROVE  Inside'[c] = IF c = b THEN Inside[c] \cup {p} ELSE Inside[c]
  BY <1>1 DEF Inside
<1> QED
  BY <1>2, <1>3 DEF Inside

\* p no longer waits for the service it called.
LEMMA InsideShrinks ==
  ASSUME NEW p \in Requests, OnlyMoves(p), Target(p) \in Services,
         pc[p] \in Waiting, pc'[p] \notin Waiting
  PROVE  /\ Inside' = [Inside EXCEPT ![Target(p)] = Inside[Target(p)] \ {p}]
         /\ p \in Inside[Target(p)]
<1>1. ASSUME NEW c \in Services, NEW q \in Requests
      PROVE  Calls(q, c)' <=> Calls(q, c) /\ q # p
  BY DEF OnlyMoves, Calls, Target
<1>2. PICK b \in Services : b = Target(p)
  OBVIOUS
<1>3. ASSUME NEW c \in Services PROVE p \in Inside[c] <=> c = b
  BY <1>2 DEF Inside, Calls
<1>4. Inside' = [Inside EXCEPT ![b] = Inside[b] \ {p}]
  BY <1>1, <1>3 DEF Inside
<1> QED
  BY <1>2, <1>3, <1>4

(* A call that the state of a breaker admits is one that the streak of its *)
(* service admits (CircuitBreaker.call).                                   *)
LEMMA AdmittedByStreak ==
  ASSUME BreakerInv, NEW b \in Services, NEW p \in Requests, Admit(b, p)
  PROVE  /\ \/ failures[b] < Threshold /\ UNCHANGED probes
            \/ /\ failures[b] = Threshold /\ cooled[b]
               /\ Cardinality(probes[b]) < MaxTests
               /\ probes' = [probes EXCEPT ![b] = probes[b] \cup {p}]
         /\ UNCHANGED <<failures, cooled>>
<1>1. CASE state[b] = "closed" /\ UNCHANGED breakerVars
  BY <1>1 DEF BreakerInv, CountDecides, breakerVars
<1>2. CASE Test(b, p)
  <2>1. failures[b] = Threshold
    BY <1>2 DEF Test, BreakerInv, BreakerTypes, CountDecides
  <2>2. cooled[b]
    BY <1>2 DEF Test, BreakerInv, TestsCounted
  <2>3. Cardinality(probes[b]) < MaxTests
    <3>1. CASE state[b] = "open"
      BY <3>1, FS_EmptySet DEF BreakerInv, TestsCounted
    <3>2. CASE state[b] = "half_open" /\ tests[b] < MaxTests
      BY <3>2 DEF BreakerInv, TestsCounted
    <3> QED
      BY <1>2, <3>1, <3>2 DEF Test
  <2> QED
    BY <1>2, <2>1, <2>2, <2>3 DEF Test
<1> QED
  BY <1>1, <1>2 DEF Admit

\* The instance counts as this module does.
LEMMA SameCardinality == \A S : Breaker!Cardinality(S) = Cardinality(S)
  BY Zenon DEF Breaker!Cardinality, Cardinality

LEMMA StartCallEnters ==
  ASSUME Parts, NEW p \in Requests, StartCall(p)
  PROVE  Breaker!Enter(p, Target(p))
<1>1. pc[p] \in {"exchange", "trigger", "poll"} /\ pc[p] \notin Waiting
  BY DEF StartCall, Waiting
<1>2. PICK b \in Services : b = Target(p)
  BY <1>1, TargetKnown DEF Parts
<1>3. OnlyMoves(p) /\ pc'[p] \in Waiting /\ Target(p)' = b
  BY <1>1, <1>2 DEF StartCall, Goto, OnlyMoves, Waiting, Target, Parts, RequestTypes
<1>4. /\ Inside' = [Inside EXCEPT ![b] = Inside[b] \cup {p}]
      /\ \A c \in Services : p \notin Inside[c]
  BY <1>1, <1>3, InsideGrows
<1>5. BreakerInv /\ Admit(b, p)
  BY <1>2 DEF Parts, StartCall
<1>6. /\ \/ failures[b] < Threshold /\ UNCHANGED probes
         \/ /\ failures[b] = Threshold /\ cooled[b]
            /\ Cardinality(probes[b]) < MaxTests
            /\ probes' = [probes EXCEPT ![b] = probes[b] \cup {p}]
      /\ UNCHANGED <<failures, cooled>>
  BY <1>5, AdmittedByStreak
<1>7. Breaker!Enter(p, b)
  BY <1>4, <1>6, SameCardinality DEF Breaker!Enter
<1> QED
  BY <1>2, <1>7

LEMMA AnswerSucceeds ==
  ASSUME Parts, NEW p \in Requests, NEW l \in Waiting, Answered(p, l),
         OnlyMoves(p), pc'[p] \notin Waiting
  PROVE  Breaker!Succeed(p, Target(p))
<1>1. pc[p] \in Waiting /\ pc[p] # "idle" /\ OnSuccess(Target(p))
  BY DEF Answered, Waiting
<1>2. PICK b \in Services : b = Target(p)
  BY <1>1, TargetKnown DEF Parts
<1>3. /\ Inside' = [Inside EXCEPT ![b] = Inside[b] \ {p}]
      /\ p \in Inside[b]
  BY <1>1, <1>2, InsideShrinks
<1>4. OnSuccess(b)
  BY <1>1, <1>2
<1>5. Breaker!Succeed(p, b)
  BY <1>3, <1>4 DEF OnSuccess, Breaker!Succeed
<1> QED
  BY <1>2, <1>5

LEMMA FailureFails ==
  ASSUME Parts, NEW p \in Requests, CallFails(p)
  PROVE  Breaker!Fail(p, Target(p))
<1>1. pc[p] \in Waiting /\ pc[p] # "idle" /\ OnFailure(Target(p))
  BY DEF CallFails, Waiting
<1>2. PICK b \in Services : b = Target(p)
  BY <1>1, TargetKnown DEF Parts
<1>3. OnlyMoves(p) /\ pc'[p] \in {"idle", "poll"}
  BY <1>1, EndMoves, NextPollMoves DEF CallFails, Parts
<1>4. /\ Inside' = [Inside EXCEPT ![b] = Inside[b] \ {p}]
      /\ p \in Inside[b]
  BY <1>1, <1>2, <1>3, InsideShrinks DEF Waiting
<1>5. OnFailure(b)
  BY <1>1, <1>2
<1>6. Breaker!Fail(p, b)
  BY <1>4, <1>5 DEF OnFailure, Breaker!Fail, Parts, BreakerInv, BreakerTypes
<1> QED
  BY <1>2, <1>6

\* Which step of the promise each step of a request takes.
LEMMA StepPromised ==
  ASSUME Parts, NEW p \in Requests, Step(p)
  PROVE  \/ UNCHANGED Promise
         \/ /\ Target(p) \in Services
            /\ \/ Breaker!Enter(p, Target(p))
               \/ Breaker!Succeed(p, Target(p))
               \/ Breaker!Fail(p, Target(p))
<1>1. ASSUME pc[p] \notin Waiting, pc'[p] \notin Waiting, OnlyMoves(p),
             UNCHANGED breakerVars
      PROVE  UNCHANGED Promise
  BY <1>1, InsideStays DEF Promise, breakerVars
<1>2. CASE ReadCache(p)
  <2>1. pc[p] = "token" /\ OnlyMoves(p) /\ pc'[p] \in {"trigger", "exchange"}
    BY <1>2 DEF ReadCache, Goto, OnlyMoves, Parts, RequestTypes
  <2> QED
    BY <1>1, <1>2, <2>1 DEF ReadCache, Waiting
<1>3. CASE StartCall(p)
  <2>1. pc[p] # "idle"
    BY <1>3 DEF StartCall
  <2> QED
    BY <1>3, <2>1, StartCallEnters, TargetKnown DEF Parts
<1>4. CASE Reject(p)
  BY <1>1, <1>4, EndMoves DEF Reject, Parts, Waiting
<1>5. CASE RejectPoll(p)
  BY <1>1, <1>5, NextPollMoves DEF RejectPoll, Parts, Waiting
<1>6. CASE RenderFails(p)
  BY <1>1, <1>6, EndMoves DEF RenderFails, Parts, Waiting
<1>7. CASE StoreToken(p)
  <2>1. pc[p] = "store" /\ OnlyMoves(p) /\ pc'[p] = "trigger"
    BY <1>7 DEF StoreToken, Goto, OnlyMoves, Parts, RequestTypes
  <2> QED
    BY <1>1, <1>7, <2>1 DEF StoreToken, Waiting
<1>8. ASSUME NEW l \in Waiting, Answered(p, l), OnlyMoves(p), pc'[p] \notin Waiting
      PROVE  Target(p) \in Services /\ Breaker!Succeed(p, Target(p))
  <2>1. pc[p] # "idle"
    BY <1>8 DEF Answered, Waiting
  <2> QED
    BY <1>8, <2>1, AnswerSucceeds, TargetKnown DEF Parts
<1>9. CASE ExchangeSucceeds(p)
  <2>1. "exchanging" \in Waiting /\ Answered(p, "exchanging")
    BY <1>9 DEF ExchangeSucceeds, Waiting
  <2>2. OnlyMoves(p) /\ pc'[p] = "store"
    BY <1>9 DEF ExchangeSucceeds, Goto, OnlyMoves, Parts, RequestTypes
  <2>3. pc'[p] \notin Waiting
    BY <2>2 DEF Waiting
  <2> QED
    BY <1>8, <2>1, <2>2, <2>3
<1>10. CASE TriggerAnswered(p)
  <2>1. "triggering" \in Waiting /\ Answered(p, "triggering")
    BY <1>10 DEF TriggerAnswered, Waiting
  <2>2. OnlyMoves(p) /\ pc'[p] \in {"idle", "poll"}
    <3>1. CASE End(p)
      BY <3>1, EndMoves DEF Parts
    <3>2. CASE pc' = [pc EXCEPT ![p] = "poll"] /\ UNCHANGED tool
      BY <3>2 DEF OnlyMoves, Parts, RequestTypes
    <3> QED
      BY <1>10, <3>1, <3>2 DEF TriggerAnswered
  <2>3. pc'[p] \notin Waiting
    BY <2>2 DEF Waiting
  <2> QED
    BY <1>8, <2>1, <2>2, <2>3
<1>11. CASE PollAnswered(p)
  <2>1. "polling" \in Waiting /\ Answered(p, "polling") /\ pc[p] # "idle"
    BY <1>11 DEF PollAnswered, Answered, Waiting
  <2>2. OnlyMoves(p) /\ pc'[p] \in {"idle", "poll"}
    BY <1>11, <2>1, EndMoves, NextPollMoves DEF PollAnswered, Parts
  <2>3. pc'[p] \notin Waiting
    BY <2>2 DEF Waiting
  <2> QED
    BY <1>8, <2>1, <2>2, <2>3
<1>12. CASE CallFails(p)
  <2>1. pc[p] # "idle"
    BY <1>12 DEF CallFails, Waiting
  <2> QED
    BY <1>12, <2>1, FailureFails, TargetKnown DEF Parts
<1> QED
  BY <1>2, <1>3, <1>4, <1>5, <1>6, <1>7, <1>9, <1>10, <1>11, <1>12 DEF Step

(* The breakers implement CircuitBreakers: their states and counters, read *)
(* before a call and written after it while other calls are in flight,     *)
(* keep the promise made in terms of the answers alone.                    *)
THEOREM ImplementsBreakers == Spec => RefinesBreakers
<1>1. Init => Breaker!Init
  BY DEF Init, Breaker!Init, Inside, Calls, Waiting
<1>2. IInv /\ [Next]_vars => [Breaker!Next]_Promise
  <2> SUFFICES ASSUME IInv, [Next]_vars
               PROVE  Breaker!Next \/ UNCHANGED Promise
    OBVIOUS
  <2>0. Parts
    BY PartsOfIInv
  <2>1. ASSUME NEW p \in Requests, Step(p)
        PROVE  Breaker!Next \/ UNCHANGED Promise
    BY <2>0, <2>1, StepPromised DEF Breaker!Next
  <2>2. ASSUME NEW p \in Requests, NEW t \in Tools, Execute(p, t)
        PROVE  UNCHANGED Promise
    <3>1. OnlyMoves(p) /\ pc[p] = "idle" /\ pc'[p] \in {"token", "trigger"}
      BY <2>0, <2>2 DEF Execute, OnlyMoves, Parts, RequestTypes
    <3> QED
      BY <2>2, <3>1, InsideStays DEF Execute, Promise, breakerVars, Waiting
  <2>3. UNCHANGED <<pc, tool>> => UNCHANGED Inside
    BY DEF Inside, Calls, Target
  <2>4. ASSUME NEW b \in Services, Cool(b) PROVE Breaker!Next
    BY <2>3, <2>4 DEF Cool, requestVars, Breaker!Rest, Breaker!Next
  <2>5. ASSUME NEW b \in Services, Reset(b) PROVE Breaker!Next
    BY <2>3, <2>5 DEF Reset, requestVars, Breaker!Reset, Breaker!Next
  <2>6. ASSUME UNCHANGED <<breakerVars, requestVars>> PROVE UNCHANGED Promise
    BY <2>3, <2>6 DEF breakerVars, requestVars, Promise
  <2>7. /\ \A b \in Unreliable : Outage(b) \/ Recover(b) => UNCHANGED Promise
        /\ \A t \in Fallible : Misconfigure(t) \/ Correct(t) => UNCHANGED Promise
        /\ \A s \in Sources : Expire(s) => UNCHANGED Promise
        /\ UNCHANGED vars => UNCHANGED Promise
    BY <2>6 DEF Outage, Recover, Misconfigure, Correct, Expire, vars
  <2> QED
    BY <2>1, <2>2, <2>4, <2>5, <2>7 DEF Next
<1> QED
  BY <1>1, <1>2, BreakerConsistent, PTL
     DEF Spec, RefinesBreakers, Breaker!Spec, Promise
=============================================================================
