--------------------------- MODULE CircuitBreakers ---------------------------
(***************************************************************************)
(* What circuit breakers promise to those who call services through them,  *)
(* without states or counters of calls: a service that has failed          *)
(* Threshold times since it last answered is left alone until it has       *)
(* rested, and is then called by at most MaxTests requests at a time until *)
(* it has answered.                                                        *)
(***************************************************************************)
EXTENDS Integers, FiniteSets

CONSTANTS
  Services,    \* what is called
  Requests,    \* who calls
  Threshold,   \* failures in a row that trip a breaker
  MaxTests     \* calls let through to a service that may be back

VARIABLES
  streak,      \* failures of each service since it last answered, up to Threshold
  rested,      \* the service has been left alone long enough
  testing,     \* calls in flight that try whether the service is back
  inside       \* requests waiting for an answer of each service

Init ==
  /\ streak = [b \in Services |-> 0]
  /\ rested = [b \in Services |-> TRUE]
  /\ testing = [b \in Services |-> {}]
  /\ inside = [b \in Services |-> {}]

Enter(p, b) ==
  /\ \A c \in Services : p \notin inside[c]
  /\ inside' = [inside EXCEPT ![b] = @ \cup {p}]
  /\ \/ streak[b] < Threshold /\ UNCHANGED testing
     \/ /\ streak[b] = Threshold /\ rested[b]
        /\ Cardinality(testing[b]) < MaxTests
        /\ testing' = [testing EXCEPT ![b] = @ \cup {p}]
  /\ UNCHANGED <<streak, rested>>

\* any answer ends the streak, and the test with it
Succeed(p, b) ==
  /\ p \in inside[b]
  /\ inside' = [inside EXCEPT ![b] = @ \ {p}]
  /\ streak' = [streak EXCEPT ![b] = 0]
  /\ testing' = [testing EXCEPT ![b] = {}]
  /\ UNCHANGED rested

Fail(p, b) ==
  /\ p \in inside[b]
  /\ inside' = [inside EXCEPT ![b] = @ \ {p}]
  /\ streak' = [streak EXCEPT ![b] = IF @ < Threshold THEN @ + 1 ELSE @]
  /\ rested' = [rested EXCEPT ![b] = FALSE]
  /\ testing' = [testing EXCEPT ![b] = {}]

Rest(b) ==
  /\ rested' = [rested EXCEPT ![b] = TRUE]
  /\ UNCHANGED <<streak, testing, inside>>

\* by an administrator; calls in flight go on
Reset(b) ==
  /\ streak' = [streak EXCEPT ![b] = 0]
  /\ rested' = [rested EXCEPT ![b] = TRUE]
  /\ testing' = [testing EXCEPT ![b] = {}]
  /\ UNCHANGED inside

Next ==
  \E b \in Services :
    \/ Rest(b) \/ Reset(b)
    \/ \E p \in Requests : Enter(p, b) \/ Succeed(p, b) \/ Fail(p, b)

Spec == Init /\ [][Next]_<<streak, rested, testing, inside>>
=============================================================================
