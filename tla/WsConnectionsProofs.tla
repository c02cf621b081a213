------------------------ MODULE WsConnectionsProofs ------------------------
(* Safety of WsConnections for every number of connections. *)
EXTENDS WsConnections, TLAPS

USE TasksDiffer, MaxMissedPositive

-----------------------------------------------------------------------------
(* The tracking structures on their own: what a task may do to them.       *)

TrackTypes ==
  /\ state \in [Conns -> States]
  /\ registered \subseteq Conns /\ contexts \subseteq Conns
  /\ shut \subseteq Conns
  /\ closes \in [Tasks -> Conns \cup {NoConn}]

(* Disconnecting a connection, complete or begun, keeps the types and the  *)
(* tracking in step with the state; a task that begins holds what it has   *)
(* to finish, and nothing but the connection concerned changes.            *)
LEMMA DisconnectKeeps ==
  ASSUME TrackTypes, TrackedIffOpen, NEW t \in Tasks, NEW c \in Conns,
         Idle(t), Disconnect(t, c)
  PROVE  /\ TrackTypes' /\ TrackedIffOpen'
         /\ c \in registered' => closes'[t] = c
         /\ \A u \in Tasks : closes'[u] # closes[u] =>
                 u = t /\ closes'[u] = c /\ c \in registered
         /\ registered' \subseteq registered
         /\ \A d \in Conns : state'[d] # state[d] =>
                 /\ d = c /\ state[d] # "connecting"
                 /\ state'[d] \in {"closing", "closed"}
         /\ c \in registered => state'[c] \in {"closing", "closed"}
<1>1. CASE c \notin registered
  BY <1>1 DEF Disconnect, TrackTypes, TrackedIffOpen
<1>2. CASE c \in registered /\ c \in seen
  <2>1. /\ state' = [state EXCEPT ![c] = "closed"]
        /\ registered' = registered \ {c} /\ shut' = shut \cup {c}
        /\ contexts' = contexts \ {c} /\ closes' = closes
    BY <1>2 DEF Disconnect, Forgets
  <2>2. state[c] \notin {"connecting", "closed"}
    BY <1>2 DEF TrackedIffOpen
  <2> QED
    BY <2>1, <2>2, <1>2 DEF TrackTypes, TrackedIffOpen, States
<1>3. CASE c \in registered /\ c \notin seen
  <2>1. /\ state' = [state EXCEPT ![c] = To(state[c], "closing")]
        /\ closes' = [closes EXCEPT ![t] = c]
        /\ contexts' = contexts \ {c}
        /\ registered' = registered /\ shut' = shut
    BY <1>3 DEF Disconnect
  <2>2. state[c] \in {"authenticated", "active", "closing"}
    BY <1>3 DEF TrackedIffOpen, TrackTypes, States
  <2>3. To(state[c], "closing") = "closing"
    BY <2>2 DEF To, Valid
  <2> QED
    BY <2>1, <2>2, <2>3, <1>3 DEF TrackTypes, TrackedIffOpen, States
<1> QED
  BY <1>1, <1>2, <1>3

(* A send changes the connections as a disconnection does, or not at all.  *)
LEMMA SendKeeps ==
  ASSUME TrackTypes, TrackedIffOpen, NEW t \in Tasks, NEW c \in Conns,
         Idle(t), Sends(t, c)
  PROVE  /\ TrackTypes' /\ TrackedIffOpen'
         /\ \A u \in Tasks : closes'[u] # closes[u] =>
                 u = t /\ closes'[u] = c /\ c \in registered
         /\ registered' \subseteq registered
         /\ \A d \in Conns : state'[d] # state[d] =>
                 /\ d = c /\ state[d] # "connecting"
                 /\ state'[d] \in {"closing", "closed"}
<1>1. CASE UNCHANGED <<state, registered, contexts, closes, shut>>
  BY <1>1 DEF TrackTypes, TrackedIffOpen
<1>2. CASE Disconnect(t, c)
  BY <1>2, DisconnectKeeps
<1> QED
  BY <1>1, <1>2 DEF Sends

(* The part of the type invariant that the tracking structures need. *)
LEMMA TypesOfTracking == TypeOK => TrackTypes
BY DEF TypeOK, TrackTypes

-----------------------------------------------------------------------------
(* Whatever a task does to the tracking structures, beginning a disconnect *)
(* only of a registered connection and never leaving an accepted one       *)
(* "connecting", the invariant needs little more: that places and the      *)
(* count of missed pongs fit.                                              *)
Little ==
  /\ \A u \in Tasks : closes'[u] # closes[u] =>
          closes'[u] \in registered
  /\ registered' \subseteq registered
  /\ \A d \in Conns : state'[d] # state[d] =>
          /\ state[d] # "connecting"
          /\ state'[d] \in {"closing", "closed"}

LEMMA LittleKeeps ==
  ASSUME IInv, TypeOK', TrackedIffOpen', Little,
         \A c \in Conns : at'[c] = "new" <=> at[c] = "new",
         ClosesOwn',
         \A c \in Conns : \/ missed'[c] = missed[c] \/ missed'[c] < MaxMissed
                          \/ state'[c] \in {"closing", "closed"}
  PROVE  IInv'
<1>1. ASSUME NEW c \in Conns PROVE at'[c] = "new" <=> state'[c] = "connecting"
  BY <1>1 DEF IInv, OpenedFirst, Little
<1>2. ASSUME NEW u \in Tasks, closes'[u] \in Conns PROVE at'[closes'[u]] # "new"
  <2>1. CASE closes'[u] = closes[u]
    BY <2>1, <1>2 DEF IInv, OpenedFirst
  <2>2. CASE closes'[u] \in registered
    <3>1. state[closes'[u]] # "connecting"
      BY <2>2, <1>2 DEF IInv, TrackedIffOpen
    <3> QED
      BY <3>1, <1>2 DEF IInv, OpenedFirst
  <2> QED
    BY <2>1, <2>2, <1>2 DEF Little
<1>3. Allowance'
  BY DEF IInv, Allowance, Little
<1> QED
  BY <1>1, <1>2, <1>3 DEF IInv, OpenedFirst

(* The endpoint's own places: it goes on only when it awaits no close.     *)
LEMMA EndpointSends ==
  ASSUME IInv, NEW c \in Conns, NEW from \in Places \ {"new", "done"},
         NEW to \in Places \ {"new", "done"}, Goes(c, from, to), Sends(c, c),
         UNCHANGED <<client, seen, owed, unread, heart, sweep>>
  PROVE  IInv'
<1>1. c \in Tasks /\ Idle(c)
  BY DEF Tasks, Goes
<1>2. TrackTypes /\ TrackedIffOpen
  BY TypesOfTracking DEF IInv
<1>3. /\ TrackTypes' /\ TrackedIffOpen' /\ Little
      /\ \A u \in Tasks : closes'[u] # closes[u] => u = c
  BY <1>1, <1>2, SendKeeps DEF Little
<1>4. TypeOK'
  BY <1>3 DEF IInv, TypeOK, TrackTypes, heart, Goes
<1>5. at'[c] = to /\ \A d \in Conns : d # c => at'[d] = at[d]
  BY DEF Goes, IInv, TypeOK
<1>6. ClosesOwn'
  BY <1>3, <1>5 DEF IInv, ClosesOwn, Little, Tasks
<1>7. \A d \in Conns : (at'[d] = "new" <=> at[d] = "new") /\ missed'[d] = missed[d]
  BY <1>5 DEF Goes, heart
<1> QED
  BY <1>3, <1>4, <1>6, <1>7, LittleKeeps

(* Another task, or the handler of another connection, begins to close c.  *)
LEMMA OthersDisconnect ==
  ASSUME IInv, NEW t \in Tasks, NEW c \in Conns, Idle(t), Disconnect(t, c),
         t \in Conns => at[t] # "done",
         UNCHANGED <<at, client, seen, unread, ponged>>,
         owed' \subseteq Conns, overdue' \subseteq Conns, sweep' \subseteq Conns,
         missed' \in [Conns -> 0 .. MaxMissed],
         \A d \in Conns : \/ missed'[d] = missed[d] \/ missed'[d] < MaxMissed
                          \/ d = c /\ c \in registered
  PROVE  IInv'
<1>1. TrackTypes /\ TrackedIffOpen
  BY TypesOfTracking DEF IInv
<1>2. /\ TrackTypes' /\ TrackedIffOpen' /\ Little
      /\ \A u \in Tasks : closes'[u] # closes[u] => u = t
      /\ c \in registered => state'[c] \in {"closing", "closed"}
  BY <1>1, DisconnectKeeps DEF Little
<1>3. TypeOK'
  BY <1>2 DEF IInv, TypeOK, TrackTypes
<1>4. ClosesOwn'
  BY <1>2 DEF IInv, ClosesOwn, Little, Tasks
<1>5. \A d \in Conns : \/ missed'[d] = missed[d] \/ missed'[d] < MaxMissed
                       \/ state'[d] \in {"closing", "closed"}
  BY <1>2
<1> QED
  BY <1>2, <1>3, <1>4, <1>5, LittleKeeps

LEMMA EndpointKeeps ==
  ASSUME IInv, NEW c \in Conns, Endpoint(c)
  PROVE  IInv'
<1>1. CASE Connect(c)
  <2>1. /\ at[c] = "new" /\ at' = [at EXCEPT ![c] = "init"]
        /\ state' = [state EXCEPT ![c] = "authenticated"]
        /\ registered' = registered \cup {c}
        /\ UNCHANGED <<contexts, closes, wire, heart, sweep>>
    BY <1>1 DEF Connect, Goes
  <2>2. TypeOK'
    BY <2>1 DEF IInv, TypeOK, States, Places, wire, heart
  <2>3. TrackedIffOpen'
    BY <2>1 DEF IInv, TypeOK, TrackedIffOpen
  <2>4. OpenedFirst'
    BY <2>1 DEF IInv, TypeOK, OpenedFirst
  <2>5. ClosesOwn'
    BY <2>1 DEF IInv, TypeOK, ClosesOwn
  <2>6. Allowance'
    <3>1. missed' = missed /\ state[c] = "connecting"
      BY <2>1 DEF heart, IInv, OpenedFirst
    <3> QED
      BY <2>1, <3>1 DEF IInv, TypeOK, Allowance
  <2> QED
    BY <2>2, <2>3, <2>4, <2>5, <2>6 DEF IInv
<1>2. CASE Activate(c)
  <2>1. /\ at[c] = "activate" /\ at' = [at EXCEPT ![c] = "flow"]
        /\ state' = [state EXCEPT ![c] = To(state[c], "active")]
        /\ UNCHANGED <<registered, contexts, closes, wire, heart, sweep>>
    BY <1>2 DEF Activate, Goes
  <2>2. \/ To(state[c], "active") = state[c]
        \/ state[c] = "authenticated" /\ To(state[c], "active") = "active"
    BY DEF To, Valid
  <2>3. TypeOK'
    BY <2>1, <2>2 DEF IInv, TypeOK, States, Places, wire, heart
  <2>4. TrackedIffOpen'
    BY <2>1, <2>2 DEF IInv, TypeOK, TrackedIffOpen
  <2>5. OpenedFirst'
    BY <2>1, <2>2 DEF IInv, TypeOK, OpenedFirst
  <2>6. ClosesOwn'
    BY <2>1 DEF IInv, TypeOK, ClosesOwn
  <2>7. Allowance'
    BY <2>1, <2>2 DEF IInv, TypeOK, Allowance, heart
  <2> QED
    BY <2>3, <2>4, <2>5, <2>6, <2>7 DEF IInv
<1>3. CASE \/ Initialize(c) \/ ReadMessage(c) \/ ReceiveEnds(c)
           \/ ReceiveBreaks(c) \/ ReadPong(c)
  <2>1. /\ UNCHANGED <<state, registered, closes>>
        /\ \/ at' = at
           \/ \E from, to \in Places \ {"new", "done"} :
                 at[c] = from /\ at' = [at EXCEPT ![c] = to]
    BY <1>3 DEF Initialize, ReadMessage, ReceiveEnds, ReceiveBreaks, ReadPong, Goes,
                Places
  <2>2. /\ TypeOK'
        /\ \A d \in Conns : missed'[d] = missed[d] \/ missed'[d] < MaxMissed
    BY <1>3, <2>1 DEF IInv, TypeOK, Initialize, ReadMessage, ReceiveEnds,
                      ReceiveBreaks, ReadPong, Goes, wire, heart
  <2>3. TrackedIffOpen' /\ ClosesOwn' /\ Little
    BY <2>1 DEF IInv, TypeOK, TrackedIffOpen, ClosesOwn, Little
  <2>4. \A d \in Conns : at'[d] = "new" <=> at[d] = "new"
    BY <2>1 DEF IInv, TypeOK
  <2> QED
    BY <2>2, <2>3, <2>4, LittleKeeps
<1>4. CASE InitializeFails(c) \/ Greet(c) \/ StartFlow(c) \/ Handle(c)
  <2>1. \E from, to \in Places \ {"new", "done"} : Goes(c, from, to)
    BY <1>4 DEF InitializeFails, Greet, StartFlow, Handle, Places
  <2> QED
    BY <1>4, <2>1, EndpointSends DEF InitializeFails, Greet, StartFlow, Handle
<1>5. ASSUME NEW d \in Conns, Broadcast(c, d) PROVE IInv'
  <2>1. /\ c \in Tasks /\ Idle(c) /\ Disconnect(c, d) /\ at[c] # "done"
        /\ UNCHANGED <<at, client, seen, owed, unread, heart, sweep>>
    BY <1>5 DEF Broadcast, Tasks
  <2>2. /\ owed' \subseteq Conns /\ overdue' \subseteq Conns /\ sweep' \subseteq Conns
        /\ missed' \in [Conns -> 0 .. MaxMissed] /\ missed' = missed
        /\ UNCHANGED <<at, client, seen, unread, ponged>>
    BY <2>1 DEF heart, IInv, TypeOK
  <2> QED
    BY <2>1, <2>2, OthersDisconnect
<1>6. CASE Exit(c)
  <2>1. /\ c \in Tasks /\ Idle(c) /\ Disconnect(c, c)
        /\ at[c] = "exit" /\ at' = [at EXCEPT ![c] = "done"]
        /\ UNCHANGED <<client, seen, owed, unread, heart, sweep>>
    BY <1>6 DEF Exit, Goes, Tasks
  <2>2. TrackTypes /\ TrackedIffOpen
    BY TypesOfTracking DEF IInv
  <2>3. /\ TrackTypes' /\ TrackedIffOpen' /\ Little
        /\ \A u \in Tasks : closes'[u] # closes[u] => u = c
        /\ c \in registered' => closes'[c] = c
    BY <2>1, <2>2, DisconnectKeeps DEF Little
  <2>4. TypeOK'
    BY <2>1, <2>3 DEF IInv, TypeOK, TrackTypes, heart, Places
  <2>5. ClosesOwn'
    BY <2>1, <2>3 DEF IInv, TypeOK, ClosesOwn, Little, Tasks
  <2>6. \A d \in Conns : (at'[d] = "new" <=> at[d] = "new") /\ missed'[d] = missed[d]
    BY <2>1 DEF heart, IInv, TypeOK
  <2> QED
    BY <2>3, <2>4, <2>5, <2>6, LittleKeeps
<1> QED
  BY <1>1, <1>2, <1>3, <1>4, <1>5, <1>6 DEF Endpoint

-----------------------------------------------------------------------------
(* The background tasks and the clients.                                   *)

(* A visit of the heartbeat counts at most max_missed_pongs.               *)
LEMMA VisitKeeps ==
  ASSUME IInv, NEW c \in Conns, Visit(c)
  PROVE  IInv'
<1>1. /\ Heartbeat \in Tasks /\ Idle(Heartbeat) /\ Heartbeat \notin Conns
      /\ sweep' = sweep \ {c} /\ at' = at
  BY DEF Visit, Tasks
<1>2. TrackTypes /\ TrackedIffOpen
  BY TypesOfTracking DEF IInv
<1>3. CASE Skip(c)
  <2>1. /\ UNCHANGED <<state, registered, contexts, closes, wire, heart, at>>
        /\ sweep' \subseteq Conns
    BY <1>1, <1>3 DEF Skip, IInv, TypeOK
  <2>2. TypeOK' /\ TrackedIffOpen' /\ Little /\ ClosesOwn'
    BY <2>1 DEF IInv, TypeOK, TrackedIffOpen, ClosesOwn, Little, wire, heart
  <2> QED
    BY <2>1, <2>2, LittleKeeps DEF heart
<1>4. ASSUME state[c] = "active" PROVE /\ c \in registered
                                      /\ Counted(c) \in 0 .. MaxMissed
  BY <1>4 DEF IInv, TypeOK, TrackedIffOpen, Allowance, Counted
<1>5. CASE Ping(c)
  <2>1. /\ missed' = [missed EXCEPT ![c] = Counted(c)] /\ Counted(c) < MaxMissed
        /\ Counted(c) \in 0 .. MaxMissed
        /\ overdue' = overdue \cup {c} /\ owed' \subseteq Conns
        /\ UNCHANGED <<client, seen, unread, ponged>>
        /\ Sends(Heartbeat, c)
    BY <1>4, <1>5 DEF Ping, Exhausted, IInv, TypeOK
  <2>2. /\ TrackTypes' /\ TrackedIffOpen' /\ Little
        /\ \A u \in Tasks : closes'[u] # closes[u] => u = Heartbeat
    BY <1>1, <1>2, <2>1, SendKeeps DEF Little
  <2>3. TypeOK'
    BY <1>1, <2>1, <2>2 DEF IInv, TypeOK, TrackTypes
  <2>4. ClosesOwn'
    BY <1>1, <2>2 DEF IInv, ClosesOwn, Little, Tasks
  <2>5. \A d \in Conns : missed'[d] = missed[d] \/ missed'[d] < MaxMissed
    BY <2>1 DEF IInv, TypeOK
  <2> QED
    BY <1>1, <2>2, <2>3, <2>4, <2>5, LittleKeeps
<1>6. CASE GiveUp(c)
  <2>1. /\ missed' = [missed EXCEPT ![c] = Counted(c)]
        /\ Counted(c) \in 0 .. MaxMissed /\ c \in registered
        /\ UNCHANGED <<client, seen, owed, unread, ponged, overdue>>
        /\ Disconnect(Heartbeat, c)
    BY <1>4, <1>6 DEF GiveUp
  <2>2. /\ missed' \in [Conns -> 0 .. MaxMissed]
        /\ \A d \in Conns : missed'[d] = missed[d] \/ (d = c /\ c \in registered)
        /\ owed' \subseteq Conns /\ overdue' \subseteq Conns /\ sweep' \subseteq Conns
    BY <1>1, <2>1 DEF IInv, TypeOK
  <2> QED
    BY <1>1, <2>1, <2>2, OthersDisconnect
<1> QED
  BY <1>3, <1>5, <1>6 DEF Visit

LEMMA CleanUpKeeps ==
  ASSUME IInv, NEW c \in Conns, CleanUp(c)
  PROVE  IInv'
<1>1. /\ Cleanup \in Tasks /\ Cleanup \notin Conns /\ Idle(Cleanup)
      /\ Disconnect(Cleanup, c)
      /\ UNCHANGED <<at, client, seen, owed, unread, heart, sweep>>
  BY DEF CleanUp, Tasks
<1>2. /\ owed' \subseteq Conns /\ overdue' \subseteq Conns /\ sweep' \subseteq Conns
      /\ missed' \in [Conns -> 0 .. MaxMissed] /\ missed' = missed
      /\ UNCHANGED <<at, client, seen, unread, ponged>>
  BY <1>1 DEF heart, IInv, TypeOK
<1> QED
  BY <1>1, <1>2, OthersDisconnect

(* Closing a connection for good leaves no task's connection un-accepted.  *)
LEMMA DisconnectEndsKeeps ==
  ASSUME IInv, NEW t \in Tasks, DisconnectEnds(t)
  PROVE  IInv'
<1> DEFINE c == closes[t]
<1>1. /\ c \in Conns /\ state' = [state EXCEPT ![c] = "closed"]
      /\ registered' = registered \ {c} /\ shut' = shut \cup {c}
      /\ closes' = [closes EXCEPT ![t] = NoConn]
      /\ UNCHANGED <<contexts, at, client, seen, owed, unread, heart, sweep>>
  BY DEF DisconnectEnds, Forgets
<1>2. at[c] # "new" /\ state[c] # "connecting"
  BY <1>1 DEF IInv, OpenedFirst
<1> HIDE DEF c
<1>3. TypeOK'
  BY <1>1 DEF IInv, TypeOK, States, heart
<1>4. TrackedIffOpen'
  BY <1>1 DEF IInv, TypeOK, TrackedIffOpen
<1>5. OpenedFirst'
  BY <1>1, <1>2 DEF IInv, TypeOK, OpenedFirst
<1>6. ClosesOwn'
  BY <1>1 DEF IInv, TypeOK, ClosesOwn, Tasks, c
<1>7. Allowance'
  BY <1>1 DEF IInv, TypeOK, Allowance, heart
<1> QED
  BY <1>3, <1>4, <1>5, <1>6, <1>7 DEF IInv

LEMMA ClientKeeps ==
  ASSUME IInv, NEW c \in Conns, Client(c)
  PROVE  IInv'
<1>1. UNCHANGED <<state, registered, contexts, at, closes, seen, shut, heart, sweep>>
  BY DEF Client, Answer, Freeze, Leave
<1>2. TypeOK'
  BY <1>1 DEF Client, Answer, Freeze, Leave, IInv, TypeOK, heart
<1> QED
  BY <1>1, <1>2 DEF IInv, TrackedIffOpen, OpenedFirst, ClosesOwn, Allowance, heart

-----------------------------------------------------------------------------
(* The invariant: tracking follows the connection state machine, a         *)
(* returned endpoint has nothing left but its own unfinished close, and a  *)
(* client is given up within its allowance of missed pongs.                *)
THEOREM ConnectionsConsistent == Spec => []IInv
<1>1. Init => IInv
  BY DEF Init, IInv, TypeOK, TrackedIffOpen, OpenedFirst, ClosesOwn, Allowance,
         States, Places, Tasks
<1>2. IInv /\ [Next]_vars => IInv'
  <2> SUFFICES ASSUME IInv, [Next]_vars PROVE IInv'
    OBVIOUS
  <2>1. CASE UNCHANGED vars
    BY <2>1 DEF vars, wire, heart, IInv, TypeOK, TrackedIffOpen, OpenedFirst,
                ClosesOwn, Allowance
  <2>2. CASE Sweep
    BY <2>2 DEF Sweep, wire, heart, IInv, TypeOK, TrackedIffOpen, OpenedFirst,
                ClosesOwn, Allowance
  <2>3. CASE \E c \in Conns : Endpoint(c) \/ Visit(c) \/ CleanUp(c) \/ Client(c)
    BY <2>3, EndpointKeeps, VisitKeeps, CleanUpKeeps, ClientKeeps
  <2>4. CASE \E t \in Tasks : DisconnectEnds(t)
    BY <2>4, DisconnectEndsKeeps
  <2> QED
    BY <2>1, <2>2, <2>3, <2>4 DEF Next
<1> QED
  BY <1>1, <1>2, PTL DEF Spec

(* Connections, tasks and counters keep their types: no client misses more *)
(* than max_missed_pongs pongs.                                            *)
THEOREM TypeCorrect == Spec => []TypeOK
<1>1. IInv => TypeOK
  BY DEF IInv
<1> QED
  BY <1>1, ConnectionsConsistent, PTL

(* A connection is tracked exactly while it is accepted and not closed,    *)
(* however many tasks disconnect it during connect.                        *)
THEOREM TrackingFollowsState == Spec => []TrackedIffOpen
<1>1. IInv => TrackedIffOpen
  BY DEF IInv
<1> QED
  BY <1>1, ConnectionsConsistent, PTL

(* Once the endpoint has returned nothing tracks its connection.           *)
THEOREM ReturnUntracks == Spec => []ReturnedUntracked
<1>1. IInv => ReturnedUntracked
  BY DEF IInv, ClosesOwn, ReturnedUntracked, Idle
<1> QED
  BY <1>1, ConnectionsConsistent, PTL
-----------------------------------------------------------------------------
(* What a step may do to a connection. *)

(* A disconnection, begun or complete, takes valid transitions.            *)
LEMMA DisconnectValid ==
  ASSUME TrackTypes, TrackedIffOpen, NEW t \in Tasks, NEW c \in Conns,
         Idle(t), Disconnect(t, c)
  PROVE  /\ \A d \in Conns : state'[d] # state[d] => <<state[d], state'[d]>> \in Valid
         /\ registered' \subseteq registered
<1>1. registered' \subseteq registered
  BY DisconnectKeeps
<1>2. ASSUME NEW d \in Conns, state'[d] # state[d]
      PROVE  <<state[d], state'[d]>> \in Valid
  <2>1. d = c /\ state[d] # "connecting" /\ state'[d] \in {"closing", "closed"}
    BY <1>2, DisconnectKeeps
  <2>2. c \in registered
    BY <1>2 DEF Disconnect
  <2>3. state[d] \in {"authenticated", "active", "closing"}
    BY <2>1, <2>2 DEF TrackTypes, TrackedIffOpen, States
  <2> QED
    BY <1>2, <2>1, <2>3 DEF Valid
<1> QED
  BY <1>1, <1>2

LEMMA SendValid ==
  ASSUME TrackTypes, TrackedIffOpen, NEW t \in Tasks, NEW c \in Conns,
         Idle(t), Sends(t, c)
  PROVE  /\ \A d \in Conns : state'[d] # state[d] => <<state[d], state'[d]>> \in Valid
         /\ registered' \subseteq registered
<1>1. CASE UNCHANGED <<state, registered, contexts, closes, shut>>
  BY <1>1
<1>2. CASE Disconnect(t, c)
  BY <1>2, DisconnectValid
<1> QED
  BY <1>1, <1>2 DEF Sends

\* What the next theorem says of each connection.
Follows ==
  \A c \in Conns :
    /\ state'[c] # state[c] => <<state[c], state'[c]>> \in Valid
    /\ at[c] # "new" /\ c \notin registered => c \notin registered'

LEMMA EndpointFollows ==
  ASSUME IInv, NEW c \in Conns, Endpoint(c)
  PROVE  Follows
<1>1. c \in Tasks /\ TrackTypes /\ TrackedIffOpen
  BY TypesOfTracking DEF IInv, Tasks
<1>2. CASE Connect(c)
  <2>1. /\ at[c] = "new" /\ state' = [state EXCEPT ![c] = "authenticated"]
        /\ registered' = registered \cup {c}
    BY <1>2 DEF Connect, Goes
  <2>2. state[c] = "connecting"
    BY <2>1 DEF IInv, OpenedFirst
  <2> QED
    BY <2>1, <2>2, <1>1 DEF Follows, Valid, TrackTypes
<1>3. CASE Activate(c)
  <2>1. state' = [state EXCEPT ![c] = To(state[c], "active")] /\ registered' = registered
    BY <1>3 DEF Activate
  <2>2. To(state[c], "active") # state[c] => <<state[c], To(state[c], "active")>> \in Valid
    BY DEF To
  <2> QED
    BY <2>1, <2>2, <1>1 DEF Follows, TrackTypes
<1>4. CASE \/ Initialize(c) \/ ReadMessage(c) \/ ReceiveEnds(c)
           \/ ReceiveBreaks(c) \/ ReadPong(c)
  <2>1. UNCHANGED <<state, registered>>
    BY <1>4 DEF Initialize, ReadMessage, ReceiveEnds, ReceiveBreaks, ReadPong
  <2> QED
    BY <2>1 DEF Follows
<1>5. CASE InitializeFails(c) \/ Greet(c) \/ StartFlow(c) \/ Handle(c)
  <2>1. Idle(c) /\ Sends(c, c)
    BY <1>5 DEF InitializeFails, Greet, StartFlow, Handle, Goes
  <2> QED
    BY <2>1, <1>1, SendValid DEF Follows
<1>6. ASSUME NEW d \in Conns, Broadcast(c, d)
      PROVE  Follows
  BY <1>1, <1>6, DisconnectValid DEF Broadcast, Follows
<1>7. CASE Exit(c)
  BY <1>1, <1>7, DisconnectValid DEF Exit, Goes, Follows
<1> QED
  BY <1>2, <1>3, <1>4, <1>5, <1>6, <1>7 DEF Endpoint

LEMMA StepFollows ==
  ASSUME IInv, [Next]_vars
  PROVE  Follows
<1>1. Heartbeat \in Tasks /\ Cleanup \in Tasks /\ TrackTypes /\ TrackedIffOpen
  BY TypesOfTracking DEF IInv, Tasks
<1>2. ASSUME NEW c \in Conns, Visit(c)
      PROVE  Follows
  <2>1. Idle(Heartbeat)
    BY <1>2 DEF Visit
  <2>2. CASE Skip(c)
    BY <2>2 DEF Skip, Follows
  <2>3. CASE Ping(c)
    BY <1>1, <2>1, <2>3, SendValid DEF Ping, Follows
  <2>4. CASE GiveUp(c)
    BY <1>1, <2>1, <2>4, DisconnectValid DEF GiveUp, Follows
  <2> QED
    BY <1>2, <2>2, <2>3, <2>4 DEF Visit
<1>3. ASSUME NEW c \in Conns, CleanUp(c)
      PROVE  Follows
  BY <1>1, <1>3, DisconnectValid DEF CleanUp, Follows
<1>4. ASSUME NEW t \in Tasks, DisconnectEnds(t)
      PROVE  Follows
  <2> DEFINE c == closes[t]
  <2>1. /\ c \in Conns /\ state' = [state EXCEPT ![c] = "closed"]
        /\ registered' = registered \ {c}
    BY <1>4 DEF DisconnectEnds, Forgets
  <2>2. state[c] # "connecting"
    BY <1>4, <2>1 DEF IInv, OpenedFirst
  <2> HIDE DEF c
  <2>3. state[c] \in {"authenticated", "active", "closing", "closed"}
    BY <1>1, <2>1, <2>2 DEF TrackTypes, States
  <2> QED
    BY <1>1, <2>1, <2>3 DEF Follows, Valid, TrackTypes
<1>5. ASSUME NEW c \in Conns, Client(c)
      PROVE  Follows
  BY <1>5 DEF Client, Answer, Freeze, Leave, Follows
<1>6. CASE Sweep \/ UNCHANGED vars
  BY <1>6 DEF Sweep, vars, Follows
<1> QED
  BY EndpointFollows, <1>2, <1>3, <1>4, <1>5, <1>6 DEF Next

(* The state of a connection goes through _VALID_TRANSITIONS only, although*)
(* disconnect and connect overlap and every task may close it, and nothing *)
(* is tracked a second time.                                               *)
THEOREM LifecycleRespected == Spec => LifecycleFollowed
<1>1. ASSUME IInv, [Next]_vars
      PROVE  [\A c \in Conns :
                /\ state'[c] # state[c] => <<state[c], state'[c]>> \in Valid
                /\ at[c] # "new" /\ c \notin registered => c \notin registered']_vars
  BY <1>1, StepFollows DEF Follows
<1> QED
  BY ConnectionsConsistent, <1>1, PTL DEF Spec, LifecycleFollowed

-----------------------------------------------------------------------------
(* What is left to a client that has gone. *)

\* A client goes only after the connection was accepted.
GoneAccepted == \A c \in Conns : client[c] = "gone" => at[c] # "new"

\* Who else moves the endpoint, the client and what it has sent.
Leaves(c) ==
  /\ client'[c] = "gone"
  /\ at'[c] # at[c] => PlacesLeft(c)' < PlacesLeft(c)
  /\ c \in unread' => c \in unread

LEMMA EndpointLeaves ==
  ASSUME IInv, NEW d \in Conns, Endpoint(d), NEW c \in Conns, client[c] = "gone"
  PROVE  Leaves(c)
<1>1. at \in [Conns -> Places]
  BY DEF IInv, TypeOK
<1>2. ASSUME NEW from, NEW to, Goes(d, from, to), UNCHANGED <<client, unread>>,
             \/ from = "new" /\ to = "init"
             \/ from = "init" /\ to = "greet"
             \/ from = "greet" /\ to = "activate"
             \/ from = "activate" /\ to = "flow"
             \/ from = "flow" /\ to = "receive"
             \/ from = "handle" /\ to = "receive"
             \/ from = "receive" /\ to = "exit"
             \/ from = "exit" /\ to = "done"
      PROVE  Leaves(c)
  <2>1. CASE d = c
    <3>1. at[c] = from /\ at'[c] = to
      BY <1>1, <1>2, <2>1 DEF Goes
    <3>2. PlacesLeft(c)' < PlacesLeft(c)
      BY <1>2, <3>1 DEF PlacesLeft
    <3> QED
      BY <1>2, <3>2 DEF Leaves
  <2>2. CASE d # c
    BY <1>1, <1>2, <2>2 DEF Goes, Leaves
  <2> QED
    BY <2>1, <2>2
<1>3. CASE Connect(d) \/ Initialize(d) \/ Activate(d)
  BY <1>2, <1>3 DEF Connect, Initialize, Activate, wire
<1>4. CASE InitializeFails(d) \/ Greet(d) \/ StartFlow(d) \/ Handle(d) \/ Exit(d)
  BY <1>2, <1>4 DEF InitializeFails, Greet, StartFlow, Handle, Exit
<1>5. CASE ReceiveEnds(d) \/ ReceiveBreaks(d)
  BY <1>2, <1>5 DEF ReceiveEnds, ReceiveBreaks, wire
<1>6. CASE ReadMessage(d)
  <2>1. d # c
    BY <1>6 DEF ReadMessage
  <2>2. UNCHANGED <<client, unread>> /\ at'[c] = at[c]
    BY <1>1, <1>6, <2>1 DEF ReadMessage, Goes, wire
  <2> QED
    BY <2>2 DEF Leaves
<1>7. CASE ReadPong(d)
  BY <1>7 DEF ReadPong, Leaves
<1>8. ASSUME NEW e \in Conns, Broadcast(d, e)
      PROVE  Leaves(c)
  BY <1>8 DEF Broadcast, Leaves
<1> QED
  BY <1>3, <1>4, <1>5, <1>6, <1>7, <1>8 DEF Endpoint

LEMMA StepLeaves ==
  ASSUME IInv, [Next]_vars, NEW c \in Conns, client[c] = "gone"
  PROVE  Leaves(c)
<1>1. ASSUME NEW d \in Conns, Visit(d)
      PROVE  UNCHANGED <<at, client, unread>>
  BY <1>1 DEF Visit, Skip, Ping, GiveUp, wire
<1>2. ASSUME NEW d \in Conns, CleanUp(d)
      PROVE  UNCHANGED <<at, client, unread>>
  BY <1>2 DEF CleanUp
<1>3. ASSUME NEW d \in Conns, Client(d)
      PROVE  Leaves(c)
  <2>1. d # c /\ at' = at
    BY <1>3 DEF Client, Answer, Freeze, Leave
  <2>2. client'[c] = client[c] /\ (c \in unread' => c \in unread)
    BY <1>3, <2>1 DEF Client, Answer, Freeze, Leave, IInv, TypeOK
  <2> QED
    BY <2>1, <2>2 DEF Leaves
<1>4. ASSUME NEW t \in Tasks, DisconnectEnds(t)
      PROVE  UNCHANGED <<at, client, unread>>
  BY <1>4 DEF DisconnectEnds
<1>5. Sweep \/ UNCHANGED vars => UNCHANGED <<at, client, unread>>
  BY DEF Sweep, vars, wire
<1>6. UNCHANGED <<at, client, unread>> => Leaves(c)
  BY DEF Leaves
<1> QED
  BY EndpointLeaves, <1>1, <1>2, <1>3, <1>4, <1>5, <1>6 DEF Next

(* Only clients change their end. *)
LEMMA MoveOfClient ==
  ASSUME [Next]_vars, client' # client
  PROVE  \E d \in Conns : Client(d)
<1>1. ASSUME NEW d \in Conns, Endpoint(d)
      PROVE  FALSE
  BY <1>1 DEF Endpoint, Connect, Initialize, InitializeFails, Greet, Activate, StartFlow,
              ReadPong, ReadMessage, Handle, Broadcast, ReceiveEnds, ReceiveBreaks, Exit,
              wire
<1>2. ASSUME NEW d \in Conns, Visit(d) \/ CleanUp(d)
      PROVE  FALSE
  BY <1>2 DEF Visit, Skip, Ping, GiveUp, CleanUp, wire
<1>3. ASSUME NEW t \in Tasks, DisconnectEnds(t)
      PROVE  FALSE
  BY <1>3 DEF DisconnectEnds
<1>4. ~Sweep /\ ~UNCHANGED vars
  BY DEF Sweep, vars, wire
<1> QED
  BY <1>1, <1>2, <1>3, <1>4 DEF Next

(* Wherever the endpoint was when its client went, every move of it brings *)
(* it nearer to its finally clause; it has no new messages to read, and    *)
(* nobody tracks the connection again.                                     *)
THEOREM GoneOnlyLeaves == Spec => GoneLeaves
<1>1. ASSUME IInv, GoneAccepted, [Next]_vars
      PROVE  [\A c \in Conns : client[c] = "gone" =>
                /\ client'[c] = "gone"
                /\ at'[c] # at[c] => PlacesLeft(c)' < PlacesLeft(c)
                /\ c \in unread' => c \in unread
                /\ c \in registered' => c \in registered]_vars
  BY <1>1, StepFollows, StepLeaves DEF Follows, Leaves, GoneAccepted
<1>2. Init => GoneAccepted
  BY DEF Init, GoneAccepted
<1>3. ASSUME IInv, GoneAccepted, [Next]_vars
      PROVE  GoneAccepted'
  <2> SUFFICES ASSUME NEW c \in Conns, client'[c] = "gone", at'[c] = "new"
               PROVE  FALSE
    BY DEF GoneAccepted
  <2>1. CASE client[c] = "gone"
    <3>1. at[c] # "new" /\ Leaves(c)
      BY <1>3, <2>1, StepLeaves DEF GoneAccepted
    <3>2. at[c] \in Places /\ PlacesLeft(c)' = 8
      BY <1>3 DEF IInv, TypeOK, PlacesLeft
    <3> QED
      BY <3>1, <3>2 DEF Leaves, PlacesLeft, Places
  <2>2. CASE client[c] # "gone"
    <3>1. PICK d \in Conns : Client(d)
      BY <1>3, <2>2, MoveOfClient
    <3> QED
      BY <1>3, <2>2, <3>1 DEF Client, Answer, Freeze, Leave, IInv, TypeOK
  <2> QED
    BY <2>1, <2>2
<1> QED
  BY ConnectionsConsistent, <1>1, <1>2, <1>3, PTL DEF Spec, GoneLeaves

-----------------------------------------------------------------------------
(* What is left to a client that answers no more. *)

\* Nothing is given back to a client that has no pong to be read.
Counts(c) ==
  /\ client'[c] # "up" /\ c \in ponged' /\ c \notin unread'
  /\ missed'[c] \in Nat /\ missed'[c] >= missed[c]
  /\ c \in overdue => c \in overdue'

LEMMA EndpointCounts ==
  ASSUME IInv, NEW d \in Conns, Endpoint(d), NEW c \in Conns,
         client[c] = "frozen", c \in ponged, c \notin unread
  PROVE  Counts(c)
<1>1. missed \in [Conns -> 0 .. MaxMissed]
  BY DEF IInv, TypeOK
<1>2. UNCHANGED <<client, heart, unread>> => Counts(c)
  BY <1>1 DEF Counts, heart
<1>3. CASE Connect(d) \/ Initialize(d) \/ Activate(d) \/ ReadMessage(d)
  BY <1>2, <1>3 DEF Connect, Initialize, Activate, ReadMessage, wire
<1>4. CASE \/ InitializeFails(d) \/ Greet(d) \/ StartFlow(d) \/ Handle(d)
           \/ Exit(d) \/ ReceiveEnds(d) \/ ReceiveBreaks(d)
  BY <1>2, <1>4 DEF InitializeFails, Greet, StartFlow, Handle, Exit, ReceiveEnds,
                    ReceiveBreaks, wire
<1>5. ASSUME NEW e \in Conns, Broadcast(d, e)
      PROVE  Counts(c)
  BY <1>2, <1>5 DEF Broadcast
<1>6. CASE ReadPong(d)
  <2>1. d # c
    BY <1>6 DEF ReadPong
  <2>2. /\ UNCHANGED client /\ c \notin unread' /\ c \in ponged'
        /\ missed'[c] = missed[c]
        /\ c \in overdue => c \in overdue'
    BY <1>1, <1>6, <2>1 DEF ReadPong, heart
  <2> QED
    BY <1>1, <2>2 DEF Counts
<1> QED
  BY <1>3, <1>4, <1>5, <1>6 DEF Endpoint

LEMMA VisitCounts ==
  ASSUME IInv, NEW d \in Conns, Visit(d), NEW c \in Conns,
         client[c] = "frozen", c \in ponged, c \notin unread
  PROVE  Counts(c)
<1>1. missed \in [Conns -> 0 .. MaxMissed]
  BY DEF IInv, TypeOK
<1>2. Counted(d) \in Nat /\ Counted(d) >= missed[d]
  BY <1>1 DEF Counted
<1>3. CASE Skip(d)
  BY <1>1, <1>3 DEF Skip, Counts, heart, wire
<1>4. CASE Ping(d) \/ GiveUp(d)
  <2>1. /\ UNCHANGED <<client, unread, ponged>>
        /\ missed' = [missed EXCEPT ![d] = Counted(d)]
        /\ overdue \subseteq overdue'
    BY <1>4 DEF Ping, GiveUp
  <2>2. missed'[c] \in Nat /\ missed'[c] >= missed[c]
    BY <1>1, <1>2, <2>1
  <2> QED
    BY <2>1, <2>2 DEF Counts
<1> QED
  BY <1>3, <1>4 DEF Visit

LEMMA StepCounts ==
  ASSUME IInv, [Next]_vars, NEW c \in Conns,
         client[c] = "frozen", c \in ponged, c \notin unread
  PROVE  Counts(c)
<1>1. missed \in [Conns -> 0 .. MaxMissed]
  BY DEF IInv, TypeOK
<1>2. UNCHANGED <<client, heart, unread>> => Counts(c)
  BY <1>1 DEF Counts, heart
<1>3. ASSUME NEW d \in Conns, CleanUp(d)
      PROVE  Counts(c)
  BY <1>2, <1>3 DEF CleanUp
<1>4. ASSUME NEW d \in Conns, Client(d)
      PROVE  Counts(c)
  <2>1. UNCHANGED heart
    BY <1>4 DEF Client, Answer, Freeze, Leave
  <2>2. client'[c] # "up" /\ c \notin unread'
    BY <1>4 DEF Client, Answer, Freeze, Leave, IInv, TypeOK
  <2> QED
    BY <1>1, <2>1, <2>2 DEF Counts, heart
<1>5. ASSUME NEW t \in Tasks, DisconnectEnds(t)
      PROVE  Counts(c)
  BY <1>2, <1>5 DEF DisconnectEnds
<1>6. CASE Sweep \/ UNCHANGED vars
  BY <1>2, <1>6 DEF Sweep, vars, wire
<1> QED
  BY EndpointCounts, VisitCounts, <1>3, <1>4, <1>5, <1>6 DEF Next

(* A visit to an active client with no answer takes one off: it counts the *)
(* ping that was not answered, or sends the first.  That an active client  *)
(* has some of its allowance left is what makes the first ping go out.     *)
LEMMA VisitTakes ==
  ASSUME IInv, NEW c \in Conns, c \in ponged, Visit(c), state[c] = "active"
  PROVE  VisitsLeft(c)' < VisitsLeft(c)
<1>1. missed[c] \in Nat /\ missed[c] < MaxMissed /\ missed \in [Conns -> 0 .. MaxMissed]
  BY DEF IInv, TypeOK, Allowance
<1>2. /\ missed'[c] = Counted(c)
      /\ overdue' = overdue \cup {c} \/ (overdue' = overdue /\ Exhausted(Counted(c)))
  BY <1>1 DEF Visit, Skip, Ping, GiveUp
<1>3. CASE c \in overdue
  <2>1. Counted(c) = missed[c] + 1 /\ c \in overdue'
    BY <1>2, <1>3 DEF Counted
  <2> QED
    BY <1>1, <1>2, <1>3, <2>1 DEF VisitsLeft
<1>4. CASE c \notin overdue
  <2>1. Counted(c) = missed[c] /\ ~Exhausted(Counted(c))
    BY <1>1, <1>4 DEF Counted, Exhausted
  <2>2. c \in overdue'
    BY <1>2, <2>1
  <2> QED
    BY <1>1, <1>2, <1>4, <2>1, <2>2 DEF VisitsLeft
<1> QED
  BY <1>3, <1>4

(* A client that stops answering is given up after as many visits as its   *)
(* allowance has left: neither the messages it sent before, nor other      *)
(* connections, nor overlapping disconnects give it a visit more.          *)
THEOREM FrozenUsesAllowance == Spec => FrozenCounted
<1>1. ASSUME IInv, [Next]_vars, NEW c \in Conns,
             client[c] = "frozen", c \in ponged, c \notin unread
      PROVE  /\ client'[c] # "up" /\ c \in ponged' /\ c \notin unread'
             /\ VisitsLeft(c)' <= VisitsLeft(c)
             /\ Visit(c) /\ state[c] = "active" => VisitsLeft(c)' < VisitsLeft(c)
  <2>1. Counts(c)
    BY <1>1, StepCounts
  <2>2. missed[c] \in Nat /\ MaxMissed \in Nat
    BY <1>1 DEF IInv, TypeOK
  <2>3. VisitsLeft(c)' <= VisitsLeft(c)
    BY <2>1, <2>2 DEF Counts, VisitsLeft
  <2> QED
    BY <1>1, <2>1, <2>3, VisitTakes DEF Counts
<1>2. ASSUME IInv, [Next]_vars
      PROVE  [\A c \in Conns :
                client[c] = "frozen" /\ c \in ponged /\ c \notin unread =>
                  /\ client'[c] # "up" /\ c \in ponged' /\ c \notin unread'
                  /\ VisitsLeft(c)' <= VisitsLeft(c)
                  /\ Visit(c) /\ state[c] = "active" => VisitsLeft(c)' < VisitsLeft(c)]_vars
  BY <1>1, <1>2
<1> QED
  BY ConnectionsConsistent, <1>2, PTL DEF Spec, FrozenCounted
=============================================================================
