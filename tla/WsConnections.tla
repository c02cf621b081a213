---------------------------- MODULE WsConnections ----------------------------
(***************************************************************************)
(* The connection manager of agent-host: the WebSocket endpoint of each    *)
(* connection, the heartbeat and cleanup tasks, and the tracking           *)
(* structures and orchestrator contexts they share.                        *)
(*                                                                         *)
(* All connections belong to one conversation.  A task gives up control    *)
(* only where the code awaits, so one action is the code between two       *)
(* awaits.  A send to a client that has gone may go unnoticed or raise; it *)
(* then disconnects the connection (send_to_connection), whoever was       *)
(* sending.                                                                *)
(***************************************************************************)
EXTENDS Naturals, FiniteSets

CONSTANTS
  Conns, Heartbeat, Cleanup, NoConn,
  Slow,      \* connections whose connect may outlast idle_timeout_seconds
  Fragile,   \* connections whose client may freeze, go or send garbage
  MaxMissed  \* max_missed_pongs

ASSUME TasksDiffer == /\ Heartbeat \notin Conns /\ Cleanup \notin Conns
                      /\ NoConn \notin Conns /\ Heartbeat # Cleanup
ASSUME MaxMissedPositive == MaxMissed \in Nat \ {0}

VARIABLES
  state,       \* ConnectionStateMachine._state of each connection
  registered,  \* the keys of _connections and of the indexes
  contexts,    \* the keys of Orchestrator._contexts
  at,          \* where the endpoint of each connection waits
  closes,      \* the connection whose close message a task is awaiting
  client,      \* the client's end of each connection
  seen,        \* connections whose end the endpoint has received
  shut,        \* connections closed by the server
  owed,        \* connections whose client has a ping to answer
  unread,      \* connections with a pong the endpoint has not read
  ponged,      \* last_pong_received is set
  overdue,     \* a ping was sent and no pong read since
  missed,      \* missed_pongs
  sweep        \* the connections _send_pings has still to visit

heart == <<ponged, overdue, missed>>
wire  == <<client, seen, shut, owed, unread>>
vars  == <<state, registered, contexts, at, closes, wire, heart, sweep>>

Tasks == Conns \cup {Heartbeat, Cleanup}

(* CONNECTED and AUTHENTICATED follow each other without an await; nothing *)
(* enters PAUSED or RECONNECTING.                                          *)
States == {"connecting", "authenticated", "active", "closing", "closed"}

Places == {"new", "init", "greet", "activate", "flow", "receive", "handle",
           "exit", "done"}

(* _VALID_TRANSITIONS, between these states. *)
Valid == {<<"connecting", "authenticated">>, <<"connecting", "closed">>,
          <<"authenticated", "active">>, <<"authenticated", "closing">>,
          <<"authenticated", "closed">>, <<"active", "closing">>,
          <<"active", "closed">>, <<"closing", "closed">>}

(* Variant of To: the transition table is not consulted. *)
ToUnchecked(s, new) == new

(* transition_to leaves the state alone when the transition is invalid. *)
To(s, new) == IF <<s, new>> \in Valid THEN new ELSE s

Idle(t) == closes[t] = NoConn

Init ==
  /\ state = [c \in Conns |-> "connecting"]
  /\ registered = {} /\ contexts = {}
  /\ at = [c \in Conns |-> "new"]
  /\ closes = [t \in Tasks |-> NoConn]
  /\ client = [c \in Conns |-> "up"]
  /\ seen = {} /\ shut = {} /\ owed = {} /\ unread = {}
  /\ ponged = {} /\ overdue = {}
  /\ missed = [c \in Conns |-> 0]
  /\ sweep = {}

(***************************************************************************)
(* disconnect, in the two parts its awaits leave: the context goes and the *)
(* state becomes CLOSING; then, after the close message and the close of   *)
(* the socket, the connection is closed and untracked.  Without an open    *)
(* client there is nothing to await.                                       *)
(***************************************************************************)
Forgets(c) ==
  /\ state' = [state EXCEPT ![c] = "closed"]
  /\ registered' = registered \ {c}
  /\ shut' = shut \cup {c}

(* Variant of Disconnect: a connection already CLOSING is left to whoever is *)
(* closing it.                                                             *)
DisconnectOnce(t, c) ==
  IF c \notin registered \/ state[c] = "closing"
  THEN UNCHANGED <<state, registered, contexts, closes, shut>>
  ELSE /\ contexts' = contexts \ {c}
       /\ state' = [state EXCEPT ![c] = "closing"]
       /\ closes' = [closes EXCEPT ![t] = c]
       /\ UNCHANGED <<registered, shut>>

Disconnect(t, c) ==
  IF c \notin registered
  THEN UNCHANGED <<state, registered, contexts, closes, shut>>
  ELSE /\ contexts' = contexts \ {c}
       /\ IF c \in seen
          THEN Forgets(c) /\ UNCHANGED closes
          ELSE /\ state' = [state EXCEPT ![c] = To(@, "closing")]
               /\ closes' = [closes EXCEPT ![t] = c]
               /\ UNCHANGED <<registered, shut>>

DisconnectEnds(t) ==
  /\ closes[t] \in Conns
  /\ Forgets(closes[t])
  /\ closes' = [closes EXCEPT ![t] = NoConn]
  /\ UNCHANGED <<contexts, at, client, seen, owed, unread, heart, sweep>>

(* send_to_connection by task t: done, skipped, or failed and disconnecting. *)
Sends(t, c) ==
  \/ UNCHANGED <<state, registered, contexts, closes, shut>>
  \/ /\ client[c] = "gone" /\ c \in registered
     /\ Disconnect(t, c)

(***************************************************************************)
(* The endpoint of connection c: connect, the receive loop, and the finally *)
(* clause.                                                                 *)
(***************************************************************************)
Goes(c, from, to) ==
  /\ at[c] = from /\ Idle(c)
  /\ at' = [at EXCEPT ![c] = to]

Connect(c) ==
  /\ Goes(c, "new", "init")
  /\ state' = [state EXCEPT ![c] = "authenticated"]
  /\ registered' = registered \cup {c}
  /\ UNCHANGED <<contexts, closes, wire, heart, sweep>>

(* The context is stored at the end of initialize, whatever happened to the *)
(* connection meanwhile.                                                   *)
Initialize(c) ==
  /\ Goes(c, "init", "greet")
  /\ contexts' = contexts \cup {c}
  /\ UNCHANGED <<state, registered, closes, wire, heart, sweep>>

InitializeFails(c) ==
  /\ Goes(c, "init", "greet")
  /\ Sends(c, c)
  /\ UNCHANGED <<client, seen, owed, unread, heart, sweep>>

Greet(c) ==
  /\ Goes(c, "greet", "activate")
  /\ Sends(c, c)
  /\ UNCHANGED <<client, seen, owed, unread, heart, sweep>>

Activate(c) ==
  /\ Goes(c, "activate", "flow")
  /\ state' = [state EXCEPT ![c] = To(@, "active")]
  /\ UNCHANGED <<registered, contexts, closes, wire, heart, sweep>>

StartFlow(c) ==
  /\ Goes(c, "flow", "receive")
  /\ Sends(c, c)
  /\ UNCHANGED <<client, seen, owed, unread, heart, sweep>>

(* handle_pong.  A client's messages are read in order, between handlers. *)
ReadPong(c) ==
  /\ at[c] = "receive" /\ Idle(c) /\ c \notin shut /\ c \in unread
  /\ unread' = unread \ {c}
  /\ IF c \in registered
     THEN /\ ponged' = ponged \cup {c}
          /\ overdue' = overdue \ {c}
          /\ missed' = [missed EXCEPT ![c] = 0]
     ELSE UNCHANGED heart
  /\ UNCHANGED <<state, registered, contexts, at, closes, client, seen, shut,
                 owed, sweep>>

ReadMessage(c) ==
  /\ Goes(c, "receive", "handle")
  /\ client[c] = "up" /\ c \notin shut
  /\ UNCHANGED <<state, registered, contexts, closes, wire, heart, sweep>>

(* A handler answers its own client; the commands that it and the flow run *)
(* broadcast their events to every connection of the conversation.         *)
Handle(c) ==
  /\ Goes(c, "handle", "receive")
  /\ Sends(c, c)
  /\ UNCHANGED <<client, seen, owed, unread, heart, sweep>>

Broadcast(c, d) ==
  /\ at[c] \in {"flow", "handle"} /\ Idle(c) /\ c # d
  /\ client[d] = "gone" /\ d \in registered
  /\ Disconnect(c, d)
  /\ UNCHANGED <<at, client, seen, owed, unread, heart, sweep>>

ReceiveEnds(c) ==
  /\ Goes(c, "receive", "exit")
  /\ c \in shut \/ (client[c] = "gone" /\ c \notin unread)
  /\ seen' = seen \cup {c}
  /\ UNCHANGED <<state, registered, contexts, closes, client, shut, owed,
                 unread, heart, sweep>>

(* A frame that cannot be read, malformed or binary, ends the loop though  *)
(* the client's end may still be open: only disconnect will close it.      *)
ReceiveBreaks(c) ==
  /\ Goes(c, "receive", "exit")
  /\ c \in Fragile /\ c \notin shut
  /\ UNCHANGED <<state, registered, contexts, closes, wire, heart, sweep>>

(* Variant of Exit: the endpoint leaves the connection to the heartbeat. *)
ExitQuietly(c) ==
  /\ Goes(c, "exit", "done")
  /\ UNCHANGED <<state, registered, contexts, closes, wire, heart, sweep>>

Exit(c) ==
  /\ Goes(c, "exit", "done")
  /\ Disconnect(c, c)
  /\ UNCHANGED <<client, seen, owed, unread, heart, sweep>>

Endpoint(c) ==
  \/ Connect(c) \/ Initialize(c) \/ InitializeFails(c) \/ Greet(c)
  \/ Activate(c) \/ StartFlow(c) \/ ReadPong(c) \/ ReadMessage(c)
  \/ Handle(c) \/ (\E d \in Conns : Broadcast(c, d))
  \/ ReceiveEnds(c) \/ ReceiveBreaks(c) \/ Exit(c)

(***************************************************************************)
(* The heartbeat task: _send_pings over a snapshot of the connections.     *)
(***************************************************************************)
Sweep ==
  /\ Idle(Heartbeat) /\ sweep = {} /\ registered # {}
  /\ sweep' = registered
  /\ UNCHANGED <<state, registered, contexts, at, closes, wire, heart>>

(* Variant of Counted: a ping starts the count afresh. *)
CountedAfresh(c) == IF c \in ponged /\ c \in overdue THEN 1 ELSE 0

Counted(c) == IF c \in ponged /\ c \in overdue THEN missed[c] + 1 ELSE missed[c]

(* Variant of Exhausted: one pong more may be missed. *)
ExhaustedLate(n) == n > MaxMissed

Exhausted(n) == n >= MaxMissed

Skip(c) ==
  /\ state[c] # "active"
  /\ UNCHANGED <<state, registered, contexts, closes, wire, heart>>

Ping(c) ==
  /\ state[c] = "active" /\ ~Exhausted(Counted(c))
  /\ missed' = [missed EXCEPT ![c] = Counted(c)]
  /\ overdue' = overdue \cup {c}
  /\ owed' = IF client[c] = "gone" THEN owed ELSE owed \cup {c}
  /\ Sends(Heartbeat, c)
  /\ UNCHANGED <<client, seen, unread, ponged>>

GiveUp(c) ==
  /\ state[c] = "active" /\ Exhausted(Counted(c))
  /\ missed' = [missed EXCEPT ![c] = Counted(c)]
  /\ Disconnect(Heartbeat, c)
  /\ UNCHANGED <<client, seen, owed, unread, ponged, overdue>>

Visit(c) ==
  /\ Idle(Heartbeat) /\ c \in sweep
  /\ sweep' = sweep \ {c}
  /\ Skip(c) \/ Ping(c) \/ GiveUp(c)
  /\ UNCHANGED at

(* _cleanup_stale_connections.  Pings keep an ACTIVE connection from idling. *)
CleanUp(c) ==
  /\ c \in Slow /\ Idle(Cleanup) /\ c \in registered /\ state[c] # "active"
  /\ Disconnect(Cleanup, c)
  /\ UNCHANGED <<at, client, seen, owed, unread, heart, sweep>>

(***************************************************************************)
(* The client's end: it answers pings, may stop doing so with the socket   *)
(* open, and may go.                                                       *)
(***************************************************************************)
Answer(c) ==
  /\ client[c] = "up" /\ c \in owed /\ c \notin shut
  /\ owed' = owed \ {c} /\ unread' = unread \cup {c}
  /\ UNCHANGED <<state, registered, contexts, at, closes, client, seen, shut,
                 heart, sweep>>

Freeze(c) ==
  /\ c \in Fragile /\ client[c] = "up" /\ at[c] # "new"
  /\ client' = [client EXCEPT ![c] = "frozen"]
  /\ UNCHANGED <<state, registered, contexts, at, closes, seen, shut, owed,
                 unread, heart, sweep>>

Leave(c) ==
  /\ c \in Fragile /\ client[c] \in {"up", "frozen"} /\ at[c] # "new"
  /\ client' = [client EXCEPT ![c] = "gone"]
  /\ owed' = owed \ {c}
  /\ UNCHANGED <<state, registered, contexts, at, closes, seen, shut, unread,
                 heart, sweep>>

Client(c) == Answer(c) \/ Freeze(c) \/ Leave(c)

Next ==
  \/ \E c \in Conns : Endpoint(c) \/ Visit(c) \/ CleanUp(c) \/ Client(c)
  \/ \E t \in Tasks : DisconnectEnds(t)
  \/ Sweep

Spec == Init /\ [][Next]_vars

(* The event loop runs every task that can run, and timers go off. *)
Progress(c) ==
  \/ Initialize(c) \/ InitializeFails(c) \/ Greet(c) \/ Activate(c)
  \/ StartFlow(c) \/ ReadPong(c) \/ Handle(c) \/ ReceiveEnds(c) \/ Exit(c)

RunningSpec ==
  /\ Spec
  /\ \A c \in Conns : WF_vars(Progress(c)) /\ WF_vars(Visit(c))
  /\ \A t \in Tasks : WF_vars(DisconnectEnds(t))
  /\ WF_vars(Sweep)

-----------------------------------------------------------------------------
(* The connection manager's state has its types, and a connection is given *)
(* up before it misses more than max_missed_pongs pongs.                   *)
TypeOK ==
  /\ state \in [Conns -> States]
  /\ registered \subseteq Conns /\ contexts \subseteq Conns
  /\ at \in [Conns -> Places]
  /\ closes \in [Tasks -> Conns \cup {NoConn}]
  /\ client \in [Conns -> {"up", "frozen", "gone"}]
  /\ seen \subseteq Conns /\ shut \subseteq Conns
  /\ owed \subseteq Conns /\ unread \subseteq Conns
  /\ ponged \subseteq Conns /\ overdue \subseteq Conns
  /\ missed \in [Conns -> 0 .. MaxMissed]
  /\ sweep \subseteq Conns

(* A connection is tracked exactly from its acceptance until it is closed, *)
(* although connect goes on after another task has disconnected it.        *)
TrackedIffOpen ==
  \A c \in Conns : c \in registered <=> state[c] \notin {"connecting", "closed"}

(* When the endpoint of a connection has returned, nothing can be sent to  *)
(* the connection any more, though its client's end may have been open:    *)
(* the finally clause waits for the disconnect it started, and finds       *)
(* nothing only when another task has finished one.                        *)
ReturnedUntracked ==
  \A c \in Conns : at[c] = "done" /\ Idle(c) => c \notin registered

(* A connection whose client has gone is eventually forgotten, wherever    *)
(* its endpoint was.                                                       *)
GoneForgotten ==
  \A c \in Conns : client[c] = "gone" ~> c \notin registered

(* A client that answered pings and then stops is disconnected, whatever   *)
(* else the heartbeat task has to do.                                      *)
FrozenForgotten ==
  \A c \in Conns : client[c] = "frozen" /\ c \in ponged
                      ~> c \notin registered \/ client[c] = "gone"

(* However many tasks disconnect a connection, at whichever await of its   *)
(* connect, its state only takes transitions of _VALID_TRANSITIONS, and    *)
(* what is no longer tracked is never tracked again.                       *)
LifecycleFollowed ==
  [][\A c \in Conns :
       /\ state'[c] # state[c] => <<state[c], state'[c]>> \in Valid
       /\ at[c] # "new" /\ c \notin registered => c \notin registered']_vars

\* how many more times the endpoint of a client that has gone changes its place
PlacesLeft(c) ==
  CASE at[c] = "new"      -> 8
    [] at[c] = "init"     -> 7
    [] at[c] = "greet"    -> 6
    [] at[c] = "activate" -> 5
    [] at[c] = "flow"     -> 4
    [] at[c] = "handle"   -> 3
    [] at[c] = "receive"  -> 2
    [] at[c] = "exit"     -> 1
    [] at[c] = "done"     -> 0

(* Once its client has gone, the endpoint of a connection only goes on to  *)
(* its finally clause, with no more to read than there was, and nothing    *)
(* tracks the connection anew (what GoneForgotten rests on).               *)
GoneLeaves ==
  [][\A c \in Conns : client[c] = "gone" =>
       /\ client'[c] = "gone"
       /\ at'[c] # at[c] => PlacesLeft(c)' < PlacesLeft(c)
       /\ c \in unread' => c \in unread
       /\ c \in registered' => c \in registered]_vars

\* how many more sweeps a client without pongs to be read is given
VisitsLeft(c) == MaxMissed - missed[c] + IF c \in overdue THEN 0 ELSE 1

(* A client that has answered pings and answers no more, all its pongs     *)
(* being read, has its allowance used up by the visits of the heartbeat    *)
(* and by nothing else: each takes one off, whichever messages arrive and  *)
(* whoever closes what meanwhile, and no step gives one back (what         *)
(* FrozenForgotten rests on).                                              *)
FrozenCounted ==
  [][\A c \in Conns :
       client[c] = "frozen" /\ c \in ponged /\ c \notin unread =>
         /\ client'[c] # "up" /\ c \in ponged' /\ c \notin unread'
         /\ VisitsLeft(c)' <= VisitsLeft(c)
         /\ Visit(c) /\ state[c] = "active" => VisitsLeft(c)' < VisitsLeft(c)]_vars

(* The parts of the inductive invariant.  A connection starts to be closed *)
(* only once accepted, and a client is given up at the pong that exhausts  *)
(* its allowance.                                                          *)
OpenedFirst ==
  /\ \A c \in Conns : at[c] = "new" <=> state[c] = "connecting"
  /\ \A t \in Tasks : closes[t] \in Conns => at[closes[t]] # "new"

ClosesOwn ==
  \A c \in Conns : at[c] = "done" /\ c \in registered => closes[c] = c

Allowance ==
  \A c \in Conns : state[c] \in {"connecting", "authenticated", "active"}
                      => missed[c] < MaxMissed

IInv == TypeOK /\ TrackedIffOpen /\ OpenedFirst /\ ClosesOwn /\ Allowance
=============================================================================
