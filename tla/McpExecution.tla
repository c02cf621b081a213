------------------------------ MODULE McpExecution ------------------------------
(***************************************************************************)
(* Tool calls over the Model Context Protocol (tools-provider):            *)
(* McpToolExecutor.execute takes a transport from TransportFactory, which  *)
(* keeps one connected transport per singleton source, and sends one       *)
(* request over it; McpSourceAdapter.fetch_and_normalize lists the tools   *)
(* of a source over a transport of its own.  A local transport is a child  *)
(* process whose standard output is read line by line, whoever asks first; *)
(* a remote one posts each request over HTTP.                              *)
(*                                                                         *)
(* A call is a request of an agent or a refresh of an inventory.  It is    *)
(* numbered in the order of arrival and is a task of the event loop: a     *)
(* step runs from one await to the next.                                   *)
(***************************************************************************)
EXTENDS Integers, Sequences, FiniteSets, SequencesExt

CONSTANTS
    Sources,        \* the MCP sources
    Singletons,     \* those with lifecycle_mode = "singleton"
    Remotes,        \* those with transport_type = "streamable_http"
    MaxCalls,       \* how many calls arrive
    MaxNotes,       \* how many messages a server sends unasked
    Overlong        \* whether an answer may exceed the reader's 64 KiB limit

ASSUME McpAssumption ==
    /\ Sources # {}
    /\ Singletons \subseteq Sources
    /\ Remotes \subseteq Sources
    /\ MaxCalls \in Nat /\ MaxNotes \in Nat
    /\ Overlong \in BOOLEAN

Calls == 1 .. MaxCalls
Transports == Calls     \* a transport is named after the call that made it
Initialize == 0         \* stands for the handshake where a call is expected
None == 0               \* no transport

Jobs == {"tool", "list"}
Ended == {"answer", "note", "overlong", "garbled", "timeout", "clash", "failed"}
Result == [kind : Ended \cup {"none"}, of : 0 .. MaxCalls]
Because(kind) == [kind |-> kind, of |-> 0]

\* A line on standard output: the answer to a request, a message nobody asked
\* for, or what is left of an answer that was too long.
Line == [kind : {"answer", "note", "overlong", "rest"}, of : 0 .. MaxCalls]

VARIABLES
    pool,       \* _singleton_pool: the transport kept for each singleton source
    queue,      \* _pool_lock: its holder, then those that wait for it in turn
    call,       \* each call: where it is, for what, over which transport, its result
    transport,  \* each transport: its process, what is in the two pipes
    notes,      \* how many unasked messages were sent
    overlapped, \* history: the transports asked while a call awaited them
    misled      \* history: those connected on a message that was not the answer

history == <<overlapped, misled>>
vars == <<pool, queue, call, transport, notes, history>>

NewCall == [at |-> "new", source |-> CHOOSE s \in Sources : TRUE, job |-> "tool",
            on |-> None, result |-> Because("none")]
NewTransport == [process |-> "none", inbox |-> <<>>, out |-> <<>>]

Places == {"new", "lock", "spawn", "init", "call", "close", "ended"}

SourceOf(c) == call[c].source
Remote(c) == SourceOf(c) \in Remotes
Pooled(c) == call[c].job = "tool" /\ SourceOf(c) \in Singletons

\* StdioTransport.is_connected: the return code is known only once the child
\* was waited for.  Nothing ever resets the flag of a connected HttpTransport.
IsConnected(t) == transport[t].process \in {"running", "exited"}

HasConnected(s) == pool[s] # None /\ IsConnected(pool[s])

\* The calls that await a line, or a response, of a transport.
Readers(t) == {c \in Calls : call[c].on = t /\ call[c].at \in {"init", "call"}}

\* What the reader of a transport can take: the first line, whatever it answers;
\* over HTTP, the response to its own request.
Readable(c, t, asked) ==
    IF Remote(c) THEN {i \in DOMAIN transport[t].out : transport[t].out[i].of = asked}
                 ELSE {i \in DOMAIN transport[t].out : i = 1}

\* _send_request on the line it read: the id of the answer is not compared with
\* the id of the request.
ResultOf(line) ==
    CASE line.kind = "answer"   -> [kind |-> "answer", of |-> line.of]
      [] line.kind = "note"     -> Because("note")
      [] line.kind = "overlong" -> Because("overlong")
      [] line.kind = "rest"     -> Because("garbled")

\* What reading line i leaves: of a line over the limit, the part that had not
\* arrived when readline() gave up comes later as a line of its own.
OutAfter(out, i) ==
    {RemoveAt(out, i)} \cup
    (IF out[i].kind = "overlong"
     THEN {<<[kind |-> "rest", of |-> out[i].of]>> \o RemoveAt(out, i)} ELSE {})

-----------------------------------------------------------------------------
(* The steps of a call.                                                    *)

Holds(c) == queue # <<>> /\ Head(queue) = c
Released(c) == IF Holds(c) THEN Tail(queue) ELSE queue

\* (As if a listing ended like execute.)
FinishedConnected(c, result) == [call[c] EXCEPT !.result = result, !.at = "ended"]

\* The end of execute, which leaves a transient transport as it is, and of
\* fetch_and_normalize, whose finally clause disconnects.
Finished(c, result) ==
    [call[c] EXCEPT !.result = result,
                    !.at = IF call[c].job = "list" THEN "close" ELSE "ended"]

\* connect() failed: it disconnects, and so does _get_singleton_transport.
Aborted(c, kind) == [call[c] EXCEPT !.result = Because(kind), !.at = "close"]

\* call_tool / list_tools over transport t in state tr, up to the next await:
\* the request is written, then readline() returns a line that is already there,
\* waits, or raises when another call waits.
Request(c, t, tr) ==
    LET sent == [tr EXCEPT !.inbox = IF tr.process = "running" THEN Append(@, c) ELSE @]
        wait == [call[c] EXCEPT !.on = t, !.at = "call"]
        busy == \E d \in Readers(t) \ {c} : call[d].at = "call"
    IN /\ overlapped' = overlapped \cup (IF busy THEN {t} ELSE {})
       /\ IF Remote(c) \/ (tr.out = <<>> /\ ~busy)
          THEN /\ call' = [call EXCEPT ![c] = wait]
               /\ transport' = [transport EXCEPT ![t] = sent]
          ELSE IF tr.out = <<>>
          THEN /\ call' = [call EXCEPT ![c] = [Finished(c, Because("clash")) EXCEPT !.on = t]]
               /\ transport' = [transport EXCEPT ![t] = sent]
          ELSE \E rest \in OutAfter(tr.out, 1) :
               /\ call' = [call EXCEPT ![c] = [Finished(c, ResultOf(tr.out[1])) EXCEPT !.on = t]]
               /\ transport' = [transport EXCEPT ![t] = [sent EXCEPT !.out = rest]]

\* _create_transport: a fresh transport for c, about to be connected.
Make(c) == call' = [call EXCEPT ![c] = [@ EXCEPT !.at = "spawn", !.on = c]]

\* A request for a tool of source s, or the refresh of its inventory, arrives
\* and, for a singleton, asks for the pool's lock.
Arrive(c, s, job) ==
    /\ call[c].at = "new"
    /\ \A d \in Calls : d < c => call[d].at # "new"
    /\ call' = [call EXCEPT ![c] = [@ EXCEPT !.source = s, !.job = job, !.at = "lock"]]
    /\ queue' = IF job = "tool" /\ s \in Singletons THEN Append(queue, c) ELSE queue
    /\ UNCHANGED <<pool, transport, notes, history>>

\* A required environment variable of a plugin has no value: nothing is called.
Unresolved(c, s, job) ==
    /\ call[c].at = "new"
    /\ \A d \in Calls : d < c => call[d].at # "new"
    /\ s \notin Remotes \/ job = "list"
    /\ call' = [call EXCEPT ![c] = [@ EXCEPT !.source = s, !.job = job, !.at = "ended",
                                            !.result = Because("failed")]]
    /\ UNCHANGED <<pool, queue, transport, notes, history>>

\* get_transport for a transient source, and every listing: a new transport.
CreateTransient(c) ==
    /\ call[c].at = "lock" /\ ~Pooled(c)
    /\ Make(c)
    /\ UNCHANGED <<pool, queue, transport, notes, history>>

\* _get_singleton_transport finds a connected transport, and the call is sent
\* before anything else runs.
ReusePooled(c) ==
    /\ call[c].at = "lock" /\ Pooled(c) /\ Holds(c)
    /\ HasConnected(SourceOf(c))
    /\ LET t == pool[SourceOf(c)] IN Request(c, t, transport[t])
    /\ queue' = Tail(queue)
    /\ UNCHANGED <<pool, notes, misled>>

\* (As if the pool were looked into without its lock.)
CreateSingletonUnlocked(c) ==
    /\ call[c].at = "lock" /\ Pooled(c)
    /\ ~HasConnected(SourceOf(c))
    /\ pool' = [pool EXCEPT ![SourceOf(c)] = None]
    /\ Make(c)
    /\ UNCHANGED <<queue, transport, notes, history>>

\* _get_singleton_transport finds no transport, or one whose process is gone,
\* which it drops; it keeps the lock while the new one connects.
CreateSingleton(c) ==
    /\ call[c].at = "lock" /\ Pooled(c) /\ Holds(c)
    /\ ~HasConnected(SourceOf(c))
    /\ pool' = [pool EXCEPT ![SourceOf(c)] = None]
    /\ Make(c)
    /\ UNCHANGED <<queue, transport, notes, history>>

\* (As if a singleton were put into the pool, and the lock released, before the handshake.)
SpawnUnlocked(c) ==
    /\ call[c].at = "spawn"
    /\ transport' = [transport EXCEPT ![call[c].on].process = "running",
                                      ![call[c].on].inbox = <<Initialize>>]
    /\ call' = [call EXCEPT ![c].at = "init"]
    /\ pool' = IF Pooled(c) THEN [pool EXCEPT ![SourceOf(c)] = call[c].on] ELSE pool
    /\ queue' = Released(c)
    /\ UNCHANGED <<notes, history>>

\* connect(): the process is spawned (or the HTTP client made) and 'initialize' sent.
Spawn(c) ==
    /\ call[c].at = "spawn"
    /\ transport' = [transport EXCEPT ![call[c].on].process = "running",
                                      ![call[c].on].inbox = <<Initialize>>]
    /\ call' = [call EXCEPT ![c].at = "init"]
    /\ UNCHANGED <<pool, queue, notes, history>>

\* The command does not exist or cannot be run.
SpawnFails(c) ==
    /\ call[c].at = "spawn" /\ ~Remote(c)
    /\ call' = [call EXCEPT ![c] = [@ EXCEPT !.at = "ended", !.result = Because("failed")]]
    /\ queue' = Released(c)
    /\ UNCHANGED <<pool, transport, notes, history>>

\* (As if the handshake did not consume its answer.)
InitializedUnread(c) ==
    /\ call[c].at = "init"
    /\ \E i \in Readable(c, call[c].on, Initialize) : Request(c, call[c].on, transport[call[c].on])
    /\ pool' = IF Pooled(c) THEN [pool EXCEPT ![SourceOf(c)] = call[c].on] ELSE pool
    /\ queue' = Released(c)
    /\ UNCHANGED <<notes, misled>>

\* _initialize reads a line and takes it for the answer to 'initialize',
\* whatever it is: the transport is connected, a singleton is put into the pool,
\* and the call is sent.
Initialized(c) ==
    /\ call[c].at = "init"
    /\ LET t == call[c].on IN
       \E i \in Readable(c, t, Initialize) :
          /\ Request(c, t, [transport[t] EXCEPT !.out = RemoveAt(@, i)])
          /\ misled' = misled \cup (IF transport[t].out[i].kind = "note" THEN {t} ELSE {})
    /\ pool' = IF Pooled(c) THEN [pool EXCEPT ![SourceOf(c)] = call[c].on] ELSE pool
    /\ queue' = Released(c)
    /\ UNCHANGED notes

\* _send_request reads a line, or the response to its post, and the call ends.
Read(c) ==
    /\ call[c].at = "call"
    /\ LET t == call[c].on IN
       \E i \in Readable(c, t, c) : \E rest \in OutAfter(transport[t].out, i) :
          /\ call' = [call EXCEPT ![c] = Finished(c, ResultOf(transport[t].out[i]))]
          /\ transport' = [transport EXCEPT ![t].out = rest]
    /\ UNCHANGED <<pool, queue, notes, history>>

\* No answer within the time limit of the handshake or of the call.  A line that
\* comes later stays in the pipe; a later HTTP response is dropped with its connection.
TimeOut(c) ==
    /\ call[c].at \in {"init", "call"}
    /\ call' = [call EXCEPT ![c] = IF @.at = "init" THEN Aborted(c, "timeout")
                                                    ELSE Finished(c, Because("timeout"))]
    /\ UNCHANGED <<pool, queue, transport, notes, history>>

\* The end of the output of a dead process, a failed HTTP request, or a handshake
\* that reads an error or a line that is no JSON.
Lose(c) ==
    /\ call[c].at \in {"init", "call"}
    /\ LET k == transport[call[c].on] IN
       \/ Remote(c)
       \/ k.process # "running" /\ k.out = <<>>
       \/ call[c].at = "init" /\ k.out # <<>>
    /\ call' = [call EXCEPT ![c] = IF @.at = "init" THEN Aborted(c, "failed")
                                                    ELSE Finished(c, Because("failed"))]
    /\ UNCHANGED <<pool, queue, transport, notes, history>>

\* (As if the lock were not released when a handshake fails.)
DisconnectHolding(c) ==
    /\ call[c].at = "close"
    /\ transport' = [transport EXCEPT ![call[c].on] = [process |-> "gone", inbox |-> <<>>, out |-> <<>>]]
    /\ call' = [call EXCEPT ![c].at = "ended"]
    /\ UNCHANGED <<pool, queue, notes, history>>

\* disconnect(): the process is terminated, killed if it must be, and waited for.
Disconnect(c) ==
    /\ call[c].at = "close"
    /\ transport' = [transport EXCEPT ![call[c].on] = [process |-> "gone", inbox |-> <<>>, out |-> <<>>]]
    /\ call' = [call EXCEPT ![c].at = "ended"]
    /\ queue' = Released(c)
    /\ UNCHANGED <<pool, notes, history>>

-----------------------------------------------------------------------------
(* The servers.                                                            *)

IsPipe(t) == ~Remote(t)

\* A server answers any of the requests it has read, over HTTP those of calls that
\* still wait.
Answer(t) ==
    /\ transport[t].process = "running"
    /\ \E i \in DOMAIN transport[t].inbox :
       /\ IsPipe(t) \/ \E c \in Readers(t) : transport[t].inbox[i] \in {c, Initialize}
       /\ \E kind \in {"answer"} \cup (IF Overlong /\ IsPipe(t) /\ transport[t].inbox[i] # Initialize
                                       THEN {"overlong"} ELSE {}) :
             transport' = [transport EXCEPT ![t] =
                 [transport[t] EXCEPT !.inbox = RemoveAt(@, i),
                                      !.out = Append(@, [kind |-> kind, of |-> transport[t].inbox[i]])]]
    /\ UNCHANGED <<pool, queue, call, notes, history>>

\* At any time, the handshake included, a local server may write a message nobody
\* asked for, such as a log entry (an HTTP server has no channel for it here).
Notify(t) ==
    /\ notes < MaxNotes
    /\ transport[t].process = "running" /\ IsPipe(t)
    /\ notes' = notes + 1
    /\ transport' = [transport EXCEPT ![t].out = Append(@, [kind |-> "note", of |-> 0])]
    /\ UNCHANGED <<pool, queue, call, history>>

\* The process of a local server dies; later its return code is known.
Exit(t) ==
    /\ transport[t].process = "running" /\ IsPipe(t)
    /\ transport' = [transport EXCEPT ![t] = [@ EXCEPT !.process = "exited", !.inbox = <<>>]]
    /\ UNCHANGED <<pool, queue, call, notes, history>>

Reap(t) ==
    /\ transport[t].process = "exited"
    /\ transport' = [transport EXCEPT ![t].process = "gone"]
    /\ UNCHANGED <<pool, queue, call, notes, history>>

-----------------------------------------------------------------------------
Init ==
    /\ pool = [s \in Singletons |-> None]
    /\ queue = <<>>
    /\ call = [c \in Calls |-> NewCall]
    /\ transport = [t \in Transports |-> NewTransport]
    /\ notes = 0
    /\ overlapped = {}
    /\ misled = {}

Proceed(c) ==
    \/ CreateTransient(c) \/ ReusePooled(c) \/ CreateSingleton(c)
    \/ Spawn(c) \/ SpawnFails(c) \/ Initialized(c) \/ Read(c)
    \/ TimeOut(c) \/ Lose(c) \/ Disconnect(c)

Next ==
    \/ \E c \in Calls : \/ \E s \in Sources, job \in Jobs : Arrive(c, s, job) \/ Unresolved(c, s, job)
                        \/ Proceed(c)
    \/ \E t \in Transports : Answer(t) \/ Notify(t) \/ Exit(t) \/ Reap(t)

Spec == Init /\ [][Next]_vars

\* The event loop runs every task that can go on; a time limit passes.  Nothing
\* is assumed of the servers.
FairSpec == Spec /\ \A c \in Calls : WF_vars(Proceed(c))

-----------------------------------------------------------------------------
(* Properties.                                                             *)

\* _pool_lock is taken in turn: its queue is exactly the calls that wait for it,
\* connect under it or clean up a connect that failed, in the order of arrival.
ServedInTurn ==
    /\ \A i, j \in DOMAIN queue : i < j => queue[i] < queue[j]
    /\ ToSet(queue) = {c \in Calls : Pooled(c) /\ call[c].at \in {"lock", "spawn", "init", "close"}}

\* Types; the lock is taken in turn, and while a transport connects nobody but its
\* maker reads from it.
TypeOK ==
    /\ pool \in [Singletons -> {None} \cup Transports]
    /\ queue \in Seq(Calls)
    /\ call \in [Calls -> [at : Places, source : Sources, job : Jobs,
                          on : {None} \cup Transports, result : Result]]
    /\ transport \in [Transports -> [process : {"none", "running", "exited", "gone"},
                                    inbox : Seq({Initialize} \cup Calls), out : Seq(Line)]]
    /\ notes \in 0 .. MaxNotes
    /\ overlapped \subseteq Transports
    /\ misled \subseteq Transports
    /\ ServedInTurn
    /\ \A c \in Calls : call[c].at = "init" => Readers(call[c].on) = {c}

\* However the calls, the deaths of servers and the time-outs of handshakes
\* interleave, a singleton source has at most one server process for its calls:
\* _pool_lock is held from the look into the pool to the end of connect().
OneServerPerSource ==
    \A t, u \in Transports :
        /\ transport[t].process = "running" /\ transport[u].process = "running"
        /\ Pooled(t) /\ Pooled(u) /\ SourceOf(t) = SourceOf(u)
        => t = u

\* A process that runs is in the pool, serves a call that has not ended, or was
\* started by a tool call of a transient source, which execute never disconnects:
\* no failed handshake and no listing leaves one behind.
ProcessesOwned ==
    \A t \in Transports :
        transport[t].process = "running" =>
            \/ \E s \in Singletons : pool[s] = t
            \/ call[t].at # "ended"
            \/ call[t].job = "tool" /\ SourceOf(t) \notin Singletons

\* An answer is given to one call only, and to a call that asked the same process;
\* a call gets the answer to another one only over a pipe that overlapping calls, a
\* time-out, an unasked message (read by a call, or by the handshake for its answer)
\* or an overlong answer has put out of step, and the answer to the handshake only
\* if an unasked message was taken for it.
AnswersAccountedFor ==
    \A c \in Calls :
        LET of == call[c].result.of
            t  == call[c].on
        IN call[c].result.kind = "answer" =>
            /\ IF of = Initialize THEN t \in misled ELSE call[of].on = t
            /\ \A d \in Calls \ {c} : call[d].on = t => call[d].result # call[c].result
            /\ of # c => \/ t \in overlapped \cup misled
                         \/ \E d \in Calls \ {c} : /\ call[d].on = t
                                                 /\ call[d].result.kind \in {"timeout", "note", "overlong"}

\* Every call that arrived ends, whatever the servers do: every wait for a server
\* has a limit, and the lock is released on every path.
CallsEnd == \A c \in Calls : (call[c].at # "new") ~> (call[c].at = "ended")

\* No call waits for a lock that nobody will release: before it in the queue is the
\* call that holds the lock, an earlier one, whose next step is its own, within the
\* limits of a handshake and a disconnect (what CallsEnd rests on).
LockHeldByEarlier ==
    \A c \in Calls : Pooled(c) /\ call[c].at = "lock" =>
        \E d \in 1 .. c : Holds(d) /\ call[d].at \in {"lock", "spawn", "init", "close"}

\* how many steps a call has left at most
StepsLeft(c) ==
    CASE call[c].at = "new"   -> 6
      [] call[c].at = "lock"  -> 5
      [] call[c].at = "spawn" -> 4
      [] call[c].at = "init"  -> 3
      [] call[c].at = "call"  -> 2
      [] call[c].at = "close" -> 1
      [] call[c].at = "ended" -> 0

\* No step of anybody sets a call back, or touches one that has ended: a call takes
\* at most six steps, without a retry (what CallsEnd rests on as well).
CallsAdvance == [][\A c \in Calls : call'[c] # call[c] => StepsLeft(c)' < StepsLeft(c)]_vars

\* infrastructure/mcp/models.py:116 documents the id of a response as "Correlation
\* ID matching the request": a call gets the answer to its own request.
OwnAnswer == \A c \in Calls : call[c].result.kind = "answer" => call[c].result.of = c
=============================================================================
