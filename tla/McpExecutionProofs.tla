------------------------- MODULE McpExecutionProofs -------------------------
(***************************************************************************)
(* Theorems about McpExecution, for any number of calls and sources.  That *)
(* a singleton source has one server process rests on three things: who    *)
(* connects a pooled transport holds the lock (LockInv), a transport       *)
(* belongs to the call it is named after (OwnInv), and the pool has every  *)
(* pooled transport that is connected and no longer being connected or     *)
(* closed (PoolInv).                                                       *)
(*                                                                         *)
(* That every answer is accounted for rests on AnswerInv: a request or its *)
(* answer is once in the pipes of the transport it was sent over, and as   *)
(* long as nothing has put that transport out of step, what is in its      *)
(* pipes belongs to the one call that waits.  Move says how a step changes *)
(* one call and one transport; Kept, what is left to show of it.           *)
(***************************************************************************)
EXTENDS McpExecution, SequenceTheorems, TLAPS

USE DEF history

CallRecord == [at : Places, source : Sources, job : Jobs,
               on : {None} \cup Transports, result : Result]
Channel == [process : {"none", "running", "exited", "gone"},
            inbox : Seq({Initialize} \cup Calls), out : Seq(Line)]

Typed ==
    /\ pool \in [Singletons -> {None} \cup Transports]
    /\ queue \in Seq(Calls)
    /\ call \in [Calls -> CallRecord]
    /\ transport \in [Transports -> Channel]
    /\ notes \in 0 .. MaxNotes
    /\ overlapped \subseteq Transports /\ misled \subseteq Transports

Connecting == {"spawn", "init", "close"}

\* The record r is of a tool call of a singleton source.
PooledRecord(r) == r.job = "tool" /\ r.source \in Singletons

\* The queue has callers that wait or connect, each once, and who connects a
\* pooled transport is its head.
LockInv ==
    /\ IsInjective(queue)
    /\ \A i \in DOMAIN queue :
          Pooled(queue[i]) /\ call[queue[i]].at \in Connecting \cup {"lock"}
    /\ \A c \in Calls : Pooled(c) /\ call[c].at \in Connecting => Holds(c)

\* A call connects its own transport, and uses another one only when that came
\* from the pool.
OwnAt(c) ==
    /\ call[c].at \in {"new", "lock"} => call[c].on = None
    /\ call[c].at \in Connecting => call[c].on = c
    /\ call[c].at = "call" => call[c].on # None
    /\ ~Pooled(c) => call[c].on \in {None, c}
    /\ call[c].on \notin {None, c} =>
          Pooled(call[c].on) /\ call[call[c].on].at \in {"call", "ended"}
    /\ transport[c].process # "none" =>
          call[c].on = c /\ call[c].at \in {"init", "call", "close", "ended"}
    /\ call[c].job = "list" /\ call[c].at = "ended" =>
          transport[c].process \in {"none", "gone"}

OwnInv == \A c \in Calls : OwnAt(c)

\* The pool has transports of calls past their handshake, none for a source that
\* is being connected, and every pooled transport that is connected for good.
PoolInv ==
    /\ \A s \in Singletons : pool[s] # None =>
          /\ Pooled(pool[s]) /\ SourceOf(pool[s]) = s
          /\ call[pool[s]].at \in {"call", "ended"}
    /\ \A c \in Calls : Pooled(c) /\ call[c].at \in Connecting => pool[SourceOf(c)] = None
    /\ \A t \in Transports : Pooled(t) /\ IsConnected(t) =>
          pool[SourceOf(t)] = t \/ call[t].at \in {"init", "close"}

IInv == Typed /\ LockInv /\ OwnInv /\ PoolInv

-----------------------------------------------------------------------------
(* Sequences and types. *)

(* Removing an element of a sequence leaves a sequence. *)
LEMMA RemoveAtType ==
    ASSUME NEW S, NEW s \in Seq(S), NEW i \in DOMAIN s
    PROVE  RemoveAt(s, i) \in Seq(S)
<1>1. SubSeq(s, 1, i - 1) \in Seq(S)
    BY SubSeqProperties
<1>2. SubSeq(s, i + 1, Len(s)) \in Seq(S)
    BY SubSeqProperties
<1> QED BY <1>1, <1>2, ConcatProperties DEF RemoveAt

(* None is no call. *)
LEMMA NoneApart == None \notin Calls /\ Transports = Calls /\ Calls \subseteq Nat
BY McpAssumption DEF None, Calls, Transports

LEMMA BecauseType ==
    ASSUME NEW kind \in Ended \cup {"none"}
    PROVE  Because(kind) \in Result
BY McpAssumption DEF Because, Result

(* What is read from a line is a result. *)
LEMMA ResultOfType ==
    ASSUME NEW line \in Line
    PROVE  ResultOf(line) \in Result
BY McpAssumption DEF Line, ResultOf, Result, Because, Ended

(* What reading a line leaves is lines. *)
LEMMA OutAfterType ==
    ASSUME NEW out \in Seq(Line), NEW i \in DOMAIN out, NEW rest \in OutAfter(out, i)
    PROVE  rest \in Seq(Line)
<1>1. RemoveAt(out, i) \in Seq(Line)
    BY RemoveAtType
<1>2. out[i] \in Line
    OBVIOUS
<1>3. [kind |-> "rest", of |-> out[i].of] \in Line
    BY <1>2 DEF Line
<1>4. <<[kind |-> "rest", of |-> out[i].of]>> \in Seq(Line)
    BY <1>3
<1>5. <<[kind |-> "rest", of |-> out[i].of]>> \o RemoveAt(out, i) \in Seq(Line)
    BY <1>1, <1>4, ConcatProperties
<1> QED BY <1>1, <1>5 DEF OutAfter

(* The initial state satisfies the invariant. *)
LEMMA Initially == Init => IInv
<1> SUFFICES ASSUME Init PROVE IInv
    OBVIOUS
<1>1. NewCall \in CallRecord
    <2>1. (CHOOSE s \in Sources : TRUE) \in Sources
        BY McpAssumption
    <2>2. Because("none") \in Result
        BY BecauseType
    <2> QED BY <2>1, <2>2 DEF NewCall, CallRecord, Places, Jobs
<1>2. NewTransport \in Channel
    BY DEF NewTransport, Channel
<1>3. Typed
    BY <1>1, <1>2, McpAssumption DEF Init, Typed
<1>4. \A c \in Calls : call[c].at = "new" /\ call[c].on = None
    BY DEF Init, NewCall
<1>5. \A c \in Calls : transport[c].process = "none"
    BY NoneApart DEF Init, NewTransport
<1>6. LockInv
    BY <1>4 DEF Init, LockInv, IsInjective, Connecting
<1>7. OwnInv
    BY <1>4, <1>5 DEF OwnInv, OwnAt, Connecting
<1>8. PoolInv
    BY <1>4, <1>5, NoneApart DEF Init, PoolInv, Connecting, IsConnected
<1> QED BY <1>3, <1>6, <1>7, <1>8 DEF IInv

-----------------------------------------------------------------------------
(* How a step of one call keeps the parts of the invariant: r is the new   *)
(* record of call c.                                                       *)

Changes(c, r) ==
    /\ r \in CallRecord
    /\ call' = [call EXCEPT ![c] = r]
    /\ call[c].at # "new" => r.source = call[c].source /\ r.job = call[c].job
    /\ Pooled(c) /\ call[c].at \in {"call", "ended"} => r.at \in {"call", "ended"}

LEMMA OthersStay ==
    ASSUME Typed, NEW c \in Calls, NEW r, Changes(c, r)
    PROVE  /\ call' \in [Calls -> CallRecord] /\ call'[c] = r
           /\ \A d \in Calls \ {c} : call'[d] = call[d]
BY DEF Typed, Changes

LEMMA LockKeeps ==
    ASSUME IInv, NEW c \in Calls, NEW r, Changes(c, r),
           queue' \in Seq(Calls), IsInjective(queue'),
           \A i \in DOMAIN queue' : queue'[i] = c \/ \E j \in DOMAIN queue : queue'[i] = queue[j],
           \A i \in DOMAIN queue' :
              queue'[i] = c => PooledRecord(r) /\ r.at \in Connecting \cup {"lock"},
           PooledRecord(r) /\ r.at \in Connecting => queue' # <<>> /\ Head(queue') = c,
           \A d \in Calls \ {c} : Holds(d) => queue' # <<>> /\ Head(queue') = d
    PROVE  LockInv'
<1>1. call'[c] = r /\ \A d \in Calls \ {c} : call'[d] = call[d]
    BY OthersStay DEF IInv
<1>2. ASSUME NEW i \in DOMAIN queue'
      PROVE  Pooled(queue[i])' /\ call'[queue'[i]].at \in Connecting \cup {"lock"}
    <2>1. queue'[i] \in Calls
        BY <1>2
    <2>2. CASE queue'[i] = c
        BY <2>2, <1>1, <1>2 DEF Pooled, SourceOf, PooledRecord
    <2>3. CASE queue'[i] # c
        BY <2>1, <2>3, <1>1, <1>2 DEF Pooled, SourceOf, IInv, LockInv
    <2> QED BY <2>2, <2>3
<1>3. ASSUME NEW d \in Calls, Pooled(d)', call'[d].at \in Connecting
      PROVE  Holds(d)'
    <2>1. CASE d = c
        BY <2>1, <1>1, <1>3 DEF Pooled, SourceOf, PooledRecord, Holds
    <2>2. CASE d # c
        BY <2>2, <1>1, <1>3 DEF Pooled, SourceOf, IInv, LockInv, Holds
    <2> QED BY <2>1, <2>2
<1> QED BY <1>2, <1>3 DEF LockInv

LEMMA OwnKeeps ==
    ASSUME IInv, NEW c \in Calls, NEW r, Changes(c, r),
           \A t \in Transports \ {c} : transport'[t].process = transport[t].process,
           r.at \in {"new", "lock"} => r.on = None,
           r.at \in Connecting => r.on = c,
           r.at = "call" => r.on # None,
           ~PooledRecord(r) => r.on \in {None, c},
           r.on \notin {None, c} => Pooled(r.on) /\ call[r.on].at \in {"call", "ended"},
           transport'[c].process # "none" =>
              r.on = c /\ r.at \in {"init", "call", "close", "ended"},
           r.job = "list" /\ r.at = "ended" => transport'[c].process \in {"none", "gone"}
    PROVE  OwnInv'
<1>1. call'[c] = r /\ \A d \in Calls \ {c} : call'[d] = call[d]
    BY OthersStay DEF IInv
<1>2. ASSUME NEW t \in Calls, Pooled(t), call[t].at \in {"call", "ended"}
      PROVE  /\ call'[t].job = "tool" /\ call'[t].source \in Singletons
             /\ call'[t].at \in {"call", "ended"}
    BY <1>1, <1>2 DEF Changes, Pooled, SourceOf
<1>3. r.on \in {None} \cup Calls /\ \A d \in Calls : call[d].on \in {None} \cup Calls
    BY NoneApart DEF Changes, CallRecord, IInv, Typed
<1>4. ASSUME NEW d \in Calls
      PROVE  OwnAt(d)'
    <2>1. CASE d = c
        BY <2>1, <1>1, <1>2, <1>3 DEF OwnAt, Pooled, SourceOf, PooledRecord
    <2>2. CASE d # c
        <3>1. OwnAt(d)
            BY DEF IInv, OwnInv
        <3>2. transport'[d].process = transport[d].process /\ call'[d] = call[d]
            BY <2>2, <1>1, NoneApart
        <3> QED BY <3>1, <3>2, <1>2, <1>3 DEF OwnAt, Pooled, SourceOf
    <2> QED BY <2>1, <2>2
<1> QED BY <1>4 DEF OwnInv

LEMMA PoolKeeps ==
    ASSUME IInv, NEW c \in Calls, NEW r, Changes(c, r),
           \A t \in Transports \ {c} : transport'[t].process = transport[t].process,
           \A s \in Singletons : \/ pool'[s] \in {None, pool[s]}
                                 \/ /\ pool'[s] = c /\ Holds(c) /\ pool[s] = None
                                    /\ PooledRecord(r) /\ r.source = s
                                    /\ r.at \in {"call", "ended"},
           \A s \in Singletons : pool'[s] = None /\ pool[s] # None => ~IsConnected(pool[s]),
           PooledRecord(r) /\ r.at \in Connecting => pool'[r.source] = None,
           PooledRecord(r) /\ IsConnected(c)' => pool'[r.source] = c \/ r.at \in {"init", "close"}
    PROVE  PoolInv'
<1>1. call'[c] = r /\ \A d \in Calls \ {c} : call'[d] = call[d]
    BY OthersStay DEF IInv
<1>2. Transports = Calls /\ None \notin Calls
    BY NoneApart
<1>3. ASSUME NEW s \in Singletons, pool'[s] # None
      PROVE  /\ Pooled(pool[s])' /\ SourceOf(pool[s])' = s
             /\ call'[pool'[s]].at \in {"call", "ended"}
    <2>1. CASE pool'[s] = pool[s]
        <3>1. /\ pool[s] \in Calls /\ Pooled(pool[s]) /\ SourceOf(pool[s]) = s
              /\ call[pool[s]].at \in {"call", "ended"}
            BY <2>1, <1>2, <1>3 DEF IInv, PoolInv, Typed
        <3> QED BY <2>1, <3>1, <1>1 DEF Changes, Pooled, SourceOf
    <2>2. CASE pool'[s] # pool[s]
        BY <2>2, <1>1, <1>3 DEF Pooled, SourceOf, PooledRecord
    <2> QED BY <2>1, <2>2
<1>4. ASSUME NEW d \in Calls, Pooled(d)', call'[d].at \in Connecting
      PROVE  pool'[SourceOf(d)'] = None
    <2>1. CASE d = c
        BY <2>1, <1>1, <1>4 DEF Pooled, SourceOf, PooledRecord
    <2>2. CASE d # c
        <3>1. Pooled(d) /\ SourceOf(d)' = SourceOf(d) /\ call[d].at \in Connecting
            BY <2>2, <1>1, <1>4 DEF Pooled, SourceOf
        <3>2. Holds(d) /\ pool[SourceOf(d)] = None /\ SourceOf(d) \in Singletons
            BY <3>1 DEF IInv, LockInv, PoolInv, Pooled
        <3>3. ~Holds(c)
            BY <2>2, <3>2 DEF Holds
        <3> QED BY <3>1, <3>2, <3>3
    <2> QED BY <2>1, <2>2
<1>5. ASSUME NEW t \in Transports, Pooled(t)', IsConnected(t)'
      PROVE  pool'[SourceOf(t)'] = t \/ call'[t].at \in {"init", "close"}
    <2>1. CASE t = c
        BY <2>1, <1>1, <1>5 DEF Pooled, SourceOf, PooledRecord
    <2>2. CASE t # c
        <3>1. Pooled(t) /\ SourceOf(t)' = SourceOf(t) /\ IsConnected(t) /\ call'[t] = call[t]
            BY <2>2, <1>1, <1>2, <1>5 DEF Pooled, SourceOf, IsConnected
        <3>2. pool[SourceOf(t)] = t \/ call[t].at \in {"init", "close"}
            BY <3>1 DEF IInv, PoolInv
        <3>3. SourceOf(t) \in Singletons
            BY <3>1 DEF Pooled
        <3> QED BY <3>1, <3>2, <3>3, <1>2
    <2> QED BY <2>1, <2>2
<1> QED BY <1>3, <1>4, <1>5 DEF PoolInv

-----------------------------------------------------------------------------
(* The lock. *)

LEMMA ReleasedKeeps ==
    ASSUME IInv, NEW c \in Calls
    PROVE  /\ Released(c) \in Seq(Calls) /\ IsInjective(Released(c))
           /\ \A i \in DOMAIN Released(c) :
                 \E j \in DOMAIN queue : Released(c)[i] = queue[j] /\ (Holds(c) => queue[j] # c)
           /\ ~Holds(c) => Released(c) = queue
           /\ \A d \in Calls \ {c} : Holds(d) => Released(c) # <<>> /\ Head(Released(c)) = d
<1>1. queue \in Seq(Calls) /\ IsInjective(queue)
    BY DEF IInv, Typed, LockInv
<1>2. CASE Holds(c)
    <2>1. queue # <<>> /\ queue[1] = c /\ Released(c) = Tail(queue)
        BY <1>1, <1>2 DEF Holds, Released
    <2>2. /\ Tail(queue) \in Seq(Calls) /\ Len(Tail(queue)) = Len(queue) - 1
          /\ \A i \in 1 .. Len(Tail(queue)) : Tail(queue)[i] = queue[i + 1]
        BY <1>1, <2>1, HeadTailProperties
    <2>3. IsInjective(Tail(queue))
        <3> SUFFICES ASSUME NEW a \in DOMAIN Tail(queue), NEW b \in DOMAIN Tail(queue),
                            Tail(queue)[a] = Tail(queue)[b]
                     PROVE  a = b
            BY DEF IsInjective
        <3>1. /\ a + 1 \in DOMAIN queue /\ b + 1 \in DOMAIN queue
              /\ queue[a + 1] = queue[b + 1] /\ a \in Int /\ b \in Int
            BY <1>1, <2>2
        <3>2. a + 1 = b + 1
            BY <1>1, <3>1 DEF IsInjective
        <3> QED BY <3>1, <3>2
    <2>4. ASSUME NEW i \in DOMAIN Tail(queue)
          PROVE  \E j \in DOMAIN queue : Tail(queue)[i] = queue[j] /\ queue[j] # c
        <3>1. i + 1 \in DOMAIN queue /\ 1 \in DOMAIN queue /\ i + 1 # 1
              /\ Tail(queue)[i] = queue[i + 1]
            BY <1>1, <2>1, <2>2, <2>4
        <3>2. queue[i + 1] # queue[1]
            BY <1>1, <3>1 DEF IsInjective
        <3> QED BY <2>1, <3>1, <3>2
    <2>5. \A d \in Calls \ {c} : ~Holds(d)
        BY <1>2 DEF Holds
    <2> QED BY <1>2, <2>1, <2>2, <2>3, <2>4, <2>5
<1>3. CASE ~Holds(c)
    BY <1>1, <1>3 DEF Released, Holds
<1> QED BY <1>2, <1>3

(* A caller that leaves the queue, or was never in it. *)
LEMMA Leaves ==
    ASSUME IInv, NEW c \in Calls, NEW r, Changes(c, r), queue' = Released(c),
           r.at \notin Connecting, Pooled(c) => Holds(c) \/ call[c].at \in {"call", "ended"}
    PROVE  queue' \in Seq(Calls) /\ LockInv'
<1>1. /\ queue' \in Seq(Calls) /\ IsInjective(queue')
      /\ \A i \in DOMAIN queue' :
            \E j \in DOMAIN queue : queue'[i] = queue[j] /\ (Holds(c) => queue[j] # c)
      /\ \A d \in Calls \ {c} : Holds(d) => queue' # <<>> /\ Head(queue') = d
    BY ReleasedKeeps
<1>2. \A j \in DOMAIN queue : Pooled(queue[j]) /\ call[queue[j]].at \notin {"call", "ended"}
    BY DEF IInv, LockInv, Connecting
<1>3. \A i \in DOMAIN queue' : queue'[i] # c
    BY <1>1, <1>2
<1> QED BY <1>1, <1>3, LockKeeps

(* A call that leaves the queue as it is. *)
LEMMA Remains ==
    ASSUME IInv, NEW c \in Calls, NEW r, Changes(c, r), queue' = queue,
           \/ ~PooledRecord(r) /\ ~Pooled(c)
           \/ call[c].at \in {"new", "call"} /\ r.at \notin Connecting
           \/ r.at \in Connecting /\ Holds(c) /\ PooledRecord(r)
    PROVE  LockInv'
<1>1. queue \in Seq(Calls) /\ IsInjective(queue)
    BY DEF IInv, Typed, LockInv
<1>2. \A j \in DOMAIN queue : Pooled(queue[j]) /\ call[queue[j]].at \notin {"new", "call"}
    BY DEF IInv, LockInv, Connecting
<1>3. \A i \in DOMAIN queue : queue[i] = c => PooledRecord(r) /\ r.at \in Connecting \cup {"lock"}
    BY <1>2
<1>4. PooledRecord(r) /\ r.at \in Connecting => queue # <<>> /\ Head(queue) = c
    BY DEF IInv, LockInv, Holds, Pooled, SourceOf, PooledRecord
<1> QED BY <1>1, <1>3, <1>4, LockKeeps DEF Holds

-----------------------------------------------------------------------------
(* The steps of a call. *)

(* The record and the type of a call. *)
LEMMA CallType ==
    ASSUME IInv, NEW c \in Calls
    PROVE  /\ call[c] \in CallRecord /\ transport[c] \in Channel
           /\ call[c].on \in {None} \cup Transports
           /\ Pooled(c) <=> PooledRecord(call[c])
           /\ call[c].job \in Jobs
BY NoneApart DEF IInv, Typed, CallRecord, Pooled, SourceOf, PooledRecord

(* How execute and fetch_and_normalize end. *)
LEMMA FinishedType ==
    ASSUME IInv, NEW c \in Calls, NEW result \in Result
    PROVE  LET f == Finished(c, result) IN
           /\ f \in CallRecord /\ f.source = call[c].source /\ f.job = call[c].job
           /\ f.on = call[c].on
           /\ f.at = IF call[c].job = "list" THEN "close" ELSE "ended"
BY CallType DEF Finished, CallRecord, Places

(* What a request leaves, whether its line is there, to come, or refused. *)
LEMMA RequestStep ==
    ASSUME IInv, NEW c \in Calls, NEW t \in Transports, NEW tr \in Channel,
           Request(c, t, tr)
    PROVE  \E r \in CallRecord, k \in Channel :
              /\ call' = [call EXCEPT ![c] = r]
              /\ transport' = [transport EXCEPT ![t] = k]
              /\ k.process = tr.process
              /\ r.source = call[c].source /\ r.job = call[c].job /\ r.on = t
              /\ r.at \in {"call", IF call[c].job = "list" THEN "close" ELSE "ended"}
              /\ overlapped' \subseteq Transports
<1> DEFINE sent == [tr EXCEPT !.inbox = IF tr.process = "running" THEN Append(@, c) ELSE @]
           wait == [call[c] EXCEPT !.on = t, !.at = "call"]
           busy == \E d \in Readers(t) \ {c} : call[d].at = "call"
<1>1. sent \in Channel /\ sent.process = tr.process
    <2>1. Append(tr.inbox, c) \in Seq({Initialize} \cup Calls)
        BY AppendProperties DEF Channel
    <2> QED BY <2>1 DEF Channel
<1>2. call[c] \in CallRecord
    BY CallType
<1>3. overlapped' \subseteq Transports
    <2>1. overlapped' = overlapped \cup (IF busy THEN {t} ELSE {})
        BY Zenon DEF Request
    <2> QED BY <2>1 DEF IInv, Typed
<1>4. wait \in CallRecord /\ wait.on = t /\ wait.at = "call"
      /\ wait.source = call[c].source /\ wait.job = call[c].job
    BY <1>2 DEF CallRecord, Places
<1>5. ASSUME NEW result \in Result
      PROVE  LET f == [Finished(c, result) EXCEPT !.on = t] IN
             /\ f \in CallRecord /\ f.on = t
             /\ f.source = call[c].source /\ f.job = call[c].job
             /\ f.at = IF call[c].job = "list" THEN "close" ELSE "ended"
    <2> DEFINE g == Finished(c, result)
    <2>1. /\ g \in CallRecord /\ g.source = call[c].source /\ g.job = call[c].job
          /\ g.at = IF call[c].job = "list" THEN "close" ELSE "ended"
        BY <1>5, FinishedType
    <2> HIDE DEF g
    <2>2. LET f == [g EXCEPT !.on = t] IN
             /\ f \in CallRecord /\ f.on = t /\ f.source = g.source /\ f.job = g.job
             /\ f.at = g.at
        BY <2>1 DEF CallRecord
    <2> QED BY <2>1, <2>2 DEF g
<1>6. CASE Remote(c) \/ (tr.out = <<>> /\ ~busy)
    <2>1. call' = [call EXCEPT ![c] = wait] /\ transport' = [transport EXCEPT ![t] = sent]
        BY <1>6, Zenon DEF Request
    <2> HIDE DEF wait, sent
    <2> QED BY <2>1, <1>1, <1>3, <1>4
<1>7. CASE ~(Remote(c) \/ (tr.out = <<>> /\ ~busy)) /\ tr.out = <<>>
    <2> DEFINE f == [Finished(c, Because("clash")) EXCEPT !.on = t]
    <2>1. call' = [call EXCEPT ![c] = f] /\ transport' = [transport EXCEPT ![t] = sent]
        BY <1>7, Zenon DEF Request
    <2>2. Because("clash") \in Result
        BY BecauseType DEF Ended
    <2>3. /\ f \in CallRecord /\ f.on = t
          /\ f.source = call[c].source /\ f.job = call[c].job
          /\ f.at = IF call[c].job = "list" THEN "close" ELSE "ended"
        BY <2>2, <1>5
    <2> HIDE DEF f, sent
    <2> QED BY <2>1, <2>3, <1>1, <1>3
<1>8. CASE ~(Remote(c) \/ (tr.out = <<>> /\ ~busy)) /\ tr.out # <<>>
    <2> DEFINE f == [Finished(c, ResultOf(tr.out[1])) EXCEPT !.on = t]
    <2>1. PICK rest \in OutAfter(tr.out, 1) :
             /\ call' = [call EXCEPT ![c] = f]
             /\ transport' = [transport EXCEPT ![t] = [sent EXCEPT !.out = rest]]
        BY <1>8, Zenon DEF Request
    <2>2. tr.out \in Seq(Line) /\ 1 \in DOMAIN tr.out /\ tr.out[1] \in Line
        BY <1>8 DEF Channel
    <2>3. rest \in Seq(Line)
        BY <2>2, OutAfterType
    <2>4. ResultOf(tr.out[1]) \in Result
        BY <2>2, ResultOfType
    <2>5. /\ f \in CallRecord /\ f.on = t
          /\ f.source = call[c].source /\ f.job = call[c].job
          /\ f.at = IF call[c].job = "list" THEN "close" ELSE "ended"
        BY <2>4, <1>5
    <2> HIDE DEF f, sent
    <2> DEFINE k == [sent EXCEPT !.out = rest]
    <2>6. k \in Channel /\ k.process = tr.process
        BY <2>3, <1>1 DEF Channel
    <2> HIDE DEF k
    <2> QED BY <2>1, <2>5, <2>6, <1>3 DEF k
<1> QED BY <1>6, <1>7, <1>8

(* A call that has just arrived. *)
LEMMA Fresh ==
    ASSUME IInv, NEW c \in Calls, call[c].at = "new"
    PROVE  call[c].on = None /\ transport[c].process = "none" /\ ~IsConnected(c)
BY CallType DEF IInv, OwnInv, OwnAt, IsConnected, Channel

(* The types after a step of c. *)
LEMMA TypedKeeps ==
    ASSUME IInv, NEW c \in Calls, NEW r, Changes(c, r), queue' \in Seq(Calls),
           pool' \in [Singletons -> {None} \cup Transports],
           transport' \in [Transports -> Channel], UNCHANGED notes,
           overlapped' \subseteq Transports, misled' \subseteq Transports
    PROVE  Typed'
BY OthersStay DEF IInv, Typed

LEMMA ArriveKeeps ==
    ASSUME IInv, NEW c \in Calls, NEW s \in Sources, NEW job \in Jobs, Arrive(c, s, job)
    PROVE  IInv'
<1> DEFINE r == [call[c] EXCEPT !.source = s, !.job = job, !.at = "lock"]
<1>1. call[c].at = "new" /\ call[c].on = None /\ transport[c].process = "none" /\ ~IsConnected(c)
    BY Fresh DEF Arrive
<1>2. r \in CallRecord /\ r.at = "lock" /\ r.on = None /\ r.source = s /\ r.job = job
    BY <1>1, CallType DEF CallRecord, Places
<1>3. Changes(c, r)
    BY <1>1, <1>2 DEF Arrive, Changes
<1>4. /\ UNCHANGED <<pool, transport, notes, history>>
      /\ queue' = IF PooledRecord(r) THEN Append(queue, c) ELSE queue
    BY <1>2 DEF Arrive, PooledRecord
<1> HIDE DEF r
<1>5. queue \in Seq(Calls) /\ IsInjective(queue) /\ \A j \in DOMAIN queue : queue[j] # c
    BY <1>1 DEF IInv, Typed, LockInv, Connecting
<1>6. queue' \in Seq(Calls) /\ LockInv'
    <2>1. CASE PooledRecord(r)
        <3>1. /\ queue' \in Seq(Calls) /\ Len(queue') = Len(queue) + 1
              /\ \A j \in 1 .. Len(queue) : queue'[j] = queue[j]
              /\ queue'[Len(queue) + 1] = c
              /\ DOMAIN queue' = 1 .. Len(queue) + 1 /\ DOMAIN queue = 1 .. Len(queue)
              /\ Len(queue) \in Nat
            BY <1>4, <1>5, <2>1, AppendProperties
        <3>2. IsInjective(queue')
            BY <1>5, <3>1 DEF IsInjective
        <3>3. \A i \in DOMAIN queue' : queue'[i] = c \/ \E j \in DOMAIN queue : queue'[i] = queue[j]
            BY <3>1
        <3>4. \A d \in Calls \ {c} : Holds(d) => queue' # <<>> /\ Head(queue') = d
            BY <1>5, <3>1 DEF Holds
        <3> QED BY <1>2, <1>3, <2>1, <3>1, <3>2, <3>3, <3>4, LockKeeps DEF Connecting
    <2>2. CASE ~PooledRecord(r)
        BY <1>1, <1>2, <1>3, <1>4, <1>5, <2>2, Remains DEF Connecting
    <2> QED BY <2>1, <2>2
<1>7. Typed'
    BY <1>3, <1>4, <1>6, TypedKeeps DEF IInv, Typed
<1>8. OwnInv'
    BY <1>1, <1>2, <1>3, <1>4, OwnKeeps DEF Connecting
<1>9. PoolInv'
    BY <1>1, <1>2, <1>3, <1>4, PoolKeeps DEF Connecting, IsConnected
<1> QED BY <1>6, <1>7, <1>8, <1>9 DEF IInv

LEMMA UnresolvedKeeps ==
    ASSUME IInv, NEW c \in Calls, NEW s \in Sources, NEW job \in Jobs, Unresolved(c, s, job)
    PROVE  IInv'
<1> DEFINE r == [call[c] EXCEPT !.source = s, !.job = job, !.at = "ended",
                                !.result = Because("failed")]
<1>1. call[c].at = "new" /\ call[c].on = None /\ transport[c].process = "none" /\ ~IsConnected(c)
    BY Fresh DEF Unresolved
<1>2. r \in CallRecord /\ r.at = "ended" /\ r.on = None /\ r.source = s /\ r.job = job
    <2>1. Because("failed") \in Result
        BY BecauseType DEF Ended
    <2> QED BY <1>1, <2>1, CallType DEF CallRecord, Places
<1>3. Changes(c, r)
    BY <1>1, <1>2 DEF Unresolved, Changes
<1>4. UNCHANGED <<pool, queue, transport, notes, history>>
    BY DEF Unresolved
<1> HIDE DEF r
<1>5. queue' \in Seq(Calls) /\ LockInv'
    BY <1>1, <1>2, <1>3, <1>4, Remains DEF Connecting, IInv, Typed
<1>6. Typed'
    BY <1>3, <1>4, <1>5, TypedKeeps DEF IInv, Typed
<1>7. OwnInv'
    BY <1>1, <1>2, <1>3, <1>4, OwnKeeps DEF Connecting
<1>8. PoolInv'
    BY <1>1, <1>2, <1>3, <1>4, PoolKeeps DEF Connecting, IsConnected
<1> QED BY <1>5, <1>6, <1>7, <1>8 DEF IInv

(* A call that takes a transport of its own. *)
LEMMA MakeStep ==
    ASSUME IInv, NEW c \in Calls, call[c].at = "lock", Make(c)
    PROVE  \E r \in CallRecord :
              /\ Changes(c, r) /\ r.at = "spawn" /\ r.on = c
              /\ r.source = call[c].source /\ r.job = call[c].job
              /\ transport[c].process = "none" /\ ~IsConnected(c)
<1> DEFINE r == [call[c] EXCEPT !.at = "spawn", !.on = c]
<1>1. /\ r \in CallRecord /\ r.at = "spawn" /\ r.on = c
      /\ r.source = call[c].source /\ r.job = call[c].job
    <2>1. call[c] \in CallRecord
        BY CallType
    <2>2. c \in {None} \cup Transports
        BY NoneApart
    <2> QED BY <2>1, <2>2 DEF CallRecord, Places
<1>2. call' = [call EXCEPT ![c] = r]
    BY DEF Make
<1>3. transport[c].process = "none" /\ ~IsConnected(c)
    BY CallType DEF IInv, OwnInv, OwnAt, IsConnected, Channel
<1> HIDE DEF r
<1>4. Changes(c, r)
    BY <1>1, <1>2 DEF Changes
<1> QED BY <1>1, <1>3, <1>4

LEMMA CreateTransientKeeps ==
    ASSUME IInv, NEW c \in Calls, CreateTransient(c)
    PROVE  IInv'
<1>1. /\ call[c].at = "lock" /\ ~Pooled(c) /\ Make(c)
      /\ UNCHANGED <<pool, queue, transport, notes, history>>
    BY DEF CreateTransient
<1>2. PICK r \in CallRecord :
         /\ Changes(c, r) /\ r.at = "spawn" /\ r.on = c
         /\ r.source = call[c].source /\ r.job = call[c].job
         /\ transport[c].process = "none" /\ ~IsConnected(c)
    BY <1>1, MakeStep
<1>3. ~PooledRecord(r)
    BY <1>1, <1>2 DEF Pooled, SourceOf, PooledRecord
<1>4. queue' \in Seq(Calls) /\ LockInv'
    BY <1>1, <1>2, <1>3, Remains DEF IInv, Typed
<1>5. Typed'
    BY <1>1, <1>2, <1>4, TypedKeeps DEF IInv, Typed
<1>6. OwnInv'
    BY <1>1, <1>2, <1>3, OwnKeeps
<1>7. PoolInv'
    BY <1>1, <1>2, <1>3, PoolKeeps
<1> QED BY <1>4, <1>5, <1>6, <1>7 DEF IInv

LEMMA CreateSingletonKeeps ==
    ASSUME IInv, NEW c \in Calls, CreateSingleton(c)
    PROVE  IInv'
<1>1. /\ call[c].at = "lock" /\ Pooled(c) /\ Holds(c) /\ Make(c)
      /\ ~HasConnected(SourceOf(c))
      /\ pool' = [pool EXCEPT ![SourceOf(c)] = None]
      /\ UNCHANGED <<queue, transport, notes, history>>
    BY DEF CreateSingleton
<1>2. PICK r \in CallRecord :
         /\ Changes(c, r) /\ r.at = "spawn" /\ r.on = c
         /\ r.source = call[c].source /\ r.job = call[c].job
         /\ transport[c].process = "none" /\ ~IsConnected(c)
    BY <1>1, MakeStep
<1>3. PooledRecord(r) /\ r.source = SourceOf(c) /\ SourceOf(c) \in Singletons
    BY <1>1, <1>2 DEF Pooled, SourceOf, PooledRecord
<1>4. /\ pool' \in [Singletons -> {None} \cup Transports]
      /\ pool'[SourceOf(c)] = None
      /\ \A s \in Singletons : pool'[s] \in {None, pool[s]}
      /\ \A s \in Singletons : pool'[s] = None /\ pool[s] # None => s = SourceOf(c)
    BY <1>1, <1>3 DEF IInv, Typed
<1>5. queue' \in Seq(Calls) /\ LockInv'
    BY <1>1, <1>2, <1>3, Remains DEF IInv, Typed, Connecting
<1>6. Typed'
    BY <1>1, <1>2, <1>4, <1>5, TypedKeeps DEF IInv, Typed
<1>7. OwnInv'
    BY <1>1, <1>2, <1>3, OwnKeeps DEF Connecting
<1>8. PoolInv'
    <2>1. \A s \in Singletons : pool'[s] = None /\ pool[s] # None => ~IsConnected(pool[s])
        BY <1>1, <1>4 DEF HasConnected
    <2>2. ~IsConnected(c)'
        BY <1>1, <1>2 DEF IsConnected
    <2> QED BY <1>1, <1>2, <1>3, <1>4, <2>1, <2>2, PoolKeeps
<1> QED BY <1>5, <1>6, <1>7, <1>8 DEF IInv

LEMMA SpawnKeeps ==
    ASSUME IInv, NEW c \in Calls, Spawn(c)
    PROVE  IInv'
<1> DEFINE r == [call[c] EXCEPT !.at = "init"]
           k == [transport[c] EXCEPT !.process = "running", !.inbox = <<Initialize>>]
<1>1. call[c].at = "spawn" /\ call[c].on = c
    BY DEF Spawn, IInv, OwnInv, OwnAt, Connecting
<1>2. /\ r \in CallRecord /\ r.at = "init" /\ r.on = c
      /\ r.source = call[c].source /\ r.job = call[c].job
    BY <1>1, CallType DEF CallRecord, Places
<1>3. /\ call' = [call EXCEPT ![c] = r]
      /\ transport' = [transport EXCEPT ![c] = k]
      /\ UNCHANGED <<pool, queue, notes, history>>
    BY <1>1, CallType, NoneApart DEF Spawn, IInv, Typed, Channel
<1>4. k \in Channel /\ k.process = "running"
    <2>1. <<Initialize>> \in Seq({Initialize} \cup Calls)
        OBVIOUS
    <2> QED BY <2>1, CallType DEF Channel
<1> HIDE DEF r, k
<1>5. Changes(c, r)
    BY <1>1, <1>2, <1>3 DEF Changes
<1>6. /\ transport' \in [Transports -> Channel] /\ transport'[c].process = "running"
      /\ \A t \in Transports \ {c} : transport'[t].process = transport[t].process
    BY <1>3, <1>4, NoneApart DEF IInv, Typed
<1>7. Pooled(c) <=> PooledRecord(r)
    BY <1>2 DEF Pooled, SourceOf, PooledRecord
<1>8. Pooled(c) => Holds(c) /\ pool[r.source] = None
    BY <1>1, <1>2 DEF IInv, LockInv, PoolInv, Connecting, SourceOf
<1>9. queue' \in Seq(Calls) /\ LockInv'
    BY <1>2, <1>3, <1>5, <1>7, <1>8, Remains DEF IInv, Typed, Connecting
<1>10. Typed'
    BY <1>3, <1>5, <1>6, <1>9, TypedKeeps DEF IInv, Typed
<1>11. OwnInv'
    BY <1>2, <1>5, <1>6, OwnKeeps DEF Connecting
<1>12. PoolInv'
    BY <1>2, <1>3, <1>5, <1>6, <1>7, <1>8, PoolKeeps
<1> QED BY <1>9, <1>10, <1>11, <1>12 DEF IInv

LEMMA SpawnFailsKeeps ==
    ASSUME IInv, NEW c \in Calls, SpawnFails(c)
    PROVE  IInv'
<1> DEFINE r == [call[c] EXCEPT !.at = "ended", !.result = Because("failed")]
<1>1. call[c].at = "spawn" /\ call[c].on = c /\ transport[c].process = "none" /\ ~IsConnected(c)
    BY CallType, NoneApart DEF SpawnFails, IInv, OwnInv, OwnAt, Connecting, IsConnected
<1>2. /\ r \in CallRecord /\ r.at = "ended" /\ r.on = c
      /\ r.source = call[c].source /\ r.job = call[c].job
    <2>1. Because("failed") \in Result
        BY BecauseType DEF Ended
    <2> QED BY <1>1, <2>1, CallType DEF CallRecord, Places
<1>3. /\ call' = [call EXCEPT ![c] = r] /\ queue' = Released(c)
      /\ UNCHANGED <<pool, transport, notes, history>>
    BY DEF SpawnFails
<1> HIDE DEF r
<1>4. Changes(c, r)
    BY <1>1, <1>2, <1>3 DEF Changes
<1>5. Pooled(c) <=> PooledRecord(r)
    BY <1>2 DEF Pooled, SourceOf, PooledRecord
<1>6. Pooled(c) => Holds(c)
    BY <1>1 DEF IInv, LockInv, Connecting
<1>7. queue' \in Seq(Calls) /\ LockInv'
    BY <1>2, <1>3, <1>4, <1>6, Leaves DEF Connecting
<1>8. Typed'
    BY <1>3, <1>4, <1>7, TypedKeeps DEF IInv, Typed
<1>9. OwnInv'
    BY <1>1, <1>2, <1>3, <1>4, NoneApart, OwnKeeps DEF Connecting
<1>10. PoolInv'
    BY <1>1, <1>2, <1>3, <1>4, PoolKeeps DEF Connecting, IsConnected
<1> QED BY <1>7, <1>8, <1>9, <1>10 DEF IInv

(* A step of a call that no longer waits for the lock or holds it, over a  *)
(* transport whose process stays as it is.                                 *)
LEMMA CallingKeeps ==
    ASSUME IInv, NEW c \in Calls, NEW r, Changes(c, r),
           r.source = call[c].source, r.job = call[c].job,
           UNCHANGED <<pool, notes>>, queue' = Released(c),
           overlapped' \subseteq Transports, misled' \subseteq Transports,
           transport' \in [Transports -> Channel],
           \A t \in Transports : transport'[t].process = transport[t].process,
           Pooled(c) => Holds(c) \/ call[c].at \in {"call", "ended"},
           Pooled(c) => r.at \in {"call", "ended"} /\ call[c].at \in {"lock", "call", "ended"},
           ~Pooled(c) => r.at \in {"call", IF r.job = "list" THEN "close" ELSE "ended"},
           ~Pooled(c) => r.on = c,
           Pooled(c) => r.on # None /\
              (r.on # c => Pooled(r.on) /\ call[r.on].at \in {"call", "ended"}),
           transport[c].process # "none" => r.on = c
    PROVE  IInv'
<1>1. c \in Transports /\ c # None
    BY NoneApart
<1>2. Pooled(c) <=> PooledRecord(r)
    BY DEF Pooled, SourceOf, PooledRecord
<1>3. queue' \in Seq(Calls) /\ IsInjective(queue')
      /\ (\A i \in DOMAIN queue' :
            \E j \in DOMAIN queue : queue'[i] = queue[j] /\ (Holds(c) => queue[j] # c))
      /\ (\A d \in Calls \ {c} : Holds(d) => queue' # <<>> /\ Head(queue') = d)
    BY ReleasedKeeps
<1>4. LockInv'
    <2>1. \A j \in DOMAIN queue : Pooled(queue[j]) /\ call[queue[j]].at \notin {"call", "ended"}
        BY DEF IInv, LockInv, Connecting
    <2>2. \A i \in DOMAIN queue' : queue'[i] # c
        BY <1>3, <2>1
    <2> QED BY <1>2, <1>3, <2>2, LockKeeps DEF Connecting
<1>5. Typed'
    BY <1>3, TypedKeeps DEF IInv, Typed
<1>6. OwnInv'
    <2>1. r.job \in Jobs
        BY CallType
    <2> QED BY <1>1, <1>2, <2>1, OwnKeeps DEF Connecting, Jobs, PooledRecord
<1>7. PoolInv'
    <2>1. IsConnected(c)' <=> IsConnected(c)
        BY <1>1 DEF IsConnected
    <2>2. PooledRecord(r) /\ IsConnected(c) => pool[r.source] = c \/ call[c].at \in {"init", "close"}
        BY <1>1, <1>2 DEF IInv, PoolInv, SourceOf
    <2> QED BY <1>1, <1>2, <2>1, <2>2, PoolKeeps DEF Connecting
<1> QED BY <1>3, <1>4, <1>5, <1>6, <1>7 DEF IInv

(* A call that is waiting for its answer has left the queue. *)
LEMMA CallingFacts ==
    ASSUME IInv, NEW c \in Calls, call[c].at = "call"
    PROVE  /\ ~Holds(c) /\ Released(c) = queue
           /\ call[c].on \in Transports /\ (~Pooled(c) => call[c].on = c)
           /\ call[c].on # c => Pooled(call[c].on) /\ call[call[c].on].at \in {"call", "ended"}
           /\ transport[c].process # "none" => call[c].on = c
<1>1. ~Holds(c)
    <2>1. queue # <<>> => 1 \in DOMAIN queue /\ Head(queue) = queue[1]
        BY DEF IInv, Typed
    <2> QED BY <2>1 DEF IInv, LockInv, Holds, Connecting
<1>2. Released(c) = queue
    BY <1>1 DEF Released
<1>3. call[c].on \in {None} \cup Transports /\ OwnAt(c)
    BY CallType DEF IInv, OwnInv
<1> QED BY <1>1, <1>2, <1>3 DEF OwnAt

(* A call that gets its answer, or gives up waiting for it. *)
LEMMA EndsKeeps ==
    ASSUME IInv, NEW c \in Calls, call[c].at = "call", NEW result \in Result,
           call' = [call EXCEPT ![c] = Finished(c, result)],
           UNCHANGED <<pool, queue, notes, history>>,
           transport' \in [Transports -> Channel],
           \A t \in Transports : transport'[t].process = transport[t].process
    PROVE  IInv'
<1> DEFINE r == Finished(c, result)
<1>1. /\ r \in CallRecord /\ r.source = call[c].source /\ r.job = call[c].job
      /\ r.on = call[c].on
      /\ r.at = IF call[c].job = "list" THEN "close" ELSE "ended"
    BY FinishedType
<1> HIDE DEF r
<1>2. Pooled(c) => r.at = "ended"
    BY <1>1 DEF Pooled
<1>3. Changes(c, r)
    BY <1>1, <1>2 DEF r, Changes
<1>4. overlapped' \subseteq Transports /\ misled' \subseteq Transports
    BY DEF IInv, Typed
<1>5. r.on # None
    BY <1>1, CallingFacts, NoneApart
<1> QED BY <1>1, <1>2, <1>3, <1>4, <1>5, CallingFacts, CallingKeeps

(* A handshake that fails. *)
LEMMA AbortKeeps ==
    ASSUME IInv, NEW c \in Calls, call[c].at = "init", NEW kind \in Ended,
           call' = [call EXCEPT ![c] = Aborted(c, kind)],
           UNCHANGED <<pool, queue, transport, notes, history>>
    PROVE  IInv'
<1> DEFINE r == Aborted(c, kind)
<1>1. call[c].on = c
    BY DEF IInv, OwnInv, OwnAt, Connecting
<1>2. /\ r \in CallRecord /\ r.at = "close" /\ r.on = c
      /\ r.source = call[c].source /\ r.job = call[c].job
    <2>1. Because(kind) \in Result
        BY BecauseType
    <2> QED BY <1>1, <2>1, CallType DEF Aborted, CallRecord, Places
<1>3. call' = [call EXCEPT ![c] = r]
    OBVIOUS
<1> HIDE DEF r
<1>4. Changes(c, r)
    BY <1>2, <1>3 DEF Changes
<1>5. Pooled(c) <=> PooledRecord(r)
    BY <1>2 DEF Pooled, SourceOf, PooledRecord
<1>6. Pooled(c) => Holds(c) /\ pool[r.source] = None
    BY <1>2 DEF IInv, LockInv, PoolInv, Connecting, SourceOf
<1>7. queue' \in Seq(Calls) /\ LockInv'
    BY <1>2, <1>4, <1>5, <1>6, Remains DEF IInv, Typed, Connecting
<1>8. Typed'
    BY <1>4, <1>7, TypedKeeps DEF IInv, Typed
<1>9. OwnInv'
    BY <1>2, <1>4, OwnKeeps DEF Connecting
<1>10. PoolInv'
    BY <1>2, <1>4, <1>5, <1>6, PoolKeeps
<1> QED BY <1>7, <1>8, <1>9, <1>10 DEF IInv

LEMMA ReusePooledKeeps ==
    ASSUME IInv, NEW c \in Calls, ReusePooled(c)
    PROVE  IInv'
<1> DEFINE t == pool[SourceOf(c)]
<1>1. /\ call[c].at = "lock" /\ Pooled(c) /\ Holds(c) /\ t # None
      /\ Request(c, t, transport[t]) /\ queue' = Tail(queue)
      /\ UNCHANGED <<pool, notes>> /\ misled' \subseteq Transports
    BY DEF ReusePooled, HasConnected, IInv, Typed
<1>2. SourceOf(c) \in Singletons /\ call[c].job = "tool"
    BY <1>1 DEF Pooled
<1>3. t \in Transports /\ Pooled(t) /\ call[t].at \in {"call", "ended"} /\ transport[t] \in Channel
    BY <1>1, <1>2 DEF IInv, PoolInv, Typed
<1> HIDE DEF t
<1>4. PICK r \in CallRecord, k \in Channel :
         /\ call' = [call EXCEPT ![c] = r]
         /\ transport' = [transport EXCEPT ![t] = k]
         /\ k.process = transport[t].process
         /\ r.source = call[c].source /\ r.job = call[c].job /\ r.on = t
         /\ r.at \in {"call", IF call[c].job = "list" THEN "close" ELSE "ended"}
         /\ overlapped' \subseteq Transports
    BY <1>1, <1>3, RequestStep
<1>5. r.at \in {"call", "ended"}
    BY <1>2, <1>4
<1>6. Changes(c, r)
    BY <1>1, <1>4, <1>5 DEF Changes
<1>7. queue' = Released(c)
    BY <1>1 DEF Released
<1>8. /\ transport' \in [Transports -> Channel]
      /\ \A u \in Transports : transport'[u].process = transport[u].process
    BY <1>3, <1>4 DEF IInv, Typed
<1>9. transport[c].process = "none"
    BY <1>1, CallType DEF IInv, OwnInv, OwnAt, Channel
<1> QED BY <1>1, <1>3, <1>4, <1>5, <1>6, <1>7, <1>8, <1>9, CallingKeeps

LEMMA InitializedKeeps ==
    ASSUME IInv, NEW c \in Calls, Initialized(c)
    PROVE  IInv'
<1>1. call[c].at = "init" /\ call[c].on = c /\ c \in Transports /\ c # None
      /\ transport[c] \in Channel
    BY CallType, NoneApart DEF Initialized, IInv, OwnInv, OwnAt, Connecting
<1>2. PICK i \in Readable(c, c, Initialize) :
         Request(c, c, [transport[c] EXCEPT !.out = RemoveAt(@, i)])
    BY <1>1 DEF Initialized
<1> DEFINE tr == [transport[c] EXCEPT !.out = RemoveAt(@, i)]
<1>3. tr \in Channel /\ tr.process = transport[c].process
    <2>1. i \in DOMAIN transport[c].out /\ transport[c].out \in Seq(Line)
        BY <1>1, <1>2 DEF Readable, Channel
    <2>2. RemoveAt(transport[c].out, i) \in Seq(Line)
        BY <2>1, RemoveAtType
    <2> QED BY <1>1, <2>2 DEF Channel
<1>0. Request(c, c, tr)
    BY <1>2
<1> HIDE DEF tr
<1>4. PICK r \in CallRecord, k \in Channel :
         /\ call' = [call EXCEPT ![c] = r]
         /\ transport' = [transport EXCEPT ![c] = k]
         /\ k.process = tr.process
         /\ r.source = call[c].source /\ r.job = call[c].job /\ r.on = c
         /\ r.at \in {"call", IF call[c].job = "list" THEN "close" ELSE "ended"}
         /\ overlapped' \subseteq Transports
    BY <1>1, <1>3, <1>0, RequestStep
<1>5. Pooled(c) => r.at \in {"call", "ended"}
    BY <1>4 DEF Pooled
<1>6. Changes(c, r)
    BY <1>1, <1>4, <1>5 DEF Changes
<1>7. /\ transport' \in [Transports -> Channel]
      /\ \A u \in Transports : transport'[u].process = transport[u].process
    BY <1>1, <1>3, <1>4 DEF IInv, Typed
<1>8. /\ pool' = IF Pooled(c) THEN [pool EXCEPT ![SourceOf(c)] = c] ELSE pool
      /\ queue' = Released(c) /\ UNCHANGED notes /\ misled' \subseteq Transports
    BY <1>1 DEF Initialized, IInv, Typed
<1>9. CASE ~Pooled(c)
    BY <1>1, <1>4, <1>6, <1>7, <1>8, <1>9, CallingKeeps
<1>10. CASE Pooled(c)
    <2>1. /\ Holds(c) /\ pool[SourceOf(c)] = None /\ SourceOf(c) \in Singletons
          /\ r.source = SourceOf(c) /\ call[c].job = "tool"
        BY <1>1, <1>4, <1>10 DEF IInv, LockInv, PoolInv, Connecting, Pooled, SourceOf
    <2>2. PooledRecord(r)
        BY <1>4, <2>1 DEF PooledRecord
    <2>3. /\ pool' \in [Singletons -> {None} \cup Transports]
          /\ pool'[SourceOf(c)] = c
          /\ \A s \in Singletons \ {SourceOf(c)} : pool'[s] = pool[s]
        BY <1>1, <1>8, <1>10, <2>1 DEF IInv, Typed
    <2>4. queue' \in Seq(Calls) /\ LockInv'
        BY <1>5, <1>6, <1>8, <1>10, <2>1, Leaves DEF Connecting
    <2>5. Typed'
        BY <1>4, <1>6, <1>7, <1>8, <2>3, <2>4, TypedKeeps
    <2>6. OwnInv'
        BY <1>1, <1>4, <1>5, <1>6, <1>7, <1>10, <2>1, <2>2, OwnKeeps DEF Connecting
    <2>7. PoolInv'
        <3>1. \A s \in Singletons : \/ pool'[s] \in {None, pool[s]}
                                     \/ /\ pool'[s] = c /\ Holds(c) /\ pool[s] = None
                                        /\ PooledRecord(r) /\ r.source = s
                                        /\ r.at \in {"call", "ended"}
            BY <1>5, <1>10, <2>1, <2>2, <2>3
        <3>2. \A s \in Singletons : ~(pool'[s] = None /\ pool[s] # None)
            BY <1>1, <2>1, <2>3
        <3> QED BY <1>5, <1>6, <1>7, <1>10, <2>1, <2>2, <2>3, <3>1, <3>2, PoolKeeps DEF Connecting
    <2> QED BY <2>4, <2>5, <2>6, <2>7 DEF IInv
<1> QED BY <1>9, <1>10

LEMMA ReadKeeps ==
    ASSUME IInv, NEW c \in Calls, Read(c)
    PROVE  IInv'
<1> DEFINE t == call[c].on
<1>1. call[c].at = "call" /\ t \in Transports /\ transport[t] \in Channel
    BY CallingFacts DEF Read, IInv, Typed
<1>2. PICK i \in Readable(c, t, c) : \E rest \in OutAfter(transport[t].out, i) :
         /\ call' = [call EXCEPT ![c] = Finished(c, ResultOf(transport[t].out[i]))]
         /\ transport' = [transport EXCEPT ![t].out = rest]
    BY DEF Read
<1>3. i \in DOMAIN transport[t].out /\ transport[t].out \in Seq(Line)
    BY <1>1, <1>2 DEF Readable, Channel
<1>4. PICK rest \in OutAfter(transport[t].out, i) :
         /\ call' = [call EXCEPT ![c] = Finished(c, ResultOf(transport[t].out[i]))]
         /\ transport' = [transport EXCEPT ![t].out = rest]
    BY <1>2
<1>5. rest \in Seq(Line)
    BY <1>3, <1>4, OutAfterType
<1>6. ResultOf(transport[t].out[i]) \in Result
    <2>1. transport[t].out[i] \in Line
        BY <1>3
    <2> QED BY <2>1, ResultOfType
<1>7. /\ transport' \in [Transports -> Channel]
      /\ \A u \in Transports : transport'[u].process = transport[u].process
    <2> DEFINE k == [transport[t] EXCEPT !.out = rest]
    <2>1. k \in Channel /\ k.process = transport[t].process
        BY <1>1, <1>5 DEF Channel
    <2>2. transport' = [transport EXCEPT ![t] = k]
        BY <1>4
    <2> HIDE DEF k, t
    <2> QED BY <1>1, <2>1, <2>2 DEF IInv, Typed
<1>8. UNCHANGED <<pool, queue, notes, history>>
    BY DEF Read
<1> QED BY <1>1, <1>4, <1>6, <1>7, <1>8, EndsKeeps

LEMMA TimeOutKeeps ==
    ASSUME IInv, NEW c \in Calls, TimeOut(c)
    PROVE  IInv'
<1>1. /\ UNCHANGED <<pool, queue, transport, notes, history>>
      /\ call[c].at \in {"init", "call"}
      /\ transport \in [Transports -> Channel]
    BY DEF TimeOut, IInv, Typed
<1>2. CASE call[c].at = "init"
    <2>1. call' = [call EXCEPT ![c] = Aborted(c, "timeout")]
        BY <1>2 DEF TimeOut
    <2> QED BY <1>1, <1>2, <2>1, AbortKeeps DEF Ended
<1>3. CASE call[c].at = "call"
    <2>1. call' = [call EXCEPT ![c] = Finished(c, Because("timeout"))]
        BY <1>3 DEF TimeOut
    <2>2. Because("timeout") \in Result
        BY BecauseType DEF Ended
    <2> QED BY <1>1, <1>3, <2>1, <2>2, EndsKeeps
<1> QED BY <1>1, <1>2, <1>3

LEMMA LoseKeeps ==
    ASSUME IInv, NEW c \in Calls, Lose(c)
    PROVE  IInv'
<1>1. /\ UNCHANGED <<pool, queue, transport, notes, history>>
      /\ call[c].at \in {"init", "call"}
      /\ transport \in [Transports -> Channel]
    BY DEF Lose, IInv, Typed
<1>2. CASE call[c].at = "init"
    <2>1. call' = [call EXCEPT ![c] = Aborted(c, "failed")]
        BY <1>2 DEF Lose
    <2> QED BY <1>1, <1>2, <2>1, AbortKeeps DEF Ended
<1>3. CASE call[c].at = "call"
    <2>1. call' = [call EXCEPT ![c] = Finished(c, Because("failed"))]
        BY <1>3 DEF Lose
    <2>2. Because("failed") \in Result
        BY BecauseType DEF Ended
    <2> QED BY <1>1, <1>3, <2>1, <2>2, EndsKeeps
<1> QED BY <1>1, <1>2, <1>3

LEMMA DisconnectKeeps ==
    ASSUME IInv, NEW c \in Calls, Disconnect(c)
    PROVE  IInv'
<1> DEFINE r == [call[c] EXCEPT !.at = "ended"]
           k == [process |-> "gone", inbox |-> <<>>, out |-> <<>>]
<1>1. call[c].at = "close" /\ call[c].on = c /\ c \in Transports /\ c # None
    BY NoneApart DEF Disconnect, IInv, OwnInv, OwnAt, Connecting
<1>2. /\ r \in CallRecord /\ r.at = "ended" /\ r.on = c
      /\ r.source = call[c].source /\ r.job = call[c].job
    BY <1>1, CallType DEF CallRecord, Places
<1>3. k \in Channel /\ k.process = "gone"
    BY DEF Channel
<1>4. /\ call' = [call EXCEPT ![c] = r] /\ queue' = Released(c)
      /\ transport' = [transport EXCEPT ![c] = k]
      /\ UNCHANGED <<pool, notes, history>>
    BY <1>1 DEF Disconnect
<1> HIDE DEF r, k
<1>5. Changes(c, r)
    BY <1>1, <1>2, <1>4 DEF Changes
<1>6. /\ transport' \in [Transports -> Channel] /\ transport'[c].process = "gone"
      /\ \A t \in Transports \ {c} : transport'[t].process = transport[t].process
    BY <1>1, <1>3, <1>4 DEF IInv, Typed
<1>7. Pooled(c) => Holds(c)
    BY <1>1 DEF IInv, LockInv, Connecting
<1>8. queue' \in Seq(Calls) /\ LockInv'
    BY <1>2, <1>4, <1>5, <1>7, Leaves DEF Connecting
<1>9. Typed'
    BY <1>4, <1>5, <1>6, <1>8, TypedKeeps DEF IInv, Typed
<1>10. OwnInv'
    BY <1>1, <1>2, <1>5, <1>6, OwnKeeps DEF Connecting
<1>11. PoolInv'
    <2>1. ~IsConnected(c)'
        BY <1>6 DEF IsConnected
    <2> QED BY <1>2, <1>4, <1>5, <1>6, <2>1, PoolKeeps DEF Connecting
<1> QED BY <1>8, <1>9, <1>10, <1>11 DEF IInv

-----------------------------------------------------------------------------
(* The steps of the servers. *)

(* A process goes on as it is, or dies and is reaped. *)
LEMMA ServerKeeps ==
    ASSUME IInv, NEW t \in Transports, NEW k \in Channel,
           transport' = [transport EXCEPT ![t] = k],
           \/ k.process = transport[t].process
           \/ transport[t].process = "running" /\ k.process = "exited"
           \/ transport[t].process = "exited" /\ k.process = "gone",
           UNCHANGED <<pool, queue, call, history>>, notes' \in 0 .. MaxNotes
    PROVE  IInv'
<1>1. /\ transport'[t] = k /\ \A u \in Transports \ {t} : transport'[u] = transport[u]
      /\ transport' \in [Transports -> Channel] /\ Transports = Calls
    BY NoneApart DEF IInv, Typed
<1>2. Typed'
    BY <1>1 DEF IInv, Typed
<1>3. LockInv'
    BY DEF IInv, LockInv, Holds, Pooled, SourceOf
<1>4. ASSUME NEW c \in Calls
      PROVE  OwnAt(c)'
    <2>1. OwnAt(c)
        BY DEF IInv, OwnInv
    <2>2. /\ transport'[c].process # "none" => transport[c].process # "none"
          /\ transport[c].process \in {"none", "gone"} =>
                transport'[c].process \in {"none", "gone"}
        BY <1>1
    <2> QED BY <2>1, <2>2 DEF OwnAt, Pooled, SourceOf
<1>5. OwnInv'
    BY <1>4 DEF OwnInv
<1>6. \A u \in Transports : IsConnected(u)' => IsConnected(u)
    BY <1>1 DEF IsConnected
<1>7. PoolInv'
    <2>1. PoolInv
        BY DEF IInv
    <2>2. /\ \A c \in Calls : Pooled(c)' <=> Pooled(c)
          /\ \A s \in Singletons : Pooled(pool[s])' <=> Pooled(pool[s])
        BY DEF Pooled, SourceOf
    <2> QED BY <1>1, <1>6, <2>1, <2>2 DEF PoolInv, SourceOf
<1> QED BY <1>2, <1>3, <1>5, <1>7 DEF IInv

LEMMA AnswerKeeps ==
    ASSUME IInv, NEW t \in Transports, Answer(t)
    PROVE  IInv'
<1>1. PICK i \in DOMAIN transport[t].inbox, kind \in {"answer", "overlong"} :
         transport' = [transport EXCEPT ![t] =
            [transport[t] EXCEPT
               !.inbox = RemoveAt(transport[t].inbox, i),
               !.out = Append(transport[t].out, [kind |-> kind, of |-> transport[t].inbox[i]])]]
    BY Zenon DEF Answer
<1> DEFINE line == [kind |-> kind, of |-> transport[t].inbox[i]]
           k == [transport[t] EXCEPT !.inbox = RemoveAt(transport[t].inbox, i),
                                    !.out = Append(transport[t].out, line)]
<1>2. transport[t] \in Channel
    BY DEF IInv, Typed
<1>3. RemoveAt(transport[t].inbox, i) \in Seq({Initialize} \cup Calls)
    BY <1>1, <1>2, RemoveAtType DEF Channel
<1>4. line \in Line
    <2>1. transport[t].inbox[i] \in {Initialize} \cup Calls
        BY <1>1, <1>2 DEF Channel
    <2>2. transport[t].inbox[i] \in 0 .. MaxCalls
        BY <2>1, McpAssumption DEF Initialize, Calls
    <2> QED BY <1>1, <2>2 DEF Line
<1>5. Append(transport[t].out, line) \in Seq(Line)
    BY <1>2, <1>4, AppendProperties DEF Channel
<1>6. k \in Channel /\ k.process = transport[t].process
    BY <1>2, <1>3, <1>5 DEF Channel
<1>7. transport' = [transport EXCEPT ![t] = k]
    BY <1>1
<1> HIDE DEF k
<1>8. UNCHANGED <<pool, queue, call, history>> /\ notes' \in 0 .. MaxNotes
    BY DEF Answer, IInv, Typed
<1> QED BY <1>6, <1>7, <1>8, ServerKeeps

LEMMA NotifyKeeps ==
    ASSUME IInv, NEW t \in Transports, Notify(t)
    PROVE  IInv'
<1> DEFINE line == [kind |-> "note", of |-> 0]
           k == [transport[t] EXCEPT !.out = Append(@, line)]
<1>1. transport[t] \in Channel
    BY DEF IInv, Typed
<1>2. line \in Line
    BY McpAssumption DEF Line
<1>3. Append(transport[t].out, line) \in Seq(Line)
    BY <1>1, <1>2, AppendProperties DEF Channel
<1>4. k \in Channel /\ k.process = transport[t].process
    BY <1>1, <1>3 DEF Channel
<1>5. transport' = [transport EXCEPT ![t] = k]
    BY DEF Notify
<1> HIDE DEF k
<1>6. UNCHANGED <<pool, queue, call, history>> /\ notes' \in 0 .. MaxNotes
    BY McpAssumption DEF Notify, IInv, Typed
<1> QED BY <1>4, <1>5, <1>6, ServerKeeps

LEMMA ExitKeeps ==
    ASSUME IInv, NEW t \in Transports, Exit(t)
    PROVE  IInv'
<1> DEFINE k == [transport[t] EXCEPT !.process = "exited", !.inbox = <<>>]
<1>1. transport[t] \in Channel /\ transport[t].process = "running"
    BY DEF Exit, IInv, Typed
<1>2. k \in Channel /\ k.process = "exited"
    <2>1. <<>> \in Seq({Initialize} \cup Calls)
        OBVIOUS
    <2> QED BY <1>1, <2>1 DEF Channel
<1>3. transport' = [transport EXCEPT ![t] = k]
    BY DEF Exit
<1> HIDE DEF k
<1>4. UNCHANGED <<pool, queue, call, history>> /\ notes' \in 0 .. MaxNotes
    BY DEF Exit, IInv, Typed
<1> QED BY <1>1, <1>2, <1>3, <1>4, ServerKeeps

LEMMA ReapKeeps ==
    ASSUME IInv, NEW t \in Transports, Reap(t)
    PROVE  IInv'
<1> DEFINE k == [transport[t] EXCEPT !.process = "gone"]
<1>1. transport[t] \in Channel /\ transport[t].process = "exited"
    BY DEF Reap, IInv, Typed
<1>2. k \in Channel /\ k.process = "gone"
    BY <1>1 DEF Channel
<1>3. transport' = [transport EXCEPT ![t] = k]
    BY DEF Reap
<1> HIDE DEF k
<1>4. UNCHANGED <<pool, queue, call, history>> /\ notes' \in 0 .. MaxNotes
    BY DEF Reap, IInv, Typed
<1> QED BY <1>1, <1>2, <1>3, <1>4, ServerKeeps

-----------------------------------------------------------------------------
(* Every step keeps the invariant. *)
LEMMA Steps == IInv /\ [Next]_vars => IInv'
<1> SUFFICES ASSUME IInv, [Next]_vars PROVE IInv'
    OBVIOUS
<1>1. ASSUME NEW c \in Calls, NEW s \in Sources, NEW job \in Jobs,
             Arrive(c, s, job) \/ Unresolved(c, s, job)
      PROVE  IInv'
    BY <1>1, ArriveKeeps, UnresolvedKeeps
<1>2. ASSUME NEW c \in Calls, Proceed(c)
      PROVE  IInv'
    BY <1>2, CreateTransientKeeps, ReusePooledKeeps, CreateSingletonKeeps, SpawnKeeps,
       SpawnFailsKeeps, InitializedKeeps, ReadKeeps, TimeOutKeeps, LoseKeeps, DisconnectKeeps
       DEF Proceed
<1>3. ASSUME NEW t \in Transports, Answer(t) \/ Notify(t) \/ Exit(t) \/ Reap(t)
      PROVE  IInv'
    BY <1>3, AnswerKeeps, NotifyKeeps, ExitKeeps, ReapKeeps
<1>4. CASE UNCHANGED vars
    <2>1. Typed' /\ LockInv' /\ PoolInv'
        BY <1>4 DEF vars, IInv, Typed, LockInv, PoolInv, Holds, Pooled, SourceOf, IsConnected
    <2>2. OwnInv'
        BY <1>4 DEF vars, IInv, OwnInv, OwnAt, Pooled, SourceOf
    <2> QED BY <2>1, <2>2 DEF IInv
<1> QED BY <1>1, <1>2, <1>3, <1>4 DEF Next

(* Who connects a pooled transport holds the lock, a transport is used by   *)
(* the call that made it or taken from the pool, and the pool has all that  *)
(* are connected (get_transport, _get_singleton_transport).                 *)
THEOREM PoolConsistent == Spec => []IInv
BY Initially, Steps, PTL DEF Spec

-----------------------------------------------------------------------------
(* The lock is taken in turn. *)

InLine == Connecting \cup {"lock"}

\* Calls arrive in the order of their numbers, the queue is in that order, and
\* whoever waits for the lock or works under it is in the queue.
TurnInv ==
    /\ \A c, d \in Calls : call[c].at # "new" /\ d < c => call[d].at # "new"
    /\ \A i, j \in DOMAIN queue : i < j => queue[i] < queue[j]
    /\ \A c \in Calls : Pooled(c) /\ call[c].at \in InLine => \E i \in DOMAIN queue : queue[i] = c

\* A step of c that lets it stay in the queue, or leave it from the front.
TurnStep(c) ==
    /\ \A d \in Calls \ {c} : call'[d] = call[d]
    /\ call[c].at # "new" /\ call'[c].at # "new"
    /\ call'[c].source = call[c].source /\ call'[c].job = call[c].job
    /\ \/ queue' = queue /\ (Pooled(c) /\ call'[c].at \in InLine => call[c].at \in InLine)
       \/ queue' = Released(c) /\ (Pooled(c) => call'[c].at \notin InLine)

\* What leaving the front of the queue keeps.
LEMMA ReleasedInTurn ==
    ASSUME IInv, TurnInv, NEW c \in Calls
    PROVE  /\ \A i, j \in DOMAIN Released(c) : i < j => Released(c)[i] < Released(c)[j]
           /\ \A d \in Calls \ {c} : (\E i \in DOMAIN queue : queue[i] = d)
                  => \E i \in DOMAIN Released(c) : Released(c)[i] = d
<1>1. queue \in Seq(Calls)
    BY DEF IInv, Typed
<1>2. CASE Holds(c)
    <2>1. queue # <<>> /\ queue[1] = c /\ Released(c) = Tail(queue)
        BY <1>1, <1>2 DEF Holds, Released
    <2>2. /\ Tail(queue) \in Seq(Calls) /\ Len(Tail(queue)) = Len(queue) - 1
          /\ \A i \in 1 .. Len(Tail(queue)) : Tail(queue)[i] = queue[i + 1]
        BY <1>1, <2>1, HeadTailProperties
    <2>3. ASSUME NEW i \in DOMAIN Tail(queue), NEW j \in DOMAIN Tail(queue), i < j
          PROVE  Tail(queue)[i] < Tail(queue)[j]
        <3>1. i + 1 \in DOMAIN queue /\ j + 1 \in DOMAIN queue /\ i + 1 < j + 1
              /\ Tail(queue)[i] = queue[i + 1] /\ Tail(queue)[j] = queue[j + 1]
            BY <1>1, <2>2, <2>3
        <3> QED BY <3>1 DEF TurnInv
    <2>4. ASSUME NEW d \in Calls \ {c}, NEW i \in DOMAIN queue, queue[i] = d
          PROVE  \E j \in DOMAIN Tail(queue) : Tail(queue)[j] = d
        <3>1. i # 1 /\ i \in 1 .. Len(queue)
            BY <1>1, <2>1, <2>4
        <3>2. i - 1 \in DOMAIN Tail(queue) /\ Tail(queue)[i - 1] = queue[i]
            BY <1>1, <2>2, <3>1
        <3> QED BY <2>4, <3>2
    <2> QED BY <2>1, <2>3, <2>4
<1>3. CASE ~Holds(c)
    BY <1>3 DEF Released, TurnInv
<1> QED BY <1>2, <1>3

LEMMA TurnKeeps ==
    ASSUME IInv, TurnInv, NEW c \in Calls, TurnStep(c)
    PROVE  TurnInv'
<1>1. \A d \in Calls : call'[d].at # "new" <=> call[d].at # "new"
    BY DEF TurnStep
<1>2. \A d \in Calls : Pooled(d)' <=> Pooled(d)
    BY DEF TurnStep, Pooled, SourceOf
<1>3. \A d \in Calls \ {c} : call'[d].at = call[d].at
    BY DEF TurnStep
<1>4. CASE queue' = queue /\ (Pooled(c) /\ call'[c].at \in InLine => call[c].at \in InLine)
    BY <1>1, <1>2, <1>3, <1>4 DEF TurnInv
<1>5. CASE queue' = Released(c) /\ (Pooled(c) => call'[c].at \notin InLine)
    <2>1. \A i, j \in DOMAIN queue' : i < j => queue'[i] < queue'[j]
        BY <1>5, ReleasedInTurn
    <2>2. ASSUME NEW d \in Calls, Pooled(d)', call'[d].at \in InLine
          PROVE  \E i \in DOMAIN queue' : queue'[i] = d
        <3>1. d # c
            BY <1>2, <1>5, <2>2
        <3>2. \E i \in DOMAIN queue : queue[i] = d
            BY <1>2, <1>3, <2>2, <3>1 DEF TurnInv
        <3> QED BY <1>5, <3>1, <3>2, ReleasedInTurn
    <2>3. \A d, e \in Calls : call'[d].at # "new" /\ e < d => call'[e].at # "new"
        BY <1>1 DEF TurnInv
    <2> QED BY <2>1, <2>2, <2>3 DEF TurnInv
<1> QED BY <1>4, <1>5 DEF TurnStep

LEMMA ArriveInTurn ==
    ASSUME IInv, TurnInv, NEW c \in Calls, NEW s \in Sources, NEW job \in Jobs,
           Arrive(c, s, job) \/ Unresolved(c, s, job)
    PROVE  TurnInv'
<1>1. /\ call[c].at = "new" /\ \A d \in Calls : d < c => call[d].at # "new"
      /\ \A d \in Calls \ {c} : call'[d] = call[d]
      /\ call'[c].at \in {"lock", "ended"}
      /\ call'[c].source = s /\ call'[c].job = job
      /\ \/ queue' = Append(queue, c)
         \/ queue' = queue /\ (call'[c].at = "lock" => ~(job = "tool" /\ s \in Singletons))
    BY CallType DEF Arrive, Unresolved, IInv, Typed, CallRecord
<1>2. /\ queue \in Seq(Calls)
      /\ \A i \in DOMAIN queue : queue[i] \in Calls /\ call[queue[i]].at # "new"
    BY DEF IInv, Typed, LockInv, Connecting
<1>3. \A i \in DOMAIN queue : queue[i] < c
    <2>1. ASSUME NEW i \in DOMAIN queue
          PROVE  queue[i] < c
        <3>1. queue[i] # c /\ ~(c < queue[i])
            BY <1>1, <1>2 DEF TurnInv
        <3>2. queue[i] \in Nat /\ c \in Nat
            BY <1>2, NoneApart
        <3> QED BY <3>1, <3>2
    <2> QED BY <2>1
<1>4. \A d, e \in Calls : call'[d].at # "new" /\ e < d => call'[e].at # "new"
    BY <1>1 DEF TurnInv
<1>5. /\ \A i, j \in DOMAIN queue' : i < j => queue'[i] < queue'[j]
      /\ \A i \in DOMAIN queue : i \in DOMAIN queue' /\ queue'[i] = queue[i]
      /\ call'[c].at = "lock" /\ job = "tool" /\ s \in Singletons =>
            \E i \in DOMAIN queue' : queue'[i] = c
    <2>1. CASE queue' = Append(queue, c)
        <3>1. /\ Len(queue') = Len(queue) + 1 /\ Len(queue) \in Nat
              /\ DOMAIN queue' = 1 .. Len(queue) + 1 /\ DOMAIN queue = 1 .. Len(queue)
              /\ \A i \in 1 .. Len(queue) : queue'[i] = queue[i]
              /\ queue'[Len(queue) + 1] = c
            BY <1>2, <2>1
        <3>2. ASSUME NEW i \in DOMAIN queue', NEW j \in DOMAIN queue', i < j
              PROVE  queue'[i] < queue'[j]
            <4>1. CASE j = Len(queue) + 1
                BY <3>1, <3>2, <4>1, <1>3
            <4>2. CASE j # Len(queue) + 1
                BY <3>1, <3>2, <4>2 DEF TurnInv
            <4> QED BY <4>1, <4>2
        <3>3. Len(queue) + 1 \in DOMAIN queue' /\ \A i \in DOMAIN queue : i \in DOMAIN queue'
            BY <3>1
        <3> QED BY <3>1, <3>2, <3>3
    <2>2. CASE queue' = queue /\ (call'[c].at = "lock" => ~(job = "tool" /\ s \in Singletons))
        BY <2>2 DEF TurnInv
    <2> QED BY <1>1, <2>1, <2>2
<1>6. ASSUME NEW d \in Calls, Pooled(d)', call'[d].at \in InLine
      PROVE  \E i \in DOMAIN queue' : queue'[i] = d
    <2>1. CASE d = c
        BY <2>1, <1>6, <1>1, <1>5 DEF Pooled, SourceOf, InLine, Connecting
    <2>2. CASE d # c
        <3>1. \E i \in DOMAIN queue : queue[i] = d
            BY <2>2, <1>6, <1>1 DEF Pooled, SourceOf, TurnInv
        <3> QED BY <3>1, <1>5
    <2> QED BY <2>1, <2>2
<1> QED BY <1>4, <1>5, <1>6 DEF TurnInv

\* A step that stays with the lock, or had nothing to do with it.
LEMMA ProceedInTurn ==
    ASSUME IInv, NEW c \in Calls, Proceed(c)
    PROVE  TurnStep(c)
<1>t. /\ call[c] \in CallRecord /\ call \in [Calls -> CallRecord] /\ transport \in [Transports -> Channel]
      /\ Transports = Calls
    BY CallType, NoneApart DEF IInv, Typed
<1>f. \A result : /\ Finished(c, result).source = call[c].source /\ Finished(c, result).job = call[c].job
                  /\ Finished(c, result).at = IF call[c].job = "list" THEN "close" ELSE "ended"
    BY <1>t DEF Finished, CallRecord
<1>a. \A kind : /\ Aborted(c, kind).source = call[c].source /\ Aborted(c, kind).job = call[c].job
                /\ Aborted(c, kind).at = "close"
    BY <1>t DEF Aborted, CallRecord
<1>1. CASE CreateTransient(c) \/ CreateSingleton(c)
    <2>1. /\ call[c].at = "lock" /\ queue' = queue
          /\ call' = [call EXCEPT ![c] = [call[c] EXCEPT !.at = "spawn", !.on = c]]
        BY <1>1 DEF CreateTransient, CreateSingleton, Make
    <2> QED BY <1>t, <2>1 DEF TurnStep, InLine, CallRecord
<1>2. CASE Spawn(c) \/ SpawnFails(c) \/ Disconnect(c)
    <2>1. /\ call[c].at \in {"spawn", "close"}
          /\ \A d \in Calls \ {c} : call'[d] = call[d]
          /\ call'[c].source = call[c].source /\ call'[c].job = call[c].job
          /\ \/ queue' = queue /\ call'[c].at = "init"
             \/ queue' = Released(c) /\ call'[c].at = "ended"
        <3>1. CASE Spawn(c)
            BY <3>1, <1>t DEF Spawn, CallRecord
        <3>2. CASE SpawnFails(c)
            <4>1. /\ call[c].at = "spawn" /\ queue' = Released(c)
                  /\ call' = [call EXCEPT ![c] = [call[c] EXCEPT !.at = "ended", !.result = Because("failed")]]
                BY <3>2 DEF SpawnFails
            <4> QED BY <4>1, <1>t DEF CallRecord
        <3>3. CASE Disconnect(c)
            BY <3>3, <1>t DEF Disconnect, CallRecord
        <3> QED BY <1>2, <3>1, <3>2, <3>3
    <2> QED BY <2>1 DEF TurnStep, InLine, Connecting
<1>3. CASE TimeOut(c) \/ Lose(c)
    <2>1. PICK kind : call' = [call EXCEPT ![c] = IF call[c].at = "init" THEN Aborted(c, kind)
                                                   ELSE Finished(c, Because(kind))]
        BY <1>3 DEF TimeOut, Lose
    <2>2. /\ call[c].at \in {"init", "call"} /\ queue' = queue
        BY <1>3 DEF TimeOut, Lose
    <2>3. /\ \A d \in Calls \ {c} : call'[d] = call[d]
          /\ call'[c].source = call[c].source /\ call'[c].job = call[c].job
          /\ call'[c].at \in {"close", "ended"}
          /\ call[c].at = "call" /\ call[c].job # "list" => call'[c].at = "ended"
        BY <1>t, <1>f, <1>a, <2>1, <2>2
    <2> QED BY <2>2, <2>3 DEF TurnStep, InLine, Connecting, Pooled
<1>4. CASE Read(c)
    <2>1. PICK result : call' = [call EXCEPT ![c] = Finished(c, result)]
        BY <1>4 DEF Read
    <2>2. call[c].at = "call" /\ queue' = queue
        BY <1>4 DEF Read
    <2>3. /\ \A d \in Calls \ {c} : call'[d] = call[d]
          /\ call'[c].source = call[c].source /\ call'[c].job = call[c].job
          /\ call'[c].at \in {"close", "ended"}
          /\ call[c].job # "list" => call'[c].at = "ended"
        BY <1>t, <1>f, <2>1
    <2> QED BY <2>2, <2>3 DEF TurnStep, InLine, Connecting, Pooled
<1>r. ASSUME NEW t \in Transports, NEW tr \in Channel, Request(c, t, tr),
             call[c].at \in {"lock", "init"}, queue' = Released(c)
      PROVE  TurnStep(c)
    <2>1. PICK r \in CallRecord, k \in Channel :
             /\ call' = [call EXCEPT ![c] = r]
             /\ transport' = [transport EXCEPT ![t] = k]
             /\ k.process = tr.process
             /\ r.source = call[c].source /\ r.job = call[c].job /\ r.on = t
             /\ r.at \in {"call", IF call[c].job = "list" THEN "close" ELSE "ended"}
             /\ overlapped' \subseteq Transports
        BY <1>r, RequestStep
    <2> QED BY <1>r, <1>t, <2>1 DEF TurnStep, InLine, Connecting, Pooled
<1>5. CASE ReusePooled(c)
    <2> DEFINE t == pool[SourceOf(c)]
    <2>1. /\ call[c].at = "lock" /\ Pooled(c) /\ Holds(c) /\ t # None
          /\ Request(c, t, transport[t]) /\ queue' = Tail(queue)
        BY <1>5 DEF ReusePooled, HasConnected
    <2>2. t \in Transports /\ transport[t] \in Channel /\ queue' = Released(c)
        BY <2>1 DEF IInv, Typed, Pooled, Released
    <2> HIDE DEF t
    <2> QED BY <2>1, <2>2, <1>r
<1>6. CASE Initialized(c)
    <2>1. call[c].at = "init" /\ call[c].on = c /\ c \in Transports /\ transport[c] \in Channel
        BY <1>6, <1>t DEF Initialized, IInv, OwnInv, OwnAt, Connecting
    <2>2. PICK i \in Readable(c, c, Initialize) :
             Request(c, c, [transport[c] EXCEPT !.out = RemoveAt(@, i)])
        BY <1>6, <2>1 DEF Initialized
    <2>3. i \in DOMAIN transport[c].out /\ transport[c].out \in Seq(Line)
        BY <2>1, <2>2 DEF Readable, Channel
    <2>4. RemoveAt(transport[c].out, i) \in Seq(Line)
        BY <2>3, RemoveAtType
    <2>5. [transport[c] EXCEPT !.out = RemoveAt(@, i)] \in Channel
        BY <2>1, <2>4 DEF Channel
    <2>6. queue' = Released(c)
        BY <1>6 DEF Initialized
    <2> QED BY <2>1, <2>2, <2>5, <2>6, <1>r
<1> QED BY <1>1, <1>2, <1>3, <1>4, <1>5, <1>6 DEF Proceed

LEMMA TurnSteps == (IInv /\ TurnInv) /\ [Next]_vars => TurnInv'
<1> SUFFICES ASSUME IInv, TurnInv, [Next]_vars PROVE TurnInv'
    OBVIOUS
<1>1. ASSUME NEW c \in Calls, NEW s \in Sources, NEW job \in Jobs,
             Arrive(c, s, job) \/ Unresolved(c, s, job)
      PROVE  TurnInv'
    BY <1>1, ArriveInTurn
<1>2. ASSUME NEW c \in Calls, Proceed(c)
      PROVE  TurnInv'
    BY <1>2, ProceedInTurn, TurnKeeps
<1>3. CASE UNCHANGED <<queue, call>>
    BY <1>3 DEF TurnInv, Pooled, SourceOf
<1>4. ASSUME NEW t \in Transports, Answer(t) \/ Notify(t) \/ Exit(t) \/ Reap(t)
      PROVE  UNCHANGED <<queue, call>>
    <2>1. Answer(t) => UNCHANGED <<queue, call>>
        BY Zenon DEF Answer
    <2>2. Notify(t) => UNCHANGED <<queue, call>>
        BY Zenon DEF Notify
    <2>3. Exit(t) \/ Reap(t) => UNCHANGED <<queue, call>>
        BY Zenon DEF Exit, Reap
    <2> QED BY <1>4, <2>1, <2>2, <2>3
<1>5. UNCHANGED vars => UNCHANGED <<queue, call>>
    BY DEF vars
<1> QED BY <1>1, <1>2, <1>3, <1>4, <1>5 DEF Next

(* The lock's queue is exactly the calls that wait for it, connect under it *)
(* or clean up, in the order of arrival (asyncio.Lock, _pool_lock).         *)
THEOREM LockInTurn == Spec => []ServedInTurn
<1>1. Init => TurnInv
    <2> SUFFICES ASSUME Init PROVE TurnInv
        OBVIOUS
    <2>1. queue = <<>> /\ \A c \in Calls : call[c].at = "new"
        BY DEF Init, NewCall
    <2> QED BY <2>1 DEF TurnInv, InLine, Connecting
<1>2. Spec => []TurnInv
    BY <1>1, TurnSteps, PoolConsistent, PTL DEF Spec
<1>3. IInv /\ TurnInv => ServedInTurn
    <2> SUFFICES ASSUME IInv, TurnInv PROVE ServedInTurn
        OBVIOUS
    <2>1. ASSUME NEW c
          PROVE  (\E i \in DOMAIN queue : queue[i] = c)
                 <=> c \in Calls /\ Pooled(c) /\ call[c].at \in {"lock", "spawn", "init", "close"}
        <3>1. ASSUME NEW i \in DOMAIN queue, queue[i] = c
              PROVE  c \in Calls /\ Pooled(c) /\ call[c].at \in {"lock", "spawn", "init", "close"}
            BY <3>1 DEF IInv, LockInv, Typed, Connecting
        <3>2. ASSUME c \in Calls, Pooled(c), call[c].at \in {"lock", "spawn", "init", "close"}
              PROVE  \E i \in DOMAIN queue : queue[i] = c
            BY <3>2 DEF TurnInv, InLine, Connecting
        <3> QED BY <3>1, <3>2
    <2>2. ToSet(queue) = {c \in Calls : Pooled(c) /\ call[c].at \in {"lock", "spawn", "init", "close"}}
        BY <2>1 DEF ToSet
    <2> QED BY <2>2 DEF TurnInv, ServedInTurn
<1> QED BY <1>2, <1>3, PoolConsistent, PTL

(* A call that waits for the lock waits behind an earlier one that holds it *)
(* and is still at work: no path of a failed connect loses the lock.        *)
THEOREM LockNeverLost == Spec => []LockHeldByEarlier
<1>1. IInv /\ ServedInTurn => LockHeldByEarlier
    <2> SUFFICES ASSUME IInv, ServedInTurn, NEW c \in Calls, Pooled(c), call[c].at = "lock"
                 PROVE  \E d \in 1 .. c : Holds(d) /\ call[d].at \in {"lock", "spawn", "init", "close"}
        BY DEF LockHeldByEarlier
    <2>1. PICK i \in DOMAIN queue : queue[i] = c
        BY DEF ServedInTurn, ToSet
    <2>2. queue \in Seq(Calls) /\ c \in Nat
        BY NoneApart DEF IInv, Typed
    <2>3. queue # <<>> /\ 1 \in DOMAIN queue /\ Head(queue) = queue[1] /\ i \in 1 .. Len(queue)
        BY <2>1, <2>2
    <2>4. queue[1] <= c /\ queue[1] \in 1 .. c
        <3>1. CASE i = 1
            BY <2>1, <2>2, <3>1 DEF Calls
        <3>2. CASE i # 1
            <4>1. queue[1] < queue[i] /\ queue[1] \in Calls
                BY <2>2, <2>3, <3>2 DEF ServedInTurn
            <4> QED BY <2>1, <2>2, <4>1 DEF Calls
        <3> QED BY <3>1, <3>2
    <2>5. call[queue[1]].at \in {"lock", "spawn", "init", "close"}
        BY <2>3 DEF IInv, LockInv, Connecting
    <2> QED BY <2>3, <2>4, <2>5 DEF Holds
<1> QED BY <1>1, LockInTurn, PoolConsistent, PTL

-----------------------------------------------------------------------------
(* Calls only go forward. *)

\* Where a call may be after a step of its own.
After(at) ==
    CASE at = "new"   -> {"lock", "ended"}
      [] at = "lock"  -> {"spawn", "call", "close", "ended"}
      [] at = "spawn" -> {"init", "ended"}
      [] at = "init"  -> {"call", "close", "ended"}
      [] at = "call"  -> {"close", "ended"}
      [] at = "close" -> {"ended"}
      [] OTHER        -> {}

GoesOn(c) ==
    /\ \A d \in Calls \ {c} : call'[d] = call[d]
    /\ call'[c].at \in After(call[c].at)

LEMMA ArriveGoesOn ==
    ASSUME IInv, NEW c \in Calls, NEW s \in Sources, NEW job \in Jobs,
           Arrive(c, s, job) \/ Unresolved(c, s, job)
    PROVE  GoesOn(c)
<1>1. /\ call[c].at = "new"
      /\ \A d \in Calls \ {c} : call'[d] = call[d]
      /\ call'[c].at \in {"lock", "ended"}
    BY CallType DEF Arrive, Unresolved, IInv, Typed, CallRecord
<1> QED BY <1>1 DEF GoesOn, After

LEMMA ProceedGoesOn ==
    ASSUME IInv, NEW c \in Calls, Proceed(c)
    PROVE  GoesOn(c)
<1>t. /\ call[c] \in CallRecord /\ call \in [Calls -> CallRecord] /\ transport \in [Transports -> Channel]
      /\ Transports = Calls
    BY CallType, NoneApart DEF IInv, Typed
<1>f. /\ \A result : Finished(c, result).at \in {"close", "ended"}
      /\ \A kind : Aborted(c, kind).at = "close"
    BY <1>t DEF Finished, Aborted, CallRecord
<1>p. ASSUME NEW r, call' = [call EXCEPT ![c] = r], r.at \in After(call[c].at)
      PROVE  GoesOn(c)
    BY <1>t, <1>p DEF GoesOn
<1>1. CASE CreateTransient(c) \/ CreateSingleton(c)
    <2> DEFINE r == [call[c] EXCEPT !.at = "spawn", !.on = c]
    <2>1. call[c].at = "lock" /\ call' = [call EXCEPT ![c] = r]
        BY <1>1 DEF CreateTransient, CreateSingleton, Make
    <2>2. r.at = "spawn"
        BY <1>t DEF CallRecord
    <2> HIDE DEF r
    <2> QED BY <1>p, <2>1, <2>2 DEF After
<1>2. CASE Spawn(c)
    <2>1. call[c].at = "spawn" /\ call' = [call EXCEPT ![c].at = "init"]
        BY <1>2 DEF Spawn
    <2> QED BY <1>t, <2>1 DEF GoesOn, After, CallRecord
<1>3. CASE SpawnFails(c)
    <2> DEFINE r == [call[c] EXCEPT !.at = "ended", !.result = Because("failed")]
    <2>1. call[c].at = "spawn" /\ call' = [call EXCEPT ![c] = r]
        BY <1>3 DEF SpawnFails
    <2>2. r.at = "ended"
        BY <1>t DEF CallRecord
    <2> HIDE DEF r
    <2> QED BY <1>p, <2>1, <2>2 DEF After
<1>4. CASE Disconnect(c)
    <2>1. call[c].at = "close" /\ call' = [call EXCEPT ![c].at = "ended"]
        BY <1>4 DEF Disconnect
    <2> QED BY <1>t, <2>1 DEF GoesOn, After, CallRecord
<1>5. CASE TimeOut(c) \/ Lose(c)
    <2>1. PICK kind : call' = [call EXCEPT ![c] = IF call[c].at = "init" THEN Aborted(c, kind)
                                                   ELSE Finished(c, Because(kind))]
        BY <1>5 DEF TimeOut, Lose
    <2>2. call[c].at \in {"init", "call"}
        BY <1>5 DEF TimeOut, Lose
    <2>3. CASE call[c].at = "init"
        BY <1>f, <1>p, <2>1, <2>3 DEF After
    <2>4. CASE call[c].at = "call"
        BY <1>f, <1>p, <2>1, <2>4 DEF After
    <2> QED BY <2>2, <2>3, <2>4
<1>6. CASE Read(c)
    <2>1. PICK result : call' = [call EXCEPT ![c] = Finished(c, result)]
        BY <1>6 DEF Read
    <2>2. call[c].at = "call"
        BY <1>6 DEF Read
    <2> QED BY <1>f, <1>p, <2>1, <2>2 DEF After
<1>r. ASSUME NEW t \in Transports, NEW tr \in Channel, Request(c, t, tr),
             call[c].at \in {"lock", "init"}
      PROVE  GoesOn(c)
    <2>1. PICK r \in CallRecord, k \in Channel :
             /\ call' = [call EXCEPT ![c] = r]
             /\ transport' = [transport EXCEPT ![t] = k]
             /\ k.process = tr.process
             /\ r.source = call[c].source /\ r.job = call[c].job /\ r.on = t
             /\ r.at \in {"call", IF call[c].job = "list" THEN "close" ELSE "ended"}
             /\ overlapped' \subseteq Transports
        BY <1>r, RequestStep
    <2> QED BY <1>r, <1>p, <2>1 DEF After
<1>7. CASE ReusePooled(c)
    <2> DEFINE t == pool[SourceOf(c)]
    <2>1. /\ call[c].at = "lock" /\ Pooled(c) /\ t # None
          /\ Request(c, t, transport[t])
        BY <1>7 DEF ReusePooled, HasConnected
    <2>2. t \in Transports /\ transport[t] \in Channel
        BY <2>1 DEF IInv, Typed, Pooled
    <2> HIDE DEF t
    <2> QED BY <2>1, <2>2, <1>r
<1>8. CASE Initialized(c)
    <2>1. call[c].at = "init" /\ call[c].on = c /\ c \in Transports /\ transport[c] \in Channel
        BY <1>8, <1>t DEF Initialized, IInv, OwnInv, OwnAt, Connecting
    <2>2. PICK i \in Readable(c, c, Initialize) :
             Request(c, c, [transport[c] EXCEPT !.out = RemoveAt(@, i)])
        BY <1>8, <2>1 DEF Initialized
    <2>3. i \in DOMAIN transport[c].out /\ transport[c].out \in Seq(Line)
        BY <2>1, <2>2 DEF Readable, Channel
    <2>4. RemoveAt(transport[c].out, i) \in Seq(Line)
        BY <2>3, RemoveAtType
    <2>5. [transport[c] EXCEPT !.out = RemoveAt(@, i)] \in Channel
        BY <2>1, <2>4 DEF Channel
    <2> QED BY <2>1, <2>2, <2>5, <1>r
<1> QED BY <1>1, <1>2, <1>3, <1>4, <1>5, <1>6, <1>7, <1>8 DEF Proceed

(* Every step of a call leaves it fewer steps, of at most six; once it has  *)
(* ended nothing touches it or its result: no call is retried, and none is  *)
(* answered twice (execute, fetch_and_normalize).                           *)
THEOREM CallsGoForward == Spec => CallsAdvance
<1>1. ASSUME IInv, [Next]_vars
      PROVE  [\A c \in Calls : call'[c] # call[c] => StepsLeft(c)' < StepsLeft(c)]_vars
    <2> SUFFICES ASSUME NEW c \in Calls, call'[c] # call[c]
                 PROVE  StepsLeft(c)' < StepsLeft(c)
        BY <1>1
    <2>1. ASSUME NEW d \in Calls, GoesOn(d)
          PROVE  d = c
        BY <2>1 DEF GoesOn
    <2>2. ASSUME NEW t \in Transports, Answer(t) \/ Notify(t) \/ Exit(t) \/ Reap(t)
          PROVE  FALSE
        <3>1. Answer(t) => call' = call
            BY Zenon DEF Answer
        <3>2. Notify(t) => call' = call
            BY Zenon DEF Notify
        <3>3. Exit(t) \/ Reap(t) => call' = call
            BY Zenon DEF Exit, Reap
        <3> QED BY <2>2, <3>1, <3>2, <3>3
    <2>3. ~UNCHANGED vars
        BY DEF vars
    <2>4. \E d \in Calls : GoesOn(d)
        BY <1>1, <2>2, <2>3, ArriveGoesOn, ProceedGoesOn DEF Next
    <2>5. call'[c].at \in After(call[c].at)
        BY <2>1, <2>4 DEF GoesOn
    <2>6. /\ call[c].at \in {"new", "lock", "spawn", "init", "call", "close"}
          /\ call[c].at = "new" => call'[c].at \in {"lock", "ended"}
          /\ call[c].at = "lock" => call'[c].at \in {"spawn", "call", "close", "ended"}
          /\ call[c].at = "spawn" => call'[c].at \in {"init", "ended"}
          /\ call[c].at = "init" => call'[c].at \in {"call", "close", "ended"}
          /\ call[c].at = "call" => call'[c].at \in {"close", "ended"}
          /\ call[c].at = "close" => call'[c].at = "ended"
        BY <2>5 DEF After
    <2>7. CASE call[c].at \in {"new", "lock"}
        BY <2>6, <2>7 DEF StepsLeft
    <2>8. CASE call[c].at \in {"spawn", "init"}
        BY <2>6, <2>8 DEF StepsLeft
    <2>9. CASE call[c].at \in {"call", "close"}
        BY <2>6, <2>9 DEF StepsLeft
    <2> QED BY <2>6, <2>7, <2>8, <2>9
<1> QED BY PoolConsistent, <1>1, PTL DEF Spec, CallsAdvance

(* The types are right, the lock is taken in turn, and while a transport    *)
(* connects nobody else reads from it.                                      *)
THEOREM McpTypeCorrect == Spec => []TypeOK
<1>1. ASSUME IInv, ServedInTurn
      PROVE  TypeOK
    <2>1. ASSUME NEW c \in Calls, call[c].at = "init"
          PROVE  Readers(call[c].on) = {c}
        <3>1. call[c].on = c /\ c # None
            BY <1>1, <2>1, NoneApart DEF IInv, OwnInv, OwnAt, Connecting
        <3>2. \A d \in Calls \ {c} : call[d].on # c
            BY <1>1, <2>1, <3>1 DEF IInv, OwnInv, OwnAt
        <3> QED BY <2>1, <3>1, <3>2 DEF Readers
    <2> QED BY <1>1, <2>1 DEF IInv, Typed, LockInv, TypeOK, CallRecord, Channel
<1> QED BY <1>1, PoolConsistent, LockInTurn, PTL

(* A singleton source has at most one server process for its calls, however *)
(* calls, deaths and time-outs interleave, for any number of calls.         *)
THEOREM OneServer == Spec => []OneServerPerSource
<1>1. ASSUME IInv
      PROVE  OneServerPerSource
    <2> SUFFICES ASSUME NEW t \in Transports, NEW u \in Transports,
                        transport[t].process = "running", transport[u].process = "running",
                        Pooled(t), Pooled(u), SourceOf(t) = SourceOf(u)
                 PROVE  t = u
        BY DEF OneServerPerSource
    <2>1. IsConnected(t) /\ IsConnected(u)
        BY DEF IsConnected
    <2>2. t \in Calls /\ u \in Calls /\ t # None /\ u # None
        BY NoneApart
    <2>3. /\ pool[SourceOf(t)] = t \/ (call[t].at \in Connecting /\ pool[SourceOf(t)] = None /\ Holds(t))
          /\ pool[SourceOf(u)] = u \/ (call[u].at \in Connecting /\ pool[SourceOf(u)] = None /\ Holds(u))
        BY <1>1, <2>1, <2>2 DEF IInv, PoolInv, LockInv, Connecting
    <2> QED BY <2>2, <2>3 DEF Holds
<1> QED BY <1>1, PoolConsistent, PTL

(* A running process is in the pool, serves a call, or is the one that      *)
(* execute left behind for a transient source; no failed handshake and no   *)
(* listing leaves one.                                                      *)
THEOREM NoProcessLost == Spec => []ProcessesOwned
<1>1. ASSUME IInv
      PROVE  ProcessesOwned
    <2> SUFFICES ASSUME NEW t \in Transports, transport[t].process = "running",
                        call[t].at = "ended", ~(call[t].job = "tool" /\ SourceOf(t) \notin Singletons)
                 PROVE  \E s \in Singletons : pool[s] = t
        BY DEF ProcessesOwned
    <2>1. t \in Calls /\ call[t].job \in Jobs /\ IsConnected(t)
        BY <1>1, NoneApart, CallType DEF IsConnected
    <2>2. call[t].job # "list"
        BY <1>1, <2>1 DEF IInv, OwnInv, OwnAt
    <2>3. Pooled(t) /\ SourceOf(t) \in Singletons
        BY <2>1, <2>2 DEF Jobs, Pooled
    <2>4. pool[SourceOf(t)] = t
        BY <1>1, <2>1, <2>3 DEF IInv, PoolInv
    <2> QED BY <2>3, <2>4
<1> QED BY <1>1, PoolConsistent, PTL
-----------------------------------------------------------------------------
(* Whose answers are read.  A request, then its answer, is once in the     *)
(* pipes of the transport it was sent over, until some call has read it    *)
(* (PipeAt, TokensAt, ResultAt); as long as nothing has put the transport  *)
(* out of step, what is in its pipes belongs to the one call that waits    *)
(* (StepAt).  The answer to the handshake is treated like the others, but  *)
(* that it can stay in the pipes only of a misled transport.               *)

AnswerTo(d) == [kind |-> "answer", of |-> d]

\* The pipes of channel k have the request of d, or its answer.
Bears(k, d) ==
    \/ \E i \in DOMAIN k.inbox : k.inbox[i] = d
    \/ \E i \in DOMAIN k.out : k.out[i] = AnswerTo(d)

\* No request is there twice, nor together with its answer.
Once(k) ==
    /\ \A i, j \in DOMAIN k.inbox : k.inbox[i] = k.inbox[j] => i = j
    /\ \A i, j \in DOMAIN k.out : k.out[i].kind = "answer" /\ k.out[i] = k.out[j] => i = j
    /\ \A i \in DOMAIN k.inbox, j \in DOMAIN k.out : k.out[j] # AnswerTo(k.inbox[i])

\* What the pipes can have during the handshake: its request or its answer, and
\* messages nobody asked for.
Handshake(k) ==
    /\ \A i \in DOMAIN k.inbox : k.inbox[i] = Initialize
    /\ \A i \in DOMAIN k.out : k.out[i].kind = "note" \/ k.out[i] = AnswerTo(Initialize)

Asked == {Initialize} \cup Calls

Sent == {"call", "close", "ended"}
Serving == {"call", "ended"}

\* What AnswersAccountedFor accepts as the reason for a wrong answer.
Excused(t) ==
    \/ t \in overlapped \cup misled
    \/ \E d \in Calls : call[d].on = t /\ call[d].result.kind \in {"timeout", "note", "overlong"}

PipeAt(t) ==
    /\ Once(transport[t])
    /\ transport[t].process # "running" => transport[t].inbox = <<>>
    /\ transport[t].process = "none" => transport[t].out = <<>>
    /\ call[t].at = "init" => Handshake(transport[t])
    /\ call[t].at \in Serving /\ t \notin misled => ~Bears(transport[t], Initialize)

TokensAt(t) ==
    \A d \in Calls : Bears(transport[t], d) => call[d].on = t /\ call[d].at \in Sent

\* One call waits at most, and what is in the pipes is for it.
InStep(t) ==
    /\ \A c, d \in Calls :
          /\ call[c].on = t /\ call[c].at = "call"
          /\ call[d].on = t /\ call[d].at = "call"
          => c = d
    /\ \A d \in Calls : Bears(transport[t], d) => call[d].at = "call"
    /\ \A i \in DOMAIN transport[t].out : transport[t].out[i].kind # "rest"

StepAt(t) == call[t].at \in Serving /\ ~Remote(t) /\ ~Excused(t) => InStep(t)

\* An answer that was read was asked for over the same transport, is not in its
\* pipes any more and was given to nobody else.
Accounted(c, e) ==
    /\ call[c].on # None
    /\ IF e = Initialize THEN call[c].on \in misled
                         ELSE call[e].on = call[c].on /\ call[e].at \in Sent
    /\ ~Bears(transport[call[c].on], e)
    /\ \A d \in Calls \ {c} : call[d].on = call[c].on => call[d].result # AnswerTo(e)
    /\ e # c => ~Remote(c) /\ Excused(call[c].on)

ResultAt(c) ==
    /\ call[c].at \notin {"close", "ended"} => call[c].result = Because("none")
    /\ call[c].result.kind = "answer" =>
          \E e \in Asked : call[c].result = AnswerTo(e) /\ Accounted(c, e)

SourceAt(c) == call[c].on # None => SourceOf(call[c].on) = SourceOf(c)

AnswerInv ==
    \A t \in Calls : PipeAt(t) /\ TokensAt(t) /\ StepAt(t) /\ ResultAt(t) /\ SourceAt(t)

AInv == IInv /\ AnswerInv

-----------------------------------------------------------------------------
(* Pipes. *)

LEMMA Moved ==
    ASSUME NEW i \in Int, NEW j \in Int, NEW n \in Int, ~(j < i), j <= n - 1
    PROVE  ~(j <= i - 1) /\ j - (i - 1) \in 1 .. n - i /\ i + (j - (i - 1)) = j + 1
OBVIOUS

(* Where the elements that are left by RemoveAt were. *)
LEMMA RemoveAtElements ==
    ASSUME NEW S, NEW s \in Seq(S), NEW i \in DOMAIN s
    PROVE  /\ Len(RemoveAt(s, i)) = Len(s) - 1
           /\ DOMAIN RemoveAt(s, i) = 1 .. Len(s) - 1
           /\ \A j \in 1 .. Len(s) - 1 :
                 RemoveAt(s, i)[j] = s[IF j < i THEN j ELSE j + 1]
<1> DEFINE a == SubSeq(s, 1, i - 1)
           b == SubSeq(s, i + 1, Len(s))
<1>1. i \in 1 .. Len(s) /\ Len(s) \in Nat
    OBVIOUS
<1>2. a \in Seq(S) /\ Len(a) = i - 1 /\ \A j \in 1 .. i - 1 : a[j] = s[j]
    BY <1>1, SubSeqProperties
<1>3. b \in Seq(S) /\ Len(b) = Len(s) - i /\ \A j \in 1 .. Len(s) - i : b[j] = s[i + j]
    BY <1>1, SubSeqProperties
<1>4. RemoveAt(s, i) = a \o b
    BY DEF RemoveAt
<1> HIDE DEF a, b
<1>5. a \o b \in Seq(S) /\ Len(a \o b) = Len(s) - 1
    BY <1>1, <1>2, <1>3, ConcatProperties
<1>6. \A j \in 1 .. Len(s) - 1 : (a \o b)[j] = IF j <= Len(a) THEN a[j] ELSE b[j - Len(a)]
    BY <1>1, <1>2, <1>3, <1>5, ConcatProperties
<1>7. ASSUME NEW j \in 1 .. Len(s) - 1
      PROVE  (a \o b)[j] = s[IF j < i THEN j ELSE j + 1]
    <2>1. CASE j < i
        BY <1>1, <1>2, <1>6, <2>1
    <2>2. CASE ~(j < i)
        <3>1. Len(a) = i - 1 /\ i \in Int /\ j \in Int /\ Len(s) \in Int /\ j <= Len(s) - 1
            BY <1>1, <1>2
        <3>2. ~(j <= i - 1) /\ j - (i - 1) \in 1 .. Len(s) - i /\ i + (j - (i - 1)) = j + 1
            BY <3>1, <2>2, Moved
        <3>3. (a \o b)[j] = b[j - (i - 1)]
            BY <1>6, <3>1, <3>2
        <3>4. b[j - (i - 1)] = s[j + 1]
            BY <1>3, <3>2
        <3> QED BY <2>2, <3>3, <3>4
    <2> QED BY <2>1, <2>2
<1> QED BY <1>4, <1>5, <1>7

(* A line that was read is gone, and the others are still there once. *)
LEMMA TakenOut ==
    ASSUME NEW k \in Channel, Once(k), NEW i \in DOMAIN k.out
    PROVE  LET n == [k EXCEPT !.out = RemoveAt(k.out, i)] IN
           /\ n \in Channel /\ Once(n) /\ n.inbox = k.inbox /\ n.process = k.process
           /\ \A e : Bears(n, e) => Bears(k, e)
           /\ \A e : k.out[i] = AnswerTo(e) => ~Bears(n, e)
           /\ \A j \in DOMAIN n.out : \E m \in DOMAIN k.out : n.out[j] = k.out[m]
<1> DEFINE n == [k EXCEPT !.out = RemoveAt(k.out, i)]
           was(j) == IF j < i THEN j ELSE j + 1
<1>1. k.out \in Seq(Line) /\ i \in 1 .. Len(k.out) /\ Len(k.out) \in Nat
    BY DEF Channel
<1>2. RemoveAt(k.out, i) \in Seq(Line)
    BY <1>1, RemoveAtType
<1>3. /\ n \in Channel /\ n.out = RemoveAt(k.out, i)
      /\ n.inbox = k.inbox /\ n.process = k.process
    BY <1>2 DEF Channel
<1>4. /\ DOMAIN n.out = 1 .. Len(k.out) - 1
      /\ \A j \in 1 .. Len(k.out) - 1 : n.out[j] = k.out[was(j)]
    BY <1>1, <1>3, RemoveAtElements
<1>5. \A j \in 1 .. Len(k.out) - 1 : was(j) \in DOMAIN k.out /\ was(j) # i
    BY <1>1
<1>6. \A j, m \in 1 .. Len(k.out) - 1 : was(j) = was(m) => j = m
    BY <1>1
<1> HIDE DEF n, was
<1>7. Once(n)
    <2>1. ASSUME NEW a \in DOMAIN n.out, NEW b \in DOMAIN n.out,
                 n.out[a].kind = "answer", n.out[a] = n.out[b]
          PROVE  a = b
        <3>1. /\ was(a) \in DOMAIN k.out /\ was(b) \in DOMAIN k.out
              /\ n.out[a] = k.out[was(a)] /\ n.out[b] = k.out[was(b)]
            BY <1>4, <1>5
        <3>2. was(a) = was(b)
            BY <2>1, <3>1 DEF Once
        <3> QED BY <1>4, <1>6, <3>2
    <2>2. \A a \in DOMAIN n.inbox, b \in DOMAIN n.out : n.out[b] # AnswerTo(n.inbox[a])
        BY <1>3, <1>4, <1>5 DEF Once
    <2> QED BY <1>3, <2>1, <2>2 DEF Once
<1>8. \A e : Bears(n, e) => Bears(k, e)
    BY <1>3, <1>4, <1>5 DEF Bears
<1>9. ASSUME NEW e, k.out[i] = AnswerTo(e), Bears(n, e)
      PROVE  FALSE
    <2>1. k.out[i].kind = "answer"
        BY <1>9 DEF AnswerTo
    <2>2. CASE \E j \in DOMAIN n.inbox : n.inbox[j] = e
        BY <1>3, <1>9, <2>2 DEF Once
    <2>3. CASE \E j \in DOMAIN n.out : n.out[j] = AnswerTo(e)
        BY <1>1, <1>4, <1>5, <1>9, <2>1, <2>3 DEF Once
    <2> QED BY <1>9, <2>2, <2>3 DEF Bears
<1> QED BY <1>3, <1>4, <1>5, <1>7, <1>8, <1>9 DEF n

(* A line that answers nobody changes nothing at the front ... *)
LEMMA PutInFront ==
    ASSUME NEW k \in Channel, Once(k), NEW line \in Line, line.kind # "answer"
    PROVE  LET n == [k EXCEPT !.out = <<line>> \o k.out] IN
           /\ n \in Channel /\ Once(n) /\ n.inbox = k.inbox /\ n.process = k.process
           /\ \A e : Bears(n, e) => Bears(k, e)
<1> DEFINE n == [k EXCEPT !.out = <<line>> \o k.out]
<1>1. k.out \in Seq(Line) /\ Len(k.out) \in Nat /\ DOMAIN k.out = 1 .. Len(k.out)
    BY DEF Channel
<1>2. <<line>> \in Seq(Line) /\ Len(<<line>>) = 1 /\ <<line>>[1] = line
    OBVIOUS
<1>3. /\ <<line>> \o k.out \in Seq(Line) /\ Len(<<line>> \o k.out) = Len(k.out) + 1
      /\ \A j \in 1 .. Len(k.out) + 1 :
            (<<line>> \o k.out)[j] = IF j <= 1 THEN <<line>>[j] ELSE k.out[j - 1]
    BY <1>1, <1>2, ConcatProperties
<1>4. /\ n \in Channel /\ n.out = <<line>> \o k.out
      /\ n.inbox = k.inbox /\ n.process = k.process
    BY <1>3 DEF Channel
<1>5. /\ DOMAIN n.out = 1 .. Len(k.out) + 1
      /\ n.out[1] = line
      /\ \A j \in 1 .. Len(k.out) + 1 :
            j # 1 => j - 1 \in DOMAIN k.out /\ n.out[j] = k.out[j - 1]
    BY <1>1, <1>2, <1>3, <1>4
<1> HIDE DEF n
<1>6. Once(n)
    <2>1. ASSUME NEW i \in DOMAIN n.out, NEW j \in DOMAIN n.out,
                 n.out[i].kind = "answer", n.out[i] = n.out[j]
          PROVE  i = j
        <3>1. i # 1 /\ j # 1
            BY <1>5, <2>1
        <3>2. /\ i - 1 \in DOMAIN k.out /\ n.out[i] = k.out[i - 1]
              /\ j - 1 \in DOMAIN k.out /\ n.out[j] = k.out[j - 1]
            BY <1>5, <3>1
        <3>3. i - 1 = j - 1
            BY <2>1, <3>2 DEF Once
        <3> QED BY <1>1, <1>5, <3>3
    <2>2. \A i \in DOMAIN n.inbox, j \in DOMAIN n.out : n.out[j] # AnswerTo(n.inbox[i])
        <3>1. \A e : line # AnswerTo(e)
            BY DEF AnswerTo
        <3> QED BY <1>4, <1>5, <3>1 DEF Once
    <2> QED BY <1>4, <2>1, <2>2 DEF Once
<1>7. \A e : Bears(n, e) => Bears(k, e)
    <2>1. \A e : line # AnswerTo(e)
        BY DEF AnswerTo
    <2> QED BY <1>4, <1>5, <2>1 DEF Bears
<1> QED BY <1>4, <1>6, <1>7 DEF n

(* ... nor at the end. *)
LEMMA PutBehind ==
    ASSUME NEW k \in Channel, Once(k), NEW line \in Line,
           \A e : line = AnswerTo(e) => ~Bears(k, e)
    PROVE  LET n == [k EXCEPT !.out = Append(k.out, line)] IN
           /\ n \in Channel /\ Once(n) /\ n.inbox = k.inbox /\ n.process = k.process
           /\ \A e : Bears(n, e) => Bears(k, e) \/ line = AnswerTo(e)
           /\ \A j \in DOMAIN n.out : n.out[j] = line \/ \E m \in DOMAIN k.out : n.out[j] = k.out[m]
<1> DEFINE n == [k EXCEPT !.out = Append(k.out, line)]
<1>1. k.out \in Seq(Line) /\ Len(k.out) \in Nat /\ DOMAIN k.out = 1 .. Len(k.out)
    BY DEF Channel
<1>2. /\ n \in Channel /\ n.out = Append(k.out, line)
      /\ n.inbox = k.inbox /\ n.process = k.process
    BY <1>1, AppendProperties DEF Channel
<1>3. /\ DOMAIN n.out = 1 .. Len(k.out) + 1
      /\ n.out[Len(k.out) + 1] = line
      /\ \A j \in 1 .. Len(k.out) : n.out[j] = k.out[j]
    BY <1>1, <1>2, AppendProperties
<1> HIDE DEF n
<1>4. \A j \in DOMAIN n.out : j = Len(k.out) + 1 \/ j \in DOMAIN k.out
    BY <1>1, <1>3
<1>5. line.kind = "answer" => line = AnswerTo(line.of)
    BY DEF Line, AnswerTo
<1>6. Once(n)
    <2>1. ASSUME NEW i \in DOMAIN n.out, NEW j \in DOMAIN n.out,
                 n.out[i].kind = "answer", n.out[i] = n.out[j]
          PROVE  i = j
        <3>1. ASSUME NEW m \in DOMAIN k.out
              PROVE  k.out[m] = line => line.kind # "answer"
            <4>1. k.out[m] = AnswerTo(line.of) => Bears(k, line.of)
                BY DEF Bears
            <4> QED BY <1>5, <4>1
        <3>2. i \in DOMAIN k.out /\ j \in DOMAIN k.out => i = j
            BY <1>1, <1>3, <2>1 DEF Once
        <3> QED BY <1>1, <1>3, <1>4, <2>1, <3>1, <3>2
    <2>2. \A i \in DOMAIN n.inbox, j \in DOMAIN n.out : n.out[j] # AnswerTo(n.inbox[i])
        BY <1>1, <1>2, <1>3, <1>4 DEF Once, Bears
    <2> QED BY <1>2, <2>1, <2>2 DEF Once
<1>7. \A e : Bears(n, e) => Bears(k, e) \/ line = AnswerTo(e)
    BY <1>1, <1>2, <1>3, <1>4 DEF Bears
<1> QED BY <1>1, <1>2, <1>3, <1>4, <1>6, <1>7 DEF n

(* A request is taken from the inbox ... *)
LEMMA TakenIn ==
    ASSUME NEW k \in Channel, Once(k), NEW i \in DOMAIN k.inbox
    PROVE  LET n == [k EXCEPT !.inbox = RemoveAt(k.inbox, i)] IN
           /\ n \in Channel /\ Once(n) /\ n.out = k.out /\ n.process = k.process
           /\ \A e : Bears(n, e) => Bears(k, e)
           /\ ~Bears(n, k.inbox[i])
<1> DEFINE n == [k EXCEPT !.inbox = RemoveAt(k.inbox, i)]
           was(j) == IF j < i THEN j ELSE j + 1
<1>1. k.inbox \in Seq({Initialize} \cup Calls) /\ i \in 1 .. Len(k.inbox) /\ Len(k.inbox) \in Nat
    BY DEF Channel
<1>2. RemoveAt(k.inbox, i) \in Seq({Initialize} \cup Calls)
    BY <1>1, RemoveAtType
<1>3. /\ n \in Channel /\ n.inbox = RemoveAt(k.inbox, i)
      /\ n.out = k.out /\ n.process = k.process
    BY <1>2 DEF Channel
<1>4. /\ DOMAIN n.inbox = 1 .. Len(k.inbox) - 1
      /\ \A j \in 1 .. Len(k.inbox) - 1 : n.inbox[j] = k.inbox[was(j)]
    BY <1>1, <1>3, RemoveAtElements
<1>5. \A j \in 1 .. Len(k.inbox) - 1 : was(j) \in DOMAIN k.inbox /\ was(j) # i
    BY <1>1
<1>6. \A j, m \in 1 .. Len(k.inbox) - 1 : was(j) = was(m) => j = m
    BY <1>1
<1> HIDE DEF n, was
<1>7. Once(n)
    <2>1. ASSUME NEW a \in DOMAIN n.inbox, NEW b \in DOMAIN n.inbox, n.inbox[a] = n.inbox[b]
          PROVE  a = b
        <3>1. /\ was(a) \in DOMAIN k.inbox /\ was(b) \in DOMAIN k.inbox
              /\ n.inbox[a] = k.inbox[was(a)] /\ n.inbox[b] = k.inbox[was(b)]
            BY <1>4, <1>5
        <3>2. was(a) = was(b)
            BY <2>1, <3>1 DEF Once
        <3> QED BY <1>4, <1>6, <3>2
    <2>2. \A a \in DOMAIN n.inbox, b \in DOMAIN n.out : n.out[b] # AnswerTo(n.inbox[a])
        BY <1>3, <1>4, <1>5 DEF Once
    <2> QED BY <1>3, <2>1, <2>2 DEF Once
<1>8. \A e : Bears(n, e) => Bears(k, e)
    BY <1>3, <1>4, <1>5 DEF Bears
<1>9. ~Bears(n, k.inbox[i])
    BY <1>3, <1>4, <1>5 DEF Once, Bears
<1> QED BY <1>3, <1>7, <1>8, <1>9 DEF n

(* ... and a new one put into it. *)
LEMMA PutIn ==
    ASSUME NEW k \in Channel, Once(k), NEW c \in Calls, ~Bears(k, c)
    PROVE  LET n == [k EXCEPT !.inbox = Append(k.inbox, c)] IN
           /\ n \in Channel /\ Once(n) /\ n.out = k.out /\ n.process = k.process
           /\ \A e : Bears(n, e) => Bears(k, e) \/ e = c
<1> DEFINE n == [k EXCEPT !.inbox = Append(k.inbox, c)]
<1>1. /\ k.inbox \in Seq({Initialize} \cup Calls) /\ Len(k.inbox) \in Nat
      /\ DOMAIN k.inbox = 1 .. Len(k.inbox)
    BY DEF Channel
<1>2. /\ n \in Channel /\ n.inbox = Append(k.inbox, c)
      /\ n.out = k.out /\ n.process = k.process
    BY <1>1, AppendProperties DEF Channel
<1>3. /\ DOMAIN n.inbox = 1 .. Len(k.inbox) + 1
      /\ n.inbox[Len(k.inbox) + 1] = c
      /\ \A j \in 1 .. Len(k.inbox) : n.inbox[j] = k.inbox[j]
    BY <1>1, <1>2, AppendProperties
<1> HIDE DEF n
<1>4. \A j \in DOMAIN n.inbox : j = Len(k.inbox) + 1 \/ j \in DOMAIN k.inbox
    BY <1>1, <1>3
<1>5. Once(n)
    <2>1. \A i, j \in DOMAIN n.inbox : n.inbox[i] = n.inbox[j] => i = j
        BY <1>1, <1>3, <1>4 DEF Once, Bears
    <2>2. \A i \in DOMAIN n.inbox, j \in DOMAIN n.out : n.out[j] # AnswerTo(n.inbox[i])
        BY <1>1, <1>2, <1>3, <1>4 DEF Once, Bears
    <2> QED BY <1>2, <2>1, <2>2 DEF Once
<1>6. \A e : Bears(n, e) => Bears(k, e) \/ e = c
    BY <1>1, <1>2, <1>3, <1>4 DEF Bears
<1> QED BY <1>2, <1>5, <1>6 DEF n

-----------------------------------------------------------------------------
(* How a step of call c, whose record becomes r, changes the pipes of      *)
(* transport t to those of k.  A step of a server is one that leaves the   *)
(* call of its transport as it is.                                         *)

Over == {"close", "ended"}

Move(c, r, t, k) ==
    /\ r \in CallRecord /\ call' = [call EXCEPT ![c] = r]
    /\ k \in Channel /\ transport' = [transport EXCEPT ![t] = k]
    /\ overlapped \subseteq overlapped' /\ misled \subseteq misled'
    /\ call[c].at # "new" => r.source = call[c].source
    /\ call[c].at # "lock" => r.on = call[c].on
    /\ call[c].at \in Sent => r.at \in Sent
    /\ call[c].at \in Over => r.at \in Over /\ r.result = call[c].result
    /\ r.at \notin Over => r.result = Because("none")
    /\ call[c].at = "call" => t = call[c].on
    /\ r.at = "call" => r.on = t
    /\ c # t => r.at \in Serving /\ call[c].at \in {"lock", "call"} /\ r.on = t
    /\ r.on # None => r.on = c \/ SourceOf(r.on) = r.source

\* The pipes get no request but that of c, when it is sent, and that of the
\* handshake, when the process of t is started.
Passes(c, r, t, k) ==
    \A e \in Asked : Bears(k, e) =>
        \/ Bears(transport[t], e)
        \/ e = c /\ call[c].at \notin Sent /\ r.on = t /\ r.at \in Sent
        \/ e = Initialize /\ c = t /\ call[c].at = "spawn"

\* An answer that c gets is taken from the pipes.
Gets(c, r, t, k) ==
    r.result.kind = "answer" =>
        \/ call[c].at \in Over
        \/ \E e \in Asked : /\ r.result = AnswerTo(e) /\ r.on = t
                            /\ Bears(transport[t], e) /\ ~Bears(k, e)
                            /\ e = Initialize => t \in misled'
                            /\ e # c => ~Remote(c) /\ (Excused(t) \/ t \in overlapped' \cup misled')

LEMMA MoveFacts ==
    ASSUME IInv, NEW c \in Calls, NEW r, NEW t \in Calls, NEW k, Move(c, r, t, k)
    PROVE  /\ call'[c] = r /\ \A d \in Calls \ {c} : call'[d] = call[d]
           /\ transport'[t] = k /\ \A u \in Calls \ {t} : transport'[u] = transport[u]
BY NoneApart DEF Move, IInv, Typed

(* Whose transport a call uses. *)
LEMMA OnFacts ==
    ASSUME IInv, NEW c \in Calls
    PROVE  /\ call[c].on \in {None} \cup Calls
           /\ call[c].at \in {"new", "lock"} => call[c].on = None
           /\ call[c].at \in Connecting => call[c].on = c
           /\ call[c].at = "call" => call[c].on # None
           /\ call[c].on \notin {None, c} => call[call[c].on].at \in Serving
           /\ transport[c].process # "none" => call[c].on = c /\ call[c].at \notin {"new", "lock", "spawn"}
           /\ transport[c] \in Channel /\ call[c] \in CallRecord
BY CallType, NoneApart DEF IInv, OwnInv, OwnAt, Serving

(* Who has put a transport out of step has done so for good. *)
LEMMA ExcusedStays ==
    ASSUME AInv, NEW c \in Calls, NEW r, NEW t \in Calls, NEW k, Move(c, r, t, k),
           NEW u, Excused(u)
    PROVE  Excused(u)'
<1>1. call'[c] = r /\ \A d \in Calls \ {c} : call'[d] = call[d]
    BY MoveFacts DEF AInv
<1>2. CASE u \in overlapped \cup misled
    BY <1>2 DEF Move, Excused
<1>3. CASE u \notin overlapped \cup misled
    <2>1. PICK d \in Calls : call[d].on = u /\ call[d].result.kind \in {"timeout", "note", "overlong"}
        BY <1>3 DEF Excused
    <2>2. call[d].at \in Over
        BY <2>1 DEF AInv, AnswerInv, ResultAt, Because, Over
    <2>3. call'[d].on = call[d].on /\ call'[d].result = call[d].result
        BY <1>1, <2>2 DEF Move, Over
    <2> QED BY <2>1, <2>3 DEF Excused
<1> QED BY <1>2, <1>3

(* A call keeps its source, and so does its transport. *)
LEMMA SourcesStay ==
    ASSUME AInv, NEW c \in Calls, NEW r, NEW t \in Calls, NEW k, Move(c, r, t, k)
    PROVE  /\ \A d \in Calls : SourceAt(d)'
           /\ \A d \in Calls : call[d].at # "new" => (Remote(d)' <=> Remote(d))
<1>1. call'[c] = r /\ \A d \in Calls \ {c} : call'[d] = call[d]
    BY MoveFacts DEF AInv
<1>2. \A d \in Calls : call[d].at # "new" => SourceOf(d)' = SourceOf(d)
    BY <1>1 DEF Move, SourceOf
<1>3. ASSUME NEW d \in Calls, call'[d].on # None
      PROVE  call'[call'[d].on].source = call'[d].source
    <2>1. SourceAt(d) /\ SourceAt(c)
        BY DEF AInv, AnswerInv
    <2>2. CASE d # c
        <3>1. call[d].on \in Calls /\ call'[d] = call[d]
            BY <1>1, <1>3, <2>2, OnFacts DEF AInv
        <3>2. call[call[d].on].at # "new"
            BY <3>1, <1>3, <2>2, OnFacts DEF AInv, Serving, Connecting
        <3>3. call'[call[d].on].source = call[call[d].on].source
            BY <1>2, <3>1, <3>2 DEF SourceOf
        <3> QED BY <1>3, <2>1, <3>1, <3>3 DEF SourceAt, SourceOf
    <2>3. CASE d = c /\ r.on # c
        <3>1. r.on \in Calls /\ SourceOf(r.on) = r.source
            BY <1>1, <1>3, <2>3, NoneApart DEF Move, CallRecord
        <3>2. call'[r.on] = call[r.on]
            BY <1>1, <2>3, <3>1
        <3> QED BY <1>1, <2>3, <3>1, <3>2 DEF SourceOf
    <2>4. CASE d = c /\ r.on = c
        BY <1>1, <2>4
    <2> QED BY <2>2, <2>3, <2>4
<1> QED BY <1>2, <1>3 DEF SourceAt, Remote, SourceOf

(* A transport that has no process has nothing in its pipes. *)
LEMMA Unborn ==
    ASSUME AInv, NEW c \in Calls, transport[c].process = "none"
    PROVE  /\ transport[c].inbox = <<>> /\ transport[c].out = <<>>
           /\ \A e : ~Bears(transport[c], e)
           /\ \A d \in Calls : call[d].on = c => d = c \/ call[c].at \in Serving
<1>1. transport[c].inbox = <<>> /\ transport[c].out = <<>>
    BY DEF AInv, AnswerInv, PipeAt
<1>2. \A e : ~Bears(transport[c], e)
    BY <1>1 DEF Bears
<1>3. \A d \in Calls : call[d].on = c => d = c \/ call[c].at \in Serving
    BY OnFacts, NoneApart DEF AInv
<1> QED BY <1>1, <1>2, <1>3

(* The pipes of the other transports. *)
LEMMA OtherPipes ==
    ASSUME AInv, NEW c \in Calls, NEW r, NEW t \in Calls, NEW k, Move(c, r, t, k),
           NEW u \in Calls, u # t
    PROVE  PipeAt(u)'
<1>1. /\ call'[c] = r /\ \A d \in Calls \ {c} : call'[d] = call[d]
      /\ transport'[u] = transport[u]
    BY MoveFacts DEF AInv
<1>2. PipeAt(u)
    BY DEF AInv, AnswerInv
<1>5. misled \subseteq misled'
    BY DEF Move
<1>3. CASE u # c
    BY <1>1, <1>2, <1>3, <1>5 DEF PipeAt, Bears
<1>4. CASE u = c
    <2>1. r.at \in Serving /\ call[c].at \in {"lock", "call"}
        BY <1>4 DEF Move
    <2>2. c \notin misled => ~Bears(transport[c], Initialize)
        <3>1. CASE call[c].at = "lock"
            <4>1. transport[c].process = "none"
                BY <3>1, OnFacts DEF AInv
            <4> QED BY <4>1, Unborn
        <3>2. CASE call[c].at = "call"
            BY <1>2, <1>4, <3>2 DEF PipeAt, Serving
        <3> QED BY <2>1, <3>1, <3>2
    <2> QED BY <1>1, <1>2, <1>4, <1>5, <2>1, <2>2 DEF PipeAt, Bears, Serving
<1> QED BY <1>3, <1>4

(* What is in the pipes was sent over them. *)
LEMMA TokensStay ==
    ASSUME AInv, NEW c \in Calls, NEW r, NEW t \in Calls, NEW k, Move(c, r, t, k),
           Passes(c, r, t, k), NEW u \in Calls
    PROVE  TokensAt(u)'
<1>1. /\ call'[c] = r /\ \A d \in Calls \ {c} : call'[d] = call[d]
      /\ transport'[t] = k /\ (u # t => transport'[u] = transport[u])
    BY MoveFacts DEF AInv
<1>2. ASSUME NEW e \in Calls, Bears(transport'[u], e)
      PROVE  call'[e].on = u /\ call'[e].at \in Sent
    <2>1. CASE Bears(transport[u], e)
        <3>1. call[e].on = u /\ call[e].at \in Sent
            BY <2>1 DEF AInv, AnswerInv, TokensAt
        <3>2. e = c => r.on = call[c].on /\ r.at \in Sent
            BY <3>1 DEF Move, Sent
        <3> QED BY <1>1, <3>1, <3>2
    <2>2. CASE ~Bears(transport[u], e)
        <3>1. u = t /\ e = c /\ r.on = t /\ r.at \in Sent
            BY <1>1, <1>2, <2>2, NoneApart DEF Passes, Asked, Initialize, None
        <3> QED BY <1>1, <3>1
    <2> QED BY <2>1, <2>2
<1> QED BY <1>2 DEF TokensAt, Bears

(* The other transports stay in step. *)
LEMMA OtherSteps ==
    ASSUME AInv, NEW c \in Calls, NEW r, NEW t \in Calls, NEW k, Move(c, r, t, k),
           NEW u \in Calls, u # t
    PROVE  StepAt(u)'
<1>1. /\ call'[c] = r /\ \A d \in Calls \ {c} : call'[d] = call[d]
      /\ transport'[u] = transport[u]
    BY MoveFacts DEF AInv
<1> SUFFICES ASSUME call'[u].at \in Serving, ~Remote(u)', ~Excused(u)'
             PROVE  InStep(u)'
    BY DEF StepAt
<1>2. ~Excused(u)
    BY ExcusedStays
<1>3. \A d \in Calls : call'[d].on = u /\ call'[d].at = "call" =>
         d # c /\ call[d].on = u /\ call[d].at = "call"
    BY <1>1 DEF Move
<1>4. CASE call[u].at \in Serving
    <2>1. ~Remote(u)
        BY <1>4, SourcesStay DEF Serving
    <2>2. InStep(u)
        BY <1>2, <1>4, <2>1 DEF AInv, AnswerInv, StepAt
    <2>3. ASSUME NEW e \in Calls, Bears(transport'[u], e)
          PROVE  call'[e].at = "call"
        <3>1. call[e].at = "call" /\ call[e].on = u
            BY <1>1, <2>2, <2>3 DEF InStep, AInv, AnswerInv, TokensAt
        <3>2. e # c
            BY <3>1 DEF Move
        <3> QED BY <1>1, <3>1, <3>2
    <2> QED BY <1>1, <1>3, <2>2, <2>3 DEF InStep, Bears
<1>5. CASE call[u].at \notin Serving
    <2>1. u = c /\ call[c].at = "lock"
        BY <1>1, <1>5 DEF Move, Serving
    <2>2. transport[c].process = "none"
        BY <2>1, OnFacts DEF AInv
    <2>3. /\ transport[c].out = <<>> /\ \A e : ~Bears(transport[c], e)
          /\ \A d \in Calls : call[d].on = c => d = c
        BY <1>5, <2>1, <2>2, Unborn
    <2>4. \A d \in Calls : ~(call'[d].on = u /\ call'[d].at = "call")
        BY <1>3, <2>1, <2>3
    <2>5. transport'[u].out = <<>> /\ \A e : ~Bears(transport'[u], e)
        BY <1>1, <2>1, <2>3
    <2> QED BY <2>4, <2>5 DEF InStep, Bears
<1> QED BY <1>4, <1>5

(* What calls were given stays accounted for. *)
LEMMA ResultsStay ==
    ASSUME AInv, NEW c \in Calls, NEW r, NEW t \in Calls, NEW k, Move(c, r, t, k),
           Passes(c, r, t, k), Gets(c, r, t, k), NEW d \in Calls
    PROVE  ResultAt(d)'
<1>0. IInv /\ AnswerInv
    BY DEF AInv
<1>1. /\ call'[c] = r /\ \A e \in Calls \ {c} : call'[e] = call[e]
      /\ transport'[t] = k /\ \A u \in Calls \ {t} : transport'[u] = transport[u]
    BY <1>0, MoveFacts
<1>2. call'[d].at \notin Over => call'[d].result = Because("none")
    BY <1>1 DEF AInv, AnswerInv, ResultAt, Move, Over
<1>3. ASSUME NEW e \in Calls, call[e].at \in Sent
      PROVE  call'[e].on = call[e].on /\ call'[e].at \in Sent
    BY <1>1, <1>3 DEF Move, Sent
<1>4. ASSUME NEW f \in Calls, NEW e \in Asked, call[f].result = AnswerTo(e)
      PROVE  /\ call[f].at \in Over /\ Accounted(f, e)
             /\ call'[f].on = call[f].on /\ call'[f].result = call[f].result
             /\ call[f].on \in Calls
    <2>1. call[f].at \in Over
        BY <1>4 DEF AInv, AnswerInv, ResultAt, Because, AnswerTo, Over
    <2>2. Accounted(f, e)
        <3>1. PICK g \in Asked : call[f].result = AnswerTo(g) /\ Accounted(f, g)
            <4>1. call[f].result.kind = "answer" /\ ResultAt(f)
                BY <1>0, <1>4 DEF AnswerInv, AnswerTo
            <4> QED BY <4>1 DEF ResultAt
        <3>2. g = e
            BY <1>4, <3>1 DEF AnswerTo
        <3> QED BY <3>1, <3>2
    <2>3. call'[f].on = call[f].on /\ call'[f].result = call[f].result
        BY <1>1, <2>1 DEF Move, Over
    <2>4. call[f].on # None
        BY <2>2 DEF Accounted
    <2>5. call[f].on \in Calls
        BY <2>4, OnFacts DEF AInv
    <2> QED BY <2>1, <2>2, <2>3, <2>5
<1>5. ASSUME NEW f \in Calls, NEW e \in Asked, call[f].result = AnswerTo(e)
      PROVE  Accounted(f, e)'
    <2>1. /\ call[f].at \in Over /\ Accounted(f, e)
          /\ call'[f].on = call[f].on /\ call'[f].result = call[f].result
          /\ call[f].on \in Calls
        BY <1>4, <1>5
    <2>2. IF e = Initialize THEN call[f].on \in misled'
                            ELSE call'[e].on = call[f].on /\ call'[e].at \in Sent
        <3>1. CASE e = Initialize
            BY <2>1, <3>1 DEF Accounted, Move
        <3>2. CASE e # Initialize
            <4>1. e \in Calls /\ call[e].on = call[f].on /\ call[e].at \in Sent
                BY <2>1, <3>2 DEF Accounted, Asked
            <4> QED BY <1>3, <3>2, <4>1
        <3> QED BY <3>1, <3>2
    <2>3. ~Bears(transport'[call[f].on], e)
        <3>1. ~Bears(transport[call[f].on], e)
            BY <2>1 DEF Accounted
        <3>2. CASE call[f].on = t
            <4>1. e = c => call[c].at \in Sent
                BY <2>1, NoneApart DEF Accounted, Initialize, None
            <4>2. ~(c = t /\ call[c].at = "spawn")
                BY <1>0, <2>1, <3>2, OnFacts, NoneApart DEF Serving, Over
            <4> QED BY <1>1, <3>1, <3>2, <4>1, <4>2 DEF Passes
        <3>3. CASE call[f].on # t
            BY <1>1, <2>1, <3>1, <3>3
        <3> QED BY <3>2, <3>3
    <2>4. ASSUME NEW g \in Calls \ {f}, call'[g].on = call[f].on, call'[g].result = AnswerTo(e)
          PROVE  FALSE
        <3>1. call[g].result # AnswerTo(e)
            BY <1>4, <2>1, <2>4 DEF Accounted
        <3>2. g = c /\ call[c].at \notin Over /\ r.result = AnswerTo(e)
            BY <1>1, <2>4, <3>1 DEF Move
        <3>3. Bears(transport[t], e) /\ r.on = t
            <4>1. r.result.kind = "answer"
                BY <3>2 DEF AnswerTo
            <4>2. PICK h \in Asked : r.result = AnswerTo(h) /\ Bears(transport[t], h) /\ r.on = t
                BY <3>2, <4>1 DEF Gets
            <4>3. h = e
                BY <3>2, <4>2 DEF AnswerTo
            <4> QED BY <4>2, <4>3
        <3>4. call[f].on = t
            BY <1>1, <2>4, <3>2, <3>3
        <3> QED BY <2>1, <3>3, <3>4 DEF Accounted
    <2>5. e # f => ~Remote(f)' /\ Excused(call[f].on)'
        <3>1. PICK u \in Calls : u = call[f].on
            BY <2>1
        <3>2. Excused(u) => Excused(u)'
            BY ExcusedStays
        <3>3. ~Remote(f) => ~Remote(f)'
            BY <2>1, SourcesStay DEF Over
        <3> QED BY <2>1, <3>1, <3>2, <3>3 DEF Accounted, Excused
    <2>6. call'[f].on # None
        BY <2>1 DEF Accounted
    <2>7. IF e = Initialize THEN call'[f].on \in misled'
                            ELSE call'[e].on = call'[f].on /\ call'[e].at \in Sent
        BY <2>1, <2>2
    <2>8. ~Bears(transport[call[f].on], e)'
        BY <2>1, <2>3 DEF Bears
    <2>9. \A g \in Calls \ {f} : call'[g].on = call'[f].on => call'[g].result # AnswerTo(e)
        BY <2>1, <2>4
    <2>10. e # f => ~Remote(f)' /\ Excused(call[f].on)'
        BY <2>5
    <2> QED BY <2>6, <2>7, <2>8, <2>9, <2>10 DEF Accounted
<1>6. ASSUME r.result.kind = "answer", call[c].at \notin Over
      PROVE  \E e \in Asked : call'[c].result = AnswerTo(e) /\ Accounted(c, e)'
    <2>1. PICK e \in Asked :
             /\ r.result = AnswerTo(e) /\ r.on = t
             /\ Bears(transport[t], e) /\ ~Bears(k, e)
             /\ e = Initialize => t \in misled'
             /\ e # c => ~Remote(c) /\ (Excused(t) \/ t \in overlapped' \cup misled')
        BY <1>6 DEF Gets
    <2>2. IF e = Initialize THEN t \in misled'
                            ELSE call'[e].on = t /\ call'[e].at \in Sent
        <3>1. CASE e = Initialize
            BY <2>1, <3>1
        <3>2. CASE e # Initialize
            <4>1. e \in Calls
                BY <3>2 DEF Asked
            <4>2. call[e].on = t /\ call[e].at \in Sent
                BY <1>0, <2>1, <4>1 DEF AnswerInv, TokensAt
            <4> QED BY <1>3, <3>2, <4>1, <4>2
        <3> QED BY <3>1, <3>2
    <2>4. \A g \in Calls \ {c} : call'[g].on = t => call'[g].result # AnswerTo(e)
        <3> SUFFICES ASSUME NEW g \in Calls \ {c}, call'[g].on = t, call'[g].result = AnswerTo(e)
                     PROVE  FALSE
            OBVIOUS
        <3>1. call[g].result = AnswerTo(e) /\ call[g].on = t
            BY <1>1
        <3>2. Accounted(g, e)
            BY <1>4, <3>1
        <3> QED BY <2>1, <3>1, <3>2 DEF Accounted
    <2>5. call[c].at # "new"
        <3>1. call[c].at = "new" => call[c].on = None /\ r.on = call[c].on
            BY <1>0, OnFacts DEF Move
        <3> QED BY <2>1, <3>1, NoneApart
    <2>6. e # c => ~Remote(c)' /\ Excused(t)'
        <3>1. Excused(t) => Excused(t)'
            BY ExcusedStays
        <3>2. t \in overlapped' \cup misled' => Excused(t)'
            BY DEF Excused
        <3>3. ~Remote(c) => ~Remote(c)'
            BY <2>5, SourcesStay
        <3> QED BY <2>1, <3>1, <3>2, <3>3
    <2>7. t # None
        BY NoneApart
    <2>8. call'[c].result = AnswerTo(e) /\ call'[c].on = t /\ ~Bears(transport'[t], e)
        BY <1>1, <2>1
    <2>9. Accounted(c, e)'
        BY <2>2, <2>4, <2>6, <2>7, <2>8 DEF Accounted, Bears
    <2> QED BY <2>8, <2>9
<1>7. ASSUME call'[d].result.kind = "answer"
      PROVE  \E e \in Asked : call'[d].result = AnswerTo(e) /\ Accounted(d, e)'
    <2>1. CASE d = c /\ call[c].at \notin Over
        BY <1>1, <1>6, <1>7, <2>1
    <2>2. CASE ~(d = c /\ call[c].at \notin Over)
        <3>1. call'[d].result = call[d].result
            BY <1>1, <2>2 DEF Move
        <3>2. PICK e \in Asked : call[d].result = AnswerTo(e)
            BY <1>7, <3>1 DEF AInv, AnswerInv, ResultAt
        <3> QED BY <1>5, <3>1, <3>2
    <2> QED BY <2>1, <2>2
<1> QED BY <1>2, <1>7 DEF ResultAt, Over

(* What remains to be shown of a step is what it does to its own pipes. *)
LEMMA Kept ==
    ASSUME AInv, NEW c \in Calls, NEW r, NEW t \in Calls, NEW k, Move(c, r, t, k),
           Passes(c, r, t, k), Gets(c, r, t, k), PipeAt(t)', StepAt(t)'
    PROVE  AnswerInv'
<1> SUFFICES ASSUME NEW u \in Calls
             PROVE  (PipeAt(u) /\ TokensAt(u) /\ StepAt(u) /\ ResultAt(u) /\ SourceAt(u))'
    BY DEF AnswerInv
<1>1. TokensAt(u)' /\ ResultAt(u)' /\ SourceAt(u)'
    BY TokensStay, ResultsStay, SourcesStay
<1>2. u # t => PipeAt(u)' /\ StepAt(u)'
    BY OtherPipes, OtherSteps
<1> QED BY <1>1, <1>2

(* What is read of a line. *)
LEMMA LineRead ==
    ASSUME NEW line \in Line
    PROVE  /\ ResultOf(line).kind = "answer" => ResultOf(line) = AnswerTo(line.of) /\ line = AnswerTo(line.of)
           /\ line.kind \in {"note", "overlong"} => ResultOf(line).kind = line.kind
           /\ line.kind \in {"answer", "note", "overlong", "rest"}
           /\ line.of = Initialize \/ line.of \in Calls
BY McpAssumption DEF Line, ResultOf, AnswerTo, Because, Initialize, Calls

(* Reading a line takes it out of the pipe, and may leave the rest of one that *)
(* was too long.                                                              *)
LEMMA ReadLine ==
    ASSUME NEW k \in Channel, Once(k), NEW i \in DOMAIN k.out, NEW rest \in OutAfter(k.out, i)
    PROVE  LET n == [k EXCEPT !.out = rest] IN
           /\ n \in Channel /\ Once(n) /\ n.inbox = k.inbox /\ n.process = k.process
           /\ \A e : Bears(n, e) => Bears(k, e)
           /\ \A e : k.out[i] = AnswerTo(e) => ~Bears(n, e)
           /\ k.out[i].kind # "overlong" =>
                 \A j \in DOMAIN n.out : \E m \in DOMAIN k.out : n.out[j] = k.out[m]
<1> DEFINE a == [k EXCEPT !.out = RemoveAt(k.out, i)]
           n == [k EXCEPT !.out = rest]
<1>1. /\ a \in Channel /\ Once(a) /\ a.inbox = k.inbox /\ a.process = k.process
      /\ \A e : Bears(a, e) => Bears(k, e)
      /\ \A e : k.out[i] = AnswerTo(e) => ~Bears(a, e)
      /\ \A j \in DOMAIN a.out : \E m \in DOMAIN k.out : a.out[j] = k.out[m]
    BY TakenOut
<1>2. CASE rest = RemoveAt(k.out, i)
    BY <1>1, <1>2
<1>3. CASE rest # RemoveAt(k.out, i)
    <2> DEFINE line == [kind |-> "rest", of |-> k.out[i].of]
               b == [a EXCEPT !.out = <<line>> \o a.out]
    <2>1. k.out[i].kind = "overlong" /\ rest = <<line>> \o RemoveAt(k.out, i)
        BY <1>3 DEF OutAfter
    <2>2. k.out \in Seq(Line) /\ k.out[i] \in Line
        BY DEF Channel
    <2>3. line \in Line /\ line.kind # "answer"
        BY <2>2 DEF Line
    <2> HIDE DEF line
    <2>4. /\ b \in Channel /\ Once(b) /\ b.inbox = a.inbox /\ b.process = a.process
          /\ \A e : Bears(b, e) => Bears(a, e)
        <3> HIDE DEF a
        <3> QED BY <1>1, <2>3, PutInFront
    <2>5. b = n
        BY <2>1 DEF Channel
    <2>6. \A e : k.out[i] # AnswerTo(e)
        BY <2>1 DEF AnswerTo
    <2> HIDE DEF a, b, n
    <2> QED BY <1>1, <2>1, <2>4, <2>5, <2>6 DEF n
<1> QED BY <1>2, <1>3

-----------------------------------------------------------------------------
(* The steps of a call. *)

(* Steps before anything is sent. *)
LEMMA EarlyStep ==
    ASSUME AInv, NEW c \in Calls, NEW r \in CallRecord, call' = [call EXCEPT ![c] = r],
           UNCHANGED <<transport, history>>,
           call[c].at \in {"new", "lock", "spawn"}, r.at \in {"lock", "spawn", "ended"},
           r.at # "ended" => r.result = Because("none"), r.result.kind # "answer",
           call[c].at # "new" => r.source = call[c].source,
           r.on = call[c].on \/ (call[c].at = "lock" /\ r.on = c)
    PROVE  AnswerInv'
<1> DEFINE k == transport[c]
<1>1. /\ k \in Channel /\ k.process = "none"
      /\ call[c].at = "spawn" => call[c].on = c
      /\ call[c].at # "spawn" => call[c].on = None
    BY OnFacts DEF AInv, Connecting
<1>2. Move(c, r, c, k)
    <2>1. transport' = [transport EXCEPT ![c] = k]
        BY NoneApart DEF AInv, IInv, Typed
    <2> HIDE DEF k
    <2> QED BY <1>1, <2>1 DEF Move, Over, Sent
<1>3. /\ k.inbox = <<>> /\ k.out = <<>> /\ \A e : ~Bears(k, e)
      /\ \A d \in Calls : call[d].on = c => d = c
    BY <1>1, Unborn DEF Serving
<1>4. /\ call'[c] = r /\ \A d \in Calls \ {c} : call'[d] = call[d]
      /\ transport'[c] = k
    BY <1>2, MoveFacts DEF AInv
<1> HIDE DEF k
<1>5. PipeAt(c)'
    BY <1>1, <1>3, <1>4 DEF PipeAt, Once, Bears
<1>6. StepAt(c)'
    BY <1>3, <1>4 DEF StepAt, InStep, Bears
<1>7. Passes(c, r, c, k) /\ Gets(c, r, c, k)
    BY <1>3 DEF Passes, Gets
<1> QED BY <1>2, <1>5, <1>6, <1>7, Kept

(* What a call has before it has ended. *)
LEMMA Unanswered ==
    ASSUME AInv, NEW c \in Calls
    PROVE  /\ call[c] \in CallRecord /\ c \in {None} \cup Transports
           /\ call[c].at \notin Over => call[c].result = Because("none")
           /\ Because("none").kind # "answer" /\ Because("failed").kind # "answer"
           /\ Because("failed") \in Result
BY OnFacts, BecauseType, NoneApart DEF AInv, AnswerInv, ResultAt, Over, Because, Ended

LEMMA ArriveAnswers ==
    ASSUME AInv, NEW c \in Calls, NEW s \in Sources, NEW job \in Jobs, Arrive(c, s, job)
    PROVE  AnswerInv'
<1> DEFINE r == [call[c] EXCEPT !.source = s, !.job = job, !.at = "lock"]
<1>1. call[c].at = "new" /\ UNCHANGED <<transport, history>>
    BY DEF Arrive
<1>2. call' = [call EXCEPT ![c] = r]
    BY DEF Arrive
<1>3. /\ r \in CallRecord /\ r.at = "lock" /\ r.on = call[c].on
      /\ r.result = call[c].result
    BY Unanswered DEF CallRecord, Places
<1>4. r.result \in {Because("none"), Because("failed")} /\ (r.at # "ended" => r.result = Because("none"))
    BY <1>1, <1>3, Unanswered DEF Over
<1> HIDE DEF r
<1> QED BY <1>1, <1>2, <1>3, <1>4, Unanswered, EarlyStep

LEMMA UnresolvedAnswers ==
    ASSUME AInv, NEW c \in Calls, NEW s \in Sources, NEW job \in Jobs, Unresolved(c, s, job)
    PROVE  AnswerInv'
<1> DEFINE r == [call[c] EXCEPT !.source = s, !.job = job, !.at = "ended",
                                !.result = Because("failed")]
<1>1. call[c].at = "new" /\ UNCHANGED <<transport, history>>
    BY DEF Unresolved
<1>2. call' = [call EXCEPT ![c] = r]
    BY DEF Unresolved
<1>3. /\ r \in CallRecord /\ r.at = "ended" /\ r.on = call[c].on
      /\ r.result = Because("failed")
    BY Unanswered DEF CallRecord, Places
<1>4. r.result \in {Because("none"), Because("failed")} /\ (r.at # "ended" => r.result = Because("none"))
    BY <1>1, <1>3, Unanswered DEF Over
<1> HIDE DEF r
<1> QED BY <1>1, <1>2, <1>3, <1>4, Unanswered, EarlyStep

LEMMA CreateAnswers ==
    ASSUME AInv, NEW c \in Calls, CreateTransient(c) \/ CreateSingleton(c)
    PROVE  AnswerInv'
<1> DEFINE r == [call[c] EXCEPT !.at = "spawn", !.on = c]
<1>1. call[c].at = "lock" /\ UNCHANGED <<transport, history>>
    BY DEF CreateTransient, CreateSingleton, Make
<1>2. call' = [call EXCEPT ![c] = r]
    BY DEF CreateTransient, CreateSingleton, Make
<1>3. /\ r \in CallRecord /\ r.at = "spawn" /\ r.on = c
      /\ r.result = call[c].result /\ r.source = call[c].source
    BY Unanswered DEF CallRecord, Places
<1>4. r.result \in {Because("none"), Because("failed")} /\ (r.at # "ended" => r.result = Because("none"))
    BY <1>1, <1>3, Unanswered DEF Over
<1> HIDE DEF r
<1> QED BY <1>1, <1>2, <1>3, <1>4, Unanswered, EarlyStep

LEMMA SpawnFailsAnswers ==
    ASSUME AInv, NEW c \in Calls, SpawnFails(c)
    PROVE  AnswerInv'
<1> DEFINE r == [call[c] EXCEPT !.at = "ended", !.result = Because("failed")]
<1>1. call[c].at = "spawn" /\ UNCHANGED <<transport, history>>
    BY DEF SpawnFails
<1>2. call' = [call EXCEPT ![c] = r]
    BY DEF SpawnFails
<1>3. /\ r \in CallRecord /\ r.at = "ended" /\ r.on = call[c].on
      /\ r.result = Because("failed") /\ r.source = call[c].source
    BY Unanswered DEF CallRecord, Places
<1>4. r.result \in {Because("none"), Because("failed")} /\ (r.at # "ended" => r.result = Because("none"))
    BY <1>1, <1>3, Unanswered DEF Over
<1> HIDE DEF r
<1> QED BY <1>1, <1>2, <1>3, <1>4, Unanswered, EarlyStep

(* The request of the handshake is the only one in the pipes. *)
LEMMA SpawnAnswers ==
    ASSUME AInv, NEW c \in Calls, Spawn(c)
    PROVE  AnswerInv'
<1> DEFINE r == [call[c] EXCEPT !.at = "init"]
           k == [transport[c] EXCEPT !.process = "running", !.inbox = <<Initialize>>]
<1>1. /\ call[c].at = "spawn" /\ call[c].on = c
      /\ call[c] \in CallRecord /\ transport[c] \in Channel
      /\ transport[c].process = "none"
      /\ call[c].result = Because("none")
    BY OnFacts DEF Spawn, AInv, AnswerInv, ResultAt, Connecting
<1>2. /\ r \in CallRecord /\ r.at = "init" /\ r.on = c /\ r.source = call[c].source
      /\ r.result = Because("none")
    BY <1>1 DEF CallRecord, Places
<1>3. transport[c].out = <<>> /\ \A e : ~Bears(transport[c], e)
    BY <1>1, Unborn
<1>4. k \in Channel /\ k.process = "running" /\ k.inbox = <<Initialize>> /\ k.out = <<>>
    <2>1. <<Initialize>> \in Seq({Initialize} \cup Calls)
        OBVIOUS
    <2> QED BY <1>1, <1>3, <2>1 DEF Channel
<1>5. /\ call' = [call EXCEPT ![c] = r]
      /\ transport' = [transport EXCEPT ![c] = k]
      /\ UNCHANGED history
    BY <1>1, NoneApart DEF Spawn, AInv, IInv, Typed, Channel
<1> HIDE DEF r, k
<1>6. Move(c, r, c, k)
    BY <1>1, <1>2, <1>4, <1>5 DEF Move, Over, Sent
<1>7. /\ call'[c] = r /\ \A d \in Calls \ {c} : call'[d] = call[d]
      /\ transport'[c] = k
    BY <1>6, MoveFacts DEF AInv
<1>8. PipeAt(c)'
    BY <1>2, <1>4, <1>7 DEF PipeAt, Once, Handshake, Serving
<1>9. StepAt(c)'
    BY <1>2, <1>7 DEF StepAt, Serving
<1>10. Passes(c, r, c, k)
    BY <1>1, <1>4, NoneApart DEF Passes, Bears, Asked, None, Initialize
<1>11. Gets(c, r, c, k)
    BY <1>2 DEF Gets, Because
<1> QED BY <1>6, <1>8, <1>9, <1>10, <1>11, Kept

(* The pipes, in state tr, of a transport t that a request of c can be sent over. *)
Ready(c, t, tr) ==
    /\ call[c].at \in {"lock", "init"}
    /\ t = c \/ (call[t].at \in Serving /\ call[c].job # "list")
    /\ call[c].at = "init" => t = c
    /\ t = c \/ SourceOf(t) = SourceOf(c)
    /\ tr \in Channel /\ Once(tr)
    /\ tr.process = transport[t].process /\ tr.process # "none"
    /\ tr.process # "running" => tr.inbox = <<>>
    /\ Bears(tr, Initialize) => t \in misled'
    /\ \A e \in Asked : Bears(tr, e) => Bears(transport[t], e)
    /\ misled \subseteq misled'
    /\ ~Remote(t) /\ ~Excused(t) /\ t \notin misled' =>
          /\ \A e \in Calls : Bears(tr, e) => call[e].at = "call"
          /\ \A i \in DOMAIN tr.out : tr.out[i].kind # "rest"

Asking(c, t) == \E d \in Readers(t) \ {c} : call[d].at = "call"

\* The request written to a pipe that somebody reads.
Posted(c, tr) ==
    [tr EXCEPT !.inbox = IF tr.process = "running" THEN Append(tr.inbox, c) ELSE tr.inbox]

\* What Request does: the call waits, or is refused, or takes the first line.
Outcome(c, t, sent, r, k) ==
    /\ r \in CallRecord /\ call' = [call EXCEPT ![c] = r]
    /\ k \in Channel /\ transport' = [transport EXCEPT ![t] = k]
    /\ r.source = call[c].source /\ r.on = t
    /\ \/ /\ r.at = "call" /\ r.result = call[c].result /\ k = sent
          /\ Remote(c) \/ ~Asking(c, t)
       \/ /\ ~Remote(c) /\ Asking(c, t)
          /\ r.at = (IF call[c].job = "list" THEN "close" ELSE "ended")
          /\ r.result = Because("clash") /\ k = sent
       \/ /\ ~Remote(c) /\ sent.out # <<>>
          /\ r.at = (IF call[c].job = "list" THEN "close" ELSE "ended")
          /\ r.result = ResultOf(sent.out[1])
          /\ \E rest \in OutAfter(sent.out, 1) : k = [sent EXCEPT !.out = rest]

LEMMA RequestOutcome ==
    ASSUME IInv, NEW c \in Calls, NEW t \in Calls, NEW tr \in Channel, Request(c, t, tr),
           NEW sent \in Channel, sent.out = tr.out, sent = Posted(c, tr)
    PROVE  /\ \E r \in CallRecord, k \in Channel : Outcome(c, t, sent, r, k)
           /\ overlapped' = overlapped \cup (IF Asking(c, t) THEN {t} ELSE {})
<1> DEFINE wait == [call[c] EXCEPT !.on = t, !.at = "call"]
<1>1. overlapped' = overlapped \cup (IF Asking(c, t) THEN {t} ELSE {})
    BY Zenon DEF Request, Asking
<1>2. call[c] \in CallRecord /\ t \in {None} \cup Transports
    BY CallType, NoneApart
<1>3. /\ wait \in CallRecord /\ wait.on = t /\ wait.at = "call"
      /\ wait.source = call[c].source /\ wait.result = call[c].result
    BY <1>2 DEF CallRecord, Places
<1>4. ASSUME NEW result \in Result
      PROVE  LET f == [Finished(c, result) EXCEPT !.on = t] IN
             /\ f \in CallRecord /\ f.on = t /\ f.source = call[c].source
             /\ f.at = (IF call[c].job = "list" THEN "close" ELSE "ended")
             /\ f.result = result
    BY <1>2 DEF Finished, CallRecord, Places
<1>5. CASE Remote(c) \/ (tr.out = <<>> /\ ~Asking(c, t))
    <2>1. call' = [call EXCEPT ![c] = wait] /\ transport' = [transport EXCEPT ![t] = sent]
        BY <1>5, Zenon DEF Request, Asking, Posted
    <2> HIDE DEF wait
    <2>2. Outcome(c, t, sent, wait, sent)
        BY <1>3, <1>5, <2>1 DEF Outcome
    <2> QED BY <1>1, <1>3, <2>2
<1>6. CASE ~Remote(c) /\ tr.out = <<>> /\ Asking(c, t)
    <2> DEFINE f == [Finished(c, Because("clash")) EXCEPT !.on = t]
    <2>1. call' = [call EXCEPT ![c] = f] /\ transport' = [transport EXCEPT ![t] = sent]
        BY <1>6 DEF Request, Asking, Posted
    <2>2. Because("clash") \in Result
        BY BecauseType DEF Ended
    <2>3. /\ f \in CallRecord /\ f.on = t /\ f.source = call[c].source
          /\ f.at = (IF call[c].job = "list" THEN "close" ELSE "ended")
          /\ f.result = Because("clash")
        BY <2>2, <1>4
    <2> HIDE DEF f
    <2>4. Outcome(c, t, sent, f, sent)
        BY <1>6, <2>1, <2>3 DEF Outcome
    <2> QED BY <1>1, <2>3, <2>4
<1>7. CASE ~Remote(c) /\ tr.out # <<>>
    <2> DEFINE f == [Finished(c, ResultOf(tr.out[1])) EXCEPT !.on = t]
    <2>1. PICK rest \in OutAfter(tr.out, 1) :
             /\ call' = [call EXCEPT ![c] = f]
             /\ transport' = [transport EXCEPT ![t] = [sent EXCEPT !.out = rest]]
        BY <1>7, Zenon DEF Request, Posted
    <2>2. tr.out \in Seq(Line) /\ 1 \in DOMAIN tr.out /\ tr.out[1] \in Line
        BY <1>7 DEF Channel
    <2>3. rest \in Seq(Line)
        BY <2>2, OutAfterType
    <2>4. ResultOf(tr.out[1]) \in Result
        BY <2>2, ResultOfType
    <2>5. /\ f \in CallRecord /\ f.on = t /\ f.source = call[c].source
          /\ f.at = (IF call[c].job = "list" THEN "close" ELSE "ended")
          /\ f.result = ResultOf(tr.out[1])
        BY <2>4, <1>4
    <2> HIDE DEF f
    <2>6. [sent EXCEPT !.out = rest] \in Channel
        BY <2>3 DEF Channel
    <2> DEFINE k == [sent EXCEPT !.out = rest]
    <2>7. \E x \in OutAfter(sent.out, 1) : k = [sent EXCEPT !.out = x]
        BY <2>1
    <2>8. k \in Channel /\ transport' = [transport EXCEPT ![t] = k]
        BY <2>1, <2>6
    <2> HIDE DEF k
    <2>9. Outcome(c, t, sent, f, k)
        BY <1>7, <2>1, <2>5, <2>7, <2>8 DEF Outcome
    <2> QED BY <1>1, <2>5, <2>8, <2>9
<1> QED BY <1>5, <1>6, <1>7

LEMMA RequestAnswers ==
    ASSUME AInv, NEW c \in Calls, NEW t \in Calls, NEW tr, Ready(c, t, tr), Request(c, t, tr)
    PROVE  AnswerInv'
<1> DEFINE sent == Posted(c, tr)
<1>0. IInv /\ AnswerInv /\ tr \in Channel
    BY DEF AInv, Ready
<1>1. call[c].at \notin Sent /\ call[c].at \notin Over /\ call[c].at # "new"
    BY DEF Ready, Sent, Over
<1>2. ~Bears(tr, c)
    <2>1. ~Bears(transport[t], c)
        BY <1>0, <1>1 DEF AnswerInv, TokensAt
    <2> QED BY <2>1 DEF Ready, Asked
<1>3. /\ sent \in Channel /\ Once(sent) /\ sent.out = tr.out /\ sent.process = tr.process
      /\ \A e : Bears(sent, e) => Bears(tr, e) \/ e = c
      /\ sent.process # "running" => sent.inbox = <<>>
    <2>1. Once(tr) /\ (tr.process # "running" => tr.inbox = <<>>)
        BY DEF Ready
    <2>2. CASE tr.process = "running"
        <3> DEFINE n == [tr EXCEPT !.inbox = Append(tr.inbox, c)]
        <3>1. /\ n \in Channel /\ Once(n) /\ n.out = tr.out /\ n.process = tr.process
              /\ \A e : Bears(n, e) => Bears(tr, e) \/ e = c
            BY <1>0, <1>2, <2>1, PutIn
        <3>2. sent = n
            BY <2>2 DEF Posted
        <3> HIDE DEF n, sent
        <3> QED BY <2>2, <3>1, <3>2
    <2>3. CASE tr.process # "running"
        <3>1. sent = tr
            BY <1>0, <2>3 DEF Channel, Posted
        <3> HIDE DEF sent
        <3> QED BY <1>0, <2>1, <2>3, <3>1
    <2> QED BY <2>2, <2>3
<1>4. sent = Posted(c, tr)
    OBVIOUS
<1> HIDE DEF sent
<1>5. /\ \E r \in CallRecord, k \in Channel : Outcome(c, t, sent, r, k)
      /\ overlapped' = overlapped \cup (IF Asking(c, t) THEN {t} ELSE {})
    BY <1>0, <1>3, <1>4, RequestOutcome
<1>6. PICK r \in CallRecord, k \in Channel : Outcome(c, t, sent, r, k)
    BY <1>5
<1>7. /\ k.process = tr.process /\ k.inbox = sent.inbox /\ Once(k)
      /\ \A e : Bears(k, e) => Bears(sent, e)
    <2>1. CASE k = sent
        BY <1>3, <2>1
    <2>2. CASE k # sent
        <3>1. PICK rest \in OutAfter(sent.out, 1) : k = [sent EXCEPT !.out = rest]
            BY <1>6, <2>2 DEF Outcome
        <3>2. 1 \in DOMAIN sent.out
            BY <1>3, <1>6, <2>2 DEF Outcome, Channel
        <3> QED BY <1>3, <3>1, <3>2, ReadLine
    <2> QED BY <2>1, <2>2
<1>8. /\ r.at \in Sent /\ (r.at \notin Over => r.result = Because("none"))
      /\ r.at = "call" \/ (r.at = "close" /\ c = t) \/ r.at = "ended"
    <2>1. call[c].result = Because("none")
        BY <1>0, <1>1 DEF AnswerInv, ResultAt, Over
    <2> QED BY <1>6, <2>1 DEF Outcome, Sent, Over, Ready
<1>9. Move(c, r, t, k)
    <2>1. c # t => call[c].at = "lock" /\ r.at \in Serving /\ SourceOf(r.on) = r.source
        BY <1>6, <1>8 DEF Ready, Serving, Outcome, SourceOf
    <2>2. call[c].at # "lock" => r.on = call[c].on
        BY <1>0, <1>6, OnFacts DEF Ready, Outcome, Connecting
    <2>3. overlapped \subseteq overlapped' /\ misled \subseteq misled'
        BY <1>5 DEF Ready
    <2>4. call[c].at \in {"lock", "init"}
        BY DEF Ready
    <2> QED BY <1>1, <1>6, <1>8, <2>1, <2>2, <2>3, <2>4 DEF Move, Outcome
<1>10. Passes(c, r, t, k)
    BY <1>1, <1>3, <1>6, <1>7, <1>8 DEF Passes, Ready, Outcome
<1>11. /\ call'[c] = r /\ \A d \in Calls \ {c} : call'[d] = call[d]
       /\ transport'[t] = k
    BY <1>0, <1>9, MoveFacts
<1>12. PipeAt(t)'
    <2>1. c \in Nat /\ c # Initialize
        BY NoneApart DEF None, Initialize
    <2>2. t \notin misled' => ~Bears(k, Initialize)
        BY <1>3, <1>7, <2>1 DEF Ready
    <2>3. call'[t].at # "init"
        BY <1>8, <1>11 DEF Ready, Serving
    <2> QED BY <1>3, <1>7, <1>11, <2>2, <2>3 DEF PipeAt, Once, Bears, Ready
<1>13. Remote(c) <=> Remote(t)
    BY DEF Ready, Remote
<1>14. ASSUME NEW e \in Asked, Bears(tr, e), ~Remote(t), ~Excused(t), t \notin misled'
       PROVE  Asking(c, t)
    <2>4. e \in Calls
        BY <1>14 DEF Ready, Asked
    <2>1. call[e].at = "call"
        BY <1>14, <2>4 DEF Ready
    <2>2. call[e].on = t
        BY <1>0, <1>14, <2>4 DEF AnswerInv, TokensAt, Ready
    <2>3. e # c
        BY <1>1, <2>1 DEF Sent
    <2> QED BY <2>1, <2>2, <2>3, <2>4 DEF Asking, Readers
<1>15. sent.out # <<>> => /\ 1 \in DOMAIN sent.out /\ sent.out[1] \in Line
                          /\ \A e : sent.out[1] = AnswerTo(e) => Bears(tr, e)
    BY <1>3 DEF Channel, Bears
<1>16. Gets(c, r, t, k)
    <2> SUFFICES ASSUME r.result.kind = "answer"
                 PROVE  \E e \in Asked : /\ r.result = AnswerTo(e) /\ r.on = t
                            /\ Bears(transport[t], e) /\ ~Bears(k, e)
                            /\ (e = Initialize => t \in misled')
                            /\ (e # c => ~Remote(c) /\ (Excused(t) \/ t \in overlapped' \cup misled'))
        BY DEF Gets
    <2>1. /\ ~Remote(c) /\ sent.out # <<>> /\ r.result = ResultOf(sent.out[1]) /\ r.on = t
          /\ \E rest \in OutAfter(sent.out, 1) : k = [sent EXCEPT !.out = rest]
        <3>1. Because("clash").kind # "answer"
            BY DEF Because
        <3>2. call[c].result.kind # "answer"
            BY <1>0, <1>1 DEF AnswerInv, ResultAt, Over, Because
        <3> QED BY <1>6, <3>1, <3>2 DEF Outcome
    <2> DEFINE e == sent.out[1].of
    <2>2. /\ r.result = AnswerTo(e) /\ sent.out[1] = AnswerTo(e)
          /\ e = Initialize \/ e \in Calls
        BY <1>15, <2>1, LineRead
    <2>3. Bears(tr, e) /\ e \in Asked
        BY <1>15, <2>1, <2>2 DEF Asked
    <2>4. Bears(transport[t], e) /\ (e = Initialize => t \in misled')
        BY <2>3 DEF Ready
    <2>5. ~Bears(k, e)
        <3>1. PICK rest \in OutAfter(sent.out, 1) : k = [sent EXCEPT !.out = rest]
            BY <2>1
        <3> HIDE DEF e
        <3> QED BY <1>3, <1>15, <2>1, <2>2, <3>1, ReadLine
    <2>6. Excused(t) \/ t \in overlapped' \cup misled'
        BY <1>5, <1>13, <1>14, <2>1, <2>3
    <2> HIDE DEF e
    <2> QED BY <2>1, <2>2, <2>3, <2>4, <2>5, <2>6
<1>17. StepAt(t)'
    <2> SUFFICES ASSUME ~Remote(t)', ~Excused(t)'
                 PROVE  InStep(t)'
        BY DEF StepAt
    <2>1. ~Remote(t) /\ ~Remote(c) /\ ~Excused(t) /\ t \notin misled'
        <3>4. t \notin misled'
            BY DEF Excused
        <3>1. call[t].at # "new"
            BY <1>0, OnFacts DEF Ready
        <3>2. ~Excused(t)
            BY <1>9, ExcusedStays
        <3>3. ~Remote(t)
            BY <1>9, <3>1, SourcesStay
        <3> QED BY <1>13, <3>2, <3>3, <3>4
    <2>2. ~Asking(c, t)
        BY <1>5 DEF Excused
    <2>3. \A e \in Asked : ~Bears(tr, e)
        BY <1>14, <2>1, <2>2
    <2>4. \A i \in DOMAIN tr.out : tr.out[i].kind # "rest"
        BY <2>1 DEF Ready
    <2>5. r.at = "call" /\ k = sent
        <3> SUFFICES ASSUME sent.out # <<>>, r.result = ResultOf(sent.out[1]), r.on = t
                     PROVE  FALSE
            BY <1>6, <2>1, <2>2 DEF Outcome
        <3>1. sent.out[1].kind # "rest"
            BY <1>3, <1>15, <2>4
        <3>2. sent.out[1].kind \notin {"note", "overlong"}
            <4>1. r.result.kind \notin {"timeout", "note", "overlong"}
                BY <1>11 DEF Excused
            <4> QED BY <1>15, <4>1, LineRead
        <3>3. sent.out[1].kind = "answer"
            BY <1>15, <3>1, <3>2, LineRead
        <3>4. sent.out[1] = AnswerTo(sent.out[1].of)
            BY <1>15, <3>3 DEF Line, AnswerTo
        <3>5. Bears(tr, sent.out[1].of)
            BY <1>15, <3>4
        <3> QED BY <1>15, <2>3, <3>5, LineRead DEF Asked
    <2>6. \A d \in Calls : call'[d].on = t /\ call'[d].at = "call" => d = c
        BY <1>11, <2>2 DEF Asking, Readers
    <2>7. \A e \in Calls : Bears(transport'[t], e) => call'[e].at = "call"
        BY <1>3, <1>11, <2>3, <2>5 DEF Asked
    <2>8. \A i \in DOMAIN transport'[t].out : transport'[t].out[i].kind # "rest"
        BY <1>3, <1>11, <2>4, <2>5
    <2> QED BY <2>6, <2>7, <2>8 DEF InStep, Bears
<1> QED BY <1>9, <1>10, <1>12, <1>16, <1>17, Kept

LEMMA ReusePooledAnswers ==
    ASSUME AInv, NEW c \in Calls, ReusePooled(c)
    PROVE  AnswerInv'
<1> DEFINE t == pool[SourceOf(c)]
<1>1. /\ call[c].at = "lock" /\ Pooled(c) /\ t # None /\ IsConnected(t)
      /\ Request(c, t, transport[t]) /\ misled' = misled
    BY DEF ReusePooled, HasConnected
<1>2. SourceOf(c) \in Singletons /\ call[c].job # "list"
    BY <1>1 DEF Pooled
<1>3. t \in Calls /\ SourceOf(t) = SourceOf(c) /\ call[t].at \in Serving
      /\ transport[t] \in Channel
    BY <1>1, <1>2, NoneApart DEF AInv, IInv, PoolInv, Typed, Serving
<1> HIDE DEF t
<1>4. PipeAt(t) /\ StepAt(t)
    BY <1>3 DEF AInv, AnswerInv
<1>5. Ready(c, t, transport[t])
    <2>1. transport[t].process # "none"
        BY <1>1 DEF IsConnected
    <2>2. Once(transport[t]) /\ (Bears(transport[t], Initialize) => t \in misled)
          /\ (transport[t].process # "running" => transport[t].inbox = <<>>)
        BY <1>3, <1>4 DEF PipeAt
    <2>3. ~Remote(t) /\ ~Excused(t) => InStep(t)
        BY <1>3, <1>4 DEF StepAt
    <2> QED BY <1>1, <1>2, <1>3, <2>1, <2>2, <2>3 DEF Ready, InStep
<1> QED BY <1>1, <1>3, <1>5, RequestAnswers

LEMMA InitializedAnswers ==
    ASSUME AInv, NEW c \in Calls, Initialized(c)
    PROVE  AnswerInv'
<1>1. /\ call[c].at = "init" /\ call[c].on = c /\ transport[c] \in Channel /\ PipeAt(c)
    BY OnFacts DEF Initialized, AInv, AnswerInv, Connecting
<1>2. PICK i \in Readable(c, c, Initialize) :
         /\ Request(c, c, [transport[c] EXCEPT !.out = RemoveAt(@, i)])
         /\ misled' = misled \cup (IF transport[c].out[i].kind = "note" THEN {c} ELSE {})
    BY <1>1 DEF Initialized
<1> DEFINE tr == [transport[c] EXCEPT !.out = RemoveAt(transport[c].out, i)]
<1>3. i \in DOMAIN transport[c].out
    BY <1>2 DEF Readable
<1>4. /\ Handshake(transport[c]) /\ Once(transport[c])
      /\ transport[c].process # "none"
      /\ transport[c].process # "running" => transport[c].inbox = <<>>
    <2>1. transport[c].process = "none" => transport[c].out = <<>>
        BY <1>1 DEF PipeAt
    <2>2. transport[c].out # <<>>
        BY <1>3
    <2> QED BY <1>1, <2>1, <2>2 DEF PipeAt
<1>5. /\ tr \in Channel /\ Once(tr) /\ tr.inbox = transport[c].inbox
      /\ tr.process = transport[c].process
      /\ \A e : Bears(tr, e) => Bears(transport[c], e)
      /\ \A e : transport[c].out[i] = AnswerTo(e) => ~Bears(tr, e)
      /\ \A j \in DOMAIN tr.out : \E m \in DOMAIN transport[c].out : tr.out[j] = transport[c].out[m]
    BY <1>1, <1>3, <1>4, TakenOut
<1>6. Request(c, c, tr)
    BY <1>2
<1> HIDE DEF tr
<1>7. misled \subseteq misled' /\ (Bears(tr, Initialize) => c \in misled')
    <2>1. CASE transport[c].out[i].kind = "note"
        BY <1>2, <2>1
    <2>2. CASE transport[c].out[i].kind # "note"
        <3>1. transport[c].out[i] = AnswerTo(Initialize)
            BY <1>3, <1>4, <2>2 DEF Handshake
        <3> QED BY <1>2, <1>5, <3>1
    <2> QED BY <2>1, <2>2
<1>8. \A e \in Calls : ~Bears(tr, e)
    <2>1. Initialize \notin Calls
        BY NoneApart DEF None, Initialize
    <2>2. \A e : AnswerTo(e) = AnswerTo(Initialize) => e = Initialize
        BY DEF AnswerTo
    <2>3. \A e : AnswerTo(e).kind # "note"
        BY DEF AnswerTo
    <2>4. ASSUME NEW e \in Calls, Bears(transport[c], e)
          PROVE  FALSE
        <3>1. CASE \E j \in DOMAIN transport[c].inbox : transport[c].inbox[j] = e
            BY <1>4, <2>1, <3>1 DEF Handshake
        <3>2. CASE \E j \in DOMAIN transport[c].out : transport[c].out[j] = AnswerTo(e)
            BY <1>4, <2>1, <2>2, <2>3, <3>2 DEF Handshake
        <3> QED BY <2>4, <3>1, <3>2 DEF Bears
    <2> QED BY <1>5, <2>4
<1>9. \A j \in DOMAIN tr.out : tr.out[j].kind # "rest"
    <2>1. AnswerTo(Initialize).kind # "rest"
        BY DEF AnswerTo
    <2>2. \A m \in DOMAIN transport[c].out : transport[c].out[m].kind # "rest"
        BY <1>4, <2>1 DEF Handshake
    <2> QED BY <1>5, <2>2
<1>10. Ready(c, c, tr)
    BY <1>1, <1>4, <1>5, <1>7, <1>8, <1>9 DEF Ready
<1> QED BY <1>6, <1>10, RequestAnswers

(* A call that is waiting for its answer, and its transport. *)
LEMMA WaitingFacts ==
    ASSUME AInv, NEW c \in Calls, call[c].at = "call"
    PROVE  \E t \in Calls :
              /\ call[c].on = t /\ transport[t] \in Channel /\ call[t].at \in Serving
              /\ PipeAt(t) /\ StepAt(t) /\ TokensAt(t) /\ (Remote(c) <=> Remote(t))
              /\ t # c => call[c].job = "tool" /\ call[c].on # c
<1>1. call[c].on \in Calls /\ (call[c].on # c => call[c].job = "tool")
    BY CallingFacts, NoneApart DEF AInv, IInv, Pooled
<1> DEFINE t == call[c].on
<1>2. call[t].at \in Serving /\ transport[t] \in Channel
    BY <1>1, OnFacts, NoneApart DEF AInv, Serving
<1>3. PipeAt(t) /\ StepAt(t) /\ TokensAt(t)
    BY <1>1 DEF AInv, AnswerInv
<1>4. Remote(c) <=> Remote(t)
    BY <1>1, NoneApart DEF AInv, AnswerInv, SourceAt, Remote
<1> HIDE DEF t
<1>5. t \in Calls /\ t = call[c].on
    BY <1>1 DEF t
<1> QED BY <1>1, <1>2, <1>3, <1>4, <1>5

(* How a waiting call ends. *)
Ends(c, result, t, k) ==
    /\ call[c].at = "call" /\ call[c].on = t
    /\ call' = [call EXCEPT ![c] = Finished(c, result)]
    /\ transport' = [transport EXCEPT ![t] = k]
    /\ UNCHANGED history

EndedAs(c, r, result, t, k) ==
    /\ Move(c, r, t, k) /\ r.on = t /\ r.result = result /\ r.at \in Over
    /\ call'[c] = r /\ \A d \in Calls \ {c} : call'[d] = call[d]
    /\ transport'[t] = k /\ overlapped' = overlapped /\ misled' = misled

LEMMA EndFacts ==
    ASSUME AInv, NEW c \in Calls, NEW t \in Calls, NEW result \in Result, NEW k \in Channel,
           Ends(c, result, t, k)
    PROVE  \E r \in CallRecord : EndedAs(c, r, result, t, k)
<1> DEFINE r == Finished(c, result)
<1>0. call[c].at = "call" /\ call[c].on = t
    BY DEF Ends
<1>1. /\ call[c] \in CallRecord /\ t # None
      /\ t # c => call[c].job = "tool"
      /\ t # c => SourceOf(t) = SourceOf(c)
    <2>1. IInv /\ SourceAt(c)
        BY DEF AInv, AnswerInv
    <2> QED BY <1>0, <2>1, OnFacts, CallingFacts, NoneApart DEF Pooled, SourceAt
<1>2. /\ r \in CallRecord /\ r.at = (IF call[c].job = "list" THEN "close" ELSE "ended")
      /\ r.on = t /\ r.result = result /\ r.source = call[c].source
    BY <1>0, <1>1 DEF Finished, CallRecord, Places
<1> HIDE DEF r
<1>3. call' = [call EXCEPT ![c] = r]
    BY DEF r, Ends
<1>4. Move(c, r, t, k)
    BY <1>0, <1>1, <1>2, <1>3 DEF Move, Over, Sent, Serving, SourceOf, Ends
<1>5. /\ call'[c] = r /\ \A d \in Calls \ {c} : call'[d] = call[d]
      /\ transport'[t] = k
    BY <1>4, MoveFacts DEF AInv
<1>6. EndedAs(c, r, result, t, k)
    BY <1>2, <1>4, <1>5 DEF Over, Ends, EndedAs
<1> QED BY <1>2, <1>6

(* Pipes that nothing is added to. *)
LEMMA PipeKept ==
    ASSUME AInv, NEW t \in Calls, NEW k \in Channel, transport'[t] = k, Once(k),
           k.process = transport[t].process, k.inbox = transport[t].inbox,
           \A e : Bears(k, e) => Bears(transport[t], e),
           transport[t].out = <<>> => k.out = <<>>,
           call'[t].at # "init", call'[t].at \in Serving => call[t].at \in Serving,
           misled \subseteq misled'
    PROVE  PipeAt(t)'
<1>1. PipeAt(t)
    BY DEF AInv, AnswerInv
<1>2. ~Bears(transport[t], Initialize) => ~Bears(k, Initialize)
    OBVIOUS
<1> QED BY <1>1, <1>2 DEF PipeAt, Bears

LEMMA ReadAnswers ==
    ASSUME AInv, NEW c \in Calls, Read(c)
    PROVE  AnswerInv'
<1>1. call[c].at = "call"
    BY DEF Read
<1>2. PICK t \in Calls :
         /\ call[c].on = t /\ transport[t] \in Channel /\ call[t].at \in Serving
         /\ PipeAt(t) /\ StepAt(t) /\ TokensAt(t) /\ (Remote(c) <=> Remote(t))
         /\ t # c => call[c].job = "tool" /\ call[c].on # c
    BY <1>1, WaitingFacts
<1>3. PICK i \in Readable(c, t, c) : \E rest \in OutAfter(transport[t].out, i) :
         /\ call' = [call EXCEPT ![c] = Finished(c, ResultOf(transport[t].out[i]))]
         /\ transport' = [transport EXCEPT ![t].out = rest]
    BY <1>2 DEF Read
<1>4. PICK rest \in OutAfter(transport[t].out, i) :
         /\ call' = [call EXCEPT ![c] = Finished(c, ResultOf(transport[t].out[i]))]
         /\ transport' = [transport EXCEPT ![t].out = rest]
    BY <1>3
<1> DEFINE line == transport[t].out[i]
           k == [transport[t] EXCEPT !.out = rest]
<1>5. /\ i \in DOMAIN transport[t].out /\ line \in Line /\ ResultOf(line) \in Result
      /\ Once(transport[t]) /\ (Remote(c) => line.of = c)
      /\ transport[t].out # <<>>
    <2>1. i \in DOMAIN transport[t].out /\ line \in Line
        BY <1>2, <1>3 DEF Readable, Channel
    <2>2. Once(transport[t])
        BY <1>2 DEF PipeAt
    <2> QED BY <1>3, <2>1, <2>2, ResultOfType DEF Readable
<1>6. /\ k \in Channel /\ Once(k) /\ k.inbox = transport[t].inbox
      /\ k.process = transport[t].process
      /\ \A e : Bears(k, e) => Bears(transport[t], e)
      /\ \A e : line = AnswerTo(e) => ~Bears(k, e)
      /\ line.kind # "overlong" =>
            \A j \in DOMAIN k.out : \E m \in DOMAIN transport[t].out : k.out[j] = transport[t].out[m]
    <2> DEFINE old == transport[t]
    <2>1. old \in Channel /\ Once(old) /\ i \in DOMAIN old.out /\ rest \in OutAfter(old.out, i)
        BY <1>2, <1>4, <1>5
    <2>2. line = old.out[i] /\ k = [old EXCEPT !.out = rest]
        OBVIOUS
    <2> HIDE DEF line, k, old
    <2>3. /\ k \in Channel /\ Once(k) /\ k.inbox = old.inbox
          /\ k.process = old.process
          /\ \A e : Bears(k, e) => Bears(old, e)
          /\ \A e : line = AnswerTo(e) => ~Bears(k, e)
          /\ line.kind # "overlong" =>
                \A j \in DOMAIN k.out : \E m \in DOMAIN old.out : k.out[j] = old.out[m]
        BY <2>1, <2>2, ReadLine
    <2> QED BY <2>3 DEF old
<1>7. /\ transport' = [transport EXCEPT ![t] = k] /\ UNCHANGED history
      /\ call' = [call EXCEPT ![c] = Finished(c, ResultOf(line))]
    BY <1>4 DEF Read
<1>8. \A e : line = AnswerTo(e) => Bears(transport[t], e)
    BY <1>5 DEF Bears
<1> HIDE DEF line, k
<1>9. PICK r \in CallRecord :
         /\ Move(c, r, t, k) /\ r.on = t /\ r.result = ResultOf(line) /\ r.at \in Over
         /\ call'[c] = r /\ \A d \in Calls \ {c} : call'[d] = call[d]
         /\ transport'[t] = k /\ misled' = misled
    <2>1. PICK n \in Channel, result \in Result : n = k /\ result = ResultOf(line)
        BY <1>5, <1>6
    <2>2. Ends(c, result, t, n)
        BY <1>1, <1>2, <1>7, <2>1 DEF Ends
    <2>3. PICK r \in CallRecord : EndedAs(c, r, result, t, n)
        BY <2>2, EndFacts
    <2> QED BY <2>1, <2>3 DEF EndedAs
<1>10. Passes(c, r, t, k)
    BY <1>6 DEF Passes
<1>11. PipeAt(t)'
    <2>1. call'[t].at # "init"
        BY <1>2, <1>9 DEF Over, Serving
    <2> QED BY <1>2, <1>5, <1>6, <1>9, <2>1, PipeKept
\* Out of step or not, the answer that is read is in the pipe.
<1>12. ASSUME line.kind = "answer"
       PROVE  /\ r.result = AnswerTo(line.of) /\ line = AnswerTo(line.of)
              /\ line.of \in Asked /\ Bears(transport[t], line.of) /\ ~Bears(k, line.of)
              /\ line.of = Initialize => t \in misled
    <2>1. line = AnswerTo(line.of) /\ ResultOf(line) = line
        BY <1>5, <1>12 DEF Line, AnswerTo, ResultOf
    <2>2. line.of = Initialize => t \in misled
        BY <1>2, <1>8, <2>1 DEF PipeAt
    <2> QED BY <1>5, <1>6, <1>8, <1>9, <2>1, <2>2, LineRead DEF Asked
<1>13. ASSUME line.kind = "answer", ~Remote(t), ~Excused(t)
       PROVE  line.of = c
    <2>1. InStep(t)
        BY <1>2, <1>13 DEF StepAt
    <2>3. line.of \in Calls
        BY <1>12, <1>13 DEF Asked, Excused
    <2>2. call[line.of].at = "call" /\ call[line.of].on = t
        BY <1>2, <1>12, <1>13, <2>1, <2>3 DEF InStep, TokensAt
    <2> QED BY <1>1, <1>2, <2>1, <2>2, <2>3 DEF InStep
<1>14. Gets(c, r, t, k)
    <2> SUFFICES ASSUME r.result.kind = "answer"
                 PROVE  \E e \in Asked : /\ r.result = AnswerTo(e) /\ r.on = t
                            /\ Bears(transport[t], e) /\ ~Bears(k, e)
                            /\ (e = Initialize => t \in misled')
                            /\ (e # c => ~Remote(c) /\ (Excused(t) \/ t \in overlapped' \cup misled'))
        BY DEF Gets
    <2>1. line.kind = "answer"
        BY <1>5, <1>9, LineRead DEF AnswerTo
    <2>2. line.of # c => ~Remote(c) /\ Excused(t)
        BY <1>2, <1>5, <1>13, <2>1
    <2> QED BY <1>9, <1>12, <2>1, <2>2
<1>15. StepAt(t)'
    <2> SUFFICES ASSUME ~Remote(t)', ~Excused(t)'
                 PROVE  InStep(t)'
        BY DEF StepAt
    <2>1. ~Remote(t) /\ ~Excused(t)
        <3>1. call[t].at # "new"
            BY <1>2 DEF Serving
        <3> QED BY <1>9, <3>1, ExcusedStays, SourcesStay
    <2>2. InStep(t)
        BY <1>2, <2>1 DEF StepAt
    <2>3. line.kind = "answer"
        <3>1. line.kind # "rest"
            BY <1>5, <2>2 DEF InStep, line
        <3>2. r.result.kind \notin {"note", "overlong"}
            BY <1>9 DEF Excused
        <3> QED BY <1>5, <1>9, <3>1, <3>2, LineRead
    <2>4. ~Bears(k, c)
        BY <1>12, <1>13, <2>1, <2>3
    <2>5. \A e \in Calls : Bears(k, e) => call'[e].at = "call"
        BY <1>6, <1>9, <2>2, <2>4 DEF InStep
    <2>6. \A j \in DOMAIN k.out : k.out[j].kind # "rest"
        BY <1>6, <2>2, <2>3 DEF InStep
    <2>7. \A d, e \in Calls :
             /\ call'[d].on = t /\ call'[d].at = "call"
             /\ call'[e].on = t /\ call'[e].at = "call"
             => d = e
        BY <1>9, <2>2 DEF InStep, Over
    <2> QED BY <1>9, <2>5, <2>6, <2>7 DEF InStep, Bears
<1> QED BY <1>9, <1>10, <1>11, <1>14, <1>15, Kept

(* A handshake that fails. *)
LEMMA AbortAnswers ==
    ASSUME AInv, NEW c \in Calls, call[c].at = "init", NEW kind \in {"timeout", "failed"},
           call' = [call EXCEPT ![c] = Aborted(c, kind)], UNCHANGED <<transport, history>>
    PROVE  AnswerInv'
<1> DEFINE r == Aborted(c, kind)
           k == transport[c]
<1>1. /\ call[c] \in CallRecord /\ call[c].on = c /\ k \in Channel
      /\ Because(kind) \in Result /\ Because(kind).kind # "answer"
    BY OnFacts, BecauseType DEF AInv, Connecting, Because, Ended
<1>2. /\ r \in CallRecord /\ r.at = "close" /\ r.on = c /\ r.source = call[c].source
      /\ r.result = Because(kind)
    BY <1>1 DEF Aborted, CallRecord, Places
<1>3. transport' = [transport EXCEPT ![c] = k] /\ call' = [call EXCEPT ![c] = r]
    BY NoneApart DEF AInv, IInv, Typed
<1> HIDE DEF r
<1>4. Move(c, r, c, k)
    <2> HIDE DEF k
    <2> QED BY <1>1, <1>2, <1>3 DEF Move, Over, Sent
<1>5. call'[c] = r /\ transport'[c] = transport[c]
    BY <1>4, MoveFacts DEF AInv
<1>6. PipeAt(c)'
    BY <1>2, <1>5 DEF AInv, AnswerInv, PipeAt, Serving
<1>7. StepAt(c)'
    BY <1>2, <1>5 DEF StepAt, Serving
<1>8. Passes(c, r, c, k) /\ Gets(c, r, c, k)
    BY <1>1, <1>2 DEF Passes, Gets
<1> HIDE DEF k
<1> QED BY <1>4, <1>6, <1>7, <1>8, Kept

(* A call that ends without a line. *)
LEMMA GiveUpAnswers ==
    ASSUME AInv, NEW c \in Calls, call[c].at = "call", NEW kind \in {"timeout", "failed"},
           call' = [call EXCEPT ![c] = Finished(c, Because(kind))],
           UNCHANGED <<transport, history>>,
           kind = "timeout" \/ Remote(c) \/ \A e : ~Bears(transport[call[c].on], e)
    PROVE  AnswerInv'
<1>1. PICK t \in Calls :
         /\ call[c].on = t /\ transport[t] \in Channel /\ call[t].at \in Serving
         /\ PipeAt(t) /\ StepAt(t) /\ TokensAt(t) /\ (Remote(c) <=> Remote(t))
         /\ t # c => call[c].job = "tool" /\ call[c].on # c
    BY WaitingFacts
<1>2. Because(kind).kind = kind /\ Because(kind) \in Result
    BY BecauseType DEF Because, Ended
<1>3. PICK k \in Channel, result \in Result : k = transport[t] /\ result = Because(kind)
    BY <1>1, <1>2
<1>4. Ends(c, result, t, k)
    <2>1. transport' = [transport EXCEPT ![t] = k]
        BY <1>3, NoneApart DEF AInv, IInv, Typed
    <2> QED BY <1>1, <1>3, <2>1 DEF Ends
<1>5. PICK r \in CallRecord : EndedAs(c, r, result, t, k)
    BY <1>4, EndFacts
<1>6. /\ Move(c, r, t, k) /\ r.on = t /\ r.result.kind = kind /\ r.at \in Over
      /\ call'[c] = r /\ \A d \in Calls \ {c} : call'[d] = call[d]
      /\ transport'[t] = k /\ misled' = misled
    BY <1>2, <1>3, <1>5 DEF EndedAs
<1>7. PipeAt(t)'
    <2>1. call'[t].at # "init" /\ Once(k)
        BY <1>1, <1>3, <1>6 DEF Over, Serving, PipeAt
    <2> QED BY <1>1, <1>3, <1>6, <2>1, PipeKept
<1>8. Passes(c, r, t, k) /\ Gets(c, r, t, k)
    BY <1>3, <1>6 DEF Passes, Gets
<1>9. StepAt(t)'
    <2> SUFFICES ASSUME ~Remote(t)', ~Excused(t)'
                 PROVE  InStep(t)'
        BY DEF StepAt
    <2>1. ~Remote(t) /\ ~Excused(t)
        <3>1. call[t].at # "new"
            BY <1>1 DEF Serving
        <3> QED BY <1>6, <3>1, ExcusedStays, SourcesStay
    <2>2. InStep(t)
        BY <1>1, <2>1 DEF StepAt
    <2>3. kind # "timeout"
        BY <1>6 DEF Excused
    <2>4. \A e : ~Bears(k, e)
        BY <1>1, <1>3, <2>1, <2>3
    <2> QED BY <1>3, <1>6, <2>2, <2>4 DEF InStep, Bears, Over
<1> QED BY <1>6, <1>7, <1>8, <1>9, Kept

LEMMA TimeOutAnswers ==
    ASSUME AInv, NEW c \in Calls, TimeOut(c)
    PROVE  AnswerInv'
<1>1. CASE call[c].at = "init"
    BY <1>1, AbortAnswers DEF TimeOut
<1>2. CASE call[c].at # "init"
    BY <1>2, GiveUpAnswers DEF TimeOut
<1> QED BY <1>1, <1>2

LEMMA LoseAnswers ==
    ASSUME AInv, NEW c \in Calls, Lose(c)
    PROVE  AnswerInv'
<1>1. CASE call[c].at = "init"
    BY <1>1, AbortAnswers DEF Lose
<1>2. CASE call[c].at = "call"
    <2>1. call[c].on \in Calls
        BY <1>2, WaitingFacts
    <2>2. ~Remote(c) => \A e : ~Bears(transport[call[c].on], e)
        <3>1. PipeAt(call[c].on)
            BY <2>1 DEF AInv, AnswerInv
        <3>2. ~Remote(c) => /\ transport[call[c].on].process # "running"
                            /\ transport[call[c].on].out = <<>>
            BY <1>2 DEF Lose
        <3> QED BY <3>1, <3>2 DEF PipeAt, Bears
    <2>3. /\ call' = [call EXCEPT ![c] = Finished(c, Because("failed"))]
          /\ UNCHANGED <<transport, history>>
        BY <1>2 DEF Lose
    <2> QED BY <1>2, <2>2, <2>3, GiveUpAnswers
<1> QED BY <1>1, <1>2 DEF Lose

LEMMA DisconnectAnswers ==
    ASSUME AInv, NEW c \in Calls, Disconnect(c)
    PROVE  AnswerInv'
<1> DEFINE r == [call[c] EXCEPT !.at = "ended"]
           k == [process |-> "gone", inbox |-> <<>>, out |-> <<>>]
<1>1. /\ call[c].at = "close" /\ call[c].on = c /\ call[c] \in CallRecord
    BY OnFacts DEF Disconnect, AInv, Connecting
<1>2. /\ r \in CallRecord /\ r.at = "ended" /\ r.on = c /\ r.source = call[c].source
      /\ r.result = call[c].result
    BY <1>1 DEF CallRecord, Places
<1>3. k \in Channel /\ k.process = "gone" /\ k.inbox = <<>> /\ k.out = <<>>
    BY DEF Channel
<1>4. /\ call' = [call EXCEPT ![c] = r] /\ transport' = [transport EXCEPT ![c] = k]
      /\ UNCHANGED history
    BY <1>1 DEF Disconnect
<1>5. \A d \in Calls : call[d].on = c => d = c
    BY <1>1, OnFacts, NoneApart DEF AInv, Serving
<1> HIDE DEF r, k
<1>6. Move(c, r, c, k)
    BY <1>1, <1>2, <1>3, <1>4 DEF Move, Over, Sent
<1>7. /\ call'[c] = r /\ \A d \in Calls \ {c} : call'[d] = call[d]
      /\ transport'[c] = k
    BY <1>6, MoveFacts DEF AInv
<1>8. PipeAt(c)'
    BY <1>2, <1>3, <1>7 DEF PipeAt, Once, Bears
<1>9. StepAt(c)'
    BY <1>2, <1>3, <1>5, <1>7 DEF StepAt, InStep, Bears
<1>10. Passes(c, r, c, k) /\ Gets(c, r, c, k)
    BY <1>1, <1>3 DEF Passes, Gets, Bears, Over
<1> QED BY <1>6, <1>8, <1>9, <1>10, Kept

-----------------------------------------------------------------------------
(* The steps of the servers.                                               *)

(* A server turns requests into answers, adds messages, and dies. *)
LEMMA ServerAnswers ==
    ASSUME AInv, NEW t \in Calls, NEW k \in Channel,
           transport' = [transport EXCEPT ![t] = k], UNCHANGED <<call, history>>,
           transport[t].process # "none", k.process # "none", Once(k),
           k.process # "running" => k.inbox = <<>>,
           call[t].at = "init" => Handshake(k),
           \A e : Bears(k, e) => Bears(transport[t], e),
           \A j \in DOMAIN k.out : \/ k.out[j].kind # "rest"
                                   \/ \E m \in DOMAIN transport[t].out : k.out[j] = transport[t].out[m]
    PROVE  AnswerInv'
<1>1. PICK r \in CallRecord : r = call[t]
    BY OnFacts DEF AInv
<1>2. /\ call[t].on = t /\ call[t].at \notin {"new", "lock", "spawn"}
      /\ call[t].at \notin Over => call[t].result = Because("none")
      /\ PipeAt(t) /\ StepAt(t)
    BY OnFacts DEF AInv, AnswerInv, ResultAt, Over
<1>3. Move(t, r, t, k)
    <2>1. call' = [call EXCEPT ![t] = r]
        BY <1>1 DEF AInv, IInv, Typed
    <2> QED BY <1>1, <1>2, <2>1 DEF Move
<1>4. transport'[t] = k
    BY <1>3, MoveFacts DEF AInv
<1>5. Passes(t, r, t, k)
    BY DEF Passes
<1>6. Gets(t, r, t, k)
    BY <1>1, <1>2 DEF Gets, Because
<1>7. PipeAt(t)'
    BY <1>2, <1>4 DEF PipeAt, Bears
<1>8. StepAt(t)'
    <2> SUFFICES ASSUME StepAt(t), call[t].at \in Serving, ~Remote(t), ~Excused(t)
                 PROVE  InStep(t)'
        BY <1>2 DEF StepAt, Remote, SourceOf, Excused
    <2>1. InStep(t)
        BY DEF StepAt
    <2>2. \A d \in Calls : Bears(k, d) => call[d].at = "call"
        BY <2>1 DEF InStep
    <2>3. \A j \in DOMAIN k.out : k.out[j].kind # "rest"
        BY <2>1 DEF InStep
    <2> QED BY <1>4, <2>1, <2>2, <2>3 DEF InStep, Bears
<1> QED BY <1>3, <1>5, <1>6, <1>7, <1>8, Kept

LEMMA AnswerAnswers ==
    ASSUME AInv, NEW t \in Calls, Answer(t)
    PROVE  AnswerInv'
<1>0. PICK i \in DOMAIN transport[t].inbox :
         \E kind \in {"answer"} \cup (IF Overlong /\ IsPipe(t) /\ transport[t].inbox[i] # Initialize
                                      THEN {"overlong"} ELSE {}) :
            transport' = [transport EXCEPT ![t] =
               [transport[t] EXCEPT
                  !.inbox = RemoveAt(transport[t].inbox, i),
                  !.out = Append(transport[t].out, [kind |-> kind, of |-> transport[t].inbox[i]])]]
    BY Zenon DEF Answer
<1>1. PICK kind \in {"answer", "overlong"} :
         /\ transport[t].inbox[i] = Initialize => kind = "answer"
         /\ transport' = [transport EXCEPT ![t] =
               [transport[t] EXCEPT
                  !.inbox = RemoveAt(transport[t].inbox, i),
                  !.out = Append(transport[t].out, [kind |-> kind, of |-> transport[t].inbox[i]])]]
    BY <1>0, Zenon
<1>2. PICK old \in Channel : old = transport[t]
    BY OnFacts DEF AInv
<1>3. PICK asked \in {Initialize} \cup Calls : asked = old.inbox[i]
    BY <1>0, <1>2 DEF Channel
<1> DEFINE line == [kind |-> kind, of |-> asked]
           n == [old EXCEPT !.inbox = RemoveAt(old.inbox, i)]
           k == [n EXCEPT !.out = Append(n.out, line)]
<1>4. /\ line \in Line /\ line.kind # "rest"
      /\ \A e : line = AnswerTo(e) => e = asked
      /\ kind = "answer" => line = AnswerTo(asked)
    <2>1. asked \in 0 .. MaxCalls
        BY McpAssumption DEF Initialize, Calls
    <2> QED BY <2>1 DEF Line, AnswerTo
<1>5. PipeAt(t) /\ Once(old) /\ old.process = "running"
    BY <1>2 DEF AInv, AnswerInv, PipeAt, Answer
<1>6. /\ n \in Channel /\ Once(n) /\ n.out = old.out /\ n.process = old.process
      /\ \A e : Bears(n, e) => Bears(old, e)
      /\ ~Bears(n, asked)
    BY <1>0, <1>2, <1>3, <1>5, TakenIn
<1>7. transport' = [transport EXCEPT ![t] = k]
    BY <1>1, <1>2, <1>3 DEF Channel
<1>8. n.inbox = RemoveAt(old.inbox, i) /\ k.out = Append(n.out, line)
    BY DEF Channel
<1> HIDE DEF n, line
<1>9. /\ k \in Channel /\ Once(k) /\ k.inbox = n.inbox /\ k.process = n.process
      /\ \A e : Bears(k, e) => Bears(n, e) \/ line = AnswerTo(e)
      /\ \A j \in DOMAIN k.out : k.out[j] = line \/ \E m \in DOMAIN n.out : k.out[j] = n.out[m]
    BY <1>4, <1>6, PutBehind
<1> HIDE DEF k
<1>10. Bears(old, asked)
    BY <1>0, <1>2, <1>3 DEF Bears
<1>11. call[t].at = "init" => Handshake(k)
    <2> SUFFICES ASSUME call[t].at = "init" PROVE Handshake(k)
        OBVIOUS
    <2>1. Handshake(old)
        BY <1>2, <1>5 DEF PipeAt
    <2>2. asked = Initialize
        BY <1>0, <1>2, <1>3, <2>1 DEF Handshake
    <2>3. line = AnswerTo(Initialize)
        BY <1>1, <1>2, <1>3, <1>4, <2>2
    <2>4. \A j \in DOMAIN k.out : k.out[j].kind = "note" \/ k.out[j] = AnswerTo(Initialize)
        BY <1>6, <1>9, <2>1, <2>3 DEF Handshake
    <2>5. \A j \in DOMAIN k.inbox : k.inbox[j] = Initialize
        <3>1. old.inbox \in Seq({Initialize} \cup Calls) /\ i \in DOMAIN old.inbox
            BY <1>0, <1>2 DEF Channel
        <3>2. /\ DOMAIN k.inbox = 1 .. Len(old.inbox) - 1
              /\ \A j \in 1 .. Len(old.inbox) - 1 :
                    k.inbox[j] = old.inbox[IF j < i THEN j ELSE j + 1]
            BY <1>8, <1>9, <3>1, RemoveAtElements
        <3>3. \A j \in 1 .. Len(old.inbox) - 1 : (IF j < i THEN j ELSE j + 1) \in DOMAIN old.inbox
            BY <3>1
        <3> QED BY <2>1, <3>2, <3>3 DEF Handshake
    <2> QED BY <2>4, <2>5 DEF Handshake
<1>12. \A e : Bears(k, e) => Bears(old, e)
    BY <1>4, <1>6, <1>9, <1>10
<1>13. \A j \in DOMAIN k.out : \/ k.out[j].kind # "rest"
                               \/ \E m \in DOMAIN old.out : k.out[j] = old.out[m]
    BY <1>4, <1>6, <1>9
<1>14. UNCHANGED <<call, history>>
    BY DEF Answer
<1> QED BY <1>2, <1>5, <1>6, <1>7, <1>9, <1>11, <1>12, <1>13, <1>14, ServerAnswers

LEMMA NotifyAnswers ==
    ASSUME AInv, NEW t \in Calls, Notify(t)
    PROVE  AnswerInv'
<1> DEFINE line == [kind |-> "note", of |-> 0]
<1>1. PICK old \in Channel : old = transport[t]
    BY OnFacts DEF AInv
<1> DEFINE k == [old EXCEPT !.out = Append(old.out, line)]
<1>2. line \in Line /\ line.kind = "note" /\ \A e : line # AnswerTo(e)
    BY McpAssumption DEF Line, AnswerTo
<1>3. /\ transport' = [transport EXCEPT ![t] = k] /\ UNCHANGED <<call, history>>
      /\ old.process = "running"
    BY <1>1 DEF Notify
<1> HIDE DEF line
<1>4. Once(old)
    BY <1>1 DEF AInv, AnswerInv, PipeAt
<1>5. /\ k \in Channel /\ Once(k) /\ k.inbox = old.inbox /\ k.process = old.process
      /\ \A e : Bears(k, e) => Bears(old, e) \/ line = AnswerTo(e)
      /\ \A j \in DOMAIN k.out : k.out[j] = line \/ \E m \in DOMAIN old.out : k.out[j] = old.out[m]
    BY <1>2, <1>4, PutBehind
<1> HIDE DEF k
<1>6. call[t].at = "init" => Handshake(k)
    <2> SUFFICES ASSUME Handshake(old)
                 PROVE  Handshake(k)
        BY <1>1 DEF AInv, AnswerInv, PipeAt
    <2> QED BY <1>2, <1>5 DEF Handshake
<1> QED BY <1>1, <1>2, <1>3, <1>5, <1>6, ServerAnswers

LEMMA ExitAnswers ==
    ASSUME AInv, NEW t \in Calls, Exit(t)
    PROVE  AnswerInv'
<1>1. PICK old \in Channel : old = transport[t]
    BY OnFacts DEF AInv
<1> DEFINE k == [old EXCEPT !.process = "exited", !.inbox = <<>>]
<1>2. k \in Channel /\ k.process = "exited" /\ k.inbox = <<>> /\ k.out = old.out
    <2>1. <<>> \in Seq({Initialize} \cup Calls)
        OBVIOUS
    <2> QED BY <2>1 DEF Channel
<1>3. /\ transport' = [transport EXCEPT ![t] = k] /\ UNCHANGED <<call, history>>
      /\ old.process = "running"
    BY <1>1 DEF Exit
<1> HIDE DEF k
<1>4. PipeAt(t)
    BY DEF AInv, AnswerInv
<1>5. Once(k) /\ \A e : Bears(k, e) => Bears(old, e)
    BY <1>1, <1>2, <1>4 DEF PipeAt, Once, Bears
<1>6. call[t].at = "init" => Handshake(k)
    BY <1>1, <1>2, <1>4 DEF PipeAt, Handshake
<1> QED BY <1>1, <1>2, <1>3, <1>5, <1>6, ServerAnswers

LEMMA ReapAnswers ==
    ASSUME AInv, NEW t \in Calls, Reap(t)
    PROVE  AnswerInv'
<1>1. PICK old \in Channel : old = transport[t]
    BY OnFacts DEF AInv
<1> DEFINE k == [old EXCEPT !.process = "gone"]
<1>2. k \in Channel /\ k.process = "gone" /\ k.inbox = old.inbox /\ k.out = old.out
    BY DEF Channel
<1>3. /\ transport' = [transport EXCEPT ![t] = k] /\ UNCHANGED <<call, history>>
      /\ old.process = "exited"
    BY <1>1 DEF Reap
<1> HIDE DEF k
<1>4. PipeAt(t)
    BY DEF AInv, AnswerInv
<1>5. Once(k) /\ k.inbox = <<>> /\ \A e : Bears(k, e) => Bears(old, e)
    BY <1>1, <1>2, <1>3, <1>4 DEF PipeAt, Once, Bears
<1>6. call[t].at = "init" => Handshake(k)
    BY <1>1, <1>2, <1>4 DEF PipeAt, Handshake
<1> QED BY <1>1, <1>2, <1>3, <1>5, <1>6, ServerAnswers

-----------------------------------------------------------------------------
(* Nothing is in the pipes at first. *)
LEMMA AnswersAtFirst == Init => AnswerInv
<1> SUFFICES ASSUME Init PROVE AnswerInv
    OBVIOUS
<1>1. \A c \in Calls : /\ call[c].at = "new" /\ call[c].on = None
                       /\ call[c].result = Because("none")
    BY DEF Init, NewCall
<1>2. \A c \in Calls : transport[c].inbox = <<>> /\ transport[c].out = <<>>
    BY NoneApart DEF Init, NewTransport
<1>3. \A t \in Calls : PipeAt(t) /\ TokensAt(t) /\ StepAt(t)
    BY <1>1, <1>2 DEF PipeAt, TokensAt, StepAt, Once, Bears, Serving
<1>4. \A c \in Calls : ResultAt(c) /\ SourceAt(c)
    BY <1>1 DEF ResultAt, SourceAt, Because
<1> QED BY <1>3, <1>4 DEF AnswerInv

(* Every step keeps the answers accounted for. *)
LEMMA AnswerSteps == AInv /\ [Next]_vars => AInv'
<1> SUFFICES ASSUME AInv, [Next]_vars PROVE AnswerInv'
    BY Steps DEF AInv
<1>1. ASSUME NEW c \in Calls, NEW s \in Sources, NEW job \in Jobs,
             Arrive(c, s, job) \/ Unresolved(c, s, job)
      PROVE  AnswerInv'
    BY <1>1, ArriveAnswers, UnresolvedAnswers
<1>2. ASSUME NEW c \in Calls, Proceed(c)
      PROVE  AnswerInv'
    BY <1>2, CreateAnswers, ReusePooledAnswers, SpawnAnswers, SpawnFailsAnswers,
       InitializedAnswers, ReadAnswers, TimeOutAnswers, LoseAnswers, DisconnectAnswers
       DEF Proceed
<1>3. ASSUME NEW t \in Transports, Answer(t) \/ Notify(t) \/ Exit(t) \/ Reap(t)
      PROVE  AnswerInv'
    BY <1>3, NoneApart, AnswerAnswers, NotifyAnswers, ExitAnswers, ReapAnswers
<1>4. CASE UNCHANGED vars
    <2>1. \A u \in Calls : (PipeAt(u) /\ TokensAt(u))'
        BY <1>4 DEF vars, AInv, AnswerInv, PipeAt, TokensAt, Bears
    <2>2. \A u \in Calls : StepAt(u)'
        BY <1>4 DEF vars, AInv, AnswerInv, StepAt, InStep, Excused, Remote, SourceOf, Bears
    <2>3. \A u \in Calls : SourceAt(u)'
        BY <1>4 DEF vars, AInv, AnswerInv, SourceAt, SourceOf
    <2>4. \A u \in Calls : ResultAt(u)'
        BY <1>4 DEF vars, AInv, AnswerInv, ResultAt, Accounted, Excused, Remote, SourceOf, Bears
    <2> QED BY <2>1, <2>2, <2>3, <2>4 DEF AnswerInv
<1> QED BY <1>1, <1>2, <1>3, <1>4 DEF Next

(* An answer is given to one call only, and to a call that asked the same   *)
(* process; a call gets the answer to another one only over a pipe that     *)
(* overlapping calls, a time-out, an unasked message or an overlong answer  *)
(* has put out of step, and the answer to the handshake only if an unasked  *)
(* message was taken for it (_send_request does not compare the ids).       *)
THEOREM AnswersExplained == Spec => []AnswersAccountedFor
<1>1. ASSUME AInv
      PROVE  AnswersAccountedFor
    <2> SUFFICES ASSUME NEW c \in Calls, call[c].result.kind = "answer"
                 PROVE  LET of == call[c].result.of
                            t  == call[c].on
                        IN /\ IF of = Initialize THEN t \in misled ELSE call[of].on = t
                           /\ \A d \in Calls \ {c} : call[d].on = t => call[d].result # call[c].result
                           /\ of # c => \/ t \in overlapped \cup misled
                                        \/ \E d \in Calls \ {c} :
                                              /\ call[d].on = t
                                              /\ call[d].result.kind \in {"timeout", "note", "overlong"}
        BY DEF AnswersAccountedFor
    <2>1. PICK e \in Asked : call[c].result = AnswerTo(e) /\ Accounted(c, e)
        BY <1>1 DEF AInv, AnswerInv, ResultAt
    <2>2. call[c].result.of = e
        BY <2>1 DEF AnswerTo
    <2>3. e # c => Excused(call[c].on)
        BY <2>1 DEF Accounted
    <2>4. e # c => \/ call[c].on \in overlapped \cup misled
                   \/ \E d \in Calls \ {c} :
                         /\ call[d].on = call[c].on
                         /\ call[d].result.kind \in {"timeout", "note", "overlong"}
        BY <2>3 DEF Excused
    <2> QED BY <2>1, <2>2, <2>4 DEF Accounted
<1>2. Init => AInv
    BY Initially, AnswersAtFirst DEF AInv
<1> QED BY <1>1, <1>2, AnswerSteps, PTL DEF Spec
=============================================================================
