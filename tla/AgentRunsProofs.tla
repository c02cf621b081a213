--------------------------- MODULE AgentRunsProofs ---------------------------
(***************************************************************************)
(* Theorems about AgentRuns, for any number of connections, providers and  *)
(* models.  That a conversation asks its own model rests on what the       *)
(* provider and the agent hold between two requests: Chosen.               *)
(***************************************************************************)
EXTENDS AgentRuns, TLAPS

\* Only a run is between two requests, and a request that waits for a token
\* has a provider.
AtPoint ==
  \A c \in Conns : Busy(c) =>
    /\ task[c].at \in {"history", "ask", "tools"} => task[c].kind = "run"
    /\ task[c].at = "token" => task[c].on \in Providers

\* What a handler that nobody disturbed has chosen is still chosen: by the
\* provider, by the agent if it runs, and by the request under way.
Holds(c) ==
  /\ Current(task[c].own.on) = task[c].own.model
  /\ task[c].kind = "run" => llm = task[c].own.on
  /\ task[c].at = "token" => task[c].on = task[c].own.on
  /\ task[c].asked \in {None, task[c].own}

Chosen == \A c \in Conns : Busy(c) /\ c \notin disturbed => Holds(c)

IInv == TypeOK /\ AtPoint /\ Chosen

-----------------------------------------------------------------------------
(* A busy handler is at one of the points and has a task. *)
LEMMA BusyTask ==
  ASSUME TypeOK, NEW c \in Conns, Busy(c)
  PROVE  task[c] \in Task
BY DEF TypeOK, Busy, Idle

(* What current_model returns is a model. *)
LEMMA CurrentType ==
  ASSUME TypeOK, NEW p \in Providers
  PROVE  Current(p) \in Models
BY DEF TypeOK, Current

(* The initial state satisfies the invariant. *)
LEMMA Initially == Init => IInv
BY AgentAssumption DEF Init, IInv, TypeOK, AtPoint, Chosen, Busy, Idle, Types

(* A choice leaves alone whoever it does not disturb, and holds for its    *)
(* own handler (get_provider_for_model, set_model_override).               *)
LEMMA ChoiceHolds ==
  ASSUME IInv, NEW c \in Conns, NEW p \in Providers, NEW m \in Models \cup {None},
         NEW q \in Providers, Choose(c, p, m, q),
         NEW d \in Conns \ {c}, Busy(d), d \notin disturbed', task'[d] = task[d]
  PROVE  Holds(d)'
<1>1. task[d] \in Task
  BY BusyTask DEF IInv
<1>2. d \notin disturbed /\ Holds(d)
  BY DEF Choose, IInv, Chosen
<1>3. task[d].own.on # p /\ (task[d].kind = "run" => task[d].own.on = q)
  BY DEF Choose
<1>4. Current(task[d].own.on)' = task[d].own.model
  BY <1>1, <1>2, <1>3 DEF Choose, Current, Holds, IInv, TypeOK, Task, Request
<1>5. QED
  BY <1>2, <1>3, <1>4 DEF Choose, Holds

(* A new task, sent or not, is a task of its kind with the request chosen. *)
LEMMA NewTaskType ==
  ASSUME NEW kind \in Kinds, NEW at \in Points \ {"idle"},
         NEW p \in Providers, NEW m \in Models
  PROVE  NewTask(kind, at, p, m) \in Task
<1>1. 1 \in 1 .. MaxRounds /\ 0 \in 0 .. MaxTools
  BY AgentAssumption
<1> QED BY <1>1 DEF NewTask, Task, Request

LEMMA SendType ==
  ASSUME NEW p \in Providers, NEW m \in Models, NEW t \in Task
  PROVE  /\ Send(p, m, t) \in Task
         /\ Send(p, m, t).own = t.own /\ Send(p, m, t).kind = t.kind
         /\ Send(p, m, t).at \in {"token", "answer"} /\ Send(p, m, t).on = p
         /\ Send(p, m, t).asked \in {t.asked, [on |-> p, model |-> m]}
<1>1. CASE p \in Slow
  <2> DEFINE u == [t EXCEPT !.at = "token", !.on = p]
  <2>1. u \in Task /\ u.own = t.own /\ u.kind = t.kind /\ u.at = "token" /\ u.on = p
        /\ u.asked = t.asked
    BY DEF Task, Points
  <2>2. Send(p, m, t) = u
    BY <1>1 DEF Send
  <2> QED BY <2>1, <2>2
<1>2. CASE p \notin Slow
  <2> DEFINE q == [on |-> p, model |-> m]
             u == [t EXCEPT !.at = "answer", !.on = p, !.asked = q]
  <2>1. q \in Request
    BY DEF Request
  <2>2. Send(p, m, t) = u
    BY <1>2 DEF Send
  <2> HIDE DEF q
  <2>3. u \in Task /\ u.own = t.own /\ u.kind = t.kind /\ u.at = "answer" /\ u.on = p
        /\ u.asked = q
    BY <2>1 DEF Task, Points
  <2> QED BY <2>2, <2>3 DEF q
<1> QED BY <1>1, <1>2

(* After a choice, the provider chosen has the model, or that of its       *)
(* settings.                                                               *)
LEMMA ChoiceMade ==
  ASSUME TypeOK, NEW c \in Conns, NEW p \in Providers, NEW m \in Models \cup {None},
         NEW q \in Providers, Choose(c, p, m, q)
  PROVE  /\ Current(p)' = IF m = None THEN configured[p] ELSE m
         /\ llm' = q /\ c \notin disturbed'
         /\ override' \in [Providers -> Models \cup {None}]
         /\ disturbed' \subseteq Conns
         /\ UNCHANGED <<configured, default, saving>>
BY DEF Choose, Current, TypeOK

(* A message of a user keeps the invariant. *)
LEMMA StartRunKeeps ==
  ASSUME IInv, NEW c \in Conns, StartRun(c)
  PROVE  IInv'
<1>1. PICK p \in Providers, m \in Models \cup {None}, n \in Models, t \in Task :
        /\ Choose(c, p, m, p)
        /\ n = IF m = None THEN configured[p] ELSE m
        /\ t = NewTask("run", "history", p, n)
        /\ task' = [task EXCEPT ![c] = t]
  <2> DEFINE m == model[c]
             p == IF m = None THEN llm ELSE ProviderFor(m)
             n == IF m = None THEN configured[p] ELSE m
  <2>1. p \in Providers /\ m \in Models \cup {None}
    BY DEF StartRun, IInv, TypeOK
  <2>2. n \in Models
    BY <2>1 DEF IInv, TypeOK
  <2>3. Choose(c, p, m, p) /\ task' = [task EXCEPT ![c] = NewTask("run", "history", p, n)]
    BY DEF StartRun
  <2>4. NewTask("run", "history", p, n) \in Task
    BY <2>1, <2>2, NewTaskType DEF Kinds, Points
  <2> HIDE DEF m, p
  <2> QED BY <2>1, <2>2, <2>3, <2>4
<1>2. UNCHANGED <<model, input, changes>>
  BY DEF StartRun
<1>3. /\ t.own = [on |-> p, model |-> n] /\ t.kind = "run" /\ t.at = "history"
      /\ t.asked = None
  BY <1>1 DEF NewTask
<1>4. task'[c] = t /\ \A d \in Conns \ {c} : task'[d] = task[d]
  BY <1>1 DEF IInv, TypeOK
<1>5. TypeOK'
  <2>1. /\ llm' \in Providers /\ override' \in [Providers -> Models \cup {None}]
        /\ disturbed' \subseteq Conns /\ UNCHANGED <<configured, default, saving>>
    BY <1>1, ChoiceMade DEF IInv
  <2> QED BY <2>1, <1>1, <1>2, <1>3 DEF IInv, TypeOK
<1>6. AtPoint'
  <2> SUFFICES ASSUME NEW d \in Conns, Busy(d)'
               PROVE  /\ task'[d].at \in {"history", "ask", "tools"} => task'[d].kind = "run"
                      /\ task'[d].at = "token" => task'[d].on \in Providers
    BY DEF AtPoint
  <2>1. CASE d = c
    BY <2>1, <1>3, <1>4
  <2>2. CASE d # c
    BY <2>2, <1>4 DEF IInv, AtPoint, Busy
  <2> QED BY <2>1, <2>2
<1>7. Chosen'
  <2> SUFFICES ASSUME NEW d \in Conns, Busy(d)', d \notin disturbed'
               PROVE  Holds(d)'
    BY DEF Chosen
  <2>1. CASE d = c
    <3>1. Current(p)' = n /\ llm' = p
      BY <1>1, ChoiceMade DEF IInv
    <3> QED BY <2>1, <3>1, <1>3, <1>4 DEF Holds
  <2>2. CASE d # c
    BY <2>2, <1>1, <1>4, ChoiceHolds DEF Busy
  <2> QED BY <2>1, <2>2
<1> QED BY <1>5, <1>6, <1>7 DEF IInv

(* So does a request outside a run. *)
LEMMA StartChatKeeps ==
  ASSUME IInv, NEW c \in Conns, NEW kind \in {"score", "generate"}, StartChat(c, kind)
  PROVE  IInv'
<1>1. PICK p \in Providers, m \in Models, q \in Providers, t \in Task :
        /\ Choose(c, p, m, q) /\ q = llm
        /\ t = Send(p, m, NewTask(kind, "ask", p, m))
        /\ task' = [task EXCEPT ![c] = t]
  <2> DEFINE m == IF model[c] = None THEN Fallback[kind] ELSE model[c]
             p == ProviderFor(m)
  <2>1. p \in Providers /\ m \in Models /\ llm \in Providers
    BY AgentAssumption DEF StartChat, IInv, TypeOK
  <2>2. Choose(c, p, m, llm) /\ task' = [task EXCEPT ![c] = Send(p, m, NewTask(kind, "ask", p, m))]
    BY DEF StartChat
  <2>3. Send(p, m, NewTask(kind, "ask", p, m)) \in Task
    <3> HIDE DEF m, p
    <3>1. NewTask(kind, "ask", p, m) \in Task
      BY <2>1, NewTaskType DEF Kinds, Points
    <3> QED BY <2>1, <3>1, SendType
  <2> HIDE DEF m, p
  <2> QED BY <2>1, <2>2, <2>3
<1>2. UNCHANGED <<model, input, changes>>
  BY DEF StartChat
<1>3. /\ t.own = [on |-> p, model |-> m] /\ t.kind = kind
      /\ t.at \in {"token", "answer"} /\ t.on = p
      /\ t.asked \in {None, t.own}
  <2> DEFINE u == NewTask(kind, "ask", p, m)
  <2>1. u \in Task /\ u.own = [on |-> p, model |-> m] /\ u.kind = kind /\ u.asked = None
    BY NewTaskType DEF NewTask, Kinds, Points
  <2> HIDE DEF u
  <2> QED BY <1>1, <2>1, SendType DEF u
<1>4. task'[c] = t /\ \A d \in Conns \ {c} : task'[d] = task[d]
  BY <1>1 DEF IInv, TypeOK
<1>5. m # None
  BY AgentAssumption
<1>6. TypeOK'
  BY <1>1, <1>2, <1>3, ChoiceMade DEF IInv, TypeOK
<1>7. AtPoint'
  <2> SUFFICES ASSUME NEW d \in Conns, Busy(d)'
               PROVE  /\ task'[d].at \in {"history", "ask", "tools"} => task'[d].kind = "run"
                      /\ task'[d].at = "token" => task'[d].on \in Providers
    BY DEF AtPoint
  <2>1. CASE d = c
    BY <2>1, <1>3, <1>4
  <2>2. CASE d # c
    BY <2>2, <1>4 DEF IInv, AtPoint, Busy
  <2> QED BY <2>1, <2>2
<1>8. Chosen'
  <2> SUFFICES ASSUME NEW d \in Conns, Busy(d)', d \notin disturbed'
               PROVE  Holds(d)'
    BY DEF Chosen
  <2>1. CASE d = c
    <3>1. Current(p)' = m
      BY <1>1, <1>5, ChoiceMade DEF IInv
    <3> QED BY <2>1, <3>1, <1>3, <1>4 DEF Holds
  <2>2. CASE d # c
    BY <2>2, <1>1, <1>4, ChoiceHolds DEF Busy
  <2> QED BY <2>1, <2>2
<1> QED BY <1>6, <1>7, <1>8 DEF IInv

(* A step of one handler touches nothing that others rely on. *)
LEMMA GotoKeeps ==
  ASSUME IInv, NEW c \in Conns, NEW t, Goto(c, t), input' \in [Conns -> BOOLEAN],
         \/ t = Idle
         \/ /\ t \in Task
            /\ t.at \in {"history", "ask", "tools"} => t.kind = "run"
            /\ t.at = "token" => t.on \in Providers
            /\ c \notin disturbed =>
                 /\ Current(t.own.on) = t.own.model
                 /\ t.kind = "run" => llm = t.own.on
                 /\ t.at = "token" => t.on = t.own.on
                 /\ t.asked \in {None, t.own}
  PROVE  IInv'
<1>1. task'[c] = t /\ \A d \in Conns \ {c} : task'[d] = task[d]
  BY DEF Goto, IInv, TypeOK
<1>2. UNCHANGED <<llm, override, configured, default, saving, model, changes, disturbed>>
  BY DEF Goto, sharedVars
<1>3. TypeOK'
  BY <1>2 DEF Goto, IInv, TypeOK
<1>4. AtPoint'
  BY <1>1 DEF IInv, AtPoint, Busy, Idle
<1>5. Chosen'
  <2> SUFFICES ASSUME NEW d \in Conns, Busy(d)', d \notin disturbed'
               PROVE  Holds(d)'
    BY DEF Chosen
  <2>1. \A p : Current(p)' = Current(p)
    BY <1>2 DEF Current
  <2>2. CASE d = c
    BY <2>2, <1>1, <1>2, <2>1 DEF Holds, Busy, Idle
  <2>3. CASE d # c
    BY <2>3, <1>1, <1>2, <2>1 DEF IInv, Chosen, Holds, Busy
  <2> QED BY <2>2, <2>3
<1> QED BY <1>3, <1>4, <1>5 DEF IInv

(* A handler that ends keeps the invariant. *)
LEMMA EndKeeps ==
  ASSUME IInv, NEW c \in Conns, End(c)
  PROVE  IInv'
<1>1. task'[c] = Idle /\ \A d \in Conns \ {c} : task'[d] = task[d]
  BY DEF End, IInv, TypeOK
<1>2. UNCHANGED <<llm, override, configured, default, saving, model, changes>>
  BY DEF End, sharedVars
<1>3. TypeOK'
  BY <1>2 DEF End, IInv, TypeOK
<1>4. AtPoint'
  BY <1>1 DEF IInv, AtPoint, Busy, Idle
<1>5. Chosen'
  <2> SUFFICES ASSUME NEW d \in Conns, Busy(d)', d \notin disturbed'
               PROVE  Holds(d)'
    BY DEF Chosen
  <2>1. d # c
    BY <1>1 DEF Busy, Idle
  <2>2. Busy(d) /\ d \notin disturbed /\ task'[d] = task[d]
    BY <1>1, <2>1 DEF End, Busy
  <2> QED BY <1>2, <2>2 DEF IInv, Chosen, Holds, Current
<1> QED BY <1>3, <1>4, <1>5 DEF IInv

(* So does every other step of a handler. *)
LEMMA ProceedKeeps ==
  ASSUME IInv, NEW c \in Conns, Proceed(c)
  PROVE  IInv'
<1>1. input \in [Conns -> BOOLEAN] /\ llm \in Providers
  BY DEF IInv, TypeOK
<1>2. ASSUME Busy(c)
      PROVE  /\ task[c] \in Task
             /\ task[c].at \in {"history", "ask", "tools"} => task[c].kind = "run"
             /\ task[c].at = "token" => task[c].on \in Providers
             /\ c \notin disturbed => Holds(c)
  BY <1>2, BusyTask DEF IInv, AtPoint, Chosen
<1>3. CASE ReadHistory(c)
  <2> DEFINE t == [task[c] EXCEPT !.at = "ask"]
  <2>1. Busy(c) /\ Goto(c, t) /\ input' \in [Conns -> BOOLEAN]
    BY <1>1, <1>3 DEF ReadHistory, Busy
  <2>2. t \in Task /\ t.kind = "run" /\ t.at = "ask"
    BY <2>1, <1>2, <1>3 DEF ReadHistory, Task, Points
  <2>3. t.own = task[c].own /\ t.asked = task[c].asked /\ t.kind = task[c].kind
    BY <2>1, <1>2 DEF Task
  <2> HIDE DEF t
  <2> QED BY <2>1, <2>2, <2>3, <1>2, GotoKeeps DEF Holds
<1>4. CASE Ask(c)
  <2> DEFINE t == Send(llm, Current(llm), task[c])
  <2>1. Busy(c) /\ Goto(c, t) /\ input' \in [Conns -> BOOLEAN] /\ task[c].kind = "run"
    BY <1>1, <1>2, <1>4 DEF Ask, Busy
  <2>2. Current(llm) \in Models
    BY <1>1, CurrentType DEF IInv
  <2>3. /\ t \in Task /\ t.own = task[c].own /\ t.kind = task[c].kind
        /\ t.at \in {"token", "answer"} /\ t.on = llm
        /\ t.asked \in {task[c].asked, [on |-> llm, model |-> Current(llm)]}
    BY <2>1, <2>2, <1>1, <1>2, SendType
  <2>4. ASSUME c \notin disturbed
        PROVE  [on |-> llm, model |-> Current(llm)] = task[c].own
    BY <2>4, <2>1, <1>2 DEF Holds, Task, Request
  <2> HIDE DEF t
  <2> QED BY <2>1, <2>3, <2>4, <1>1, <1>2, GotoKeeps DEF Holds
<1>5. CASE Post(c)
  <2> DEFINE r == [on |-> task[c].on, model |-> Current(task[c].on)]
             t == [task[c] EXCEPT !.at = "answer", !.asked = r]
  <2>1. Busy(c) /\ Goto(c, t) /\ input' \in [Conns -> BOOLEAN] /\ task[c].on \in Providers
    BY <1>1, <1>2, <1>5 DEF Post, Busy
  <2>2. r \in Request
    BY <2>1, CurrentType DEF IInv, Request
  <2>3. ASSUME c \notin disturbed
        PROVE  r = task[c].own
    BY <2>3, <2>1, <1>2, <1>5 DEF Holds, Task, Request, Post
  <2> HIDE DEF r
  <2>4. /\ t \in Task /\ t.own = task[c].own /\ t.kind = task[c].kind
        /\ t.at = "answer" /\ t.asked = r
    BY <2>1, <2>2, <1>2 DEF Task, Points
  <2> HIDE DEF t
  <2> QED BY <2>1, <2>3, <2>4, <1>2, GotoKeeps DEF Holds
<1>6. CASE AnswerText(c)
  BY <1>6, EndKeeps DEF AnswerText
<1>7. CASE AnswerCalls(c)
  <2> PICK n \in 1 .. MaxCalls :
        Goto(c, [task[c] EXCEPT !.at = "tools", !.calls = IF n < MaxTools THEN n ELSE MaxTools])
    BY <1>7, Zenon DEF AnswerCalls
  <2> DEFINE k == IF n < MaxTools THEN n ELSE MaxTools
             t == [task[c] EXCEPT !.at = "tools", !.calls = k]
  <2>1. Busy(c) /\ Goto(c, t) /\ input' \in [Conns -> BOOLEAN] /\ task[c].kind = "run"
    BY <1>1, <1>7 DEF AnswerCalls, Busy
  <2>2. k \in 0 .. MaxTools
    BY AgentAssumption
  <2> HIDE DEF k
  <2>3. /\ t \in Task /\ t.own = task[c].own /\ t.kind = task[c].kind
        /\ t.at = "tools" /\ t.asked = task[c].asked
    BY <2>1, <2>2, <1>2 DEF Task, Points
  <2> HIDE DEF t
  <2> QED BY <2>1, <2>3, <1>2, GotoKeeps DEF Holds
<1>8. CASE RunTool(c)
  <2> DEFINE t == [task[c] EXCEPT !.calls = @ - 1]
  <2>1. Busy(c) /\ Goto(c, t) /\ input' \in [Conns -> BOOLEAN]
    BY <1>1, <1>8 DEF RunTool, Busy
  <2>2. task[c].calls \in 0 .. MaxTools /\ task[c].calls > 0
    BY <2>1, <1>2, <1>8 DEF RunTool, Task
  <2>3. task[c].calls - 1 \in 0 .. MaxTools
    BY <2>2, AgentAssumption
  <2>4. /\ t \in Task /\ t.own = task[c].own /\ t.kind = task[c].kind
        /\ t.at = "tools" /\ t.asked = task[c].asked
    BY <2>1, <2>3, <1>2, <1>8 DEF RunTool, Task
  <2> HIDE DEF t
  <2> QED BY <2>1, <2>4, <1>2, <1>8, GotoKeeps DEF Holds, RunTool
<1>9. CASE NextRound(c)
  <2>1. CASE task[c].round < MaxRounds
    <3> DEFINE t == [task[c] EXCEPT !.at = "ask", !.round = @ + 1]
    <3>1. Busy(c) /\ Goto(c, t) /\ input' \in [Conns -> BOOLEAN]
      BY <1>1, <1>9, <2>1 DEF NextRound, Busy
    <3>2. task[c].round \in 1 .. MaxRounds
      BY <3>1, <1>2 DEF Task
    <3>3. task[c].round + 1 \in 1 .. MaxRounds
      BY <3>2, <2>1, AgentAssumption
    <3>4. /\ t \in Task /\ t.own = task[c].own /\ t.kind = task[c].kind
          /\ t.at = "ask" /\ t.asked = task[c].asked
      BY <3>1, <3>3, <1>2 DEF Task, Points
    <3>5. task[c].kind = "run"
      BY <3>1, <1>2, <1>9 DEF NextRound
    <3> HIDE DEF t
    <3> QED BY <3>1, <3>4, <3>5, <1>2, GotoKeeps DEF Holds
  <2>2. CASE ~(task[c].round < MaxRounds)
    BY <2>2, <1>9, EndKeeps DEF NextRound
  <2> QED BY <2>1, <2>2
<1>10. CASE Fail(c)
  BY <1>10, EndKeeps DEF Fail
<1> QED BY <1>3, <1>4, <1>5, <1>6, <1>7, <1>8, <1>9, <1>10 DEF Proceed

(* A user's change of model keeps the invariant. *)
LEMMA ChangeModelKeeps ==
  ASSUME IInv, NEW c \in Conns, NEW m \in Models, ChangeModel(c, m)
  PROVE  IInv'
<1>1. PICK p \in Providers, q \in Providers : Choose(c, p, m, q)
  BY DEF ChangeModel, IInv, TypeOK
<1>2. task' = task /\ input' = input /\ ~Busy(c)
  BY DEF ChangeModel
<1>3. model' \in [Conns -> Models \cup {None}] /\ changes' \in 0 .. MaxChanges
  BY AgentAssumption DEF ChangeModel, IInv, TypeOK
<1>4. TypeOK'
  BY <1>1, <1>2, <1>3, ChoiceMade DEF IInv, TypeOK
<1>5. AtPoint'
  BY <1>2 DEF IInv, AtPoint, Busy
<1>6. Chosen'
  <2> SUFFICES ASSUME NEW d \in Conns, Busy(d)', d \notin disturbed'
               PROVE  Holds(d)'
    BY DEF Chosen
  <2>1. Busy(d) /\ d # c
    BY <1>2 DEF Busy
  <2> QED BY <2>1, <1>1, <1>2, ChoiceHolds
<1> QED BY <1>4, <1>5, <1>6 DEF IInv

(* Settings that are stored and applied keep it. *)
LEMMA SettingsKeep ==
  ASSUME IInv,
         \/ \E s \in Choices : SaveSettings(s)
         \/ \E n \in 1 .. MaxChanges :
              (\E p \in Providers : Reconfigure(n, p)) \/ SetDefault(n)
  PROVE  IInv'
<1>1. ASSUME NEW s \in Choices, SaveSettings(s)
      PROVE  IInv'
  <2> DEFINE r == [models |-> s.models, left |-> Providers, default |-> s.default]
  <2>1. s \in [models : [Providers -> Models], default : Types \cup {None}]
    BY AgentAssumption
  <2>2. changes' \in 1 .. MaxChanges
    BY <1>1, AgentAssumption DEF SaveSettings, IInv, TypeOK
  <2>5. r \in Settings
    BY <2>1 DEF Settings
  <2>6. saving' = [saving EXCEPT ![changes'] = r]
    BY <1>1 DEF SaveSettings
  <2> HIDE DEF r
  <2>7. saving' \in [1 .. MaxChanges -> {None} \cup Settings]
    BY <2>5, <2>6 DEF IInv, TypeOK
  <2>3. UNCHANGED <<llm, override, configured, default, model, task, input, disturbed>>
    BY <1>1 DEF SaveSettings, sharedVars
  <2>4. TypeOK'
    BY <2>2, <2>3, <2>7, AgentAssumption DEF IInv, TypeOK
  <2>8. AtPoint' /\ Chosen'
    BY <2>3 DEF IInv, AtPoint, Chosen, Holds, Busy, Current
  <2> QED BY <2>4, <2>8 DEF IInv
<1>2. ASSUME NEW n \in 1 .. MaxChanges, NEW p \in Providers, Reconfigure(n, p)
      PROVE  IInv'
  <2> DEFINE r == [saving[n] EXCEPT !.left = saving[n].left \ {p}]
  <2>1. saving[n] \in Settings
    BY <1>2 DEF Reconfigure, IInv, TypeOK
  <2>7. r \in Settings /\ saving[n].models[p] \in Models
    BY <2>1 DEF Settings
  <2>8. saving' = [saving EXCEPT ![n] = r]
    BY <1>2, Zenon DEF Reconfigure
  <2> HIDE DEF r
  <2>2. /\ configured' \in [Providers -> Models]
        /\ saving' \in [1 .. MaxChanges -> {None} \cup Settings]
        /\ disturbed' \subseteq Conns
    BY <1>2, <2>7, <2>8 DEF Reconfigure, IInv, TypeOK
  <2>3. UNCHANGED <<llm, override, default, model, task, input, changes>>
    BY <1>2 DEF Reconfigure
  <2>4. TypeOK'
    BY <2>2, <2>3 DEF IInv, TypeOK
  <2>5. AtPoint'
    BY <2>3 DEF IInv, AtPoint, Busy
  <2>6. Chosen'
    <3> SUFFICES ASSUME NEW d \in Conns, Busy(d)', d \notin disturbed'
                 PROVE  Holds(d)'
      BY DEF Chosen
    <3>1. Busy(d) /\ d \notin disturbed /\ task[d].own.on # p
      BY <1>2, <2>3 DEF Reconfigure, Busy
    <3>2. task[d] \in Task
      BY <3>1, BusyTask DEF IInv
    <3>3. Current(task[d].own.on)' = Current(task[d].own.on)
      BY <1>2, <3>1, <3>2, <2>3 DEF Reconfigure, Current, Task, Request, IInv, TypeOK
    <3> QED BY <3>1, <3>3, <2>3 DEF IInv, Chosen, Holds
  <2> QED BY <2>4, <2>5, <2>6 DEF IInv
<1>3. ASSUME NEW n \in 1 .. MaxChanges, SetDefault(n)
      PROVE  IInv'
  <2>1. saving[n] \in Settings /\ default \in Types
    BY <1>3 DEF SetDefault, IInv, TypeOK
  <2>2. default' \in Types /\ saving' \in [1 .. MaxChanges -> {None} \cup Settings]
    BY <1>3, <2>1 DEF SetDefault, Settings, IInv, TypeOK
  <2>3. UNCHANGED <<llm, override, configured, model, task, input, changes, disturbed>>
    BY <1>3 DEF SetDefault
  <2>4. TypeOK'
    BY <2>2, <2>3 DEF IInv, TypeOK
  <2>5. AtPoint' /\ Chosen'
    BY <2>3 DEF IInv, AtPoint, Chosen, Holds, Busy, Current
  <2> QED BY <2>4, <2>5 DEF IInv
<1> QED BY <1>1, <1>2, <1>3

-----------------------------------------------------------------------------
(* In every state, what undisturbed handlers have chosen is still chosen:  *)
(* the inductive invariant.                                                *)
THEOREM ChoicesHold == Spec => []IInv
<1>1. ASSUME IInv, [Next]_vars
      PROVE  IInv'
  <2>1. CASE UNCHANGED vars
    BY <1>1, <2>1
       DEF vars, sharedVars, IInv, TypeOK, AtPoint, Chosen, Holds, Busy, Current
  <2>2. CASE Next
    BY <1>1, <2>2, StartRunKeeps, StartChatKeeps, ProceedKeeps, ChangeModelKeeps,
       SettingsKeep DEF Next
  <2> QED BY <1>1, <2>1, <2>2
<1> QED BY Initially, <1>1, PTL DEF Spec

(* Providers, agent, settings and handlers keep their types; no run passes *)
(* max_iterations or executes more calls than it may.                      *)
THEOREM AgentTypeCorrect == Spec => []TypeOK
BY ChoicesHold, PTL DEF IInv

(* However many conversations share the agent and the providers, every     *)
(* request of a handler that nobody disturbed goes to the provider and the *)
(* model it has chosen, in every round of a run.                           *)
THEOREM OwnModelIsAsked == Spec => []OwnModelAsked
<1>1. IInv => OwnModelAsked
  BY DEF IInv, Chosen, Holds, OwnModelAsked, Asked
<1> QED BY ChoicesHold, <1>1, PTL
-----------------------------------------------------------------------------
(* What a task has left to do. *)

(* A task has steps left; the rounds still allowed count for so many each. *)
LEMMA StepsCounted ==
  ASSUME NEW t \in Task
  PROVE  /\ (MaxRounds - t.round) * (MaxTools + 4) \in Nat
         /\ StepsLeft(t) \in Nat
<1> DEFINE w == (MaxRounds - t.round) * (MaxTools + 4)
<1>1. MaxRounds - t.round \in Nat /\ MaxTools + 4 \in Nat
  BY AgentAssumption DEF Task
<1>2. w \in Nat
  BY <1>1
<1>3. t.at \in {"history", "ask", "token", "answer", "tools"} /\ t.calls \in Nat
  BY AgentAssumption DEF Task, Points
<1>4. StepsLeft(t) = w +
        CASE t.at = "history" -> MaxTools + 5
          [] t.at = "ask"     -> MaxTools + 4
          [] t.at = "token"   -> MaxTools + 3
          [] t.at = "answer"  -> MaxTools + 2
          [] t.at = "tools"   -> t.calls + 1
  BY DEF StepsLeft
<1> HIDE DEF w
<1>5. StepsLeft(t) \in Nat
  BY <1>2, <1>3, <1>4, AgentAssumption
<1> QED BY <1>2, <1>5 DEF w

(* Within a round a task goes on from one await to the next.               *)
LEMMA FewerInRound ==
  ASSUME NEW t \in Task, NEW u \in Task, u.round = t.round,
         \/ t.at = "history" /\ u.at = "ask"
         \/ t.at = "ask" /\ u.at \in {"token", "answer"}
         \/ t.at = "token" /\ u.at = "answer"
         \/ t.at = "answer" /\ u.at = "tools"
         \/ t.at = "tools" /\ u.at = "tools" /\ u.calls < t.calls
  PROVE  StepsLeft(u) < StepsLeft(t)
<1> DEFINE w == (MaxRounds - t.round) * (MaxTools + 4)
<1>1. w = (MaxRounds - u.round) * (MaxTools + 4)
  OBVIOUS
<1>2. w \in Nat
  BY StepsCounted
<1> HIDE DEF w
<1>3. /\ u.calls \in 0 .. MaxTools /\ t.calls \in 0 .. MaxTools /\ MaxTools \in Nat
  BY AgentAssumption DEF Task
<1> QED BY <1>1, <1>2, <1>3 DEF StepsLeft, w

(* The next round costs less than the one that is over has left.           *)
LEMMA FewerNextRound ==
  ASSUME NEW t \in Task, NEW u \in Task, u.round = t.round + 1,
         t.at = "tools", t.calls = 0, u.at = "ask"
  PROVE  StepsLeft(u) < StepsLeft(t)
<1>1. /\ MaxRounds \in Nat /\ MaxTools \in Nat
      /\ t.round \in Nat /\ u.round \in Nat
  BY AgentAssumption DEF Task
<1>2. MaxRounds - t.round = (MaxRounds - u.round) + 1
  BY <1>1
<1>3. \A a, b \in Nat : (a + 1) * b = a * b + b
  OBVIOUS
<1>4. (MaxRounds - t.round) * (MaxTools + 4)
        = (MaxRounds - u.round) * (MaxTools + 4) + (MaxTools + 4)
  <2>1. MaxRounds - u.round \in Nat /\ MaxTools + 4 \in Nat
    BY AgentAssumption DEF Task
  <2> QED BY <2>1, <1>2, <1>3
<1> DEFINE w == (MaxRounds - u.round) * (MaxTools + 4)
<1>5. w \in Nat
  BY StepsCounted
<1>6. StepsLeft(u) = w + (MaxTools + 4)
  BY DEF StepsLeft
<1>7. StepsLeft(t) = (w + (MaxTools + 4)) + 1
  BY <1>4 DEF StepsLeft
<1> HIDE DEF w
<1> QED BY <1>1, <1>5, <1>6, <1>7
(* A step of a handler brings its task nearer to its end, or ends it.      *)
LEMMA ProceedAdvances ==
  ASSUME IInv, NEW c \in Conns, Proceed(c)
  PROVE  /\ Busy(c)
         /\ \A d \in Conns \ {c} : task'[d] = task[d] /\ input'[d] = input[d]
         /\ \/ /\ task'[c] \in Task /\ task'[c].kind = task[c].kind
               /\ StepsLeft(task'[c]) < StepsLeft(task[c])
               /\ input'[c] = input[c] \/ task[c].kind = "run"
            \/ /\ task'[c] = Idle
               /\ IF task[c].kind = "run" THEN input'[c] ELSE input'[c] = input[c]
<1>1. input \in [Conns -> BOOLEAN] /\ task \in [Conns -> Task \cup {Idle}]
  BY DEF IInv, TypeOK
<1>2. Busy(c)
  <2>1. task[c].at \in {"history", "ask", "token", "answer", "tools"}
    BY Zenon DEF Proceed, ReadHistory, Ask, Post, AnswerText, AnswerCalls, RunTool,
       NextRound, Fail
  <2> QED BY <2>1 DEF Busy
<1>3. task[c] \in Task
  BY <1>2, BusyTask DEF IInv
<1>4. task[c].at = "history" => task[c].kind = "run"
  BY <1>2 DEF IInv, AtPoint
<1>5. ASSUME NEW u, Goto(c, u)
      PROVE  task'[c] = u /\ \A d \in Conns \ {c} : task'[d] = task[d]
  BY <1>1, <1>5 DEF Goto
<1>6. CASE End(c)
  <2>1. task' = [task EXCEPT ![c] = Idle]
    BY <1>6 DEF End
  <2>2. input' = IF task[c].kind = "run" THEN [input EXCEPT ![c] = TRUE] ELSE input
    BY <1>6 DEF End
  <2> QED BY <1>1, <1>2, <1>5, <2>1, <2>2
<1>7. CASE ReadHistory(c)
  <2> DEFINE u == [task[c] EXCEPT !.at = "ask"]
  <2>1. task[c].at = "history" /\ Goto(c, u) /\ input' = [input EXCEPT ![c] = FALSE]
    BY <1>7 DEF ReadHistory
  <2>2. u \in Task /\ u.kind = task[c].kind /\ u.round = task[c].round /\ u.at = "ask"
    BY <1>3 DEF Task, Points
  <2> HIDE DEF u
  <2>3. StepsLeft(u) < StepsLeft(task[c])
    BY <1>3, <2>1, <2>2, FewerInRound
  <2> QED BY <1>1, <1>2, <1>4, <1>5, <2>1, <2>2, <2>3
<1>8. CASE Ask(c)
  <2> DEFINE u == Send(llm, Current(llm), task[c])
  <2>1. task[c].at = "ask" /\ Goto(c, u) /\ input' = input
    BY <1>8 DEF Ask
  <2>2. llm \in Providers /\ Current(llm) \in Models
    BY CurrentType DEF IInv, TypeOK
  <2>3. u \in Task /\ u.kind = task[c].kind /\ u.at \in {"token", "answer"}
    BY <1>3, <2>2, SendType
  <2>4. u.round = task[c].round
    BY <1>3 DEF Send, Task
  <2> HIDE DEF u
  <2>5. StepsLeft(u) < StepsLeft(task[c])
    BY <1>3, <2>1, <2>3, <2>4, FewerInRound
  <2> QED BY <1>1, <1>2, <1>5, <2>1, <2>3, <2>5
<1>9. CASE Post(c)
  <2> DEFINE r == [on |-> task[c].on, model |-> Current(task[c].on)]
             u == [task[c] EXCEPT !.at = "answer", !.asked = r]
  <2>1. task[c].at = "token" /\ Goto(c, u) /\ input' = input
    BY <1>9 DEF Post
  <2>2. task[c].on \in Providers
    BY <1>2, <2>1 DEF IInv, AtPoint
  <2>3. r \in Request
    BY <2>2, CurrentType DEF IInv, Request
  <2> HIDE DEF r
  <2>4. u \in Task /\ u.kind = task[c].kind /\ u.round = task[c].round /\ u.at = "answer"
    BY <1>3, <2>3 DEF Task, Points
  <2> HIDE DEF u
  <2>5. StepsLeft(u) < StepsLeft(task[c])
    BY <1>3, <2>1, <2>4, FewerInRound
  <2> QED BY <1>1, <1>2, <1>5, <2>1, <2>4, <2>5
<1>10. CASE AnswerCalls(c)
  <2> PICK n \in 1 .. MaxCalls :
        Goto(c, [task[c] EXCEPT !.at = "tools", !.calls = IF n < MaxTools THEN n ELSE MaxTools])
    BY <1>10, Zenon DEF AnswerCalls
  <2> DEFINE k == IF n < MaxTools THEN n ELSE MaxTools
             u == [task[c] EXCEPT !.at = "tools", !.calls = k]
  <2>1. task[c].at = "answer" /\ Goto(c, u) /\ input' = input
    BY <1>10 DEF AnswerCalls
  <2>2. k \in 0 .. MaxTools
    BY AgentAssumption
  <2> HIDE DEF k
  <2>3. u \in Task /\ u.kind = task[c].kind /\ u.round = task[c].round /\ u.at = "tools"
    BY <1>3, <2>2 DEF Task, Points
  <2> HIDE DEF u
  <2>4. StepsLeft(u) < StepsLeft(task[c])
    BY <1>3, <2>1, <2>3, FewerInRound
  <2> QED BY <1>1, <1>2, <1>5, <2>1, <2>3, <2>4
<1>11. CASE RunTool(c)
  <2> DEFINE u == [task[c] EXCEPT !.calls = task[c].calls - 1]
  <2>1. /\ task[c].at = "tools" /\ task[c].calls > 0
        /\ Goto(c, u) /\ input' = input
    BY <1>11 DEF RunTool
  <2>2. task[c].calls \in 0 .. MaxTools /\ MaxTools \in Nat
    BY <1>3, AgentAssumption DEF Task
  <2>3. task[c].calls - 1 \in 0 .. MaxTools /\ task[c].calls - 1 < task[c].calls
    BY <2>1, <2>2
  <2>4. /\ u \in Task /\ u.kind = task[c].kind /\ u.round = task[c].round /\ u.at = "tools"
        /\ u.calls < task[c].calls
    BY <1>3, <2>1, <2>3 DEF Task
  <2> HIDE DEF u
  <2>5. StepsLeft(u) < StepsLeft(task[c])
    BY <1>3, <2>1, <2>4, FewerInRound
  <2> QED BY <1>1, <1>2, <1>5, <2>1, <2>4, <2>5
<1>12. CASE NextRound(c) /\ task[c].round < MaxRounds
  <2> DEFINE u == [task[c] EXCEPT !.at = "ask", !.round = task[c].round + 1]
  <2>1. /\ task[c].at = "tools" /\ task[c].calls = 0
        /\ Goto(c, u) /\ input' = input
    BY <1>12 DEF NextRound
  <2>2. task[c].round \in 1 .. MaxRounds /\ MaxRounds \in Nat
    BY <1>3, AgentAssumption DEF Task
  <2>3. task[c].round + 1 \in 1 .. MaxRounds
    BY <1>12, <2>2
  <2>4. u \in Task /\ u.kind = task[c].kind /\ u.round = task[c].round + 1 /\ u.at = "ask"
    BY <1>3, <2>3 DEF Task, Points
  <2> HIDE DEF u
  <2>5. StepsLeft(u) < StepsLeft(task[c])
    BY <1>3, <2>1, <2>4, FewerNextRound
  <2> QED BY <1>1, <1>2, <1>5, <2>1, <2>4, <2>5
<1>13. CASE NextRound(c) /\ ~(task[c].round < MaxRounds)
  BY <1>6, <1>13 DEF NextRound
<1>14. CASE AnswerText(c) \/ Fail(c)
  BY <1>6, <1>14 DEF AnswerText, Fail
<1> QED BY <1>7, <1>8, <1>9, <1>10, <1>11, <1>12, <1>13, <1>14 DEF Proceed

(* Whoever is busy is not started, and nobody else goes on with its task.  *)
LEMMA BusyUntouched ==
  ASSUME IInv, [Next]_vars, NEW c \in Conns, ~Proceed(c)
  PROVE  input'[c] = input[c] /\ (Busy(c) => task'[c] = task[c])
<1>1. input \in [Conns -> BOOLEAN] /\ task \in [Conns -> Task \cup {Idle}]
  BY DEF IInv, TypeOK
<1>2. ASSUME NEW d \in Conns, StartRun(d)
      PROVE  input'[c] = input[c] /\ (Busy(c) => task'[c] = task[c])
  <2>1. ~Busy(d) /\ input' = input
    BY <1>2 DEF StartRun
  <2>2. PICK t : task' = [task EXCEPT ![d] = t]
    BY <1>2 DEF StartRun
  <2> QED BY <1>1, <2>1, <2>2
<1>3. ASSUME NEW d \in Conns, NEW kind \in {"score", "generate"}, StartChat(d, kind)
      PROVE  input'[c] = input[c] /\ (Busy(c) => task'[c] = task[c])
  <2>1. ~Busy(d) /\ input' = input
    BY <1>3 DEF StartChat
  <2>2. PICK t : task' = [task EXCEPT ![d] = t]
    BY <1>3 DEF StartChat
  <2> QED BY <1>1, <2>1, <2>2
<1>4. ASSUME NEW d \in Conns, Proceed(d)
      PROVE  input'[c] = input[c] /\ (Busy(c) => task'[c] = task[c])
  BY <1>4, ProceedAdvances
<1>5. ASSUME NEW d \in Conns, NEW m \in Models, ChangeModel(d, m)
      PROVE  task' = task /\ input' = input
  BY <1>5 DEF ChangeModel
<1>6. ASSUME NEW s \in Choices, SaveSettings(s)
      PROVE  task' = task /\ input' = input
  BY <1>6 DEF SaveSettings
<1>7. ASSUME NEW n \in 1 .. MaxChanges, NEW p \in Providers, Reconfigure(n, p)
      PROVE  task' = task /\ input' = input
  BY <1>7 DEF Reconfigure
<1>8. ASSUME NEW n \in 1 .. MaxChanges, SetDefault(n)
      PROVE  task' = task /\ input' = input
  BY <1>8 DEF SetDefault
<1>9. CASE UNCHANGED vars
  BY <1>9 DEF vars
<1> QED BY <1>2, <1>3, <1>4, <1>5, <1>6, <1>7, <1>8, <1>9 DEF Next

(* The browser's input is only disabled during a run. *)
InputOn == \A c \in Conns : ~input[c] => task[c].kind = "run"

LEMMA InputKept ==
  ASSUME IInv, InputOn, [Next]_vars
  PROVE  InputOn'
<1> SUFFICES ASSUME NEW c \in Conns, ~input'[c]
             PROVE  task'[c].kind = "run"
  BY DEF InputOn
<1>1. CASE Proceed(c)
  <2>1. CASE task'[c] = Idle
    <3>1. input'[c] \/ (task[c].kind # "run" /\ input'[c] = input[c])
      BY <1>1, <2>1, ProceedAdvances DEF Idle
    <3> QED BY <3>1 DEF InputOn
  <2>2. CASE task'[c] # Idle
    <3>1. task'[c].kind = task[c].kind /\ (input'[c] = input[c] \/ task[c].kind = "run")
      BY <1>1, <2>2, ProceedAdvances
    <3> QED BY <3>1 DEF InputOn
  <2> QED BY <2>1, <2>2
<1>2. CASE ~Proceed(c)
  <2>1. ~input[c] /\ (Busy(c) => task'[c] = task[c])
    BY <1>2, BusyUntouched
  <2>2. task[c].kind = "run"
    BY <2>1 DEF InputOn
  <2>3. Busy(c)
    BY <2>2 DEF IInv, TypeOK, Idle, Busy, Task, Points
  <2> QED BY <2>1, <2>2, <2>3
<1> QED BY <1>1, <1>2

(* Handlers cannot go on for ever: every step of a task leaves it fewer    *)
(* steps, of which a run begins with MaxRounds * (MaxTools + 4) + 1, and   *)
(* the last one enables the browser's input.                               *)
THEOREM TasksAdvance == Spec => HandlersAdvance
<1>1. ASSUME IInv, InputOn, [Next]_vars
      PROVE  [\A c \in Conns : Busy(c) /\ task'[c] # task[c] =>
                IF Busy(c)' THEN StepsLeft(task'[c]) < StepsLeft(task[c]) ELSE input'[c]]_vars
  <2> SUFFICES ASSUME NEW c \in Conns, Busy(c), task'[c] # task[c]
               PROVE  IF Busy(c)' THEN StepsLeft(task'[c]) < StepsLeft(task[c]) ELSE input'[c]
    BY <1>1
  <2>1. Proceed(c)
    BY <1>1, BusyUntouched
  <2>2. CASE task'[c] = Idle
    <3>1. task[c].kind = "run" \/ input[c]
      BY <1>1 DEF InputOn
    <3>2. input'[c]
      BY <1>1, <2>1, <2>2, <3>1, ProceedAdvances DEF Idle, Task, Points
    <3> QED BY <2>2, <3>2 DEF Busy, Idle
  <2>3. CASE task'[c] # Idle
    <3>1. task'[c] \in Task /\ StepsLeft(task'[c]) < StepsLeft(task[c])
      BY <1>1, <2>1, <2>3, ProceedAdvances
    <3> QED BY <3>1 DEF Busy, Task
  <2> QED BY <2>2, <2>3
<1>2. Init => InputOn
  BY DEF Init, InputOn
<1>3. IInv /\ InputOn /\ [Next]_vars => InputOn'
  BY InputKept
<1> QED BY ChoicesHold, <1>1, <1>2, <1>3, PTL DEF Spec, HandlersAdvance
=============================================================================
