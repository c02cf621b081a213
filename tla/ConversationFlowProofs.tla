----------------------- MODULE ConversationFlowProofs -----------------------
(* Safety of ConversationFlow for every value of its constants. *)
EXTENDS ConversationFlow, FiniteSetTheorems, TLAPS

USE ItemsAssumption, ModeAssumption, BoundsAssumption

-----------------------------------------------------------------------------
(* Operators. *)

(* Threads of a connection: the receive loop is one, and every thread      *)
(* belongs to a connection.                                                *)
LEMMA ThreadFacts ==
  /\ \A c \in Conns : Loop(c) \in Threads /\ ConnOf(Loop(c)) = c
                      /\ IsLoop(Loop(c))
  /\ \A t \in Threads : ConnOf(t) \in Conns
                        /\ (IsLoop(t) => t = Loop(ConnOf(t)))
  /\ \A c \in Conns : \A k \in 1 .. MaxRestarts :
       <<c, k>> \in Threads /\ ~IsLoop(<<c, k>>) /\ ConnOf(<<c, k>>) = c
BY SMT DEF Threads, Loop, ConnOf, IsLoop

(* A presented item starts unanswered, and answering one of its widgets or *)
(* its confirmation keeps the item what it is.                             *)
LEMMA ItemFacts ==
  /\ NoItem \notin ItemState
  /\ \A i \in Items : NewItem(i) \in ItemState /\ NewItem(i).idx = i
  /\ \A s \in ItemState \cup {NoItem} : \A w \in Widgets \cup {"confirm"} :
       s.idx \in Items => /\ Answer(s, w) \in ItemState
                          /\ Answer(s, w).idx = s.idx
<1>1. NoItem \notin ItemState
  BY DEF NoItem, ItemState, Items
<1>2. \A i \in Items : NewItem(i) \in ItemState /\ NewItem(i).idx = i
  BY DEF NewItem, ItemState
<1>3. ASSUME NEW s \in ItemState \cup {NoItem},
             NEW w \in Widgets \cup {"confirm"}, s.idx \in Items
      PROVE  Answer(s, w) \in ItemState /\ Answer(s, w).idx = s.idx
  <2>1. s \in ItemState
    BY <1>3 DEF NoItem, Items
  <2>2. Required[s.idx] \subseteq Widgets
    BY <1>3 DEF Items
  <2> QED
    BY <2>1, <2>2 DEF Answer, ItemState
<1> QED
  BY <1>1, <1>2, <1>3

(* The empty submission of an idle loop is a submission of no widget. *)
LEMMA NoSubmissionTyped == NoSubmission \in Submission
BY DEF NoSubmission, Submission, Items

(* Ending a handler or a task leaves the thread at rest and its locals     *)
(* dropped.                                                                *)
LEMMA EndTyped ==
  ASSUME TypeOK, NEW t \in Threads, End(t)
  PROVE  /\ pc' \in [Threads -> PC]
         /\ arg' \in [Threads -> 0 .. N]
         /\ held' \in [Conns -> ItemState \cup {NoItem}]
         /\ batch' \in [Conns -> Submission \cup {NoSubmission}]
<1>1. pc' \in [Threads -> PC]
  BY DEF TypeOK, End, Goto, Finished, PC
<1>2. arg' \in [Threads -> 0 .. N]
  BY DEF TypeOK, End
<1>3. held' \in [Conns -> ItemState \cup {NoItem}]
  BY DEF TypeOK, End
<1>4. batch' \in [Conns -> Submission \cup {NoSubmission}]
  BY DEF TypeOK, End
<1> QED
  BY <1>1, <1>2, <1>3, <1>4

(* Moving a thread to another await keeps the threads typed. *)
LEMMA GotoTyped ==
  ASSUME TypeOK, NEW t \in Threads, NEW to \in PC, Goto(t, to)
  PROVE  pc' \in [Threads -> PC]
BY DEF TypeOK, Goto

(* Setting a context's state keeps the contexts typed. *)
LEMMA SetStateTyped ==
  ASSUME TypeOK, NEW c \in Conns, NEW s \in OrchestratorState, SetState(c, s)
  PROVE  state' \in [Conns -> OrchestratorState]
BY DEF TypeOK, SetState

-----------------------------------------------------------------------------
(* Types. *)

(* The parts of the type invariant, so that a step can be checked part by  *)
(* part: what a thread is doing, the contexts, and the aggregate.          *)
CtxOK ==
  /\ state \in [Conns -> OrchestratorState]
  /\ index \in [Conns -> Items]
  /\ item \in [Conns -> ItemState \cup {NoItem}]

ConnOK ==
  /\ attached \in [Conns -> {"new", "open", "gone"}]
  /\ persisted \in [Conns -> BOOLEAN]

WorkOK ==
  /\ pc \in [Threads -> PC]
  /\ arg \in [Threads -> 0 .. N]
  /\ held \in [Conns -> ItemState \cup {NoItem}]
  /\ batch \in [Conns -> Submission \cup {NoSubmission}]

ConvOK ==
  /\ responses \subseteq ItemState
  /\ lost \subseteq Items
  /\ progress \in Nat
  /\ completed \in BOOLEAN

MsgOK ==
  /\ sent \in Nat
  /\ pending \in Int

LEMMA TypeParts ==
  ASSUME TypeOK
  PROVE  CtxOK /\ ConnOK /\ WorkOK /\ ConvOK /\ MsgOK
BY DEF TypeOK, CtxOK, ConnOK, WorkOK, ConvOK, MsgOK

LEMMA TypePartsNext ==
  ASSUME CtxOK', ConnOK', WorkOK', ConvOK', MsgOK'
  PROVE  TypeOK'
BY DEF TypeOK, CtxOK, ConnOK, WorkOK, ConvOK, MsgOK

(* A part that a step leaves alone keeps its type. *)
LEMMA PartsUnchanged ==
  ASSUME TypeOK
  PROVE  /\ UNCHANGED ctxVars => CtxOK'
         /\ UNCHANGED connVars => ConnOK'
         /\ UNCHANGED <<pc, workVars>> => WorkOK'
         /\ UNCHANGED convVars => ConvOK'
         /\ UNCHANGED msgVars => MsgOK'
<1>1. UNCHANGED ctxVars => CtxOK'
  BY TypeParts DEF ctxVars, CtxOK
<1>2. UNCHANGED connVars => ConnOK'
  BY TypeParts DEF connVars, ConnOK
<1>3. UNCHANGED <<pc, workVars>> => WorkOK'
  BY TypeParts DEF workVars, WorkOK
<1>4. UNCHANGED convVars => ConvOK'
  BY TypeParts DEF convVars, ConvOK
<1>5. UNCHANGED msgVars => MsgOK'
  BY TypeParts DEF msgVars, MsgOK
<1> QED
  BY <1>1, <1>2, <1>3, <1>4, <1>5

(* A step of the template flow keeps the types: in particular no thread    *)
(* loads an item index beyond the end of the template.                     *)
LEMMA FlowStepTyped ==
  ASSUME TypeOK, NEW t \in Threads, FlowStep(t)
  PROVE  TypeOK'
<1> USE ThreadFacts, TypeParts, PartsUnchanged
<1> DEFINE c == ConnOf(t)
<1>1. CASE RunProactiveFlow(t)
  <2>1. WorkOK'
    BY <1>1 DEF RunProactiveFlow, WorkOK, Goto, PC, FirstItem
  <2> QED
    BY <1>1, <2>1, TypePartsNext DEF RunProactiveFlow
<1>2. CASE LoadFails(t)
  <2>1. "error" \in OrchestratorState
    BY DEF OrchestratorState
  <2>2. CtxOK'
    BY <1>2, <2>1, SetStateTyped DEF LoadFails, CtxOK
  <2>3. WorkOK'
    BY <1>2, EndTyped DEF LoadFails, WorkOK
  <2> QED
    BY <1>2, <2>2, <2>3, TypePartsNext DEF LoadFails
<1>3. CASE PresentItem(t)
  <2>1. arg[t] \in Items
    BY <1>3 DEF PresentItem, WorkOK, Items
  <2>2. CtxOK'
    BY <1>3, <2>1, ItemFacts DEF PresentItem, CtxOK
  <2>3. WorkOK'
    BY <1>3 DEF PresentItem, WorkOK, workVars, Goto, PC
  <2> QED
    BY <1>3, <2>2, <2>3, TypePartsNext DEF PresentItem
<1>4. CASE FinishRender(t)
  <2>1. StateAfterRender(t) \in OrchestratorState
    BY DEF StateAfterRender, OrchestratorState
  <2>2. CtxOK'
    BY <1>4, <2>1, SetStateTyped DEF FinishRender, CtxOK
  <2>3. WorkOK'
    BY <1>4, EndTyped DEF FinishRender, WorkOK
  <2> QED
    BY <1>4, <2>2, <2>3, TypePartsNext DEF FinishRender
<1>5. CASE RenderFails(t)
  <2>1. "error" \in OrchestratorState
    BY DEF OrchestratorState
  <2>2. CtxOK'
    BY <1>5, <2>1, SetStateTyped DEF RenderFails, CtxOK
  <2>3. WorkOK'
    BY <1>5, EndTyped DEF RenderFails, WorkOK
  <2> QED
    BY <1>5, <2>2, <2>3, TypePartsNext DEF RenderFails
<1>6. CASE CompleteFlow(t)
  <2>1. "ready" \in OrchestratorState /\ "completed" \in OrchestratorState
    BY DEF OrchestratorState
  <2>2. CtxOK'
    BY <1>6, <2>1, SetStateTyped DEF CompleteFlow, CtxOK
  <2>3. "close" \in PC
    BY DEF PC
  <2>4. WorkOK'
    <3>1. CASE ContinueAfter
      BY <1>6, <3>1, EndTyped DEF CompleteFlow, WorkOK
    <3>2. CASE ~ContinueAfter
      BY <1>6, <2>3, <3>2, GotoTyped DEF CompleteFlow, WorkOK, workVars
    <3> QED
      BY <3>1, <3>2
  <2> QED
    BY <1>6, <2>2, <2>4, TypePartsNext DEF CompleteFlow
<1>7. CASE PersistCompletion(t)
  <2>1. completed' \in BOOLEAN
    BY <1>7 DEF PersistCompletion, ConvOK
  <2>2. ConvOK'
    BY <1>7, <2>1, Zenon DEF PersistCompletion, ConvOK
  <2>3. WorkOK'
    BY <1>7, EndTyped DEF PersistCompletion, WorkOK
  <2> QED
    BY <1>7, <2>2, <2>3, TypePartsNext DEF PersistCompletion
<1> QED
  BY <1>1, <1>2, <1>3, <1>4, <1>5, <1>6, <1>7 DEF FlowStep

(* A step of a receive loop keeps the types, as long as the response that  *)
(* it stores is one: TypeOK alone does not say so, HeldInOrder does.       *)
LEMMA LoopStepTyped ==
  ASSUME TypeOK, HeldInOrder, NEW c \in Conns, LoopStep(c)
  PROVE  TypeOK'
<1> USE ThreadFacts, TypeParts, PartsUnchanged
<1> DEFINE t == Loop(c)
<1>s. /\ "completed" \in OrchestratorState /\ "ready" \in OrchestratorState
      /\ "error" \in OrchestratorState /\ "presenting" \in OrchestratorState
  BY DEF OrchestratorState
<1>p. /\ "idle" \in PC /\ "intro" \in PC /\ "agent" \in PC /\ "reply" \in PC
      /\ "unsaved" \in PC /\ "record" \in PC /\ "advance" \in PC /\ "next" \in PC
      /\ "load" \in PC
  BY DEF PC
<1>1. CASE StartConversationFlow(c)
  <2>1. CtxOK'
    BY <1>1, <1>s, SetStateTyped DEF StartConversationFlow, CtxOK
  <2>2. WorkOK'
    BY <1>1, <1>p, GotoTyped DEF StartConversationFlow, WorkOK, workVars
  <2> QED
    BY <1>1, <2>1, <2>2, TypePartsNext DEF StartConversationFlow
<1>2. CASE PersistUserMessage(c)
  <2>1. CtxOK'
    BY <1>2, <1>s, SetStateTyped DEF PersistUserMessage, CtxOK
  <2>2. WorkOK'
    BY <1>2, <1>p, GotoTyped, EndTyped DEF PersistUserMessage, WorkOK, workVars
  <2>3. MsgOK'
    BY <1>2 DEF PersistUserMessage, MsgOK
  <2> QED
    BY <1>2, <2>1, <2>2, <2>3, TypePartsNext DEF PersistUserMessage
<1>3. CASE AgentAnswers(c)
  <2>1. WorkOK'
    BY <1>3, <1>p, GotoTyped DEF AgentAnswers, WorkOK, workVars
  <2> QED
    BY <1>3, <2>1, TypePartsNext DEF AgentAnswers
<1>4. CASE NoReply(c)
  <2>1. CtxOK'
    BY <1>4, <1>s, SetStateTyped DEF NoReply, CtxOK
  <2>2. WorkOK'
    BY <1>4, EndTyped DEF NoReply, WorkOK
  <2> QED
    BY <1>4, <2>1, <2>2, TypePartsNext DEF NoReply
<1>5. CASE CompleteMessage(c)
  <2>1. CtxOK'
    BY <1>5, <1>s, SetStateTyped DEF CompleteMessage, CtxOK
  <2>2. WorkOK'
    BY <1>5, EndTyped DEF CompleteMessage, WorkOK
  <2>3. MsgOK'
    BY <1>5 DEF CompleteMessage, MsgOK
  <2> QED
    BY <1>5, <2>1, <2>2, <2>3, TypePartsNext DEF CompleteMessage
<1>6. CASE RespondInBatch(c)
  <2>1. batch[c] \in Submission
    BY NoSubmissionTyped DEF WorkOK
  <2>2. PICK w \in batch[c].todo : 
          /\ IF Matches(c) THEN item' = [item EXCEPT ![c] = Answer(@, w)]
                           ELSE UNCHANGED item
          /\ IF attached[c] = "open"
             THEN /\ batch' = [batch EXCEPT ![c].todo = @ \ {w}]
                  /\ UNCHANGED <<pc, arg, held>>
             ELSE End(t)
          /\ IF ~Matches(c) /\ ~Proactive THEN SetState(c, "ready")
                                          ELSE UNCHANGED state
    BY <1>6 DEF RespondInBatch
  <2>3. item' \in [Conns -> ItemState \cup {NoItem}]
    BY <2>1, <2>2, ItemFacts DEF Matches, CtxOK, Submission
  <2>4. CtxOK'
    BY <1>6, <1>s, <2>2, <2>3, SetStateTyped DEF RespondInBatch, CtxOK
  <2>5. WorkOK'
    <3>1. CASE attached[c] = "open"
      <4>1. [batch[c] EXCEPT !.todo = @ \ {w}] \in Submission
        BY <2>1, <2>2 DEF Submission
      <4>2. batch' = [batch EXCEPT ![c] = [batch[c] EXCEPT !.todo = @ \ {w}]]
        BY <2>2, <3>1
      <4> QED
        BY <2>2, <3>1, <4>1, <4>2 DEF WorkOK
    <3>2. CASE attached[c] # "open"
      BY <2>2, <3>2, EndTyped DEF WorkOK
    <3> QED
      BY <3>1, <3>2
  <2> QED
    BY <1>6, <2>4, <2>5, TypePartsNext DEF RespondInBatch
<1>7. CASE RespondLast(c)
  <2> DEFINE answered == Answer(item[c], batch[c].last)
  <2>1. batch[c] \in Submission
    BY NoSubmissionTyped DEF WorkOK
  <2>2. Matches(c) => answered \in ItemState
    BY <2>1, ItemFacts DEF Matches, CtxOK, Submission
  <2> HIDE DEF answered
  <2>3. CtxOK'
    BY <1>7, <1>s, <2>2, SetStateTyped DEF RespondLast, CtxOK, answered
  <2>4. WorkOK'
    <3>1. CASE Matches(c) /\ IsComplete(answered)
      BY <1>7, <1>p, <2>2, <3>1, GotoTyped DEF RespondLast, WorkOK, answered
    <3>2. CASE ~(Matches(c) /\ IsComplete(answered))
      BY <1>7, <3>2, EndTyped DEF RespondLast, WorkOK, answered
    <3> QED
      BY <3>1, <3>2
  <2> QED
    BY <1>7, <2>3, <2>4, TypePartsNext DEF RespondLast
<1>8. CASE RecordResponse(c)
  <2>1. WorkOK'
    BY <1>8, <1>p, GotoTyped DEF RecordResponse, WorkOK, workVars
  <2>2. held[c] \in ItemState
    BY <1>8 DEF RecordResponse, HeldInOrder
  <2>3. responses' \subseteq ItemState /\ lost' \subseteq Items
    BY <1>8, <2>2 DEF RecordResponse, ConvOK, ItemState
  <2>4. ConvOK'
    BY <1>8, <2>3, Zenon DEF RecordResponse, ConvOK
  <2> QED
    BY <1>8, <2>1, <2>4, TypePartsNext DEF RecordResponse
<1>9. CASE AdvanceTemplate(c)
  <2>1. WorkOK'
    BY <1>9, <1>p, GotoTyped DEF AdvanceTemplate, WorkOK, workVars
  <2>2. progress' \in Nat
    BY <1>9 DEF AdvanceTemplate, ConvOK
  <2>3. ConvOK'
    BY <1>9, <2>2, Zenon DEF AdvanceTemplate, ConvOK
  <2> QED
    BY <1>9, <2>1, <2>3, TypePartsNext DEF AdvanceTemplate
<1>10. CASE AdvanceToNextItem(c)
  <2>1. NextIndex(c) \in 0 .. N
    BY DEF NextIndex, CtxOK, Items
  <2>2. WorkOK'
    BY <1>10, <1>p, <2>1, GotoTyped DEF AdvanceToNextItem, WorkOK
  <2> QED
    BY <1>10, <2>2, TypePartsNext DEF AdvanceToNextItem
<1> QED
  BY <1>1, <1>2, <1>3, <1>4, <1>5, <1>6, <1>7, <1>8, <1>9, <1>10
     DEF LoopStep

(* A step of the client or the network keeps the types. *)
LEMMA ClientStepTyped ==
  ASSUME TypeOK, NEW c \in Conns, ClientStep(c)
  PROVE  TypeOK'
<1> USE ThreadFacts, TypeParts, PartsUnchanged
<1>s. /\ "processing" \in OrchestratorState /\ "ready" \in OrchestratorState
      /\ "presenting" \in OrchestratorState /\ "paused" \in OrchestratorState
  BY DEF OrchestratorState
<1>p. /\ "start" \in PC /\ "send" \in PC /\ "respond" \in PC /\ "intro" \in PC
  BY DEF PC
<1>1. CASE Connect(c)
  <2>1. ConnOK'
    BY <1>1, Zenon DEF Connect, ConnOK, ConvOK
  <2>2. WorkOK'
    BY <1>1, <1>p, GotoTyped DEF Connect, WorkOK, workVars
  <2> QED
    BY <1>1, <2>1, <2>2, TypePartsNext DEF Connect
<1>2. CASE Disconnect(c)
  <2>1. ConnOK'
    BY <1>2 DEF Disconnect, ConnOK
  <2> QED
    BY <1>2, <2>1, TypePartsNext DEF Disconnect
<1>3. CASE UserMessage(c)
  <2>1. CtxOK'
    BY <1>3, <1>s, SetStateTyped DEF UserMessage, CtxOK
  <2>2. WorkOK'
    BY <1>3, <1>p, GotoTyped DEF UserMessage, WorkOK, workVars
  <2>3. MsgOK'
    BY <1>3 DEF UserMessage, MsgOK
  <2> QED
    BY <1>3, <2>1, <2>2, <2>3, TypePartsNext DEF UserMessage
<1>4. CASE SubmitResponse(c)
  <2>1. WorkOK'
    BY <1>4, <1>p, GotoTyped DEF SubmitResponse, WorkOK
  <2> QED
    BY <1>4, <2>1, TypePartsNext DEF SubmitResponse
<1>5. CASE FlowStart(c)
  <2>1. CtxOK'
    BY <1>5, <1>s, SetStateTyped DEF FlowStart, CtxOK
  <2>2. PICK k \in 1 .. MaxRestarts : Goto(<<c, k>>, "intro")
    BY <1>5 DEF FlowStart
  <2>3. WorkOK'
    BY <1>5, <1>p, <2>2, GotoTyped DEF FlowStart, WorkOK, workVars
  <2> QED
    BY <1>5, <2>1, <2>3, TypePartsNext DEF FlowStart
<1>6. CASE FlowPause(c) \/ FlowCancel(c)
  <2>1. CtxOK'
    BY <1>6, <1>s, SetStateTyped DEF FlowPause, FlowCancel, CtxOK
  <2> QED
    BY <1>6, <2>1, TypePartsNext DEF FlowPause, FlowCancel
<1> QED
  BY <1>1, <1>2, <1>3, <1>4, <1>5, <1>6 DEF ClientStep

LEMMA InitTyped == Init => TypeOK
<1> SUFFICES ASSUME Init PROVE TypeOK
  OBVIOUS
<1>1. CtxOK /\ ConnOK /\ MsgOK
  BY DEF Init, CtxOK, ConnOK, MsgOK, OrchestratorState, Items
<1>2. WorkOK
  BY DEF Init, WorkOK, PC
<1>3. completed \in BOOLEAN
  BY Zenon DEF Init
<1>4. responses \subseteq ItemState /\ lost \subseteq Items /\ progress \in Nat
  BY DEF Init
<1> QED
  BY <1>1, <1>2, <1>3, <1>4, Zenon
     DEF TypeOK, CtxOK, ConnOK, WorkOK, MsgOK

LEMMA StepTyped ==
  ASSUME TypeOK, HeldInOrder, [Next]_vars
  PROVE  TypeOK'
<1>1. CASE UNCHANGED vars
  BY <1>1, PartsUnchanged, TypePartsNext DEF vars
<1>2. CASE Next
  BY <1>2, FlowStepTyped, LoopStepTyped, ClientStepTyped DEF Next
<1> QED
  BY <1>1, <1>2

-----------------------------------------------------------------------------
(* The inductive invariant. *)

(* The answered items are items of the template, and none is ever taken    *)
(* back.                                                                   *)
LEMMA AnsweredTyped == ASSUME TypeOK PROVE AnsweredItems \subseteq Items
BY DEF TypeOK, AnsweredItems, StoredItems, ItemState

(* Which actions touch what: only RecordResponse the answered items, only  *)
(* PersistCompletion the completion, only presenting an item and answering *)
(* it the current item.                                                    *)
LEMMA WhoChangesWhat ==
  ASSUME [Next]_vars
  PROVE  /\ \/ UNCHANGED <<responses, lost>>
            \/ \E c \in Conns : RecordResponse(c)
         /\ \/ UNCHANGED completed
            \/ \E t \in Threads : PersistCompletion(t)
         /\ \/ UNCHANGED <<index, item>>
            \/ \E t \in Threads : PresentItem(t)
            \/ UNCHANGED index /\ \E c \in Conns :
                                    RespondInBatch(c) \/ RespondLast(c)
<1>1. CASE UNCHANGED vars
  BY <1>1 DEF vars, convVars, ctxVars
<1>2. CASE \E t \in Threads : FlowStep(t)
  BY <1>2 DEF FlowStep, RunProactiveFlow, LoadFails, PresentItem,
              FinishRender, RenderFails, CompleteFlow, PersistCompletion,
              convVars, ctxVars
<1>3. CASE \E c \in Conns : LoopStep(c)
  BY <1>3 DEF LoopStep, StartConversationFlow, PersistUserMessage,
              AgentAnswers, NoReply, CompleteMessage, RespondInBatch,
              RespondLast, RecordResponse, AdvanceTemplate,
              AdvanceToNextItem, convVars, ctxVars
<1>4. CASE \E c \in Conns : ClientStep(c)
  BY <1>4 DEF ClientStep, Connect, Disconnect, UserMessage, SubmitResponse,
              FlowStart, FlowPause, FlowCancel, convVars, ctxVars
<1> QED
  BY <1>1, <1>2, <1>3, <1>4 DEF Next

LEMMA AnsweredItemsGrow ==
  ASSUME [Next]_vars
  PROVE  AnsweredItems \subseteq AnsweredItems'
BY WhoChangesWhat DEF RecordResponse, AnsweredItems, StoredItems

(* Awaits at which a receive loop holds a completed item. *)
HeldAt == {"record", "advance", "next"}

(* A thread that moves, leaving the other threads' work and the item       *)
(* indexes alone, to an await that claims nothing of them.                 *)
Moves(t, to) ==
  /\ Goto(t, to)
  /\ to \in PC \ (HeldAt \cup {"load", "render", "close"})
  /\ \A u \in Threads : u # t => arg'[u] = arg[u]
  /\ IsLoop(t) \/ arg'[t] = 0
  /\ \A c \in Conns : Loop(c) # t => held'[c] = held[c]
  /\ UNCHANGED index

LEMMA MovesInOrder ==
  ASSUME IInv, [Next]_vars, NEW t \in Threads, NEW to, Moves(t, to)
  PROVE  HeldInOrder' /\ ArgInOrder'
<1>1. pc' = [pc EXCEPT ![t] = to]
  BY DEF Moves, Goto
<1>2. pc \in [Threads -> PC]
  BY DEF IInv, TypeOK
<1>3. HeldInOrder'
  BY <1>1, <1>2, ThreadFacts, AnsweredItemsGrow
     DEF IInv, HeldInOrder, Moves, HeldAt, Answered
<1>4. ArgInOrder'
  BY <1>1, <1>2, ThreadFacts, AnsweredItemsGrow
     DEF IInv, ArgInOrder, Moves, HeldAt, Answered
<1> QED
  BY <1>3, <1>4

(* Storing a response: it is complete, and it answers no item out of its   *)
(* turn.                                                                   *)
LEMMA StoredInOrder ==
  ASSUME IInv, [Next]_vars
  PROVE  StoredResponsesComplete' /\ AnsweredInOrder'
<1>1. CASE UNCHANGED <<responses, lost>>
  BY <1>1 DEF IInv, StoredResponsesComplete, RequirementsMet,
              AnsweredInOrder, AnsweredItems, StoredItems
<1>2. ASSUME NEW c \in Conns, RecordResponse(c)
      PROVE  StoredResponsesComplete' /\ AnsweredInOrder'
  <2>1. /\ held[c] \in ItemState
        /\ RequirementsMet(held[c])
        /\ Answered(0 .. held[c].idx - 1)
    BY <1>2 DEF IInv, HeldInOrder, RecordResponse
  <2>2. responses' \subseteq responses \cup {held[c]}
    BY <1>2 DEF RecordResponse
  <2>3. StoredResponsesComplete'
    BY <2>1, <2>2 DEF IInv, StoredResponsesComplete, RequirementsMet
  <2>4. AnsweredItems' = AnsweredItems \cup {held[c].idx}
    BY <1>2 DEF RecordResponse, AnsweredItems, StoredItems
  <2>5. \A i \in AnsweredItems' : \A j \in 0 .. i :
          j \in AnsweredItems \/ j = held[c].idx
    <3> SUFFICES ASSUME NEW i \in AnsweredItems', NEW j \in 0 .. i
                 PROVE  j \in AnsweredItems \/ j = held[c].idx
      OBVIOUS
    <3>1. CASE i \in AnsweredItems
      BY <3>1 DEF IInv, AnsweredInOrder
    <3>2. CASE i = held[c].idx
      <4>1. held[c].idx \in Items
        BY <2>1 DEF ItemState
      <4> QED
        BY <2>1, <3>2, <4>1 DEF Answered, Items
    <3> QED
      BY <2>4, <3>1, <3>2
  <2> QED
    BY <2>3, <2>4, <2>5 DEF AnsweredInOrder
<1> QED
  BY <1>1, <1>2, WhoChangesWhat

(* A conversation completes only after its last item. *)
LEMMA CompletedAtEnd ==
  ASSUME IInv, [Next]_vars, TypeOK'
  PROVE  CompletionCoversEveryItem'
<1>1. Items \subseteq AnsweredItems => AnsweredItems' = Items
  <2>1. AnsweredItems' \subseteq Items
    BY DEF TypeOK, AnsweredItems, StoredItems, ItemState
  <2> QED
    BY <2>1, AnsweredItemsGrow
<1>2. CASE UNCHANGED completed
  BY <1>1, <1>2 DEF IInv, CompletionCoversEveryItem
<1>3. ASSUME NEW t \in Threads, PersistCompletion(t)
      PROVE  CompletionCoversEveryItem'
  BY <1>1, <1>3 DEF IInv, ArgInOrder, PersistCompletion, Answered,
                    CompletionCoversEveryItem
<1> QED
  BY <1>2, <1>3, WhoChangesWhat

(* Presenting an item moves the index to it, answering it does not.        *)
LEMMA ContextStaysInOrder ==
  ASSUME IInv, [Next]_vars
  PROVE  ContextInOrder'
<1>1. CASE UNCHANGED <<index, item>>
  BY <1>1, AnsweredItemsGrow DEF IInv, ContextInOrder, Answered
<1>2. ASSUME NEW t \in Threads, PresentItem(t)
      PROVE  ContextInOrder'
  <2>1. arg[t] \in Items /\ Answered(0 .. arg[t] - 1)
    BY <1>2 DEF PresentItem, IInv, TypeOK, ArgInOrder, Items
  <2>2. NewItem(arg[t]).idx = arg[t] /\ NewItem(arg[t]) # NoItem
    BY <2>1, ItemFacts
  <2>3. /\ index \in [Conns -> Items]
        /\ item \in [Conns -> ItemState \cup {NoItem}]
    BY DEF IInv, TypeOK
  <2> QED
    BY <1>2, <2>1, <2>2, <2>3, ThreadFacts, AnsweredItemsGrow
       DEF PresentItem, IInv, ContextInOrder, Answered
<1>3. ASSUME NEW c \in Conns, RespondInBatch(c) \/ RespondLast(c),
             UNCHANGED index
      PROVE  ContextInOrder'
  <2>1. batch[c] \in Submission /\ item \in [Conns -> ItemState \cup {NoItem}]
    BY NoSubmissionTyped DEF IInv, TypeOK
  <2>2. \A w \in Widgets \cup {"confirm"} :
          Matches(c) => /\ item[c] # NoItem
                        /\ Answer(item[c], w) # NoItem
                        /\ Answer(item[c], w).idx = item[c].idx
    <3>1. Matches(c) => item[c].idx \in Items
      BY <2>1 DEF Matches, Submission
    <3>2. NoItem.idx \notin Items
      BY DEF NoItem, Items
    <3> QED
      BY <2>1, <3>1, <3>2, ItemFacts
  <2>3. UNCHANGED item \/ \E w \in Widgets \cup {"confirm"} :
          Matches(c) /\ item' = [item EXCEPT ![c] = Answer(item[c], w)]
    BY <1>3, <2>1 DEF RespondInBatch, RespondLast, Submission
  <2>4. \A d \in Conns : /\ item'[d] = NoItem <=> item[d] = NoItem
                         /\ item'[d].idx = item[d].idx
    BY <2>1, <2>2, <2>3
  <2> QED
    BY <1>3, <2>4, AnsweredItemsGrow DEF IInv, ContextInOrder, Answered
<1> QED
  BY <1>1, <1>2, <1>3, WhoChangesWhat

(* The end of a handler or a task is such a move. *)
LEMMA EndMoves ==
  ASSUME IInv, NEW t \in Threads, End(t), UNCHANGED index
  PROVE  Moves(t, Finished(t))
<1>1. /\ arg \in [Threads -> 0 .. N]
      /\ held \in [Conns -> ItemState \cup {NoItem}]
  BY DEF IInv, TypeOK
<1>2. Goto(t, Finished(t)) /\ arg' = [arg EXCEPT ![t] = 0]
  BY DEF End
<1>3. Finished(t) \in PC \ (HeldAt \cup {"load", "render", "close"})
  BY DEF Finished, PC, HeldAt
<1>4. \A c \in Conns : Loop(c) # t => held'[c] = held[c]
  BY <1>1, ThreadFacts DEF End
<1> QED
  BY <1>1, <1>2, <1>3, <1>4 DEF Moves

(* So is going on to another await with the locals as they were.           *)
LEMMA GotoMoves ==
  ASSUME IInv, NEW t \in Threads,
         NEW to \in PC \ (HeldAt \cup {"load", "render", "close"}),
         Goto(t, to), UNCHANGED <<index, arg, held>>
  PROVE  Moves(t, to)
BY ThreadFacts DEF Moves, IInv, ArgInOrder

(* Nothing of the order is claimed by what a step of the client changes.   *)
LEMMA ClientInOrder ==
  ASSUME IInv, NEW c \in Conns, ClientStep(c)
  PROVE  HeldInOrder' /\ ArgInOrder'
<1> DEFINE Free == PC \ (HeldAt \cup {"load", "render", "close"})
<1>n. [Next]_vars
  BY DEF Next
<1>p. /\ "start" \in Free /\ "send" \in Free /\ "respond" \in Free
      /\ "intro" \in Free
  BY DEF PC, HeldAt
<1>t. Loop(c) \in Threads /\ \A k \in 1 .. MaxRestarts : <<c, k>> \in Threads
  BY ThreadFacts
<1>k. ASSUME UNCHANGED <<index, pc, arg, held, responses, lost>>
      PROVE  HeldInOrder' /\ ArgInOrder'
  BY <1>k DEF IInv, HeldInOrder, ArgInOrder, Answered, AnsweredItems,
              StoredItems, RequirementsMet
<1> HIDE DEF Free
<1>1. CASE Connect(c)
  BY <1>1, <1>n, <1>p, <1>t, GotoMoves, MovesInOrder
     DEF Connect, ctxVars, workVars, Free
<1>2. CASE Disconnect(c)
  BY <1>2, <1>k DEF Disconnect, ctxVars, workVars, convVars
<1>3. CASE UserMessage(c)
  BY <1>3, <1>n, <1>p, <1>t, GotoMoves, MovesInOrder
     DEF UserMessage, workVars, Free
<1>4. CASE SubmitResponse(c)
  BY <1>4, <1>n, <1>p, <1>t, GotoMoves, MovesInOrder
     DEF SubmitResponse, ctxVars, Free
<1>5. CASE FlowStart(c)
  BY <1>5, <1>n, <1>p, <1>t, GotoMoves, MovesInOrder
     DEF FlowStart, workVars, Free
<1>6. CASE FlowPause(c) \/ FlowCancel(c)
  BY <1>6, <1>k DEF FlowPause, FlowCancel, workVars, convVars
<1> QED
  BY <1>1, <1>2, <1>3, <1>4, <1>5, <1>6 DEF ClientStep

(* A step of the template flow: a background task presents only the first  *)
(* item, so it may take the index back behind a response that is being     *)
(* persisted, and never ahead of it.                                       *)
LEMMA FlowInOrder ==
  ASSUME IInv, NEW t \in Threads, FlowStep(t)
  PROVE  HeldInOrder' /\ ArgInOrder'
<1>n. [Next]_vars
  BY DEF Next
<1>t. /\ pc \in [Threads -> PC]
      /\ arg \in [Threads -> 0 .. N]
      /\ index \in [Conns -> Items]
  BY DEF IInv, TypeOK
<1>1. CASE RunProactiveFlow(t)
  <2>1. HeldInOrder'
    BY <1>1, <1>n, <1>t, ThreadFacts, AnsweredItemsGrow
       DEF RunProactiveFlow, Goto, ctxVars, IInv, HeldInOrder, Answered
  <2>2. ArgInOrder'
    BY <1>1, <1>n, <1>t, AnsweredItemsGrow
       DEF RunProactiveFlow, Goto, FirstItem, IInv, ArgInOrder, Answered
  <2> QED
    BY <2>1, <2>2
<1>2. CASE LoadFails(t)
  BY <1>2, <1>n, EndMoves, MovesInOrder DEF LoadFails
<1>3. CASE PresentItem(t)
  <2>1. ~IsLoop(t) => arg[t] = 0
    BY DEF IInv, ArgInOrder
  <2>2. ASSUME NEW c \in Conns, pc'[Loop(c)] \in HeldAt
        PROVE  /\ pc'[Loop(c)] = pc[Loop(c)] /\ held'[c] = held[c]
               /\ held[c].idx \in Items
               /\ index'[c] <= held[c].idx
    <3>1. Loop(c) # t /\ pc'[Loop(c)] = pc[Loop(c)]
      BY <1>3, <1>t, <2>2, ThreadFacts DEF PresentItem, Goto, HeldAt
    <3>2. held[c] \in ItemState /\ index[c] <= held[c].idx
      BY <2>2, <3>1 DEF IInv, HeldInOrder, HeldAt
    <3>3. held[c].idx \in Items
      BY <3>2 DEF ItemState
    <3>4. index'[c] = index[c] \/ index'[c] = 0
      BY <1>3, <1>t, <2>1, <3>1, ThreadFacts DEF PresentItem
    <3> QED
      BY <1>3, <3>1, <3>2, <3>3, <3>4 DEF PresentItem, workVars, Items
  <2>3. HeldInOrder'
    BY <1>3, <1>n, <2>2, AnsweredItemsGrow
       DEF PresentItem, IInv, HeldInOrder, HeldAt, Answered, RequirementsMet
  <2>4. ArgInOrder'
    BY <1>3, <1>n, <1>t, AnsweredItemsGrow
       DEF PresentItem, Goto, workVars, IInv, ArgInOrder, Answered
  <2> QED
    BY <2>3, <2>4
<1>4. CASE FinishRender(t)
  BY <1>4, <1>n, EndMoves, MovesInOrder DEF FinishRender
<1>5. CASE RenderFails(t)
  BY <1>5, <1>n, EndMoves, MovesInOrder DEF RenderFails
<1>6. CASE CompleteFlow(t)
  <2>1. CASE ContinueAfter
    BY <1>6, <1>n, <2>1, EndMoves, MovesInOrder DEF CompleteFlow
  <2>2. CASE ~ContinueAfter
    <3>1. Goto(t, "close") /\ UNCHANGED <<index, workVars>>
      BY <1>6, <2>2 DEF CompleteFlow
    <3>2. Answered(Items)
      BY <1>6, <1>t DEF CompleteFlow, IInv, ArgInOrder, Answered, Items
    <3>3. HeldInOrder'
      BY <1>n, <1>t, <3>1, ThreadFacts, AnsweredItemsGrow
         DEF Goto, workVars, IInv, HeldInOrder, Answered
    <3>4. ArgInOrder'
      BY <1>n, <1>t, <3>1, <3>2, AnsweredItemsGrow
         DEF Goto, workVars, IInv, ArgInOrder, Answered
    <3> QED
      BY <3>3, <3>4
  <2> QED
    BY <2>1, <2>2
<1>7. CASE PersistCompletion(t)
  BY <1>7, <1>n, EndMoves, MovesInOrder DEF PersistCompletion, ctxVars
<1> QED
  BY <1>1, <1>2, <1>3, <1>4, <1>5, <1>6, <1>7 DEF FlowStep

(* A step of a receive loop: a response is persisted with its item and all *)
(* before it answered, and the flow goes on to the item after it at most.  *)
LEMMA LoopInOrder ==
  ASSUME IInv, NEW c \in Conns, LoopStep(c)
  PROVE  HeldInOrder' /\ ArgInOrder'
<1> DEFINE t == Loop(c)
           Free == PC \ (HeldAt \cup {"load", "render", "close"})
<1>n. [Next]_vars
  BY DEF Next
<1>t. /\ t \in Threads /\ ConnOf(t) = c /\ IsLoop(t)
      /\ \A d \in Conns : Loop(d) = t => d = c
  BY ThreadFacts
<1>y. /\ pc \in [Threads -> PC]
      /\ arg \in [Threads -> 0 .. N]
      /\ index \in [Conns -> Items]
      /\ held \in [Conns -> ItemState \cup {NoItem}]
      /\ item \in [Conns -> ItemState \cup {NoItem}]
  BY DEF IInv, TypeOK
<1>p. /\ "idle" \in Free /\ "intro" \in Free /\ "agent" \in Free
      /\ "reply" \in Free /\ "unsaved" \in Free
  BY DEF PC, HeldAt
<1> HIDE DEF t, Free
<1>1. CASE StartConversationFlow(c)
  BY <1>1, <1>n, <1>t, <1>p, GotoMoves, MovesInOrder
     DEF StartConversationFlow, workVars, Free, t
<1>2. CASE PersistUserMessage(c)
  BY <1>2, <1>n, <1>t, <1>p, GotoMoves, EndMoves, MovesInOrder
     DEF PersistUserMessage, workVars, Free, t
<1>3. CASE AgentAnswers(c)
  BY <1>3, <1>n, <1>t, <1>p, GotoMoves, MovesInOrder
     DEF AgentAnswers, ctxVars, workVars, Free, t
<1>4. CASE NoReply(c)
  BY <1>4, <1>n, <1>t, EndMoves, MovesInOrder DEF NoReply, t
<1>5. CASE CompleteMessage(c)
  BY <1>5, <1>n, <1>t, EndMoves, MovesInOrder DEF CompleteMessage, t
<1>6. CASE RespondInBatch(c)
  <2>1. CASE UNCHANGED <<pc, arg, held>>
    BY <1>6, <2>1 DEF RespondInBatch, convVars, IInv, HeldInOrder,
       ArgInOrder, Answered, AnsweredItems, StoredItems, RequirementsMet
  <2>2. CASE End(t)
    BY <1>6, <1>n, <1>t, <2>2, EndMoves, MovesInOrder DEF RespondInBatch
  <2> QED
    BY <1>6, <2>1, <2>2 DEF RespondInBatch, t
<1>7. CASE RespondLast(c)
  <2> DEFINE answered == Answer(item[c], batch[c].last)
  <2>1. CASE Matches(c) /\ IsComplete(answered)
    <3>1. /\ held' = [held EXCEPT ![c] = answered]
          /\ Goto(t, "record") /\ UNCHANGED <<index, arg>>
      BY <1>7, <2>1 DEF RespondLast, t
    <3>2. batch[c] \in Submission
      BY NoSubmissionTyped DEF IInv, TypeOK
    <3>3. item[c].idx \in Items /\ item[c] # NoItem
      BY <2>1, <3>2 DEF Matches, Submission, NoItem, Items
    <3>4. answered \in ItemState /\ answered.idx = item[c].idx
      BY <1>y, <3>2, <3>3, ItemFacts DEF Submission
    <3>5. index[c] = answered.idx /\ Answered(0 .. answered.idx - 1)
      BY <3>3, <3>4 DEF IInv, ContextInOrder
    <3>6. RequirementsMet(answered)
      BY <2>1 DEF IsComplete
    <3> HIDE DEF answered
    <3>7. HeldInOrder'
      <4> SUFFICES ASSUME NEW d \in Conns
                   PROVE  /\ pc'[Loop(d)] \in HeldAt =>
                               /\ held'[d] \in ItemState
                               /\ RequirementsMet(held'[d])
                               /\ index'[d] <= held'[d].idx
                               /\ \A j \in 0 .. held'[d].idx - 1 :
                                    j \in AnsweredItems'
                          /\ pc'[Loop(d)] \in {"advance", "next"} =>
                               held'[d].idx \in AnsweredItems'
        BY DEF HeldInOrder, HeldAt, Answered, RequirementsMet
      <4>1. CASE d = c
        <5>1. held'[d] = answered /\ pc'[Loop(d)] = "record"
          BY <1>t, <1>y, <3>1, <4>1 DEF Goto, t
        <5>2. answered.idx \in Items /\ index' = index
          BY <3>1, <3>4 DEF ItemState
        <5> QED
          BY <1>n, <1>y, <3>4, <3>5, <3>6, <4>1, <5>1, <5>2,
             AnsweredItemsGrow DEF Answered, Items
      <4>2. CASE d # c
        <5>1. /\ held'[d] = held[d] /\ pc'[Loop(d)] = pc[Loop(d)]
              /\ index'[d] = index[d]
          BY <1>t, <1>y, <3>1, <4>2, ThreadFacts DEF Goto
        <5> QED
          BY <1>n, <5>1, AnsweredItemsGrow
             DEF IInv, HeldInOrder, HeldAt, Answered
      <4> QED
        BY <4>1, <4>2
    <3>8. ArgInOrder'
      BY <1>n, <1>t, <1>y, <3>1, AnsweredItemsGrow
         DEF Goto, IInv, ArgInOrder, Answered
    <3> QED
      BY <3>7, <3>8
  <2>2. CASE ~(Matches(c) /\ IsComplete(answered))
    BY <1>7, <1>n, <1>t, <2>2, EndMoves, MovesInOrder DEF RespondLast, t
  <2> QED
    BY <2>1, <2>2
<1>8. CASE RecordResponse(c)
  <2>1. held[c].idx \in AnsweredItems'
    BY <1>8, <1>y DEF RecordResponse, AnsweredItems, StoredItems
  <2>2. /\ pc[t] = "record" /\ UNCHANGED <<index, held, arg>>
        /\ Goto(t, "advance") \/ Goto(t, "next")
    BY <1>8 DEF RecordResponse, ctxVars, workVars, t
  <2>3. HeldInOrder'
    BY <1>n, <1>t, <1>y, <2>1, <2>2, AnsweredItemsGrow, ThreadFacts
       DEF Goto, IInv, HeldInOrder, Answered, RequirementsMet, t
  <2>4. ArgInOrder'
    BY <1>n, <1>t, <1>y, <2>2, AnsweredItemsGrow
       DEF Goto, IInv, ArgInOrder, Answered
  <2> QED
    BY <2>3, <2>4
<1>9. CASE AdvanceTemplate(c)
  <2>1. /\ pc[t] = "advance" /\ UNCHANGED <<index, held, arg>>
        /\ Goto(t, "next")
    BY <1>9 DEF AdvanceTemplate, ctxVars, workVars, t
  <2>2. HeldInOrder'
    BY <1>n, <1>t, <1>y, <2>1, AnsweredItemsGrow, ThreadFacts
       DEF Goto, IInv, HeldInOrder, Answered, RequirementsMet, t
  <2>3. ArgInOrder'
    BY <1>n, <1>t, <1>y, <2>1, AnsweredItemsGrow
       DEF Goto, IInv, ArgInOrder, Answered
  <2> QED
    BY <2>2, <2>3
<1>10. CASE AdvanceToNextItem(c)
  <2>1. /\ pc[t] = "next" /\ UNCHANGED <<index, held>>
        /\ arg' = [arg EXCEPT ![t] = index[c] + 1] /\ Goto(t, "load")
    BY <1>10 DEF AdvanceToNextItem, NextIndex, ctxVars, t
  <2>2. /\ held[c] \in ItemState /\ index[c] <= held[c].idx
        /\ Answered(0 .. held[c].idx - 1) /\ held[c].idx \in AnsweredItems
    BY <2>1 DEF IInv, HeldInOrder, t
  <2>3. Answered(0 .. index[c])
    BY <1>y, <2>2 DEF Answered, ItemState, Items
  <2>4. HeldInOrder'
    BY <1>n, <1>t, <1>y, <2>1, AnsweredItemsGrow, ThreadFacts
       DEF Goto, IInv, HeldInOrder, Answered, RequirementsMet, t
  <2>5. ArgInOrder'
    <3>1. Answered(0 .. arg'[t] - 1)
      BY <1>t, <1>y, <2>1, <2>3 DEF Items
    <3> QED
      BY <1>n, <1>t, <1>y, <2>1, <3>1, AnsweredItemsGrow
         DEF Goto, IInv, ArgInOrder, Answered
  <2> QED
    BY <2>4, <2>5
<1> QED
  BY <1>1, <1>2, <1>3, <1>4, <1>5, <1>6, <1>7, <1>8, <1>9, <1>10 DEF LoopStep

LEMMA InitInOrder == Init => IInv
<1> SUFFICES ASSUME Init PROVE IInv
  OBVIOUS
<1>1. AnsweredItems = {}
  BY DEF Init, AnsweredItems, StoredItems
<1>2. StoredResponsesComplete /\ AnsweredInOrder
  BY <1>1 DEF Init, StoredResponsesComplete, AnsweredInOrder
<1>3. CompletionCoversEveryItem
  BY Zenon DEF Init, CompletionCoversEveryItem
<1>4. ContextInOrder
  BY DEF Init, ContextInOrder, Answered
<1>5. HeldInOrder /\ ArgInOrder
  BY ThreadFacts DEF Init, HeldInOrder, ArgInOrder
<1> QED
  BY <1>2, <1>3, <1>4, <1>5, InitTyped DEF IInv

LEMMA StepInOrder == IInv /\ [Next]_vars => IInv'
<1> SUFFICES ASSUME IInv, [Next]_vars PROVE IInv'
  OBVIOUS
<1>1. TypeOK'
  BY StepTyped DEF IInv
<1>2. HeldInOrder' /\ ArgInOrder'
  <2>1. CASE UNCHANGED vars
    BY <2>1 DEF vars, ctxVars, workVars, convVars, IInv, HeldInOrder,
       ArgInOrder, Answered, AnsweredItems, StoredItems, RequirementsMet
  <2>2. CASE Next
    BY <2>2, FlowInOrder, LoopInOrder, ClientInOrder DEF Next
  <2> QED
    BY <2>1, <2>2
<1> QED
  BY <1>1, <1>2, StoredInOrder, CompletedAtEnd, ContextStaysInOrder DEF IInv

(* The strengthened invariant holds in every state: see ConversationFlow.  *)
THEOREM InOrder == Spec => []IInv
BY InitInOrder, StepInOrder, PTL DEF Spec

(* Every variable keeps its type, for any number of connections, tasks,    *)
(* items and widgets; in particular the index handed to                    *)
(* _present_item_at_index never exceeds the number of items.               *)
THEOREM TypeCorrect == Spec => []TypeOK
<1>1. IInv => TypeOK
  BY DEF IInv
<1> QED
  BY <1>1, InOrder, PTL

(* A response is stored only when every required widget of its item is     *)
(* answered and the item confirmed where it asks for it                    *)
(* (handle_widget_response, persist_item_response).                        *)
THEOREM ResponsesComplete == Spec => []StoredResponsesComplete
<1>1. IInv => StoredResponsesComplete
  BY DEF IInv
<1> QED
  BY <1>1, InOrder, PTL

(* Items are answered in template order, whatever restarts, reconnects and *)
(* failures come between (present_item, advance_to_next_item).             *)
THEOREM AnswersInOrder == Spec => []AnsweredInOrder
<1>1. IInv => AnsweredInOrder
  BY DEF IInv
<1> QED
  BY <1>1, InOrder, PTL

(* A conversation stored as completed had every item answered              *)
(* (complete_flow).                                                        *)
THEOREM CompletionCovers == Spec => []CompletionCoversEveryItem
<1>1. IInv => CompletionCoversEveryItem
  BY DEF IInv
<1> QED
  BY <1>1, InOrder, PTL

(* No item is presented before those ahead of it are answered              *)
(* (advance_to_next_item).                                                 *)
THEOREM PresentsInOrder == Spec => NoItemSkipped
<1> DEFINE InTurn == \A c \in Conns :
                       index'[c] # index[c] =>
                         \A j \in 0 .. index'[c] - 1 : j \in AnsweredItems
<1>1. IInv /\ [Next]_vars => [InTurn]_vars
  <2> SUFFICES ASSUME IInv, [Next]_vars PROVE InTurn
    OBVIOUS
  <2>1. CASE UNCHANGED index
    BY <2>1
  <2>2. ASSUME NEW t \in Threads, PresentItem(t)
        PROVE  InTurn
    <3>1. Answered(0 .. arg[t] - 1)
      BY <2>2 DEF PresentItem, IInv, ArgInOrder
    <3>2. \A c \in Conns : index'[c] = index[c] \/ index'[c] = arg[t]
      BY <2>2 DEF PresentItem, IInv, TypeOK
    <3> QED
      BY <3>1, <3>2 DEF Answered
  <2> QED
    BY <2>1, <2>2, WhoChangesWhat
<1> HIDE DEF InTurn
<1>2. Spec => [][InTurn]_vars
  BY <1>1, InOrder, PTL DEF Spec
<1> QED
  BY <1>2 DEF NoItemSkipped, InTurn

(* With commands that do not fail, nothing is lost, and a completed        *)
(* conversation has every response stored (persist_item_response).         *)
THEOREM CompletionIsStored == Spec => []CompletionStored
<1> DEFINE NothingLost == "persist" \notin Faults => lost = {}
<1>1. Init => NothingLost
  BY DEF Init
<1>2. NothingLost /\ [Next]_vars => NothingLost'
  BY WhoChangesWhat DEF RecordResponse
<1>3. IInv /\ NothingLost => CompletionStored
  BY DEF IInv, CompletionCoversEveryItem, CompletionStored, AnsweredItems
<1> QED
  BY <1>1, <1>2, <1>3, InOrder, PTL DEF Spec

-----------------------------------------------------------------------------
(* Refinement. *)

(* The orchestrator implements TemplateRun, for any number of connections, *)
(* restarts and failures: storing or losing a response answers the next    *)
(* item of the template or repeats an answered one, and only the end of    *)
(* the template completes it (persist_item_response, complete_flow).       *)
THEOREM ImplementsTemplateRun == Spec => RefinesTemplateRun
<1>1. Init => Run!Init
  BY Zenon DEF Init, Run!Init, AnsweredItems, StoredItems
<1>2. IInv /\ [Next]_vars => [Run!Next]_<<AnsweredItems, completed>>
  <2> SUFFICES ASSUME IInv, [Next]_vars
               PROVE  [Run!Next]_<<AnsweredItems, completed>>
    OBVIOUS
  <2>1. CASE UNCHANGED <<responses, lost, completed>>
    BY <2>1 DEF AnsweredItems, StoredItems
  <2>2. ASSUME NEW c \in Conns, RecordResponse(c)
        PROVE  [Run!Next]_<<AnsweredItems, completed>>
    <3>1. /\ held[c] \in ItemState
          /\ \A j \in 0 .. held[c].idx - 1 : j \in AnsweredItems
      BY <2>2 DEF RecordResponse, IInv, HeldInOrder, Answered
    <3>2. AnsweredItems' = AnsweredItems \cup {held[c].idx}
      BY <2>2 DEF RecordResponse, AnsweredItems, StoredItems
    <3>3. UNCHANGED completed /\ held[c].idx \in Items
      BY <2>2, <3>1 DEF RecordResponse, ItemState
    <3>4. CASE held[c].idx \in AnsweredItems
      BY <3>2, <3>3, <3>4
    <3>5. CASE held[c].idx \notin AnsweredItems
      <4>1. Run!AnswerItem(held[c].idx)
        BY <3>1, <3>2, <3>3, <3>5, Zenon DEF Run!AnswerItem
      <4> QED
        BY <3>3, <4>1, Zenon DEF Run!Next, Run!Items, Items
    <3> QED
      BY <3>4, <3>5
  <2>3. ASSUME NEW t \in Threads, PersistCompletion(t)
        PROVE  [Run!Next]_<<AnsweredItems, completed>>
    <3>1. AnsweredItems = Items
      BY <2>3, AnsweredTyped
         DEF PersistCompletion, IInv, ArgInOrder, Answered
    <3>2. UNCHANGED AnsweredItems
      BY <2>3 DEF PersistCompletion, AnsweredItems, StoredItems
    <3>3. completed' = TRUE \/ UNCHANGED completed
      BY <2>3, Zenon DEF PersistCompletion
    <3> QED
      BY <3>1, <3>2, <3>3, Zenon
         DEF Run!Next, Run!Complete, Run!Items, Items
  <2> QED
    BY <2>1, <2>2, <2>3, WhoChangesWhat
<1> QED
  BY <1>1, <1>2, InOrder, PTL DEF Spec, RefinesTemplateRun, Run!Spec

-----------------------------------------------------------------------------
(* Replies.                                                                *)

\* the connections whose receive loop works on an assistant message
Replying == {c \in Conns : pc[Loop(c)] \in {"agent", "reply"}}

\* the step of a handler that gives up the reply it was working on
GivesUp(c) ==
  /\ \/ pc[Loop(c)] = "agent" /\ "agent" \in Faults
     \/ pc[Loop(c)] = "reply" /\ "persist" \in Faults
  /\ pc'[Loop(c)] = "idle"

\* No thread of a connection runs before it is opened.
OffUntilOpen == \A c \in Conns : attached[c] = "new" => pc[Loop(c)] = "off"

LEMMA StepOff ==
  ASSUME TypeOK, OffUntilOpen, [Next]_vars
  PROVE  OffUntilOpen'
<1>t. /\ pc \in [Threads -> PC] /\ attached \in [Conns -> {"new", "open", "gone"}]
      /\ \A c, d \in Conns : c # d => Loop(c) # Loop(d)
  BY DEF TypeOK, Loop
<1>0. ASSUME NEW t \in Threads, NEW to, pc[t] # "off", Goto(t, to)
      PROVE  \A c \in Conns : pc[Loop(c)] = "off" => pc'[Loop(c)] = "off"
  BY <1>0, <1>t, ThreadFacts DEF Goto
<1>1. ASSUME NEW t \in Threads, FlowStep(t)
      PROVE  /\ UNCHANGED attached /\ pc[t] # "off"
             /\ \E to : Goto(t, to)
  BY <1>1 DEF FlowStep, RunProactiveFlow, LoadFails, PresentItem, FinishRender,
     RenderFails, CompleteFlow, PersistCompletion, connVars, End
<1>2. ASSUME NEW c \in Conns, LoopStep(c)
      PROVE  /\ UNCHANGED attached /\ pc[Loop(c)] # "off"
             /\ UNCHANGED pc \/ \E to : Goto(Loop(c), to)
  BY <1>2 DEF LoopStep, StartConversationFlow, PersistUserMessage, AgentAnswers,
     NoReply, CompleteMessage, RespondInBatch, RespondLast, RecordResponse,
     AdvanceTemplate, AdvanceToNextItem, connVars, End
<1>3. ASSUME NEW c \in Conns, ClientStep(c)
      PROVE  OffUntilOpen'
  <2>1. CASE Connect(c)
    <3>1. attached' = [attached EXCEPT ![c] = "open"] /\ Goto(Loop(c), "start")
      BY <2>1 DEF Connect
    <3>2. ASSUME NEW d \in Conns, attached'[d] = "new"
          PROVE  pc'[Loop(d)] = "off"
      BY <1>t, <3>1, <3>2, ThreadFacts DEF OffUntilOpen, Goto
    <3> QED
      BY <3>2 DEF OffUntilOpen
  <2>2. CASE Disconnect(c)
    BY <1>t, <2>2 DEF Disconnect, OffUntilOpen
  <2>3. CASE UserMessage(c) \/ SubmitResponse(c)
    <3>1. /\ UNCHANGED attached /\ pc[Loop(c)] # "off"
          /\ \E to : Goto(Loop(c), to)
      BY <2>3 DEF UserMessage, SubmitResponse, Receives, connVars
    <3> QED
      BY <1>0, <3>1, ThreadFacts DEF OffUntilOpen
  <2>4. CASE FlowStart(c)
    <3>1. PICK k \in 1 .. MaxRestarts : Goto(<<c, k>>, "intro")
      BY <2>4 DEF FlowStart
    <3>2. \A d \in Conns : Loop(d) # <<c, k>>
      BY DEF Loop
    <3> QED
      BY <1>t, <2>4, <3>1, <3>2, ThreadFacts DEF FlowStart, connVars, Goto, OffUntilOpen
  <2>5. CASE FlowPause(c) \/ FlowCancel(c)
    BY <2>5 DEF FlowPause, FlowCancel, connVars, OffUntilOpen
  <2> QED
    BY <1>3, <2>1, <2>2, <2>3, <2>4, <2>5 DEF ClientStep
<1>4. CASE UNCHANGED vars
  BY <1>4 DEF vars, connVars, OffUntilOpen
<1>5. ASSUME NEW t \in Threads, FlowStep(t)
      PROVE  OffUntilOpen'
  BY <1>0, <1>1, <1>5 DEF OffUntilOpen
<1>6. ASSUME NEW c \in Conns, LoopStep(c)
      PROVE  OffUntilOpen'
  BY <1>0, <1>2, <1>6, ThreadFacts DEF OffUntilOpen
<1> QED
  BY <1>3, <1>4, <1>5, <1>6 DEF Next

(* A thread that neither leaves the agent nor goes to it changes nobody's  *)
(* reply.                                                                  *)
LEMMA OtherMoves ==
  ASSUME TypeOK, NEW t \in Threads, NEW to \in PC \ {"agent", "reply"},
         pc[t] \notin {"agent", "reply"}, Goto(t, to)
  PROVE  Replying' = Replying
<1>1. ASSUME NEW c \in Conns
      PROVE  pc'[Loop(c)] \in {"agent", "reply"} <=> pc[Loop(c)] \in {"agent", "reply"}
  BY ThreadFacts DEF TypeOK, Goto
<1> QED
  BY <1>1 DEF Replying

\* So does the end of a handler or a task that was not at the agent.
LEMMA OtherEnds ==
  ASSUME TypeOK, NEW t \in Threads, pc[t] \notin {"agent", "reply"}, End(t)
  PROVE  Replying' = Replying
<1>1. Finished(t) \in PC \ {"agent", "reply"} /\ Goto(t, Finished(t))
  BY DEF Finished, PC, End
<1> QED
  BY <1>1, OtherMoves

\* A step of the template flow is not about replies.
LEMMA FlowReplies ==
  ASSUME TypeOK, NEW t \in Threads, FlowStep(t)
  PROVE  Replying' = Replying /\ pending' = pending
<1> USE OtherMoves, OtherEnds DEF PC
<1>1. CASE RunProactiveFlow(t)
  BY <1>1 DEF RunProactiveFlow, msgVars
<1>2. CASE LoadFails(t)
  BY <1>2 DEF LoadFails, msgVars
<1>3. CASE PresentItem(t)
  BY <1>3 DEF PresentItem, msgVars
<1>4. CASE FinishRender(t)
  BY <1>4 DEF FinishRender, msgVars
<1>5. CASE RenderFails(t)
  BY <1>5 DEF RenderFails, msgVars
<1>6. CASE CompleteFlow(t)
  BY <1>6 DEF CompleteFlow, msgVars
<1>7. CASE PersistCompletion(t)
  BY <1>7 DEF PersistCompletion, msgVars
<1> QED
  BY <1>1, <1>2, <1>3, <1>4, <1>5, <1>6, <1>7 DEF FlowStep

\* Neither is a message of the client before it is stored.
LEMMA ClientReplies ==
  ASSUME TypeOK, OffUntilOpen, NEW c \in Conns, ClientStep(c)
  PROVE  Replying' = Replying /\ pending' = pending
<1> USE OtherMoves, ThreadFacts DEF PC
<1>1. CASE Connect(c)
  <2>1. Goto(Loop(c), "start") /\ pending' = pending
    BY <1>1 DEF Connect, msgVars
  <2>2. pc[Loop(c)] = "off"
    BY <1>1 DEF Connect, OffUntilOpen
  <2> QED
    BY <2>1, <2>2
<1>2. CASE Disconnect(c) \/ FlowPause(c) \/ FlowCancel(c)
  BY <1>2 DEF Disconnect, FlowPause, FlowCancel, msgVars, Replying
<1>3. CASE UserMessage(c)
  BY <1>3 DEF UserMessage, Receives
<1>4. CASE SubmitResponse(c)
  BY <1>4 DEF SubmitResponse, Receives, msgVars
<1>5. CASE FlowStart(c)
  BY <1>5 DEF FlowStart, msgVars
<1> QED
  BY <1>1, <1>2, <1>3, <1>4, <1>5 DEF ClientStep

(* A reply begins when the messages are stored and ends when the answer    *)
(* is, and both touch the placeholder; or its handler gives it up.         *)
LEMMA LoopReplies ==
  ASSUME TypeOK, NEW c \in Conns, LoopStep(c)
  PROVE  \/ Replying' = Replying /\ pending' = pending
         \/ /\ c \notin Replying /\ Replying' = Replying \cup {c}
            /\ pending' = pending + 1
         \/ /\ c \in Replying /\ Replying' = Replying \ {c}
            /\ pending' = pending - 1
         \/ /\ c \in Replying /\ Replying' = Replying \ {c}
            /\ pending' = pending /\ GivesUp(c)
<1> DEFINE t == Loop(c)
<1>t. /\ t \in Threads /\ IsLoop(t) /\ ConnOf(t) = c
      /\ pc \in [Threads -> PC]
      /\ \A d \in Conns : Loop(d) \in Threads /\ (d # c => Loop(d) # t)
  BY ThreadFacts DEF TypeOK, Loop
<1>0. ASSUME NEW to, Goto(t, to)
      PROVE  /\ pc'[t] = to
             /\ \A d \in Conns \ {c} : pc'[Loop(d)] = pc[Loop(d)]
  BY <1>0, <1>t DEF Goto
<1> HIDE DEF t
<1>1. CASE StartConversationFlow(c)
  <2>1. \E to \in {"idle", "intro"} : Goto(t, to)
    BY <1>1 DEF StartConversationFlow, t
  <2> QED
    BY <1>1, <1>t, <2>1, OtherMoves DEF StartConversationFlow, msgVars, t, PC
<1>2. CASE PersistUserMessage(c)
  <2>1. /\ pc[t] = "send"
        /\ \/ Goto(t, "agent") /\ pending' = pending + 1
           \/ Goto(t, "unsaved") /\ pending' = pending
           \/ End(t) /\ pending' = pending
    BY <1>2 DEF PersistUserMessage, t
  <2>2. CASE Goto(t, "agent") /\ pending' = pending + 1
    BY <1>0, <1>t, <2>1, <2>2 DEF Replying, t
  <2>3. CASE (Goto(t, "unsaved") \/ End(t)) /\ pending' = pending
    BY <1>t, <2>1, <2>3, OtherMoves, OtherEnds DEF PC
  <2> QED
    BY <2>1, <2>2, <2>3
<1>3. CASE AgentAnswers(c)
  <2>1. Goto(t, "reply") /\ pc[t] = "agent" /\ pending' = pending
    BY <1>3 DEF AgentAnswers, msgVars, t
  <2> QED
    BY <1>0, <1>t, <2>1 DEF Replying, t
<1>4. CASE NoReply(c)
  <2>1. pending' = pending /\ End(t) /\ Goto(t, "idle")
    BY <1>4, <1>t DEF NoReply, msgVars, End, Finished, t
  <2>2. CASE pc[t] = "unsaved"
    BY <1>t, <2>1, <2>2, OtherEnds
  <2>3. CASE pc[t] = "agent" /\ "agent" \in Faults
    BY <1>0, <1>t, <2>1, <2>3 DEF Replying, GivesUp, t
  <2> QED
    BY <1>4, <2>2, <2>3 DEF NoReply, t
<1>5. CASE CompleteMessage(c)
  <2>1. /\ Goto(t, "idle") /\ pc[t] = "reply"
        /\ \/ pending' = pending - 1
           \/ pending' = pending /\ "persist" \in Faults
    BY <1>5, <1>t DEF CompleteMessage, End, Finished, t
  <2> QED
    BY <1>0, <1>t, <2>1 DEF Replying, GivesUp, t
<1>6. CASE RespondInBatch(c)
  <2>1. pending' = pending
    BY <1>6 DEF RespondInBatch, msgVars
  <2>2. UNCHANGED pc \/ End(t)
    BY <1>6 DEF RespondInBatch, t
  <2>3. UNCHANGED pc => Replying' = Replying
    BY DEF Replying
  <2> QED
    BY <1>6, <1>t, <2>1, <2>2, <2>3, OtherEnds DEF RespondInBatch, t
<1>7. CASE RespondLast(c)
  <2>1. pending' = pending
    BY <1>7 DEF RespondLast, msgVars
  <2>2. Goto(t, "record") \/ End(t)
    BY <1>7 DEF RespondLast, t
  <2> QED
    BY <1>7, <1>t, <2>1, <2>2, OtherEnds, OtherMoves DEF RespondLast, t, PC
<1>8. CASE RecordResponse(c)
  BY <1>8, <1>t, OtherMoves DEF RecordResponse, msgVars, t, PC
<1>9. CASE AdvanceTemplate(c) \/ AdvanceToNextItem(c)
  BY <1>9, <1>t, OtherMoves DEF AdvanceTemplate, AdvanceToNextItem, msgVars, t, PC
<1> QED
  BY <1>1, <1>2, <1>3, <1>4, <1>5, <1>6, <1>7, <1>8, <1>9 DEF LoopStep

(* So every step leaves the abandoned placeholders as they are, or gives   *)
(* up one.                                                                 *)
LEMMA StepReplies ==
  ASSUME TypeOK, OffUntilOpen, IsFiniteSet(Replying), Next
  PROVE  /\ IsFiniteSet(Replying')
         /\ \/ Orphans' = Orphans
            \/ Orphans' = Orphans + 1 /\ \E c \in Conns : GivesUp(c)
<1>o. /\ Orphans = pending - Cardinality(Replying)
      /\ Orphans' = pending' - Cardinality(Replying')
  BY DEF Orphans, Replying
<1>t. pending \in Int /\ Cardinality(Replying) \in Nat
  BY FS_CardinalityType DEF TypeOK
<1>1. Replying' = Replying /\ pending' = pending
        => IsFiniteSet(Replying') /\ Orphans' = Orphans
  BY <1>o
<1>2. ASSUME NEW c \in Conns, c \notin Replying, Replying' = Replying \cup {c},
             pending' = pending + 1
      PROVE  IsFiniteSet(Replying') /\ Orphans' = Orphans
  <2>1. /\ IsFiniteSet(Replying')
        /\ Cardinality(Replying') = Cardinality(Replying) + 1
    BY <1>2, FS_AddElement
  <2> QED
    BY <1>2, <1>o, <1>t, <2>1
<1>3. ASSUME NEW c \in Conns, c \in Replying, Replying' = Replying \ {c}
      PROVE  /\ IsFiniteSet(Replying')
             /\ Cardinality(Replying') = Cardinality(Replying) - 1
  BY <1>3, FS_RemoveElement
<1>4. ASSUME NEW c \in Conns, c \in Replying, Replying' = Replying \ {c},
             pending' = pending - 1
      PROVE  IsFiniteSet(Replying') /\ Orphans' = Orphans
  <2>1. /\ IsFiniteSet(Replying')
        /\ Cardinality(Replying') = Cardinality(Replying) - 1
    BY <1>3, <1>4, Zenon
  <2> QED
    BY <1>4, <1>o, <1>t, <2>1
<1>5. ASSUME NEW c \in Conns, c \in Replying, Replying' = Replying \ {c},
             pending' = pending, GivesUp(c)
      PROVE  IsFiniteSet(Replying') /\ Orphans' = Orphans + 1
  <2>1. /\ IsFiniteSet(Replying')
        /\ Cardinality(Replying') = Cardinality(Replying) - 1
    BY <1>3, <1>5, Zenon
  <2> QED
    BY <1>5, <1>o, <1>t, <2>1
<1>6. ASSUME NEW c \in Conns, LoopStep(c)
      PROVE  /\ IsFiniteSet(Replying')
             /\ \/ Orphans' = Orphans
                \/ Orphans' = Orphans + 1 /\ GivesUp(c)
  <2>1. \/ Replying' = Replying /\ pending' = pending
        \/ /\ c \notin Replying /\ Replying' = Replying \cup {c}
           /\ pending' = pending + 1
        \/ /\ c \in Replying /\ Replying' = Replying \ {c}
           /\ pending' = pending - 1
        \/ /\ c \in Replying /\ Replying' = Replying \ {c}
           /\ pending' = pending /\ GivesUp(c)
    BY <1>6, LoopReplies
  <2> QED
    BY <1>1, <1>2, <1>4, <1>5, <2>1, Zenon
<1> QED
  BY <1>1, <1>6, FlowReplies, ClientReplies DEF Next

(* A PENDING placeholder is abandoned only as the agent gives no answer or *)
(* storing the answer fails, by the handler that was working on it, for    *)
(* any number of connections and any failing calls (handle_user_message,   *)
(* SendMessageCommand, CompleteMessageCommand).                            *)
THEOREM RepliesOwned == Spec => RepliesAccounted
<1> DEFINE Accounted ==
      \/ Orphans' = Orphans
      \/ Orphans' = Orphans + 1 /\ \E c \in Conns : GivesUp(c)
<1>0. Init => OffUntilOpen
  BY ThreadFacts DEF Init, OffUntilOpen
<1>1. Init => IsFiniteSet(Replying)
  <2> SUFFICES ASSUME Init PROVE IsFiniteSet(Replying)
    OBVIOUS
  <2>1. Replying = {}
    BY ThreadFacts DEF Init, Replying
  <2> QED
    BY <2>1, FS_EmptySet
<1>2. TypeOK /\ OffUntilOpen /\ IsFiniteSet(Replying) /\ [Next]_vars
        => IsFiniteSet(Replying)' /\ OffUntilOpen' /\ [Accounted]_vars
  <2>1. UNCHANGED vars => Replying' = Replying
    BY DEF vars, Replying
  <2> QED
    BY <2>1, StepOff, StepReplies
<1> HIDE DEF Accounted
<1>3. Spec => [][Accounted]_vars
  BY <1>0, <1>1, <1>2, TypeCorrect, PTL DEF Spec
<1>4. Accounted <=>
        \/ Orphans' = Orphans
        \/ /\ Orphans' = Orphans + 1
           /\ \E c \in Conns :
                /\ \/ pc[Loop(c)] = "agent" /\ "agent" \in Faults
                   \/ pc[Loop(c)] = "reply" /\ "persist" \in Faults
                /\ pc'[Loop(c)] = "idle"
  BY Zenon DEF Accounted, GivesUp
<1> QED
  BY <1>3, <1>4, PTL DEF RepliesAccounted

-----------------------------------------------------------------------------
(* Suspended connections.                                                  *)

\* no response to the current item is due that could move the flow on
Settled(c) ==
  \/ item[c] = NoItem
  \/ ~RequirementsMet(item[c])
  \/ ~Interactive(item[c].idx)
  \/ item[c].idx = N - 1

(* A complete item that is not the last has its receive loop at work on    *)
(* going on to the next one.                                               *)
Sound(c) ==
  attached[c] # "gone" =>
    \/ Settled(c)
    \/ pc[Loop(c)] \in HeldAt
    \/ pc[Loop(c)] = "respond" /\ Matches(c)
    \/ pc[Loop(c)] = "load" /\ arg[Loop(c)] = item[c].idx + 1

\* whatever suspends the context has presented an item
There(c) ==
  /\ state[c] = "suspended" => item[c] # NoItem
  /\ \A t \in Threads :
       ConnOf(t) = c /\ pc[t] = "render" => item[c] # NoItem

\* what an idle loop may leave on screen in SUSPENDED
Shown(c) ==
  /\ item[c] # NoItem
  /\ ~RequirementsMet(item[c])
     \/ ("render" \in Faults /\ ~Interactive(item[c].idx))

(* Of a connection without background tasks: where its receive loop may    *)
(* end a handler with the context suspended, the current item is shown.    *)
Suspends(c) ==
  /\ state[c] = "suspended" /\ attached[c] = "open" =>
       /\ pc[Loop(c)] = "idle" => Shown(c)
       /\ pc[Loop(c)] = "respond" /\ ~Matches(c) => Shown(c)
  /\ pc[Loop(c)] = "render" =>
       arg[Loop(c)] \in Items /\ item[c] = NewItem(arg[Loop(c)])
  /\ pc[Loop(c)] = "close" => state[c] = "completed"

\* a step that leaves the current item and the receive loop alone
SameItem(c) ==
  /\ item'[c] = item[c] /\ attached'[c] = attached[c]
  /\ pc'[Loop(c)] = pc[Loop(c)] /\ arg'[Loop(c)] = arg[Loop(c)]
  /\ batch'[c] = batch[c]

\* What a step of one connection can change of another: nothing.
Same(c) == state'[c] = state[c] /\ SameItem(c)

LEMMA SameSuspends ==
  ASSUME NEW c \in Conns, Same(c)
  PROVE  Suspends(c) => Suspends(c)'
BY DEF Suspends, Same, SameItem, Shown, Matches, RequirementsMet, Interactive

LEMMA SameSound ==
  ASSUME NEW c \in Conns, SameItem(c)
  PROVE  Sound(c) => Sound(c)'
BY DEF Sound, SameItem, Settled, Matches, RequirementsMet, Interactive

\* An item that is just presented is incomplete, or informational.
LEMMA FreshItem ==
  ASSUME NEW i \in Items, NEW s, s = NewItem(i)
  PROVE  /\ s # NoItem /\ s.idx = i
         /\ Interactive(i) => ~RequirementsMet(s)
BY ItemFacts DEF NewItem, Interactive, RequirementsMet

\* A loop that ends a handler is idle, and a loop that goes on is where it goes.
LEMMA MovesOn ==
  ASSUME TypeOK, NEW c \in Conns
  PROVE  /\ End(Loop(c)) => pc'[Loop(c)] = "idle"
         /\ \A to : Goto(Loop(c), to) => pc'[Loop(c)] = to
BY ThreadFacts DEF TypeOK, End, Goto, Finished

\* Another thread that goes on, or ends, leaves a receive loop alone.
LEMMA BesideLoop ==
  ASSUME TypeOK, NEW t \in Threads, NEW d \in Conns, t # Loop(d)
  PROVE  /\ \A to : Goto(t, to) => pc'[Loop(d)] = pc[Loop(d)]
         /\ End(t) => /\ pc'[Loop(d)] = pc[Loop(d)]
                      /\ arg'[Loop(d)] = arg[Loop(d)]
                      /\ batch'[d] = batch[d]
<1>1. Loop(d) \in Threads /\ (IsLoop(t) => ConnOf(t) # d)
  BY ThreadFacts
<1>2. \A to : Goto(t, to) => pc'[Loop(d)] = pc[Loop(d)]
  BY <1>1 DEF TypeOK, Goto
<1>3. End(t) => /\ arg'[Loop(d)] = arg[Loop(d)]
                /\ batch'[d] = batch[d]
  BY <1>1 DEF TypeOK, End
<1> QED
  BY <1>2, <1>3 DEF End

(* A step of a flow that is not run by the receive loop changes nothing    *)
(* but the state, or presents an item.                                     *)
LEMMA FlowBeside ==
  ASSUME TypeOK, NEW t \in Threads, FlowStep(t), NEW d \in Conns, t # Loop(d)
  PROVE  SameItem(d) \/ PresentItem(t)
<1> USE BesideLoop DEF SameItem
<1>1. CASE RunProactiveFlow(t)
  <2>1. arg'[Loop(d)] = arg[Loop(d)]
    BY <1>1, ThreadFacts DEF RunProactiveFlow, TypeOK
  <2> QED
    BY <1>1, <2>1 DEF RunProactiveFlow, ctxVars, connVars
<1>2. CASE LoadFails(t)
  BY <1>2 DEF LoadFails, connVars
<1>3. CASE FinishRender(t)
  BY <1>3 DEF FinishRender, connVars
<1>4. CASE RenderFails(t)
  BY <1>4 DEF RenderFails, connVars
<1>5. CASE CompleteFlow(t)
  <2>1. /\ End(t) \/ (Goto(t, "close") /\ UNCHANGED workVars)
        /\ UNCHANGED <<item, connVars>>
    BY <1>5 DEF CompleteFlow
  <2> QED
    BY <2>1 DEF connVars, workVars
<1>6. CASE PersistCompletion(t)
  BY <1>6 DEF PersistCompletion, ctxVars, connVars
<1> QED
  BY <1>1, <1>2, <1>3, <1>4, <1>5, <1>6 DEF FlowStep

\* A step of the template flow leaves the other connections alone.
LEMMA FlowSame ==
  ASSUME TypeOK, NEW t \in Threads, FlowStep(t), NEW d \in Conns,
         d # ConnOf(t)
  PROVE  Same(d)
<1>1. t # Loop(d) /\ Loop(d) \in Threads
  BY ThreadFacts
<1>2. state'[d] = state[d]
  <2>1. \/ UNCHANGED state
        \/ \E s : SetState(ConnOf(t), s)
    BY DEF FlowStep, RunProactiveFlow, LoadFails, PresentItem, FinishRender,
       RenderFails, CompleteFlow, PersistCompletion, ctxVars
  <2> QED
    BY <2>1 DEF SetState, TypeOK
<1>3. PresentItem(t) => SameItem(d)
  BY <1>1, BesideLoop DEF PresentItem, SameItem, connVars, workVars, TypeOK
<1> QED
  BY <1>1, <1>2, <1>3, FlowBeside DEF Same

(* An item is rendered as it was presented, and an interactive item starts *)
(* incomplete: that is what the context is suspended for.                  *)
LEMMA FlowSuspends ==
  ASSUME TypeOK, "load" \notin Faults, NEW c \in Conns, FlowStep(Loop(c)),
         Suspends(c)
  PROVE  Suspends(c)'
<1> DEFINE t == Loop(c)
<1>1. t \in Threads /\ ConnOf(t) = c
  BY ThreadFacts
<1>2. state \in [Conns -> OrchestratorState] /\ arg[t] \in 0 .. N
      /\ item \in [Conns -> ItemState \cup {NoItem}]
  BY <1>1 DEF TypeOK
<1> HIDE DEF t
<1>3. CASE RunProactiveFlow(t)
  <2>1. pc'[Loop(c)] = "load"
    BY <1>3, MovesOn DEF RunProactiveFlow, t
  <2> QED
    BY <2>1 DEF Suspends
<1>4. ~LoadFails(t)
  BY DEF LoadFails
<1>5. CASE PresentItem(t)
  <2>1. pc'[Loop(c)] = "render" /\ arg' = arg
    BY <1>5, MovesOn DEF PresentItem, workVars, t
  <2>2. item'[c] = NewItem(arg[t]) /\ arg[t] \in Items
    BY <1>1, <1>2, <1>5 DEF PresentItem, Items
  <2> QED
    BY <2>1, <2>2 DEF Suspends, t
<1>6. CASE FinishRender(t) \/ RenderFails(t)
  <2>1. pc'[Loop(c)] = "idle" /\ item' = item
    BY <1>6, MovesOn DEF FinishRender, RenderFails, t
  <2>2. arg[t] \in Items /\ item[c] = NewItem(arg[t])
    BY <1>6 DEF FinishRender, RenderFails, Suspends, t
  <2>3. /\ item[c] # NoItem /\ item[c].idx = arg[t]
        /\ Interactive(arg[t]) => ~RequirementsMet(item[c])
    BY <2>2, FreshItem
  <2>4. CASE FinishRender(t)
    <3>1. state'[c] = StateAfterRender(t)
      BY <1>1, <1>2, <2>4 DEF FinishRender, SetState
    <3>2. state'[c] = "suspended" => Interactive(arg[t])
      BY <1>1, <2>3, <3>1 DEF StateAfterRender, Interactive
    <3>3. state'[c] = "suspended" => Shown(c)
      BY <2>3, <3>2 DEF Shown
    <3>4. Shown(c)' <=> Shown(c)
      BY <2>1 DEF Shown, RequirementsMet, Interactive
    <3> QED
      BY <2>1, <3>3, <3>4 DEF Suspends
  <2>5. CASE RenderFails(t)
    <3>1. Shown(c)
      BY <2>3, <2>5 DEF RenderFails, Shown
    <3>2. Shown(c)'
      BY <2>1, <3>1 DEF Shown, RequirementsMet, Interactive
    <3> QED
      BY <2>1, <3>2 DEF Suspends
  <2> QED
    BY <1>6, <2>4, <2>5
<1>7. CASE CompleteFlow(t)
  <2>1. CASE ContinueAfter
    <3>1. pc'[Loop(c)] = "idle" /\ state'[c] = "ready"
      BY <1>1, <1>2, <1>7, <2>1, MovesOn DEF CompleteFlow, SetState, t
    <3> QED
      BY <3>1 DEF Suspends
  <2>2. CASE ~ContinueAfter
    <3>1. pc'[Loop(c)] = "close" /\ state'[c] = "completed"
      BY <1>1, <1>2, <1>7, <2>2, MovesOn DEF CompleteFlow, SetState, t
    <3> QED
      BY <3>1 DEF Suspends
  <2> QED
    BY <2>1, <2>2
<1>8. CASE PersistCompletion(t)
  <2>1. pc'[Loop(c)] = "idle" /\ state' = state /\ state[c] = "completed"
    BY <1>8, MovesOn DEF PersistCompletion, ctxVars, Suspends, t
  <2> QED
    BY <2>1 DEF Suspends
<1> QED
  BY <1>3, <1>4, <1>5, <1>6, <1>7, <1>8 DEF FlowStep, t

\* A step of a receive loop leaves the other connections alone.
LEMMA LoopSame ==
  ASSUME TypeOK, NEW c \in Conns, LoopStep(c), NEW d \in Conns, d # c
  PROVE  Same(d)
<1> DEFINE t == Loop(c)
<1>1. t \in Threads /\ IsLoop(t) /\ ConnOf(t) = c /\ Loop(d) \in Threads /\ Loop(d) # t
  BY ThreadFacts DEF Loop
<1> HIDE DEF t
<1> USE DEF TypeOK, Same, SameItem
<1>2. ASSUME NEW to, Goto(t, to)
      PROVE  pc'[Loop(d)] = pc[Loop(d)]
  BY <1>1, <1>2 DEF Goto
<1>3. End(t) => /\ pc'[Loop(d)] = pc[Loop(d)] /\ arg'[Loop(d)] = arg[Loop(d)]
                /\ batch'[d] = batch[d]
  BY <1>1, <1>2 DEF End
<1>4. CASE StartConversationFlow(c)
  <2>1. state'[d] = state[d] /\ \E to : Goto(t, to)
    BY <1>4 DEF StartConversationFlow, SetState, t
  <2> QED
    BY <1>1, <1>2, <1>4, <2>1 DEF StartConversationFlow, connVars, workVars
<1>5. CASE PersistUserMessage(c)
  <2>1. state'[d] = state[d]
    BY <1>5 DEF PersistUserMessage, SetState
  <2>2. \/ End(t)
        \/ UNCHANGED workVars /\ \E to : Goto(t, to)
    BY <1>5 DEF PersistUserMessage, t
  <2> QED
    BY <1>1, <1>2, <1>3, <1>5, <2>1, <2>2 DEF PersistUserMessage, connVars, workVars
<1>6. CASE AgentAnswers(c)
  BY <1>1, <1>2, <1>6 DEF AgentAnswers, ctxVars, connVars, workVars, t
<1>7. CASE NoReply(c)
  BY <1>1, <1>3, <1>7 DEF NoReply, SetState, connVars, t
<1>8. CASE CompleteMessage(c)
  <2>1. state'[d] = state[d]
    BY <1>8 DEF CompleteMessage, SetState
  <2> QED
    BY <1>1, <1>3, <1>8, <2>1 DEF CompleteMessage, connVars, t
<1>9. CASE RespondInBatch(c)
  <2>1. state'[d] = state[d] /\ item'[d] = item[d]
    BY <1>9 DEF RespondInBatch, SetState
  <2>2. \/ End(t)
        \/ UNCHANGED <<pc, arg>> /\ batch'[d] = batch[d]
    BY <1>9 DEF RespondInBatch, t
  <2> QED
    BY <1>1, <1>3, <1>9, <2>1, <2>2 DEF RespondInBatch, connVars
<1>10. CASE RespondLast(c)
  <2>1. state'[d] = state[d] /\ item'[d] = item[d]
    BY <1>10 DEF RespondLast, SetState
  <2>2. \/ End(t)
        \/ Goto(t, "record") /\ UNCHANGED arg /\ batch'[d] = batch[d]
    BY <1>10 DEF RespondLast, t
  <2> QED
    BY <1>1, <1>2, <1>3, <1>10, <2>1, <2>2 DEF RespondLast, connVars
<1>11. CASE RecordResponse(c)
  BY <1>1, <1>2, <1>11 DEF RecordResponse, ctxVars, connVars, workVars, t
<1>12. CASE AdvanceTemplate(c)
  BY <1>1, <1>2, <1>12 DEF AdvanceTemplate, ctxVars, connVars, workVars, t
<1>13. CASE AdvanceToNextItem(c)
  BY <1>1, <1>2, <1>13 DEF AdvanceToNextItem, ctxVars, connVars, t
<1> QED
  BY <1>4, <1>5, <1>6, <1>7, <1>8, <1>9, <1>10, <1>11, <1>12, <1>13 DEF LoopStep

(* A submission that completes the current item goes on to the next one; a *)
(* submission for another item, or one that completes nothing, leaves the  *)
(* item incomplete.                                                        *)
LEMMA LoopSuspends ==
  ASSUME IInv, NEW c \in Conns, LoopStep(c), Suspends(c)
  PROVE  Suspends(c)'
<1>0. TypeOK
  BY DEF IInv
<1>1. /\ state \in [Conns -> OrchestratorState]
      /\ item \in [Conns -> ItemState \cup {NoItem}]
      /\ batch \in [Conns -> Submission \cup {NoSubmission}]
      /\ batch[c] \in Submission
  BY <1>0, NoSubmissionTyped DEF TypeOK
<1>2. /\ End(Loop(c)) => pc'[Loop(c)] = "idle"
      /\ \A to : Goto(Loop(c), to) => pc'[Loop(c)] = to
  BY <1>0, MovesOn
<1>3. CASE StartConversationFlow(c)
  <2>1. /\ pc'[Loop(c)] \in {"idle", "intro"} /\ attached' = attached
        /\ attached[c] = "open" => state'[c] # "suspended"
    BY <1>1, <1>2, <1>3 DEF StartConversationFlow, SetState, connVars
  <2> QED
    BY <2>1 DEF Suspends
<1>4. CASE PersistUserMessage(c)
  <2>1. \/ pc'[Loop(c)] \in {"agent", "unsaved"}
        \/ pc'[Loop(c)] = "idle" /\ state'[c] = "error"
    BY <1>1, <1>2, <1>4 DEF PersistUserMessage, SetState
  <2> QED
    BY <2>1 DEF Suspends
<1>5. CASE AgentAnswers(c)
  BY <1>2, <1>5 DEF AgentAnswers, Suspends
<1>6. CASE NoReply(c)
  <2>1. pc'[Loop(c)] = "idle" /\ state'[c] = "ready"
    BY <1>1, <1>2, <1>6 DEF NoReply, SetState
  <2> QED
    BY <2>1 DEF Suspends
<1>7. CASE CompleteMessage(c)
  <2>1. pc'[Loop(c)] = "idle" /\ state'[c] \in {"ready", "error"}
    BY <1>1, <1>2, <1>7 DEF CompleteMessage, SetState
  <2> QED
    BY <2>1 DEF Suspends
<1>8. CASE RespondInBatch(c)
  <2>1. /\ pc[Loop(c)] = "respond" /\ attached' = attached
        /\ attached[c] = "open" => pc' = pc
        /\ state'[c] = state[c] \/ state'[c] = "ready"
    BY <1>1, <1>8 DEF RespondInBatch, SetState, connVars
  <2>2. attached[c] # "open" => pc'[Loop(c)] = "idle"
    BY <1>2, <1>8 DEF RespondInBatch
  <2>3. ASSUME attached[c] = "open"
        PROVE  batch'[c].item = batch[c].item
    <3>1. PICK w \in batch[c].todo : batch' = [batch EXCEPT ![c].todo = @ \ {w}]
      BY <1>8, <2>3 DEF RespondInBatch
    <3> QED
      BY <1>1, <3>1 DEF Submission
  <2>4. CASE Matches(c)
    <3>1. PICK w \in batch[c].todo : item' = [item EXCEPT ![c] = Answer(@, w)]
      BY <1>8, <2>4 DEF RespondInBatch
    <3>2. w \in Widgets /\ item[c].idx \in Items
      BY <1>1, <2>4, <3>1 DEF Submission, Matches
    <3>3. item'[c].idx = item[c].idx
      BY <1>1, <3>1, <3>2, ItemFacts
    <3>4. attached[c] = "open" => Matches(c)'
      BY <2>3, <2>4, <3>3 DEF Matches
    <3> QED
      BY <2>1, <2>2, <3>4 DEF Suspends
  <2>5. CASE ~Matches(c)
    <3>1. item' = item
      BY <1>8, <2>5 DEF RespondInBatch
    <3>2. Shown(c)' <=> Shown(c)
      BY <3>1 DEF Shown, RequirementsMet, Interactive
    <3> QED
      BY <2>1, <2>2, <2>5, <3>2 DEF Suspends
  <2> QED
    BY <2>4, <2>5
<1>9. CASE RespondLast(c)
  <2>1. pc[Loop(c)] = "respond" /\ attached' = attached
    BY <1>9 DEF RespondLast, connVars
  <2>2. CASE Matches(c)
    <3> DEFINE answered == Answer(item[c], batch[c].last)
    <3>1. batch[c].last \in Widgets \cup {"confirm"} /\ item[c].idx \in Items
      BY <1>1, <2>2 DEF Submission, Matches
    <3>2. answered \in ItemState
      BY <1>1, <3>1, ItemFacts
    <3>3. item'[c] = answered
      BY <1>1, <1>9, <2>2 DEF RespondLast
    <3>4. CASE IsComplete(answered)
      <4>1. pc'[Loop(c)] = "record"
        BY <1>2, <1>9, <2>2, <3>4 DEF RespondLast
      <4> QED
        BY <4>1 DEF Suspends
    <3>5. CASE ~IsComplete(answered)
      <4>1. pc'[Loop(c)] = "idle"
        BY <1>2, <1>9, <2>2, <3>5 DEF RespondLast
      <4>2. Shown(c)'
        BY <3>2, <3>3, <3>5, ItemFacts DEF Shown, IsComplete, RequirementsMet
      <4> QED
        BY <4>1, <4>2 DEF Suspends
    <3> QED
      BY <3>4, <3>5
  <2>3. CASE ~Matches(c)
    <3>1. item' = item /\ pc'[Loop(c)] = "idle"
      BY <1>2, <1>9, <2>3 DEF RespondLast
    <3>2. state'[c] = state[c] \/ state'[c] = "ready"
      BY <1>1, <1>9, <2>3 DEF RespondLast, SetState
    <3>3. Shown(c)' <=> Shown(c)
      BY <3>1 DEF Shown, RequirementsMet, Interactive
    <3> QED
      BY <2>1, <2>3, <3>1, <3>2, <3>3 DEF Suspends
  <2> QED
    BY <2>2, <2>3
<1>10. CASE RecordResponse(c)
  <2>1. pc'[Loop(c)] \in {"advance", "next"}
    BY <1>2, <1>10 DEF RecordResponse
  <2> QED
    BY <2>1 DEF Suspends
<1>11. CASE AdvanceTemplate(c)
  BY <1>2, <1>11 DEF AdvanceTemplate, Suspends
<1>12. CASE AdvanceToNextItem(c)
  BY <1>2, <1>12 DEF AdvanceToNextItem, Suspends
<1> QED
  BY <1>3, <1>4, <1>5, <1>6, <1>7, <1>8, <1>9, <1>10, <1>11, <1>12 DEF LoopStep

(* A client's message is handled by an idle loop, and does not touch the   *)
(* item.                                                                   *)
LEMMA ClientSuspends ==
  ASSUME TypeOK, OffUntilOpen, NEW c \in Conns, ClientStep(c),
         NEW d \in Conns
  PROVE  /\ Suspends(d) => Suspends(d)'
         /\ Sound(d) => Sound(d)'
<1>t. /\ state \in [Conns -> OrchestratorState] /\ pc \in [Threads -> PC]
      /\ attached \in [Conns -> {"new", "open", "gone"}]
      /\ batch \in [Conns -> Submission \cup {NoSubmission}]
      /\ Loop(c) \in Threads /\ Loop(d) \in Threads
      /\ c # d => Loop(c) # Loop(d)
  BY ThreadFacts DEF TypeOK, Loop
<1>g. ASSUME NEW to, Goto(Loop(c), to)
      PROVE  pc'[Loop(c)] = to /\ (c # d => pc'[Loop(d)] = pc[Loop(d)])
  BY <1>t, <1>g DEF Goto
<1>a. item' = item => (Shown(d)' <=> Shown(d)) /\ (Settled(d)' <=> Settled(d))
  BY DEF Shown, Settled, RequirementsMet, Interactive
<1>s. Same(d) => /\ Suspends(d) => Suspends(d)'
                 /\ Sound(d) => Sound(d)'
  BY SameSuspends, SameSound DEF Same
<1>1. CASE Connect(c)
  <2>1. /\ attached' = [attached EXCEPT ![c] = "open"] /\ Goto(Loop(c), "start")
        /\ UNCHANGED <<state, item, arg, batch>>
    BY <1>1 DEF Connect, ctxVars, workVars
  <2>2. CASE c = d
    <3>1. attached[c] = "new" /\ pc[Loop(c)] = "off"
      BY <1>1 DEF Connect, OffUntilOpen
    <3>2. Sound(d) => Sound(d)'
      BY <1>a, <1>g, <2>1, <2>2, <3>1 DEF Sound, HeldAt
    <3>3. Suspends(d)'
      BY <1>g, <2>1, <2>2 DEF Suspends
    <3> QED
      BY <3>2, <3>3
  <2>3. CASE c # d
    BY <1>g, <1>s, <1>t, <2>1, <2>3 DEF Same, SameItem
  <2> QED
    BY <2>2, <2>3
<1>2. CASE Disconnect(c)
  <2>1. /\ attached'[d] = "open" => attached[d] = "open"
        /\ attached'[d] # "gone" => attached[d] # "gone"
        /\ UNCHANGED <<state, item, pc, arg, batch>>
    BY <1>2, <1>t DEF Disconnect, ctxVars, workVars
  <2> QED
    BY <1>a, <2>1 DEF Suspends, Sound, Matches
<1>3. CASE UserMessage(c)
  <2>1. /\ pc[Loop(c)] = "idle" /\ Goto(Loop(c), "send")
        /\ state' = [state EXCEPT ![c] = "processing"]
        /\ UNCHANGED <<item, attached, arg, batch>>
    BY <1>3 DEF UserMessage, Receives, SetState, connVars, workVars
  <2>2. CASE c = d
    BY <1>a, <1>g, <2>1, <2>2 DEF Suspends, Sound, HeldAt
  <2>3. CASE c # d
    BY <1>g, <1>s, <1>t, <2>1, <2>3 DEF Same, SameItem
  <2> QED
    BY <2>2, <2>3
<1>4. CASE SubmitResponse(c)
  <2>1. /\ attached[c] = "open" /\ pc[Loop(c)] = "idle" /\ Goto(Loop(c), "respond")
        /\ UNCHANGED <<state, item, attached, arg>>
        /\ c # d => batch'[d] = batch[d]
    BY <1>4, <1>t DEF SubmitResponse, Receives, ctxVars, connVars
  <2>2. CASE c = d
    BY <1>a, <1>g, <2>1, <2>2 DEF Suspends, Sound, HeldAt
  <2>3. CASE c # d
    BY <1>g, <1>s, <1>t, <2>1, <2>3 DEF Same, SameItem
  <2> QED
    BY <2>2, <2>3
<1>5. CASE FlowStart(c)
  <2>1. PICK k \in 1 .. MaxRestarts : Goto(<<c, k>>, "intro")
    BY <1>5 DEF FlowStart
  <2>2. pc'[Loop(d)] = pc[Loop(d)]
    BY <2>1, ThreadFacts, BesideLoop DEF Loop
  <2>3. /\ state'[d] = state[d] \/ state'[d] = "presenting"
        /\ state[c] = "ready" /\ pc[Loop(c)] = "idle"
        /\ c # d => state'[d] = state[d]
    BY <1>5, <1>t DEF FlowStart, SetState, Receives, CanStart
  <2>4. SameItem(d)
    BY <1>5, <2>2 DEF FlowStart, SameItem, connVars, workVars
  <2>5. CASE c = d
    <3>1. Sound(d) => Sound(d)'
      BY <2>4, SameSound
    <3>2. Suspends(d)'
      BY <2>2, <2>3, <2>5, <1>5, <1>t DEF FlowStart, SetState, Suspends
    <3> QED
      BY <3>1, <3>2
  <2>6. CASE c # d
    BY <1>s, <2>3, <2>4, <2>6 DEF Same
  <2> QED
    BY <2>5, <2>6
<1>6. CASE FlowPause(c) \/ FlowCancel(c)
  <2>1. /\ state'[d] = state[d] \/ state'[d] \in {"paused", "ready"}
        /\ state'[d] = state[d] \/ pc[Loop(d)] = "idle"
        /\ UNCHANGED <<item, attached, pc, arg, batch>>
    BY <1>6, <1>t DEF FlowPause, FlowCancel, SetState, Receives, connVars, workVars
  <2> QED
    BY <1>a, <2>1 DEF Suspends, Sound, Matches
<1> QED
  BY <1>1, <1>2, <1>3, <1>4, <1>5, <1>6 DEF ClientStep

(* A flow that presents an item settles it; a receive loop that loads the  *)
(* item after the last one has completed that.                             *)
LEMMA FlowSound ==
  ASSUME TypeOK, "load" \notin Faults, NEW t \in Threads, FlowStep(t),
         Sound(ConnOf(t))
  PROVE  Sound(ConnOf(t))'
<1> DEFINE c == ConnOf(t)
<1>1. c \in Conns /\ Loop(c) \in Threads
  BY ThreadFacts
<1>2. arg[t] \in 0 .. N /\ item \in [Conns -> ItemState \cup {NoItem}]
  BY DEF TypeOK
<1> HIDE DEF c
<1>3. CASE PresentItem(t)
  <2>1. arg[t] \in Items /\ item'[c] = NewItem(arg[t])
    BY <1>1, <1>2, <1>3 DEF PresentItem, Items, c
  <2>2. Interactive(item'[c].idx) => ~RequirementsMet(item'[c])
    BY <2>1, FreshItem
  <2>3. Settled(c)'
    BY <2>2 DEF Settled, RequirementsMet, Interactive
  <2> QED
    BY <2>3 DEF Sound, c
<1>4. CASE t # Loop(c) /\ ~PresentItem(t)
  BY <1>1, <1>4, FlowBeside, SameSound DEF c
<1>5. CASE t = Loop(c) /\ ~PresentItem(t)
  <2>1. /\ pc[t] \in {"intro", "render", "close"}
           \/ (pc[t] = "load" /\ arg[t] >= N)
        /\ item' = item /\ attached' = attached
    BY <1>5 DEF FlowStep, RunProactiveFlow, LoadFails, FinishRender,
       RenderFails, CompleteFlow, PersistCompletion, ctxVars, connVars
  <2>2. attached[c] # "gone" => Settled(c)
    <3>1. CASE pc[t] \in {"intro", "render", "close"}
      BY <1>5, <3>1 DEF Sound, HeldAt, c
    <3>2. CASE pc[t] = "load" /\ arg[t] >= N /\ arg[t] = item[c].idx + 1
      <4>1. item[c] \in ItemState \/ item[c] = NoItem
        BY <1>1, <1>2
      <4>2. item[c] = NoItem \/ item[c].idx = N - 1
        BY <1>2, <3>2, <4>1 DEF ItemState, Items
      <4> QED
        BY <4>2 DEF Settled
    <3> QED
      BY <1>5, <2>1, <3>1, <3>2 DEF Sound, HeldAt, c
  <2>3. Settled(c)' <=> Settled(c)
    BY <2>1 DEF Settled, RequirementsMet, Interactive
  <2> QED
    BY <2>1, <2>2, <2>3 DEF Sound, c
<1> QED
  BY <1>3, <1>4, <1>5

(* A receive loop that finds the current item complete goes on to persist  *)
(* it, and from there to the next one.                                     *)
LEMMA LoopSound ==
  ASSUME IInv, OffUntilOpen, NEW c \in Conns, LoopStep(c), Sound(c)
  PROVE  Sound(c)'
<1>0. TypeOK
  BY DEF IInv
<1>1. /\ item \in [Conns -> ItemState \cup {NoItem}]
      /\ batch \in [Conns -> Submission \cup {NoSubmission}]
      /\ batch[c] \in Submission
      /\ attached \in [Conns -> {"new", "open", "gone"}]
  BY <1>0, NoSubmissionTyped DEF TypeOK
<1>2. /\ End(Loop(c)) => pc'[Loop(c)] = "idle"
      /\ \A to : Goto(Loop(c), to) => pc'[Loop(c)] = to
  BY <1>0, MovesOn
<1>3. item' = item => (Settled(c)' <=> Settled(c))
  BY DEF Settled, RequirementsMet, Interactive
<1>4. CASE \/ StartConversationFlow(c) \/ PersistUserMessage(c)
           \/ AgentAnswers(c) \/ NoReply(c) \/ CompleteMessage(c)
  <2>1. /\ pc[Loop(c)] \in {"start", "send", "agent", "unsaved", "reply"}
        /\ item' = item /\ attached' = attached
    BY <1>4 DEF StartConversationFlow, PersistUserMessage, AgentAnswers,
       NoReply, CompleteMessage, ctxVars, connVars
  <2> QED
    BY <1>3, <2>1 DEF Sound, HeldAt
<1>5. CASE RespondInBatch(c)
  <2>1. pc[Loop(c)] = "respond" /\ attached' = attached
    BY <1>5 DEF RespondInBatch, connVars
  <2>2. CASE attached[c] # "open"
    <3>1. attached[c] = "gone"
      BY <1>1, <2>1, <2>2 DEF OffUntilOpen
    <3> QED
      BY <2>1, <3>1 DEF Sound
  <2>3. CASE attached[c] = "open"
    <3>1. PICK w \in batch[c].todo :
            /\ IF Matches(c) THEN item' = [item EXCEPT ![c] = Answer(@, w)]
                             ELSE item' = item
            /\ batch' = [batch EXCEPT ![c].todo = @ \ {w}]
            /\ pc' = pc
      BY <1>5, <2>3 DEF RespondInBatch
    <3>2. batch'[c].item = batch[c].item
      BY <1>1, <3>1 DEF Submission
    <3>3. CASE Matches(c)
      <4>1. w \in Widgets /\ item[c].idx \in Items
        BY <1>1, <3>1, <3>3 DEF Submission, Matches
      <4>2. item'[c].idx = item[c].idx
        BY <1>1, <3>1, <3>3, <4>1, ItemFacts
      <4> QED
        BY <2>1, <3>1, <3>2, <3>3, <4>2 DEF Sound, Matches
    <3>4. CASE ~Matches(c)
      BY <1>3, <2>1, <3>1, <3>4 DEF Sound, HeldAt
    <3> QED
      BY <3>3, <3>4
  <2> QED
    BY <2>2, <2>3
<1>6. CASE RespondLast(c)
  <2>1. pc[Loop(c)] = "respond" /\ attached' = attached
    BY <1>6 DEF RespondLast, connVars
  <2>2. CASE Matches(c)
    <3> DEFINE answered == Answer(item[c], batch[c].last)
    <3>1. item'[c] = answered
      BY <1>1, <1>6, <2>2 DEF RespondLast
    <3>2. CASE IsComplete(answered)
      <4>1. pc'[Loop(c)] = "record"
        BY <1>2, <1>6, <2>2, <3>2 DEF RespondLast
      <4> QED
        BY <4>1 DEF Sound, HeldAt
    <3>3. CASE ~IsComplete(answered)
      BY <3>1, <3>3 DEF Sound, Settled, IsComplete, RequirementsMet
    <3> QED
      BY <3>2, <3>3
  <2>3. CASE ~Matches(c)
    <3>1. item' = item
      BY <1>6, <2>3 DEF RespondLast
    <3> QED
      BY <1>3, <2>1, <2>3, <3>1 DEF Sound, HeldAt
  <2> QED
    BY <2>2, <2>3
<1>7. CASE RecordResponse(c) \/ AdvanceTemplate(c)
  <2>1. pc'[Loop(c)] \in HeldAt
    BY <1>2, <1>7 DEF RecordResponse, AdvanceTemplate, HeldAt
  <2> QED
    BY <2>1 DEF Sound
<1>8. CASE AdvanceToNextItem(c)
  <2>1. /\ pc'[Loop(c)] = "load" /\ item' = item
        /\ arg'[Loop(c)] = index[c] + 1
    BY <1>0, <1>2, <1>8, ThreadFacts
       DEF AdvanceToNextItem, NextIndex, ctxVars, TypeOK
  <2>2. item[c] = NoItem \/ index[c] = item[c].idx
    BY DEF IInv, ContextInOrder
  <2>3. CASE item[c] = NoItem
    BY <2>1, <2>3 DEF Sound, Settled
  <2>4. CASE index[c] = item[c].idx
    BY <2>1, <2>4 DEF Sound
  <2> QED
    BY <2>2, <2>3, <2>4
<1> QED
  BY <1>4, <1>5, <1>6, <1>7, <1>8 DEF LoopStep

\* Once an item is presented there is a current item.
LEMMA ItemStays ==
  ASSUME TypeOK, [Next]_vars, NEW c \in Conns, item[c] # NoItem
  PROVE  item'[c] # NoItem
<1>1. CASE UNCHANGED item
  BY <1>1
<1>2. ASSUME NEW t \in Threads, PresentItem(t)
      PROVE  item'[c] # NoItem
  <2>1. arg[t] \in Items
    BY <1>2 DEF PresentItem, TypeOK, Items
  <2>2. NewItem(arg[t]) # NoItem
    BY <2>1, ItemFacts
  <2> QED
    BY <1>2, <2>2 DEF PresentItem, TypeOK
<1>3. ASSUME NEW d \in Conns, RespondInBatch(d) \/ RespondLast(d)
      PROVE  item'[c] # NoItem
  <2>1. batch[d] \in Submission /\ item \in [Conns -> ItemState \cup {NoItem}]
    BY NoSubmissionTyped DEF TypeOK
  <2>2. \A w \in Widgets \cup {"confirm"} :
          Matches(d) => Answer(item[d], w) # NoItem
    <3>1. Matches(d) => item[d].idx \in Items
      BY <2>1 DEF Matches, Submission
    <3> QED
      BY <2>1, <3>1, ItemFacts
  <2>3. UNCHANGED item \/ \E w \in Widgets \cup {"confirm"} :
          Matches(d) /\ item' = [item EXCEPT ![d] = Answer(item[d], w)]
    BY <1>3, <2>1 DEF RespondInBatch, RespondLast, Submission
  <2> QED
    BY <2>1, <2>2, <2>3
<1> QED
  BY <1>1, <1>2, <1>3, WhoChangesWhat

\* A context gets SUSPENDED only at the end of rendering.
LEMMA WhoSuspends ==
  ASSUME TypeOK, [Next]_vars, NEW c \in Conns, state'[c] = "suspended"
  PROVE  \/ state[c] = "suspended"
         \/ \E t \in Threads : ConnOf(t) = c /\ pc[t] = "render"
<1>s. ASSUME NEW d, NEW s, s # "suspended" \/ d # c, SetState(d, s)
      PROVE  state[c] = "suspended"
  BY <1>s DEF SetState, TypeOK
<1>1. ASSUME NEW t \in Threads, FlowStep(t)
      PROVE  \/ state[c] = "suspended"
             \/ \E u \in Threads : ConnOf(u) = c /\ pc[u] = "render"
  <2>1. \/ UNCHANGED state
        \/ \E s \in {"error", "ready", "completed"} : SetState(ConnOf(t), s)
        \/ pc[t] = "render" /\ \E s : SetState(ConnOf(t), s)
    BY <1>1 DEF FlowStep, RunProactiveFlow, LoadFails, PresentItem,
       FinishRender, RenderFails, CompleteFlow, PersistCompletion, ctxVars
  <2> QED
    BY <1>s, <2>1
<1>2. ASSUME NEW d \in Conns, LoopStep(d)
      PROVE  state[c] = "suspended"
  <2>1. \/ UNCHANGED state
        \/ \E s \in {"error", "ready", "completed", "presenting"} :
             SetState(d, s)
    BY <1>2 DEF LoopStep, StartConversationFlow, PersistUserMessage,
       AgentAnswers, NoReply, CompleteMessage, RespondInBatch, RespondLast,
       RecordResponse, AdvanceTemplate, AdvanceToNextItem, ctxVars
  <2> QED
    BY <1>s, <2>1
<1>3. ASSUME NEW d \in Conns, ClientStep(d)
      PROVE  state[c] = "suspended"
  <2>1. \/ UNCHANGED state
        \/ \E s \in {"processing", "ready", "presenting", "paused"} :
             SetState(d, s)
    BY <1>3 DEF ClientStep, Connect, Disconnect, UserMessage, SubmitResponse,
       FlowStart, FlowPause, FlowCancel, ctxVars
  <2> QED
    BY <1>s, <2>1
<1>4. CASE UNCHANGED vars
  BY <1>4 DEF vars, ctxVars
<1> QED
  BY <1>1, <1>2, <1>3, <1>4 DEF Next

\* A thread gets to rendering only by presenting an item.
LEMMA WhoRenders ==
  ASSUME TypeOK, [Next]_vars, NEW t \in Threads, pc'[t] = "render"
  PROVE  pc[t] = "render" \/ PresentItem(t)
<1>g. ASSUME NEW u, NEW to, to # "render" \/ u # t, Goto(u, to)
      PROVE  pc[t] = "render"
  BY <1>g DEF Goto, TypeOK
<1>1. ASSUME NEW u \in Threads, FlowStep(u)
      PROVE  pc[t] = "render" \/ PresentItem(t)
  <2>1. \/ \E to \in {"load", "close", "idle", "done"} : Goto(u, to)
        \/ PresentItem(u) /\ Goto(u, "render")
    BY <1>1 DEF FlowStep, RunProactiveFlow, LoadFails, PresentItem,
       FinishRender, RenderFails, CompleteFlow, PersistCompletion, End,
       Finished
  <2> QED
    BY <1>g, <2>1
<1>2. ASSUME NEW d \in Conns, LoopStep(d)
      PROVE  pc[t] = "render"
  <2>1. \/ UNCHANGED pc
        \/ \E to \in PC \ {"render"} : Goto(Loop(d), to)
    BY <1>2 DEF LoopStep, StartConversationFlow, PersistUserMessage,
       AgentAnswers, NoReply, CompleteMessage, RespondInBatch, RespondLast,
       RecordResponse, AdvanceTemplate, AdvanceToNextItem, End, Finished, PC
  <2> QED
    BY <1>g, <2>1
<1>3. ASSUME NEW d \in Conns, ClientStep(d)
      PROVE  pc[t] = "render"
  <2>1. \/ UNCHANGED pc
        \/ \E to \in {"start", "send", "respond", "intro"}, u \in Threads :
             Goto(u, to)
    BY <1>3, ThreadFacts DEF ClientStep, Connect, Disconnect, UserMessage,
       SubmitResponse, FlowStart, FlowPause, FlowCancel
  <2> QED
    BY <1>g, <2>1
<1>4. CASE UNCHANGED vars
  BY <1>4 DEF vars
<1> QED
  BY <1>1, <1>2, <1>3, <1>4 DEF Next

LEMMA StepThere ==
  ASSUME TypeOK, [Next]_vars, NEW c \in Conns, There(c)
  PROVE  There(c)'
<1>1. ASSUME NEW t \in Threads, ConnOf(t) = c, pc'[t] = "render"
      PROVE  item'[c] # NoItem
  <2>1. CASE pc[t] = "render"
    BY <1>1, <2>1, ItemStays DEF There
  <2>2. CASE PresentItem(t)
    <3>1. arg[t] \in Items
      BY <2>2 DEF PresentItem, TypeOK, Items
    <3>2. NewItem(arg[t]) # NoItem
      BY <3>1, ItemFacts
    <3> QED
      BY <1>1, <2>2, <3>2 DEF PresentItem, TypeOK
  <2> QED
    BY <1>1, <2>1, <2>2, WhoRenders
<1>2. ASSUME state'[c] = "suspended"
      PROVE  item'[c] # NoItem
  BY <1>2, WhoSuspends, ItemStays DEF There
<1> QED
  BY <1>1, <1>2 DEF There

\* A background flow that was started stays so.
LEMMA RestartStays ==
  ASSUME TypeOK, [Next]_vars, NEW c \in Conns, Restarted(c)
  PROVE  Restarted(c)'
<1>p. PICK k \in 1 .. MaxRestarts : pc[<<c, k>>] # "off"
  BY DEF Restarted
<1>k. <<c, k>> \in Threads
  BY ThreadFacts
<1>g. ASSUME NEW u, NEW to, to # "off", Goto(u, to)
      PROVE  pc'[<<c, k>>] # "off"
  BY <1>g, <1>k, <1>p DEF Goto, TypeOK
<1>1. ASSUME NEW u \in Threads, FlowStep(u)
      PROVE  pc'[<<c, k>>] # "off"
  <2>1. \E to \in PC \ {"off"} : Goto(u, to)
    BY <1>1 DEF FlowStep, RunProactiveFlow, LoadFails, PresentItem,
       FinishRender, RenderFails, CompleteFlow, PersistCompletion, End,
       Finished, PC
  <2> QED
    BY <1>g, <2>1
<1>2. ASSUME NEW d \in Conns, LoopStep(d)
      PROVE  pc'[<<c, k>>] # "off"
  <2>1. \/ UNCHANGED pc
        \/ \E to \in PC \ {"off"} : Goto(Loop(d), to)
    BY <1>2 DEF LoopStep, StartConversationFlow, PersistUserMessage,
       AgentAnswers, NoReply, CompleteMessage, RespondInBatch, RespondLast,
       RecordResponse, AdvanceTemplate, AdvanceToNextItem, End, Finished, PC
  <2> QED
    BY <1>g, <1>p, <2>1
<1>3. ASSUME NEW d \in Conns, ClientStep(d)
      PROVE  pc'[<<c, k>>] # "off"
  <2>1. \/ UNCHANGED pc
        \/ \E to \in {"start", "send", "respond", "intro"}, u \in Threads :
             Goto(u, to)
    BY <1>3, ThreadFacts DEF ClientStep, Connect, Disconnect, UserMessage,
       SubmitResponse, FlowStart, FlowPause, FlowCancel
  <2> QED
    BY <1>g, <1>p, <2>1
<1>4. CASE UNCHANGED vars
  BY <1>4, <1>p DEF vars, Restarted
<1> QED
  BY <1>1, <1>2, <1>3, <1>4 DEF Next, Restarted

(* As long as items can be loaded, a context at rest in SUSPENDED waits    *)
(* for an answer that its item still asks for; the exceptions are an       *)
(* informational item and, beside a background flow, the last one          *)
(* (present_item, handle_widget_response, handle_flow_start).              *)
THEOREM SuspendedAwaits == Spec => []SuspendedAwaitsResponse
<1> DEFINE Inv == "load" \notin Faults =>
             \A c \in Conns : /\ Sound(c) /\ There(c)
                              /\ Restarted(c) \/ Suspends(c)
<1>1. Init => Inv /\ OffUntilOpen
  <2> SUFFICES ASSUME Init PROVE Inv /\ OffUntilOpen
    OBVIOUS
  <2>1. \A c \in Conns : pc[Loop(c)] = "off" /\ item[c] = NoItem
    BY ThreadFacts DEF Init
  <2>2. \A c \in Conns : Sound(c) /\ Suspends(c)
    BY <2>1 DEF Sound, Settled, Suspends
  <2>3. \A c \in Conns : There(c)
    BY DEF Init, There
  <2> QED
    BY <2>1, <2>2, <2>3 DEF OffUntilOpen
<1>2. IInv /\ OffUntilOpen /\ Inv /\ [Next]_vars => Inv'
  <2> SUFFICES ASSUME IInv, OffUntilOpen, Inv, [Next]_vars,
                      "load" \notin Faults, NEW d \in Conns
               PROVE  /\ Sound(d)' /\ There(d)'
                      /\ Restarted(d)' \/ Suspends(d)'
    OBVIOUS
  <2>0. /\ Sound(d) /\ There(d) /\ (Restarted(d) \/ Suspends(d))
        /\ TypeOK
    BY DEF IInv
  <2> HIDE DEF Inv
  <2>1. ASSUME NEW t \in Threads, FlowStep(t)
        PROVE  /\ Sound(d)'
               /\ Suspends(d) => Restarted(d) \/ Suspends(d)'
    <3>1. CASE d = ConnOf(t)
      <4>1. Sound(d)'
        BY <2>0, <2>1, <3>1, FlowSound
      <4>2. CASE IsLoop(t)
        <5>1. t = Loop(d)
          BY <3>1, <4>2, ThreadFacts
        <5> QED
          BY <2>0, <2>1, <4>1, <5>1, FlowSuspends
      <4>3. CASE ~IsLoop(t)
        <5>1. \E k \in 1 .. MaxRestarts : t = <<d, k>>
          BY <3>1, <4>3 DEF Threads, ConnOf, IsLoop
        <5>2. pc[t] # "off"
          BY <2>1 DEF FlowStep, RunProactiveFlow, LoadFails, PresentItem,
             FinishRender, RenderFails, CompleteFlow, PersistCompletion
        <5> QED
          BY <4>1, <5>1, <5>2 DEF Restarted
      <4> QED
        BY <4>2, <4>3
    <3>2. CASE d # ConnOf(t)
      <4>1. Same(d)
        BY <2>0, <2>1, <3>2, FlowSame
      <4> QED
        BY <2>0, <4>1, SameSuspends, SameSound DEF Same
    <3> QED
      BY <3>1, <3>2
  <2>2. ASSUME NEW c \in Conns, LoopStep(c)
        PROVE  Sound(d)' /\ (Suspends(d) => Suspends(d)')
    <3>1. CASE d = c
      BY <2>0, <2>2, <3>1, LoopSuspends, LoopSound
    <3>2. CASE d # c
      <4>1. Same(d)
        BY <2>0, <2>2, <3>2, LoopSame
      <4> QED
        BY <2>0, <4>1, SameSuspends, SameSound DEF Same
    <3> QED
      BY <3>1, <3>2
  <2>3. ASSUME NEW c \in Conns, ClientStep(c)
        PROVE  Sound(d)' /\ (Suspends(d) => Suspends(d)')
    BY <2>0, <2>3, ClientSuspends
  <2>4. CASE UNCHANGED vars
    <3>1. Same(d)
      BY <2>4 DEF vars, ctxVars, connVars, workVars, Same, SameItem
    <3>2. Sound(d)' /\ (Suspends(d) => Suspends(d)')
      BY <2>0, <3>1, SameSuspends, SameSound DEF Same
    <3> QED
      BY <2>0, <3>2, RestartStays, StepThere
  <2> QED
    BY <2>0, <2>1, <2>2, <2>3, <2>4, RestartStays, StepThere DEF Next
<1>3. TypeOK /\ OffUntilOpen /\ [Next]_vars => OffUntilOpen'
  BY StepOff
<1>4. Inv => SuspendedAwaitsResponse
  <2> SUFFICES ASSUME Inv, "load" \notin Faults, NEW c \in Conns,
                      Receives(c), state[c] = "suspended"
               PROVE  /\ item[c] # NoItem
                      /\ \/ ~RequirementsMet(item[c])
                         \/ /\ ~Interactive(item[c].idx)
                            /\ Restarted(c) \/ "render" \in Faults
                         \/ item[c].idx = N - 1 /\ Restarted(c)
    BY DEF SuspendedAwaitsResponse
  <2>1. /\ attached[c] = "open" /\ pc[Loop(c)] = "idle"
        /\ Sound(c) /\ There(c) /\ (Restarted(c) \/ Suspends(c))
    BY DEF Receives
  <2>2. item[c] # NoItem
    BY <2>1 DEF There
  <2>3. Settled(c)
    BY <2>1 DEF Sound, HeldAt
  <2>4. CASE Restarted(c)
    BY <2>2, <2>3, <2>4 DEF Settled
  <2>5. CASE Suspends(c)
    BY <2>1, <2>5 DEF Suspends, Shown
  <2> QED
    BY <2>1, <2>4, <2>5
<1> HIDE DEF Inv
<1> QED
  BY <1>1, <1>2, <1>3, <1>4, InOrder, TypeCorrect, PTL DEF Spec

-----------------------------------------------------------------------------
(* Handlers go forward.                                                    *)

(* At every await the number of awaits ahead is the one written there.     *)
LEMMA AheadCounted ==
  /\ \A a \in PC : AwaitsAhead[a] \in 0 .. 6
  /\ AwaitsAhead["idle"] = 0 /\ AwaitsAhead["done"] = 0
  /\ AwaitsAhead["start"] = 4 /\ AwaitsAhead["intro"] = 3
  /\ AwaitsAhead["load"] = 2 /\ AwaitsAhead["render"] = 1
  /\ AwaitsAhead["close"] = 1 /\ AwaitsAhead["send"] = 3
  /\ AwaitsAhead["agent"] = 2 /\ AwaitsAhead["reply"] = 1
  /\ AwaitsAhead["unsaved"] = 1
  /\ AwaitsAhead["respond"] = 6 /\ AwaitsAhead["record"] = 5
  /\ AwaitsAhead["advance"] = 4 /\ AwaitsAhead["next"] = 3
BY DEF AwaitsAhead, PC

(* The widgets of a batch still to be recorded are finitely many.          *)
LEMMA BatchFinite ==
  ASSUME TypeOK, NEW c \in Conns
  PROVE  /\ IsFiniteSet(batch[c].todo)
         /\ Cardinality(batch[c].todo) \in Nat
<1>1. batch[c].todo \subseteq Widgets
  BY NoSubmissionTyped DEF TypeOK, Submission
<1>2. IsFiniteSet(batch[c].todo)
  BY <1>1, WidgetsAssumption, FS_Subset
<1> QED
  BY <1>2, FS_CardinalityType

(* So a thread has a natural number of awaits left: what its await says,   *)
(* and more only with a widget response in hand.                           *)
LEMMA LeftCounted ==
  ASSUME TypeOK, NEW t \in Threads
  PROVE  /\ pc[t] \in PC
         /\ StepsLeft(t) \in Nat
         /\ StepsLeft(t) >= AwaitsAhead[pc[t]]
         /\ pc[t] = "respond" =>
              StepsLeft(t) = 6 + Cardinality(batch[ConnOf(t)].todo)
<1>1. pc[t] \in PC
  BY DEF TypeOK
<1>2. AwaitsAhead[pc[t]] \in 0 .. 6
  BY <1>1, AheadCounted
<1>3. Cardinality(batch[ConnOf(t)].todo) \in Nat
  BY BatchFinite, ThreadFacts
<1>4. pc[t] = "respond" => AwaitsAhead[pc[t]] = 6
  BY AheadCounted
<1> QED
  BY <1>1, <1>2, <1>3, <1>4 DEF StepsLeft

(* Going on to an await with fewer ahead, other than a widget response, is *)
(* progress.                                                               *)
LEMMA GotoAdvances ==
  ASSUME TypeOK, NEW t \in Threads, NEW to \in PC \ {"respond"},
         Goto(t, to), AwaitsAhead[to] < AwaitsAhead[pc[t]]
  PROVE  StepsLeft(t)' < StepsLeft(t)
<1>1. pc'[t] = to
  BY DEF TypeOK, Goto
<1>2. AwaitsAhead[to] \in 0 .. 6
  BY AheadCounted
<1>3. StepsLeft(t)' = AwaitsAhead[to]
  BY <1>1, <1>2 DEF StepsLeft, AwaitsAhead
<1>4. /\ StepsLeft(t) \in Nat /\ StepsLeft(t) >= AwaitsAhead[pc[t]]
      /\ AwaitsAhead[pc[t]] \in 0 .. 6
  BY LeftCounted, AheadCounted
<1> QED
  BY <1>2, <1>3, <1>4

(* So is the end of a handler or a task.                                   *)
LEMMA EndAdvances ==
  ASSUME TypeOK, NEW t \in Threads, End(t), AwaitsAhead[pc[t]] > 0
  PROVE  StepsLeft(t)' < StepsLeft(t)
<1>1. Finished(t) \in PC \ {"respond"} /\ AwaitsAhead[Finished(t)] = 0
  BY AheadCounted DEF Finished, PC
<1>2. Goto(t, Finished(t))
  BY DEF End
<1> QED
  BY <1>1, <1>2, GotoAdvances

(* Every step of the template flow is one await less of its thread.        *)
LEMMA FlowAdvances ==
  ASSUME TypeOK, NEW t \in Threads, FlowStep(t)
  PROVE  StepsLeft(t)' < StepsLeft(t)
<1>p. {"load", "render", "close"} \subseteq PC \ {"respond"}
  BY DEF PC
<1>1. CASE RunProactiveFlow(t)
  <2>1. pc[t] = "intro" /\ Goto(t, "load")
    BY <1>1 DEF RunProactiveFlow
  <2> QED
    BY <1>p, <2>1, AheadCounted, GotoAdvances
<1>2. CASE LoadFails(t)
  <2>1. pc[t] = "load" /\ End(t)
    BY <1>2 DEF LoadFails
  <2> QED
    BY <2>1, AheadCounted, EndAdvances
<1>3. CASE PresentItem(t)
  <2>1. pc[t] = "load" /\ Goto(t, "render")
    BY <1>3 DEF PresentItem
  <2> QED
    BY <1>p, <2>1, AheadCounted, GotoAdvances
<1>4. CASE FinishRender(t) \/ RenderFails(t)
  <2>1. pc[t] = "render" /\ End(t)
    BY <1>4 DEF FinishRender, RenderFails
  <2> QED
    BY <2>1, AheadCounted, EndAdvances
<1>5. CASE CompleteFlow(t)
  <2>1. pc[t] = "load" /\ (End(t) \/ Goto(t, "close"))
    BY <1>5 DEF CompleteFlow
  <2> QED
    BY <1>p, <2>1, AheadCounted, EndAdvances, GotoAdvances
<1>6. CASE PersistCompletion(t)
  <2>1. pc[t] = "close" /\ End(t)
    BY <1>6 DEF PersistCompletion
  <2> QED
    BY <2>1, AheadCounted, EndAdvances
<1> QED
  BY <1>1, <1>2, <1>3, <1>4, <1>5, <1>6 DEF FlowStep

(* Recording one widget of a batch leaves one less, or ends the handler.   *)
LEMMA RespondAdvances ==
  ASSUME TypeOK, NEW c \in Conns, RespondInBatch(c)
  PROVE  StepsLeft(Loop(c))' < StepsLeft(Loop(c))
<1>t. Loop(c) \in Threads /\ ConnOf(Loop(c)) = c
  BY ThreadFacts
<1>1. pc[Loop(c)] = "respond"
  BY DEF RespondInBatch
<1>2. PICK w \in batch[c].todo :
        \/ End(Loop(c))
        \/ /\ batch' = [batch EXCEPT ![c].todo = @ \ {w}]
           /\ UNCHANGED pc
  BY Zenon DEF RespondInBatch
<1>3. CASE End(Loop(c))
  BY <1>1, <1>3, <1>t, AheadCounted, EndAdvances
<1>4. CASE batch' = [batch EXCEPT ![c].todo = @ \ {w}] /\ UNCHANGED pc
  <2>1. batch'[c].todo = batch[c].todo \ {w}
    BY <1>4, NoSubmissionTyped DEF TypeOK, Submission
  <2>2. /\ IsFiniteSet(batch[c].todo)
        /\ Cardinality(batch[c].todo) \in Nat
    BY BatchFinite
  <2>3. Cardinality(batch[c].todo \ {w}) = Cardinality(batch[c].todo) - 1
    BY <1>2, <2>2, FS_RemoveElement
  <2>4. StepsLeft(Loop(c)) = 6 + Cardinality(batch[c].todo)
    BY <1>1, <1>t, LeftCounted
  <2>5. StepsLeft(Loop(c))' = 6 + Cardinality(batch'[c].todo)
    BY <1>1, <1>4, <1>t, AheadCounted DEF StepsLeft, AwaitsAhead
  <2> QED
    BY <2>1, <2>2, <2>3, <2>4, <2>5
<1> QED
  BY <1>2, <1>3, <1>4

(* So is every other step of a receive loop's handlers.                    *)
LEMMA LoopAdvances ==
  ASSUME TypeOK, NEW c \in Conns, LoopStep(c)
  PROVE  StepsLeft(Loop(c))' < StepsLeft(Loop(c))
<1>t. Loop(c) \in Threads
  BY ThreadFacts
<1>p. {"idle", "intro", "agent", "reply", "unsaved", "record", "advance",
       "next", "load"}
        \subseteq PC \ {"respond"}
  BY DEF PC
<1>1. CASE StartConversationFlow(c)
  <2>1. /\ pc[Loop(c)] = "start"
        /\ \E to \in {"idle", "intro"} : Goto(Loop(c), to)
    BY <1>1 DEF StartConversationFlow
  <2> QED
    BY <1>p, <1>t, <2>1, AheadCounted, GotoAdvances
<1>2. CASE PersistUserMessage(c)
  <2>1. /\ pc[Loop(c)] = "send"
        /\ \/ End(Loop(c)) \/ Goto(Loop(c), "agent")
           \/ Goto(Loop(c), "unsaved")
    BY <1>2 DEF PersistUserMessage
  <2> QED
    BY <1>p, <1>t, <2>1, AheadCounted, EndAdvances, GotoAdvances
<1>3. CASE AgentAnswers(c) \/ NoReply(c)
  <2>1. /\ pc[Loop(c)] \in {"agent", "unsaved"}
        /\ \/ End(Loop(c))
           \/ pc[Loop(c)] = "agent" /\ Goto(Loop(c), "reply")
    BY <1>3 DEF AgentAnswers, NoReply
  <2> QED
    BY <1>p, <1>t, <2>1, AheadCounted, EndAdvances, GotoAdvances
<1>4. CASE CompleteMessage(c)
  <2>1. pc[Loop(c)] = "reply" /\ End(Loop(c))
    BY <1>4 DEF CompleteMessage
  <2> QED
    BY <1>t, <2>1, AheadCounted, EndAdvances
<1>5. CASE RespondInBatch(c)
  BY <1>5, RespondAdvances
<1>6. CASE RespondLast(c)
  <2>1. pc[Loop(c)] = "respond" /\ (End(Loop(c)) \/ Goto(Loop(c), "record"))
    BY <1>6, Zenon DEF RespondLast
  <2> QED
    BY <1>p, <1>t, <2>1, AheadCounted, EndAdvances, GotoAdvances
<1>7. CASE RecordResponse(c)
  <2>1. /\ pc[Loop(c)] = "record"
        /\ Goto(Loop(c), "advance") \/ Goto(Loop(c), "next")
    BY <1>7 DEF RecordResponse
  <2> QED
    BY <1>p, <1>t, <2>1, AheadCounted, GotoAdvances
<1>8. CASE AdvanceTemplate(c)
  <2>1. pc[Loop(c)] = "advance" /\ Goto(Loop(c), "next")
    BY <1>8 DEF AdvanceTemplate
  <2> QED
    BY <1>p, <1>t, <2>1, AheadCounted, GotoAdvances
<1>9. CASE AdvanceToNextItem(c)
  <2>1. pc[Loop(c)] = "next" /\ Goto(Loop(c), "load")
    BY <1>9 DEF AdvanceToNextItem
  <2> QED
    BY <1>p, <1>t, <2>1, AheadCounted, GotoAdvances
<1> QED
  BY <1>1, <1>2, <1>3, <1>4, <1>5, <1>6, <1>7, <1>8, <1>9 DEF LoopStep

\* where a thread stands, and its locals
Kept(t) ==
  /\ UNCHANGED <<pc[t], arg[t]>>
  /\ IsLoop(t) => UNCHANGED <<held[ConnOf(t)], batch[ConnOf(t)]>>

(* A thread going on, or at its end, leaves every other one where it is.   *)
LEMMA OthersKept ==
  ASSUME TypeOK, NEW u \in Threads, NEW t \in Threads \ {u}
  PROVE  /\ \A to : Goto(u, to) => UNCHANGED pc[t]
         /\ End(u) => Kept(t)
         /\ UNCHANGED <<pc[t], workVars>> => Kept(t)
<1>1. \A to : Goto(u, to) => UNCHANGED pc[t]
  BY DEF Goto, TypeOK
<1>2. ASSUME End(u)
      PROVE  Kept(t)
  <2>1. UNCHANGED pc[t]
    BY <1>1, <1>2 DEF End
  <2>2. UNCHANGED arg[t]
    BY <1>2 DEF End, TypeOK
  <2>3. ASSUME IsLoop(t)
        PROVE  UNCHANGED <<held[ConnOf(t)], batch[ConnOf(t)]>>
    <3>1. CASE ~IsLoop(u)
      BY <1>2, <3>1 DEF End
    <3>2. CASE IsLoop(u)
      <4>1. ConnOf(u) # ConnOf(t) /\ ConnOf(t) \in Conns
        BY <2>3, <3>2, ThreadFacts
      <4> QED
        BY <1>2, <3>2, <4>1 DEF End, TypeOK
    <3> QED
      BY <3>1, <3>2
  <2> QED
    BY <2>1, <2>2, <2>3 DEF Kept
<1>3. UNCHANGED <<pc[t], workVars>> => Kept(t)
  BY DEF workVars, Kept
<1> QED
  BY <1>1, <1>2, <1>3

LEMMA FlowKeeps ==
  ASSUME TypeOK, NEW u \in Threads, FlowStep(u), NEW t \in Threads \ {u}
  PROVE  Kept(t)
<1>1. CASE RunProactiveFlow(u)
  <2>1. /\ Goto(u, "load") /\ arg' = [arg EXCEPT ![u] = FirstItem]
        /\ UNCHANGED <<held, batch>>
    BY <1>1 DEF RunProactiveFlow
  <2>2. UNCHANGED arg[t]
    BY <2>1 DEF TypeOK
  <2> QED
    BY <2>1, <2>2, OthersKept DEF Kept
<1>2. CASE PresentItem(u)
  BY <1>2, OthersKept DEF PresentItem
<1>3. CASE CompleteFlow(u)
  BY <1>3, OthersKept DEF CompleteFlow
<1>4. CASE \/ LoadFails(u) \/ FinishRender(u) \/ RenderFails(u)
           \/ PersistCompletion(u)
  BY <1>4, OthersKept DEF LoadFails, FinishRender, RenderFails,
     PersistCompletion
<1> QED
  BY <1>1, <1>2, <1>3, <1>4 DEF FlowStep

LEMMA LoopKeeps ==
  ASSUME TypeOK, NEW c \in Conns, LoopStep(c), NEW t \in Threads \ {Loop(c)}
  PROVE  Kept(t)
<1>t. Loop(c) \in Threads
  BY ThreadFacts
<1>c. IsLoop(t) => ConnOf(t) \in Conns \ {c}
  BY ThreadFacts
<1>1. CASE StartConversationFlow(c)
  BY <1>1, <1>t, OthersKept DEF StartConversationFlow
<1>2. CASE PersistUserMessage(c)
  BY <1>2, <1>t, OthersKept DEF PersistUserMessage
<1>3. CASE AgentAnswers(c) \/ NoReply(c) \/ CompleteMessage(c)
  BY <1>3, <1>t, OthersKept DEF AgentAnswers, NoReply, CompleteMessage
<1>4. CASE RespondInBatch(c)
  <2>1. \/ End(Loop(c))
        \/ /\ \E w : batch' = [batch EXCEPT ![c].todo = @ \ {w}]
           /\ UNCHANGED <<pc, arg, held>>
    BY <1>4, Zenon DEF RespondInBatch
  <2>2. ASSUME NEW w, batch' = [batch EXCEPT ![c].todo = @ \ {w}],
               UNCHANGED <<pc, arg, held>>
        PROVE  Kept(t)
    <3>1. IsLoop(t) => UNCHANGED batch[ConnOf(t)]
      BY <1>c, <2>2 DEF TypeOK
    <3> QED
      BY <2>2, <3>1 DEF Kept
  <2> QED
    BY <1>t, <2>1, <2>2, OthersKept
<1>5. CASE RespondLast(c)
  <2>1. \/ End(Loop(c))
        \/ /\ \E s : held' = [held EXCEPT ![c] = s]
           /\ batch' = [batch EXCEPT ![c] = NoSubmission]
           /\ Goto(Loop(c), "record") /\ UNCHANGED arg
    BY <1>5, Zenon DEF RespondLast
  <2>2. ASSUME NEW s, held' = [held EXCEPT ![c] = s],
               batch' = [batch EXCEPT ![c] = NoSubmission],
               Goto(Loop(c), "record"), UNCHANGED arg
        PROVE  Kept(t)
    <3>1. IsLoop(t) => UNCHANGED <<held[ConnOf(t)], batch[ConnOf(t)]>>
      BY <1>c, <2>2 DEF TypeOK
    <3>2. UNCHANGED pc[t]
      BY <1>t, <2>2, OthersKept
    <3> QED
      BY <2>2, <3>1, <3>2 DEF Kept
  <2> QED
    BY <1>t, <2>1, <2>2, OthersKept
<1>6. CASE RecordResponse(c) \/ AdvanceTemplate(c)
  BY <1>6, <1>t, OthersKept DEF RecordResponse, AdvanceTemplate
<1>7. CASE AdvanceToNextItem(c)
  <2>1. /\ Goto(Loop(c), "load") /\ UNCHANGED <<held, batch>>
        /\ arg' = [arg EXCEPT ![Loop(c)] = NextIndex(c)]
    BY <1>7 DEF AdvanceToNextItem
  <2>2. UNCHANGED arg[t]
    BY <2>1 DEF TypeOK
  <2> QED
    BY <1>t, <2>1, <2>2, OthersKept DEF Kept
<1> QED
  BY <1>1, <1>2, <1>3, <1>4, <1>5, <1>6, <1>7 DEF LoopStep

(* A message is only received between handlers, a task only started when   *)
(* it never ran, and a disconnect moves no thread.                         *)
LEMMA ClientKeeps ==
  ASSUME TypeOK, OffUntilOpen, NEW c \in Conns, ClientStep(c),
         NEW t \in Threads, pc[t] \notin {"off", "idle", "done"}
  PROVE  Kept(t)
<1>t. Loop(c) \in Threads
  BY ThreadFacts
<1>1. CASE Connect(c)
  <2>1. t # Loop(c)
    BY <1>1 DEF Connect, OffUntilOpen
  <2> QED
    BY <1>1, <1>t, <2>1, OthersKept DEF Connect
<1>2. CASE Disconnect(c) \/ FlowPause(c) \/ FlowCancel(c)
  BY <1>2 DEF Disconnect, FlowPause, FlowCancel, workVars, Kept
<1>3. CASE UserMessage(c)
  <2>1. t # Loop(c)
    BY <1>3 DEF UserMessage, Receives
  <2> QED
    BY <1>3, <1>t, <2>1, OthersKept DEF UserMessage
<1>4. CASE SubmitResponse(c)
  <2>1. t # Loop(c) /\ (IsLoop(t) => ConnOf(t) \in Conns \ {c})
    BY <1>4, ThreadFacts DEF SubmitResponse, Receives
  <2>2. UNCHANGED pc[t]
    BY <1>4, <1>t, <2>1, OthersKept DEF SubmitResponse
  <2>3. IsLoop(t) => UNCHANGED batch[ConnOf(t)]
    BY <1>4, <2>1 DEF SubmitResponse, TypeOK
  <2> QED
    BY <1>4, <2>2, <2>3 DEF SubmitResponse, Kept
<1>5. CASE FlowStart(c)
  <2>1. PICK k \in 1 .. MaxRestarts :
          pc[<<c, k>>] = "off" /\ Goto(<<c, k>>, "intro")
    BY <1>5 DEF FlowStart
  <2>2. <<c, k>> \in Threads \ {t}
    BY <2>1, ThreadFacts
  <2> QED
    BY <1>5, <2>1, <2>2, OthersKept DEF FlowStart
<1> QED
  BY <1>1, <1>2, <1>3, <1>4, <1>5 DEF ClientStep

(* Handlers and background tasks only go forward, for any number of        *)
(* connections, items, widgets and failing calls (handle_widget_response,  *)
(* run_proactive_flow, handle_flow_start).                                 *)
THEOREM HandlersGoForward == Spec => HandlersAdvance
<1> DEFINE Advances(t) ==
      pc[t] \notin {"off", "idle", "done"} =>
        \/ HandlerStep(t) /\ StepsLeft(t)' < StepsLeft(t)
        \/ /\ ~HandlerStep(t)
           /\ UNCHANGED <<pc[t], arg[t]>>
           /\ IsLoop(t) => UNCHANGED <<held[ConnOf(t)], batch[ConnOf(t)]>>
<1>0. Init => OffUntilOpen
  BY ThreadFacts DEF Init, OffUntilOpen
<1>1. TypeOK /\ OffUntilOpen /\ [Next]_vars => OffUntilOpen'
  BY StepOff
<1>2. ASSUME TypeOK, OffUntilOpen, Next, NEW t \in Threads
      PROVE  Advances(t)
  <2>1. ASSUME HandlerStep(t)
        PROVE  StepsLeft(t)' < StepsLeft(t)
    BY <1>2, <2>1, FlowAdvances, LoopAdvances, ThreadFacts DEF HandlerStep
  <2>2. ASSUME ~HandlerStep(t), pc[t] \notin {"off", "idle", "done"}
        PROVE  Kept(t)
    <3>1. ASSUME NEW u \in Threads, FlowStep(u)
          PROVE  Kept(t)
      <4>1. t # u
        BY <2>2, <3>1 DEF HandlerStep
      <4> QED
        BY <1>2, <3>1, <4>1, FlowKeeps
    <3>2. ASSUME NEW c \in Conns, LoopStep(c)
          PROVE  Kept(t)
      <4>1. t # Loop(c)
        BY <2>2, <3>2, ThreadFacts DEF HandlerStep
      <4> QED
        BY <1>2, <3>2, <4>1, LoopKeeps
    <3>3. ASSUME NEW c \in Conns, ClientStep(c)
          PROVE  Kept(t)
      BY <1>2, <2>2, <3>3, ClientKeeps
    <3> QED
      BY <1>2, <3>1, <3>2, <3>3 DEF Next
  <2> QED
    BY <2>1, <2>2, Zenon DEF Kept
<1>3. TypeOK /\ OffUntilOpen /\ [Next]_vars
        => [\A t \in Threads : Advances(t)]_vars
  BY <1>2
<1> QED
  BY <1>0, <1>1, <1>3, TypeCorrect, PTL DEF Spec, HandlersAdvance

=============================================================================
