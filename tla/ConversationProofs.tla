------------------------- MODULE ConversationProofs -------------------------
(***************************************************************************)
(* Theorems about Conversation for every set of conversations, workers,    *)
(* leads, sweepers, messages and configurations, and every bound.          *)
(***************************************************************************)
EXTENDS Conversation, TLAPS

-----------------------------------------------------------------------------
(* The engine *)

\* The steps of a flow are a sequence of steps, also for a flow that is gone.
LEMMA StepsOfType ==
  ASSUME NEW cfg \in Config, NEW f
  PROVE  StepsOf(cfg, f) \in Seq(Step)
<1>1. CASE f \in FlowNames(cfg)
  <2>1. PICK i \in DOMAIN cfg : cfg[i].name = f
    BY <1>1 DEF FlowNames
  <2>2. (CHOOSE j \in DOMAIN cfg : cfg[j].name = f) \in DOMAIN cfg
    BY <2>1
  <2>3. \A j \in DOMAIN cfg : cfg[j] \in Flow
    BY DEF Config
  <2> QED BY <1>1, <2>2, <2>3 DEF StepsOf, Flow
<1>2. CASE f \notin FlowNames(cfg)
  BY <1>2 DEF StepsOf
<1> QED BY <1>1, <1>2

\* A turn that is inside a questionnaire raised no event, and stays in the
\* questionnaire it was in.
SameFlow(st, res) ==
  /\ res.state.phase = "in_flow" => res.event = NoEvent
  /\ res.state.phase = "in_flow" /\ st.phase = "in_flow" => res.state.flow = st.flow

\* An answer to a questionnaire (_advance_in_flow) gives a well-formed result.
LEMMA AdvanceInFlowType ==
  ASSUME NEW cfg \in Config, NEW st \in EngineState, NEW m \in Message,
         st.phase = "in_flow"
  PROVE  /\ AdvanceInFlow(cfg, st, m) \in TurnResult
         /\ SameFlow(st, AdvanceInFlow(cfg, st, m))
<1> DEFINE steps == StepsOf(cfg, st.flow)
           answers == st.collected \cup {steps[st.step + 1].key}
<1>1. steps \in Seq(Step) /\ Len(steps) \in Nat /\ st.step \in Nat
  BY StepsOfType DEF EngineState
<1>2. CASE st.step >= Len(steps)
  <2>1. AdvanceInFlow(cfg, st, m) = Result(MenuState, NoEvent, {})
    BY <1>2 DEF AdvanceInFlow
  <2> QED BY <2>1 DEF Result, MenuState, TurnResult, EngineState, Phase, Event,
                      NoEvent, NoFlow, SameFlow
<1>3. CASE ~(st.step >= Len(steps))
  <2>1. st.step + 1 \in DOMAIN steps
    BY <1>1, <1>3
  <2>2. steps[st.step + 1] \in Step
    BY <1>1, <2>1
  <2>3. steps[st.step + 1].key \in Key
    BY <2>2 DEF Step
  <2>4. answers \in SUBSET Key
    BY <2>3 DEF EngineState
  <2>5. \/ AdvanceInFlow(cfg, st, m) = Result(st, NoEvent, {})
        \/ AdvanceInFlow(cfg, st, m) = Result(MenuState, "lead_completed", answers)
        \/ AdvanceInFlow(cfg, st, m) =
             Result(InFlowState(st.flow, st.step + 1, answers), NoEvent, {})
    BY <1>3 DEF AdvanceInFlow
  <2>6. InFlowState(st.flow, st.step + 1, answers) \in EngineState
    BY <1>1, <2>4 DEF InFlowState, EngineState, Phase
  <2>7. MenuState \in EngineState
    BY DEF MenuState, EngineState, Phase
  <2> HIDE DEF answers
  <2> QED BY <2>4, <2>5, <2>6, <2>7
          DEF Result, TurnResult, Event, NoEvent, SameFlow, MenuState, InFlowState
<1> QED BY <1>2, <1>3

\* A choice at the menu (_advance_menu) gives a well-formed result.
LEMMA AdvanceMenuType ==
  ASSUME NEW cfg \in Config, NEW m \in Message
  PROVE  /\ AdvanceMenu(cfg, m) \in TurnResult
         /\ AdvanceMenu(cfg, m).state.phase = "in_flow" =>
              AdvanceMenu(cfg, m).event = NoEvent
<1>1. MenuState \in EngineState /\ HandedOffState \in EngineState
  BY DEF MenuState, HandedOffState, EngineState, Phase
<1>2. CASE m.blank \/ m.pick \notin DOMAIN cfg
  <2>1. AdvanceMenu(cfg, m) = Result(MenuState, NoEvent, {})
    BY <1>2 DEF AdvanceMenu
  <2> QED BY <1>1, <2>1 DEF Result, TurnResult, Event, NoEvent, MenuState
<1>3. CASE ~(m.blank \/ m.pick \notin DOMAIN cfg)
  <2>1. cfg[m.pick] \in Flow
    BY <1>3 DEF Config
  <2>2. cfg[m.pick].name \in FlowName
    BY <2>1 DEF Flow
  <2> DEFINE started == InFlowState(cfg[m.pick].name, 0, {})
  <2>3. started \in EngineState
    BY <2>2 DEF InFlowState, EngineState, Phase
  <2>4. \/ AdvanceMenu(cfg, m) = Result(started, NoEvent, {})
        \/ AdvanceMenu(cfg, m) = Result(HandedOffState, "handed_off", {})
        \/ AdvanceMenu(cfg, m) = Result(MenuState, "booking", {})
        \/ AdvanceMenu(cfg, m) = Result(MenuState, NoEvent, {})
    BY <1>3 DEF AdvanceMenu
  <2> HIDE DEF started
  <2> QED BY <1>1, <2>3, <2>4
          DEF Result, TurnResult, Event, NoEvent, MenuState, HandedOffState
<1> QED BY <1>2, <1>3

\* So does every turn of the engine (advance), in any phase.
LEMMA AdvanceType ==
  ASSUME NEW cfg \in Config, NEW st \in EngineState, NEW m \in Message
  PROVE  /\ Advance(cfg, st, m) \in TurnResult
         /\ SameFlow(st, Advance(cfg, st, m))
<1>1. \/ Advance(cfg, st, m) = Result(MenuState, NoEvent, {})
      \/ st.phase = "handed_off" /\ Advance(cfg, st, m) = Result(st, NoEvent, {})
      \/ Advance(cfg, st, m) = Result(HandedOffState, "handed_off", {})
      \/ st.phase = "in_flow" /\ Advance(cfg, st, m) = AdvanceInFlow(cfg, st, m)
      \/ st.phase # "in_flow" /\ Advance(cfg, st, m) = AdvanceMenu(cfg, m)
  BY DEF Advance
<1>2. MenuState \in EngineState /\ HandedOffState \in EngineState
  BY DEF MenuState, HandedOffState, EngineState, Phase
<1>3. CASE Advance(cfg, st, m) = Result(MenuState, NoEvent, {})
  BY <1>2, <1>3 DEF Result, TurnResult, Event, NoEvent, MenuState, SameFlow
<1>4. CASE st.phase = "handed_off" /\ Advance(cfg, st, m) = Result(st, NoEvent, {})
  BY <1>4 DEF Result, TurnResult, Event, NoEvent, SameFlow
<1>5. CASE Advance(cfg, st, m) = Result(HandedOffState, "handed_off", {})
  BY <1>2, <1>5 DEF Result, TurnResult, Event, NoEvent, HandedOffState, SameFlow
<1>6. CASE st.phase = "in_flow" /\ Advance(cfg, st, m) = AdvanceInFlow(cfg, st, m)
  BY <1>6, AdvanceInFlowType
<1>7. CASE st.phase # "in_flow" /\ Advance(cfg, st, m) = AdvanceMenu(cfg, m)
  BY <1>7, AdvanceMenuType DEF SameFlow
<1> QED BY <1>1, <1>3, <1>4, <1>5, <1>6, <1>7

-----------------------------------------------------------------------------
(* Type correctness *)

\* The empty chat, row, turn and sweep are well formed.
LEMMA InitialValues ==
  /\ AnyConv \in Conv
  /\ AnyMsg \in Message
  /\ FreshChat \in Chat
  /\ NoRow \in LeadRow
  /\ IdleTurn \in Turn
  /\ IdleSweep \in Sweep
<1>1. AnyConv \in Conv
  BY ConvAssumption DEF AnyConv
<1>2. AnyMsg \in Message
  BY InboundAssumption DEF AnyMsg
<1>3. 0 \in Age
  BY BoundsAssumption DEF Age
<1>4. InitialState \in EngineState
  BY DEF InitialState, EngineState, Phase
<1>5. FreshChat \in Chat
  BY <1>3, <1>4 DEF FreshChat, Chat, ChatStatus
<1>6. NoRow \in LeadRow
  BY <1>1, <1>3 DEF NoRow, LeadRow, CloseReason
<1>7. Result(InitialState, NoEvent, {}) \in TurnResult
  BY <1>4 DEF Result, TurnResult, Event
<1>8. IdleTurn \in Turn
  BY <1>1, <1>2, <1>7 DEF IdleTurn, Turn, PC, ChatStatus
<1>9. IdleSweep \in Sweep
  BY <1>1 DEF IdleSweep, Sweep
<1> QED BY <1>1, <1>2, <1>5, <1>6, <1>8, <1>9

\* Time keeps an age within its cap.
LEMMA OlderType == 0 \in Age /\ \A a \in Age : Older(a) \in Age
  BY BoundsAssumption DEF Age, Older

\* The accessors of conversation_state keep a hash well formed.
LEMMA ChatUpdates ==
  ASSUME NEW chat \in Chat
  PROVE  /\ Stamped(chat) \in Chat
         /\ \A s \in ChatStatus : WithStatus(chat, s) \in Chat
         /\ \A st \in EngineState, l \in Lead \cup {NoLead} :
              [chat EXCEPT !.state = st, !.lead = l] \in Chat
         /\ [chat EXCEPT !.idle = Older(@)] \in Chat
  BY OlderType DEF Chat, Stamped, WithStatus

\* The statements of services/leads keep a row well formed.
LEMMA RowUpdates ==
  ASSUME NEW row \in LeadRow
  PROVE  /\ \A a \in SUBSET Key : [row EXCEPT !.answers = a, !.idle = 0] \in LeadRow
         /\ \A a \in SUBSET Key :
              [row EXCEPT !.answers = a, !.status = "new", !.reason = "completed",
                          !.idle = 0] \in LeadRow
         /\ [row EXCEPT !.idle = 0] \in LeadRow
         /\ [row EXCEPT !.idle = Older(@)] \in LeadRow
         /\ [row EXCEPT !.handoff = TRUE] \in LeadRow
         /\ [row EXCEPT !.status = "deleted"] \in LeadRow
         /\ [row EXCEPT !.status = "abandoned", !.reason = "abandoned"] \in LeadRow
         /\ \A s \in LeadStatus, r \in CloseReason :
              [row EXCEPT !.status = s, !.idle = 0, !.reason = r] \in LeadRow
  BY OlderType DEF LeadRow, LeadStatus, CloseReason

\* The row create_lead inserts is well formed.
LEMMA NewLeadType ==
  ASSUME NEW c \in Conv, NEW f \in FlowName \cup {NoFlow}, NEW h \in BOOLEAN
  PROVE  NewLead(c, f, h) \in LeadRow
  BY BoundsAssumption DEF NewLead, LeadRow, LeadStatus, CloseReason, Age

\* A turn that only moves on, or ends, is still a turn.
LEMMA TurnMoves ==
  ASSUME TypeOK, NEW w \in Worker
  PROVE  /\ \A pc \in PC : [turns EXCEPT ![w].pc = pc] \in [Worker -> Turn]
         /\ [turns EXCEPT ![w] = IdleTurn] \in [Worker -> Turn]
         /\ \A l \in Lead \cup {NoLead} :
              [turns EXCEPT ![w] = [@ EXCEPT !.pc = "save", !.lead = l]] \in [Worker -> Turn]
  BY InitialValues DEF TypeOK, Turn, PC

\* No step of run_turn leaves the types.
LEMMA TurnStepType ==
  ASSUME TypeOK, NEW w \in Worker, TurnStep(w)
  PROVE  TypeOK'
<1> DEFINE t == turns[w]
<1>0. /\ t \in Turn /\ t.conv \in Conv /\ t.lead \in Lead \cup {NoLead}
      /\ t.res.state \in EngineState /\ t.res.lead \in SUBSET Key
      /\ t.res.state.flow \in FlowName \cup {NoFlow}
      /\ t.res.state.collected \in SUBSET Key
      /\ chats[t.conv] \in Chat
  BY DEF TypeOK, Turn, TurnResult, EngineState
<1>a. \A c \in Conv : chats[c] \in Chat
  BY DEF TypeOK
<1>b. \A l \in Lead : leads[l] \in LeadRow
  BY DEF TypeOK
<1>c. \A c \in Conv : [chats EXCEPT ![c] = Stamped(@)] \in [Conv -> Chat]
  BY <1>a, ChatUpdates DEF TypeOK
<1>d. \A c \in Conv, s \in ChatStatus :
        [chats EXCEPT ![c] = WithStatus(@, s)] \in [Conv -> Chat]
  BY <1>a, ChatUpdates DEF TypeOK
<1>e. \A l \in Lead, c \in Conv, f \in FlowName \cup {NoFlow}, h \in BOOLEAN :
        CreateLead(l, c, f, h) => leads' \in [Lead -> LeadRow]
  BY NewLeadType DEF CreateLead, TypeOK
<1>1. CASE ReadStatus(w)
  BY <1>0, <1>1 DEF ReadStatus, TypeOK, Turn, Chat, PC
<1>2. CASE ReadActivity(w)
  BY <1>2, TurnMoves DEF ReadActivity, Goto, TypeOK, PC
<1>3. CASE ResetChat(w)
  BY <1>0, <1>3, TurnMoves, InitialValues
     DEF ResetChat, ResetConversation, Goto, TypeOK, PC
<1>4. CASE SilentLog(w)
  BY <1>0, <1>4, <1>c, TurnMoves DEF SilentLog, AppendMessage, Goto, TypeOK, PC
<1>5. CASE SilentTouch(w)
  <2>1. leads' \in [Lead -> LeadRow]
    <3>1. CASE NewestLeads(t.conv) = {}
      BY <1>5, <3>1 DEF SilentTouch, TypeOK
    <3>2. CASE NewestLeads(t.conv) # {}
      <4>1. PICK l \in NewestLeads(t.conv) : TouchLead(l)
        BY <1>5, <3>2 DEF SilentTouch
      <4>2. l \in Lead
        BY DEF NewestLeads, LeadsOf
      <4> QED BY <1>b, <4>1, <4>2, RowUpdates DEF TouchLead, TypeOK
    <3> QED BY <3>1, <3>2
  <2> QED BY <1>5, <2>1, TurnMoves DEF SilentTouch, Finish, TypeOK
<1>6. CASE LogMessage(w)
  BY <1>0, <1>6, <1>c, TurnMoves DEF LogMessage, AppendMessage, Goto, TypeOK, PC
<1>7. CASE LoadAndAdvance(w)
  <2>1. /\ bot \in Config
        /\ chats[t.conv].state \in EngineState
        /\ chats[t.conv].lead \in Lead \cup {NoLead}
        /\ t.msg \in Message
    BY <1>0, ConfigsAssumption DEF TypeOK, Chat, Turn
  <2>2. Advance(bot, chats[t.conv].state, t.msg) \in TurnResult
    BY <2>1, AdvanceType
  <2>3. turns' \in [Worker -> Turn]
    BY <1>0, <1>7, <2>1, <2>2 DEF LoadAndAdvance, TypeOK, Turn, PC
  <2> QED BY <1>7, <2>3 DEF LoadAndAdvance, TypeOK
<1>8. CASE StartLead(w)
  <2>1. PICK l \in Lead :
          CreateLead(l, t.conv, t.res.state.flow, FALSE) /\ Saving(w, l)
    BY <1>8 DEF StartLead
  <2>2. leads' \in [Lead -> LeadRow]
    BY <1>0, <1>e, <2>1
  <2> QED BY <1>8, <2>1, <2>2, TurnMoves DEF StartLead, Saving, TypeOK
<1>9. CASE RecordStep(w)
  <2>1. t.lead \in Lead
    BY <1>0, <1>9 DEF RecordStep, AnsweredStep
  <2>2. leads' \in [Lead -> LeadRow]
    BY <1>0, <1>9, <1>b, <2>1, RowUpdates DEF RecordStep, UpdateLead, TypeOK
  <2> QED BY <1>0, <1>9, <2>2, TurnMoves DEF RecordStep, Saving, TypeOK
<1>10. CASE FinishLead(w)
  <2>1. leads' \in [Lead -> LeadRow]
    <3>1. CASE t.lead = NoLead
      BY <1>10, <3>1 DEF FinishLead, TypeOK
    <3>2. CASE t.lead # NoLead
      <4>1. CompleteLead(t.lead, t.res.lead) /\ t.lead \in Lead
        BY <1>0, <1>10, <3>2 DEF FinishLead
      <4> QED BY <1>0, <1>b, <4>1, RowUpdates DEF CompleteLead, TypeOK
    <3> QED BY <3>1, <3>2
  <2> QED BY <1>0, <1>10, <2>1, TurnMoves DEF FinishLead, Saving, TypeOK
<1>11. CASE BookingLead(w)
  <2>1. CASE t.lead = NoLead
    <3>1. PICK l \in Lead : CreateLead(l, t.conv, NoFlow, FALSE) /\ Saving(w, l)
      BY <1>11, <2>1 DEF BookingLead
    <3>2. leads' \in [Lead -> LeadRow]
      BY <1>0, <1>e, <3>1
    <3> QED BY <1>11, <3>1, <3>2, TurnMoves DEF BookingLead, Saving, TypeOK
  <2>2. CASE t.lead # NoLead
    <3>1. leads' = leads /\ Saving(w, t.lead)
      BY <1>11, <2>2 DEF BookingLead
    <3> QED BY <1>0, <1>11, <3>1, TurnMoves DEF BookingLead, Saving, TypeOK
  <2> QED BY <2>1, <2>2
<1>12. CASE NothingToPersist(w)
  BY <1>0, <1>12, TurnMoves DEF NothingToPersist, Saving, TypeOK
<1>13. CASE MarkWaiting(w)
  <2>1. "waiting" \in ChatStatus /\ "handoff" \in PC
    BY DEF ChatStatus, PC
  <2> QED BY <1>0, <1>13, <1>d, <2>1, TurnMoves DEF MarkWaiting, SetStatus, Goto, TypeOK
<1>14. CASE HandOff(w)
  <2>1. CASE t.lead = NoLead
    <3>1. PICK l \in Lead : CreateLead(l, t.conv, NoFlow, TRUE) /\ Saving(w, l)
      BY <1>14, <2>1 DEF HandOff
    <3>2. leads' \in [Lead -> LeadRow]
      BY <1>0, <1>e, <3>1
    <3> QED BY <1>14, <3>1, <3>2, TurnMoves DEF HandOff, Saving, TypeOK
  <2>2. CASE t.lead # NoLead
    <3>1. /\ leads' = [leads EXCEPT ![t.lead] = [@ EXCEPT !.handoff = TRUE]]
          /\ Saving(w, t.lead)
          /\ t.lead \in Lead
      BY <1>0, <1>14, <2>2 DEF HandOff
    <3>2. leads' \in [Lead -> LeadRow]
      BY <1>b, <3>1, RowUpdates DEF TypeOK
    <3> QED BY <1>0, <1>14, <3>1, <3>2, TurnMoves DEF HandOff, Saving, TypeOK
  <2> QED BY <2>1, <2>2
<1>15. CASE RejectTransaction(w)
  BY <1>15, TurnMoves DEF RejectTransaction, Finish, TypeOK
<1>16. CASE SaveState(w)
  <2>1. chats' \in [Conv -> Chat]
    BY <1>0, <1>16, <1>a, ChatUpdates DEF SaveState, SetState, TypeOK, Chat
  <2>2. "reply" \in PC
    BY DEF PC
  <2> QED BY <1>16, <2>1, <2>2, TurnMoves DEF SaveState, Goto, TypeOK
<1>17. CASE Reply(w)
  <2>1. turns' \in [Worker -> Turn]
    <3>1. Goto(w, "close") \/ Finish(w)
      BY <1>17 DEF Reply
    <3>2. "close" \in PC
      BY DEF PC
    <3>3. CASE Goto(w, "close")
      BY <3>2, <3>3, TurnMoves DEF Goto
    <3>4. CASE Finish(w)
      BY <3>4, TurnMoves DEF Finish
    <3> QED BY <3>1, <3>3, <3>4
  <2> QED BY <1>0, <1>17, <1>c, <2>1 DEF Reply, AppendMessage, TypeOK
<1>18. CASE CloseChat(w)
  <2>1. "closed" \in ChatStatus
    BY DEF ChatStatus
  <2> QED BY <1>0, <1>18, <1>d, <2>1, TurnMoves DEF CloseChat, SetStatus, Finish, TypeOK
<1> QED
  BY <1>1, <1>2, <1>3, <1>4, <1>5, <1>6, <1>7, <1>8, <1>9, <1>10, <1>11, <1>12,
     <1>13, <1>14, <1>15, <1>16, <1>17, <1>18 DEF TurnStep

\* Neither does the arrival of a message.
LEMMA ReceiveType ==
  ASSUME TypeOK, NEW w \in Worker, NEW c \in Conv, NEW m \in Inbound, Receive(w, c, m)
  PROVE  TypeOK'
<1>1. m \in Message
  BY InboundAssumption
<1>2. [IdleTurn EXCEPT !.pc = "status", !.conv = c, !.msg = m] \in Turn
  BY <1>1, InitialValues DEF Turn, PC
<1>3. turns' \in [Worker -> Turn]
  BY <1>2 DEF Receive, TypeOK
<1>4. notices' \in [Conv -> 0 .. 2]
  BY DEF Receive, TypeOK
<1>5. used' \in [inbound : Nat, owner : Nat, fail : Nat, torn : BOOLEAN]
  BY DEF Receive, TypeOK
<1> QED BY <1>3, <1>4, <1>5 DEF Receive, TypeOK

\* Counting a failure or a dashboard operation.
LEMMA UsedType ==
  ASSUME TypeOK
  PROVE  /\ [used EXCEPT !.fail = @ + 1]
               \in [inbound : Nat, owner : Nat, fail : Nat, torn : BOOLEAN]
         /\ [used EXCEPT !.owner = @ + 1]
               \in [inbound : Nat, owner : Nat, fail : Nat, torn : BOOLEAN]
         /\ \A b \in BOOLEAN : [used EXCEPT !.fail = @ + 1, !.torn = b]
                                \in [inbound : Nat, owner : Nat, fail : Nat, torn : BOOLEAN]
<1>1. used \in [inbound : Nat, owner : Nat, fail : Nat, torn : BOOLEAN]
  BY DEF TypeOK
<1>2. PICK f \in Nat, o \in Nat : f = used.fail + 1 /\ o = used.owner + 1
  BY <1>1
<1>3. /\ [used EXCEPT !.fail = f] \in [inbound : Nat, owner : Nat, fail : Nat, torn : BOOLEAN]
      /\ [used EXCEPT !.owner = o] \in [inbound : Nat, owner : Nat, fail : Nat, torn : BOOLEAN]
  BY <1>1
<1>4. \A b \in BOOLEAN : [used EXCEPT !.fail = f, !.torn = b]
                            \in [inbound : Nat, owner : Nat, fail : Nat, torn : BOOLEAN]
  BY <1>1
<1>5. /\ [used EXCEPT !.fail = f] = [used EXCEPT !.fail = @ + 1]
      /\ [used EXCEPT !.owner = o] = [used EXCEPT !.owner = @ + 1]
      /\ \A b : [used EXCEPT !.fail = f, !.torn = b] = [used EXCEPT !.fail = @ + 1, !.torn = b]
  BY <1>2
<1> QED BY <1>3, <1>4, <1>5

\* Neither does any operation of the dashboard.
LEMMA OwnerStepType ==
  ASSUME TypeOK, OwnerStep
  PROVE  TypeOK'
<1>a. \A c \in Conv : chats[c] \in Chat
  BY DEF TypeOK
<1>b. \A l \in Lead : leads[l] \in LeadRow
  BY DEF TypeOK
<1>1. ASSUME NEW c \in Conv, NEW s \in ChatStatus \ {"none"}, OwnerSetsStatus(c, s)
      PROVE  TypeOK'
  <2>1. chats' \in [Conv -> Chat]
    BY <1>1, <1>a, ChatUpdates DEF OwnerSetsStatus, SetStatus, TypeOK
  <2> QED BY <1>1, <2>1, UsedType DEF OwnerSetsStatus, OwnerDoes, TypeOK
<1>2. ASSUME NEW c \in Conv, OwnerReplies(c)
      PROVE  TypeOK'
  <2>1. chats' \in [Conv -> Chat]
    BY <1>2, <1>a, ChatUpdates DEF OwnerReplies, AppendMessage, TypeOK
  <2> QED BY <1>2, <2>1, UsedType DEF OwnerReplies, OwnerDoes, TypeOK
<1>3. ASSUME NEW l \in Lead, NEW s \in LeadStatus, OwnerSetsLeadStatus(l, s)
      PROVE  TypeOK'
  <2>1. leads[l].reason \in CloseReason
    BY <1>b DEF LeadRow
  <2> DEFINE r == IF s = "closed" /\ chats[leads[l].conv].status \in Handled
                  THEN "answered" ELSE leads[l].reason
  <2>2. /\ leads' = [leads EXCEPT ![l] = [@ EXCEPT !.status = s, !.idle = 0, !.reason = r]]
        /\ r \in CloseReason
    BY <1>3, <2>1 DEF OwnerSetsLeadStatus, CloseReason
  <2> HIDE DEF r
  <2>3. leads' \in [Lead -> LeadRow]
    BY <1>b, <2>2, RowUpdates DEF TypeOK
  <2> QED BY <1>3, <2>3, UsedType DEF OwnerSetsLeadStatus, OwnerDoes, TypeOK
<1>4. ASSUME NEW l \in Lead, OwnerDeletesLead(l)
      PROVE  TypeOK'
  <2>1. leads' \in [Lead -> LeadRow]
    BY <1>4, <1>b, RowUpdates DEF OwnerDeletesLead, TypeOK
  <2> QED BY <1>4, <2>1, UsedType DEF OwnerDeletesLead, OwnerDoes, TypeOK
<1>5. ASSUME NEW cfg \in Configs, OwnerSavesBot(cfg)
      PROVE  TypeOK'
  BY <1>5, UsedType DEF OwnerSavesBot, OwnerDoes, TypeOK
<1> QED BY <1>1, <1>2, <1>3, <1>4, <1>5 DEF OwnerStep

\* Neither does a step of the stale-handoff sweep, or its failure.
LEMMA SweepStepType ==
  ASSUME TypeOK, NEW s \in Sweeper, SweepStep(s) \/ SweepFails(s)
  PROVE  TypeOK'
<1>a. \A c \in Conv : chats[c] \in Chat
  BY DEF TypeOK
<1>b. sweeps[s] \in Sweep /\ sweeps[s].conv \in Conv
  BY DEF TypeOK, Sweep
<1>1. CASE SweepList(s)
  <2>1. StaleChats \in SUBSET Conv
    BY DEF StaleChats
  <2>2. sweeps' \in [Sweeper -> Sweep]
    BY <1>1, <1>b, <2>1 DEF SweepList, TypeOK, Sweep
  <2> QED BY <1>1, <2>2 DEF SweepList, TypeOK
<1>2. ASSUME NEW c \in Conv, SweepSend(s, c)
      PROVE  TypeOK'
  <2>1. sweeps' \in [Sweeper -> Sweep]
    BY <1>2, <1>b DEF SweepSend, TypeOK, Sweep
  <2>2. notices' \in [Conv -> 0 .. 2]
    BY <1>2 DEF SweepSend, TypeOK
  <2> QED BY <1>2, <2>1, <2>2 DEF SweepSend, TypeOK
<1>3. CASE SweepAppend(s)
  <2>1. chats' \in [Conv -> Chat]
    BY <1>3, <1>a, <1>b, ChatUpdates DEF SweepAppend, AppendMessage, TypeOK
  <2>2. sweeps' \in [Sweeper -> Sweep]
    BY <1>3, <1>b DEF SweepAppend, TypeOK, Sweep
  <2> QED BY <1>3, <2>1, <2>2 DEF SweepAppend, TypeOK
<1>4. CASE SweepClose(s)
  <2>1. chats' \in [Conv -> Chat]
    BY <1>4, <1>a, <1>b, ChatUpdates DEF SweepClose, SetStatus, TypeOK, ChatStatus
  <2>2. sweeps' \in [Sweeper -> Sweep]
    BY <1>4, <1>b DEF SweepClose, TypeOK, Sweep
  <2> QED BY <1>4, <2>1, <2>2 DEF SweepClose, TypeOK
<1>5. CASE SweepDone(s)
  BY <1>5, InitialValues DEF SweepDone, TypeOK
<1>6. CASE SweepFails(s)
  <2>1. sweeps' \in [Sweeper -> Sweep]
    <3>1. CASE sweeps' = [sweeps EXCEPT ![s] = IdleSweep]
      BY <3>1, InitialValues DEF TypeOK
    <3>2. CASE sweeps' = [sweeps EXCEPT ![s].pc = "pass"]
      BY <1>b, <3>2 DEF TypeOK, Sweep
    <3> QED BY <1>6, <3>1, <3>2 DEF SweepFails
  <2> QED BY <1>6, <2>1, UsedType DEF SweepFails, TypeOK
<1> QED BY <1>1, <1>2, <1>3, <1>4, <1>5, <1>6 DEF SweepStep

\* Neither do the abandoned sweep, the expiry of keys and locks, and time.
LEMMA BackgroundStepType ==
  ASSUME TypeOK,
         \/ LockExpires \/ AbandonLeads \/ AbandonFails \/ Tick
         \/ \E c \in Conv : CloseAbandoned(c) \/ ChatExpires(c)
  PROVE  TypeOK'
<1>a. \A c \in Conv : chats[c] \in Chat
  BY DEF TypeOK
<1>b. \A l \in Lead : leads[l] \in LeadRow
  BY DEF TypeOK
<1>1. CASE LockExpires
  BY <1>1 DEF LockExpires, TypeOK
<1>2. CASE AbandonLeads
  <2>1. \A l \in Lead :
          [leads[l] EXCEPT !.status = "abandoned", !.reason = "abandoned"] \in LeadRow
    BY <1>b, RowUpdates
  <2>2. leads' \in [Lead -> LeadRow]
    BY <1>2, <1>b, <2>1 DEF AbandonLeads
  <2>3. \A l \in Abandoned : leads[l].conv \in Conv
    BY <1>b DEF Abandoned, LeadRow
  <2>4. toClose' \subseteq Conv
    BY <1>2, <2>3 DEF AbandonLeads, TypeOK
  <2> QED BY <1>2, <2>2, <2>4 DEF AbandonLeads, TypeOK
<1>3. CASE AbandonFails
  BY <1>3, UsedType DEF AbandonFails, TypeOK
<1>4. CASE Tick
  <2>1. \A c \in Conv : [chats[c] EXCEPT !.idle = Older(@)] \in Chat
    BY <1>a, ChatUpdates
  <2>2. \A l \in Lead : [leads[l] EXCEPT !.idle = Older(@)] \in LeadRow
    BY <1>b, RowUpdates
  <2>3. \A w \in Worker : turns[w] \in Turn /\ [turns[w] EXCEPT !.age = @ + 1] \in Turn
    BY DEF TypeOK, Turn
  <2>4. chats' \in [Conv -> Chat]
    BY <1>4, <1>a, <2>1 DEF Tick
  <2>5. leads' \in [Lead -> LeadRow]
    BY <1>4, <1>b, <2>2 DEF Tick
  <2>6. turns' \in [Worker -> Turn]
    BY <1>4, <2>3 DEF Tick
  <2> QED BY <1>4, <2>4, <2>5, <2>6 DEF Tick, TypeOK
<1>5. ASSUME NEW c \in Conv, CloseAbandoned(c)
      PROVE  TypeOK'
  <2>1. chats' \in [Conv -> Chat]
    BY <1>5, <1>a, ChatUpdates DEF CloseAbandoned, SetStatus, TypeOK, ChatStatus
  <2> QED BY <1>5, <2>1 DEF CloseAbandoned, TypeOK
<1>6. ASSUME NEW c \in Conv, ChatExpires(c)
      PROVE  TypeOK'
  BY <1>6, InitialValues DEF ChatExpires, ResetConversation, TypeOK
<1> QED BY <1>1, <1>2, <1>3, <1>4, <1>5, <1>6

\* The empty stores are well formed.
LEMMA InitType == Init => TypeOK
<1> SUFFICES ASSUME Init PROVE TypeOK
  OBVIOUS
<1>1. Hour + 1 \in Age
  BY BoundsAssumption DEF Age
<1> QED BY <1>1, InitialValues DEF Init, TypeOK

\* Every step of the system keeps the types.
LEMMA NextType ==
  ASSUME TypeOK, [Next]_vars
  PROVE  TypeOK'
<1>1. ASSUME NEW w \in Worker, TurnFails(w)
      PROVE  TypeOK'
  <2>1. PICK b \in BOOLEAN : used' = [used EXCEPT !.fail = @ + 1, !.torn = b]
    BY <1>1 DEF TurnFails, Torn, TypeOK
  <2>2. used' \in [inbound : Nat, owner : Nat, fail : Nat, torn : BOOLEAN]
    BY <2>1, UsedType
  <2> QED BY <1>1, <2>2, TurnMoves DEF TurnFails, Finish, TypeOK
<1>2. CASE UNCHANGED vars
  BY <1>2 DEF vars, TypeOK
<1> QED BY <1>1, <1>2, TurnStepType, ReceiveType, OwnerStepType, SweepStepType,
           BackgroundStepType DEF Next

\* Every store and every process in flight holds well-formed data, whatever
\* interleaves, fails or expires: the states run_turn and the sweeps read back
\* from Redis and Postgres are ones the engine and the queries are defined on.
THEOREM TypeCorrect == Spec => []TypeOK
<1>1. Init => TypeOK
  BY InitType
<1>2. TypeOK /\ [Next]_vars => TypeOK'
  BY NextType
<1> QED BY <1>1, <1>2, PTL DEF Spec

-----------------------------------------------------------------------------
(* The lead pointer *)

\* A lead row, once created, exists for ever (a deleted one keeps its id) and
\* never changes hands.
Kept(rows, later) ==
  \A l \in Lead : rows[l].status # "unused" =>
    /\ later[l].status # "unused"
    /\ later[l].conv = rows[l].conv
    /\ later[l].flow = rows[l].flow

\* What a turn in flight knows of the lead it is about to write and to save.
TurnSound(rows, t) ==
  /\ t.res.state.phase = "in_flow" => t.res.event = NoEvent
  /\ t.pc = "handoff" => t.res.event = "handed_off"
  /\ t.pc = "persist" /\ t.lead # NoLead /\ t.res.state.phase = "in_flow" =>
       PointerOK(rows, t.conv, t.res.state, t.lead)
  /\ t.pc = "save" /\ t.res.state.phase = "in_flow" =>
       PointerOK(rows, t.conv, t.res.state, t.lead)

PointerInv ==
  /\ TypeOK
  /\ LeadPointerSound
  /\ \A w \in Worker : TurnSound(leads, turns[w])

\* A pointer stays sound when the rows keep their chat and flow.
LEMMA PointerKept ==
  ASSUME NEW rows, NEW later, Kept(rows, later),
         NEW c, NEW st, NEW l, PointerOK(rows, c, st, l)
  PROVE  PointerOK(later, c, st, l)
  BY DEF Kept, PointerOK

\* So does what a turn in flight knows about its lead.
LEMMA TurnKept ==
  ASSUME NEW rows, NEW later, Kept(rows, later), NEW t, TurnSound(rows, t)
  PROVE  TurnSound(later, t)
  BY PointerKept DEF TurnSound

\* Updating one row of the table without touching whose it is.
LEMMA UpdateKeeps ==
  ASSUME TypeOK, NEW l \in Lead, NEW row,
         leads' = [leads EXCEPT ![l] = row],
         leads[l].status # "unused" =>
           row.status # "unused" /\ row.conv = leads[l].conv /\ row.flow = leads[l].flow
  PROVE  Kept(leads, leads')
  BY DEF TypeOK, Kept

\* create_lead takes an unused row, so every other row keeps its chat and flow.
LEMMA CreateKeeps ==
  ASSUME TypeOK, NEW l \in Lead, NEW c, NEW f, NEW h, CreateLead(l, c, f, h)
  PROVE  Kept(leads, leads')
  BY DEF CreateLead, TypeOK, Kept

\* No statement of services/leads but create_lead changes whose a row is.
LEMMA RowFields ==
  ASSUME NEW row \in LeadRow
  PROVE  /\ \A a : LET new == [row EXCEPT !.answers = a, !.idle = 0] IN
               new.status = row.status /\ new.conv = row.conv /\ new.flow = row.flow
         /\ \A a : LET new == [row EXCEPT !.answers = a, !.status = "new",
                                         !.reason = "completed", !.idle = 0] IN
               new.status # "unused" /\ new.conv = row.conv /\ new.flow = row.flow
         /\ LET new == [row EXCEPT !.idle = 0] IN
               new.status = row.status /\ new.conv = row.conv /\ new.flow = row.flow
         /\ LET new == [row EXCEPT !.handoff = TRUE] IN
               new.status = row.status /\ new.conv = row.conv /\ new.flow = row.flow
  BY DEF LeadRow

\* No step of the system changes the chat or the flow of a row once it exists.
LEMMA RowsKept ==
  ASSUME TypeOK, [Next]_vars
  PROVE  Kept(leads, leads')
<1>a. \A l \in Lead : leads[l] \in LeadRow
  BY DEF TypeOK
<1>b. leads' = leads => Kept(leads, leads')
  BY DEF Kept
<1>1. ASSUME NEW w \in Worker, TurnStep(w)
      PROVE  Kept(leads, leads')
  <2> DEFINE t == turns[w]
  <2>0. t.conv \in Conv /\ t.lead \in Lead \cup {NoLead}
    BY DEF TypeOK, Turn
  <2>1. CASE SilentTouch(w)
    <3>1. CASE NewestLeads(t.conv) = {}
      BY <1>b, <2>1, <3>1 DEF SilentTouch
    <3>2. CASE NewestLeads(t.conv) # {}
      <4>1. PICK l \in NewestLeads(t.conv) : TouchLead(l)
        BY <2>1, <3>2 DEF SilentTouch
      <4>2. l \in Lead
        BY DEF NewestLeads, LeadsOf
      <4> QED BY <1>a, <4>1, <4>2, RowFields, UpdateKeeps DEF TouchLead
    <3> QED BY <3>1, <3>2
  <2>2. CASE StartLead(w)
    BY <2>2, CreateKeeps DEF StartLead
  <2>3. CASE RecordStep(w)
    <3>1. t.lead \in Lead /\ UpdateLead(t.lead, t.res.state.collected)
      BY <2>0, <2>3 DEF RecordStep, AnsweredStep
    <3> DEFINE row == [leads[t.lead] EXCEPT !.answers = t.res.state.collected, !.idle = 0]
    <3>2. leads' = [leads EXCEPT ![t.lead] = row]
      BY <3>1 DEF UpdateLead
    <3>3. /\ row.status = leads[t.lead].status
          /\ row.conv = leads[t.lead].conv
          /\ row.flow = leads[t.lead].flow
      BY <1>a, <3>1, RowFields
    <3> HIDE DEF row
    <3> QED BY <3>1, <3>2, <3>3, UpdateKeeps
  <2>4. CASE FinishLead(w)
    <3>1. CASE t.lead = NoLead
      BY <1>b, <2>4, <3>1 DEF FinishLead
    <3>2. CASE t.lead # NoLead
      <4>1. t.lead \in Lead /\ CompleteLead(t.lead, t.res.lead)
        BY <2>0, <2>4, <3>2 DEF FinishLead
      <4> QED BY <1>a, <4>1, RowFields, UpdateKeeps DEF CompleteLead
    <3> QED BY <3>1, <3>2
  <2>5. CASE BookingLead(w)
    BY <1>b, <2>5, CreateKeeps DEF BookingLead
  <2>6. CASE HandOff(w)
    <3>1. CASE t.lead = NoLead
      BY <2>6, <3>1, CreateKeeps DEF HandOff
    <3>2. CASE t.lead # NoLead
      <4>1. /\ t.lead \in Lead
            /\ leads' = [leads EXCEPT ![t.lead] = [@ EXCEPT !.handoff = TRUE]]
        BY <2>0, <2>6, <3>2 DEF HandOff
      <4> QED BY <1>a, <4>1, RowFields, UpdateKeeps
    <3> QED BY <3>1, <3>2
  <2>7. CASE \/ ReadStatus(w) \/ ReadActivity(w) \/ ResetChat(w) \/ SilentLog(w)
             \/ LogMessage(w) \/ LoadAndAdvance(w) \/ NothingToPersist(w)
             \/ MarkWaiting(w) \/ RejectTransaction(w) \/ SaveState(w)
             \/ Reply(w) \/ CloseChat(w)
    BY <1>b, <2>7 DEF ReadStatus, ReadActivity, ResetChat, SilentLog, LogMessage,
       LoadAndAdvance, NothingToPersist, MarkWaiting, RejectTransaction, SaveState,
       Reply, CloseChat
  <2> QED BY <1>1, <2>1, <2>2, <2>3, <2>4, <2>5, <2>6, <2>7 DEF TurnStep
<1>2. ASSUME NEW l \in Lead, NEW s \in LeadStatus, OwnerSetsLeadStatus(l, s)
      PROVE  Kept(leads, leads')
  BY <1>a, <1>2 DEF OwnerSetsLeadStatus, Kept, LeadRow, LeadStatus, TypeOK
<1>3. ASSUME NEW l \in Lead, OwnerDeletesLead(l)
      PROVE  Kept(leads, leads')
  BY <1>a, <1>3 DEF OwnerDeletesLead, Kept, LeadRow, TypeOK
<1>4. CASE AbandonLeads
  BY <1>a, <1>4 DEF AbandonLeads, Kept, LeadRow
<1>5. CASE Tick
  BY <1>a, <1>5 DEF Tick, Kept, LeadRow
<1>6. CASE UNCHANGED leads
  BY <1>b, <1>6
<1> QED
  BY <1>1, <1>2, <1>3, <1>4, <1>5, <1>6
  DEF Next, OwnerStep, SweepStep, vars, Receive, TurnFails, OwnerSetsStatus,
      OwnerReplies, OwnerSavesBot, SweepList, SweepSend, SweepAppend, SweepClose,
      SweepDone, SweepFails, LockExpires, CloseAbandoned, ChatExpires, AbandonFails

\* Steps that leave the engine state and the lead id of every chat alone, and
\* do not move a turn forward, keep the invariant.
LEMMA OtherStepKeeps ==
  ASSUME PointerInv, [Next]_vars,
         \A c \in Conv : chats'[c].state = chats[c].state /\ chats'[c].lead = chats[c].lead,
         \A w \in Worker : /\ turns'[w].pc = turns[w].pc /\ turns'[w].conv = turns[w].conv
                           /\ turns'[w].lead = turns[w].lead /\ turns'[w].res = turns[w].res
  PROVE  PointerInv'
<1>1. TypeOK' /\ Kept(leads, leads')
  BY NextType, RowsKept DEF PointerInv
<1>2. ASSUME NEW c \in Conv
      PROVE  PointerOK(leads', c, chats'[c].state, chats'[c].lead)
  BY <1>1, PointerKept DEF PointerInv, LeadPointerSound
<1>3. ASSUME NEW w \in Worker
      PROVE  TurnSound(leads', turns'[w])
  <2>1. TurnSound(leads', turns[w])
    BY <1>1, TurnKept DEF PointerInv
  <2> QED BY <2>1 DEF TurnSound
<1> QED BY <1>1, <1>2, <1>3 DEF PointerInv, LeadPointerSound

\* A step of one turn, from what it does to its chat and to itself.
LEMMA OneTurnKeeps ==
  ASSUME PointerInv, [Next]_vars, NEW w \in Worker,
         \A c \in Conv : \/ chats'[c].state = chats[c].state /\ chats'[c].lead = chats[c].lead
                        \/ PointerOK(leads', c, chats'[c].state, chats'[c].lead),
         \A v \in Worker \ {w} : turns'[v] = turns[v],
         TurnSound(leads', turns'[w])
  PROVE  PointerInv'
<1>1. TypeOK' /\ Kept(leads, leads')
  BY NextType, RowsKept DEF PointerInv
<1>2. ASSUME NEW c \in Conv
      PROVE  PointerOK(leads', c, chats'[c].state, chats'[c].lead)
  BY <1>1, PointerKept DEF PointerInv, LeadPointerSound
<1>3. ASSUME NEW v \in Worker
      PROVE  TurnSound(leads', turns'[v])
  BY <1>1, TurnKept DEF PointerInv
<1> QED BY <1>1, <1>2, <1>3 DEF PointerInv, LeadPointerSound

\* The accessors other than set_state and reset_conversation.
LEMMA AccessorsKeepPointers ==
  ASSUME TypeOK, NEW c \in Conv
  PROVE  /\ AppendMessage(c) => \A d \in Conv :
              chats'[d].state = chats[d].state /\ chats'[d].lead = chats[d].lead
         /\ \A s : SetStatus(c, s) => \A d \in Conv :
              chats'[d].state = chats[d].state /\ chats'[d].lead = chats[d].lead
<1>1. \A d \in Conv : chats[d] \in Chat
  BY DEF TypeOK
<1>2. \A chat \in Chat : /\ Stamped(chat).state = chat.state
                        /\ Stamped(chat).lead = chat.lead
  BY DEF Stamped, Chat
<1>3. \A chat \in Chat : \A s : /\ WithStatus(chat, s).state = chat.state
                                 /\ WithStatus(chat, s).lead = chat.lead
  BY DEF WithStatus, Stamped, Chat
<1> QED BY <1>1, <1>2, <1>3 DEF AppendMessage, SetStatus, TypeOK

\* reset_conversation leaves no pointer behind.
LEMMA ResetPointer ==
  ASSUME TypeOK, NEW c \in Conv, ResetConversation(c), NEW d \in Conv
  PROVE  \/ chats'[d].state = chats[d].state /\ chats'[d].lead = chats[d].lead
         \/ PointerOK(leads', d, chats'[d].state, chats'[d].lead)
  BY DEF ResetConversation, FreshChat, InitialState, PointerOK, TypeOK

\* A turn outside its transaction and its save owes nothing.
LEMMA MovedTurn ==
  ASSUME TypeOK, NEW w \in Worker, NEW rows, NEW later
  PROVE  /\ \A pc \in PC \ {"persist", "handoff", "save"} :
              Goto(w, pc) /\ TurnSound(rows, turns[w]) => TurnSound(later, turns'[w])
         /\ Finish(w) => TurnSound(later, turns'[w])
         /\ \A pc : Goto(w, pc) => \A v \in Worker \ {w} : turns'[v] = turns[v]
         /\ Finish(w) => \A v \in Worker \ {w} : turns'[v] = turns[v]
<1>1. turns[w] \in Turn
  BY DEF TypeOK
<1>2. TurnSound(later, IdleTurn)
  BY DEF TurnSound, IdleTurn, Result, InitialState
<1>3. \A pc \in PC \ {"persist", "handoff", "save"} :
        TurnSound(rows, turns[w]) => TurnSound(later, [turns[w] EXCEPT !.pc = pc])
  BY <1>1 DEF TurnSound, Turn
<1>4. \A pc : [turns EXCEPT ![w].pc = pc][w] = [turns[w] EXCEPT !.pc = pc]
  BY DEF TypeOK
<1>5. [turns EXCEPT ![w] = IdleTurn][w] = IdleTurn
  BY DEF TypeOK
<1> QED BY <1>2, <1>3, <1>4, <1>5 DEF Goto, Finish, TypeOK

\* Ending the transaction of a turn with lead l.
LEMMA SavingTurn ==
  ASSUME TypeOK, NEW w \in Worker, NEW l, NEW rows, Saving(w, l),
         TurnSound(rows, turns[w]),
         \/ turns[w].res.state.phase # "in_flow"
         \/ PointerOK(leads', turns[w].conv, turns[w].res.state, l)
  PROVE  /\ TurnSound(leads', turns'[w])
         /\ \A v \in Worker \ {w} : turns'[v] = turns[v]
<1>1. turns[w] \in Turn
  BY DEF TypeOK
<1>2. turns'[w] = [turns[w] EXCEPT !.pc = "save", !.lead = l]
  BY DEF Saving, TypeOK
<1>3. /\ turns'[w].pc = "save" /\ turns'[w].lead = l
      /\ turns'[w].res = turns[w].res /\ turns'[w].conv = turns[w].conv
  BY <1>1, <1>2 DEF Turn
<1>4. TurnSound(leads', turns'[w])
  BY <1>3 DEF TurnSound
<1>5. \A v \in Worker \ {w} : turns'[v] = turns[v]
  BY DEF Saving, TypeOK
<1> QED BY <1>4, <1>5

\* Every step of run_turn keeps the pointers sound.
LEMMA TurnStepPointer ==
  ASSUME PointerInv, NEW w \in Worker, TurnStep(w)
  PROVE  PointerInv'
<1> DEFINE t == turns[w]
           Same(c) == chats'[c].state = chats[c].state /\ chats'[c].lead = chats[c].lead
<1>0. /\ TypeOK /\ [Next]_vars /\ Kept(leads, leads') /\ TurnSound(leads, t)
      /\ t \in Turn /\ t.conv \in Conv /\ t.lead \in Lead \cup {NoLead}
  <2>1. TypeOK /\ [Next]_vars /\ TurnSound(leads, t)
    BY DEF PointerInv, Next
  <2>2. Kept(leads, leads')
    BY <2>1, RowsKept
  <2> QED BY <2>1, <2>2 DEF TypeOK, Turn
<1>a. ASSUME \A c \in Conv : Same(c),
             TurnSound(leads', turns'[w]), \A v \in Worker \ {w} : turns'[v] = turns[v]
      PROVE  PointerInv'
  BY <1>0, <1>a, OneTurnKeeps
<1>b. chats' = chats => \A c \in Conv : Same(c)
  OBVIOUS
<1>c. ASSUME NEW pc \in PC \ {"persist", "handoff", "save"}, Goto(w, pc)
      PROVE  TurnSound(leads', turns'[w]) /\ \A v \in Worker \ {w} : turns'[v] = turns[v]
  BY <1>0, <1>c, MovedTurn
<1>d. ASSUME Finish(w)
      PROVE  TurnSound(leads', turns'[w]) /\ \A v \in Worker \ {w} : turns'[v] = turns[v]
  BY <1>0, <1>d, MovedTurn
<1>e. \A pc \in {"reset", "silent", "touch", "log", "load", "reply", "close"} :
        pc \in PC \ {"persist", "handoff", "save"}
  BY DEF PC
<1>1. CASE ReadStatus(w)
  <2>1. PICK s \in ChatStatus, pc \in PC \ {"persist", "handoff", "save"} :
          turns' = [turns EXCEPT ![w] = [@ EXCEPT !.status = s, !.pc = pc]]
    <3> DEFINE next == IF chats[t.conv].status \in Handled THEN "activity"
                       ELSE IF chats[t.conv].status = "closed" THEN "reset" ELSE "log"
    <3>1. turns' = [turns EXCEPT ![w] =
                      [@ EXCEPT !.status = chats[t.conv].status, !.pc = next]]
      BY <1>1 DEF ReadStatus
    <3>2. next \in PC \ {"persist", "handoff", "save"}
      BY DEF PC
    <3>3. chats[t.conv].status \in ChatStatus
      BY <1>0 DEF TypeOK, Chat
    <3> HIDE DEF next
    <3> QED BY <3>1, <3>2, <3>3
  <2>2. turns'[w] = [t EXCEPT !.status = s, !.pc = pc]
    BY <1>0, <2>1 DEF TypeOK
  <2>3. turns'[w].pc = pc /\ turns'[w].res = t.res
    BY <1>0, <2>2 DEF Turn
  <2>4. TurnSound(leads', turns'[w])
    BY <1>0, <2>3 DEF TurnSound
  <2>5. \A v \in Worker \ {w} : turns'[v] = turns[v]
    BY <1>0, <2>1 DEF TypeOK
  <2> QED BY <1>1, <1>a, <1>b, <2>4, <2>5 DEF ReadStatus
<1>2. CASE ReadActivity(w)
  <2>1. Goto(w, "reset") \/ Goto(w, "silent")
    BY <1>2 DEF ReadActivity
  <2> QED BY <1>2, <1>a, <1>b, <1>c, <1>e, <2>1 DEF ReadActivity
<1>3. CASE ResetChat(w)
  <2>1. TurnSound(leads', turns'[w]) /\ \A v \in Worker \ {w} : turns'[v] = turns[v]
    BY <1>3, <1>c, <1>e DEF ResetChat
  <2>2. \A c \in Conv : Same(c) \/ PointerOK(leads', c, chats'[c].state, chats'[c].lead)
    BY <1>0, <1>3, ResetPointer DEF ResetChat
  <2> QED BY <1>0, <2>1, <2>2, OneTurnKeeps
<1>4. CASE SilentLog(w)
  BY <1>0, <1>4, <1>a, <1>c, <1>e, AccessorsKeepPointers DEF SilentLog
<1>5. CASE SilentTouch(w)
  BY <1>5, <1>a, <1>b, <1>d DEF SilentTouch
<1>6. CASE LogMessage(w)
  BY <1>0, <1>6, <1>a, <1>c, <1>e, AccessorsKeepPointers DEF LogMessage
<1>7. CASE LoadAndAdvance(w)
  <2> DEFINE chat == chats[t.conv]
             res == Advance(bot, chat.state, t.msg)
  <2>1. bot \in Config /\ chat.state \in EngineState /\ t.msg \in Message
    BY <1>0, ConfigsAssumption DEF TypeOK, Chat, Turn
  <2>2. SameFlow(chat.state, res)
    BY <2>1, AdvanceType
  <2>3. PointerOK(leads, t.conv, chat.state, chat.lead)
    BY <1>0 DEF PointerInv, LeadPointerSound
  <2>4. turns'[w] = [t EXCEPT !.pc = "persist", !.lead = chat.lead, !.res = res]
    BY <1>0, <1>7 DEF LoadAndAdvance, TypeOK
  <2>5. /\ turns'[w].pc = "persist" /\ turns'[w].lead = chat.lead
        /\ turns'[w].res = res /\ turns'[w].conv = t.conv
    BY <1>0, <2>4 DEF Turn
  <2>6. leads' = leads
    BY <1>7 DEF LoadAndAdvance
  <2> HIDE DEF res
  <2>7. TurnSound(leads', turns'[w])
    BY <2>2, <2>3, <2>5, <2>6 DEF TurnSound, SameFlow, PointerOK
  <2>8. \A v \in Worker \ {w} : turns'[v] = turns[v]
    BY <1>0, <1>7 DEF LoadAndAdvance, TypeOK
  <2> QED BY <1>7, <1>a, <1>b, <2>7, <2>8 DEF LoadAndAdvance
<1>8. CASE StartLead(w)
  <2>1. PICK l \in Lead :
          CreateLead(l, t.conv, t.res.state.flow, FALSE) /\ Saving(w, l)
    BY <1>8 DEF StartLead
  <2>2. leads'[l] = NewLead(t.conv, t.res.state.flow, FALSE)
    BY <1>0, <2>1 DEF CreateLead, TypeOK
  <2>3. PointerOK(leads', t.conv, t.res.state, l)
    BY <1>8, <2>2 DEF StartLead, EnteredFlow, PointerOK, NewLead
  <2> QED BY <1>0, <1>8, <1>a, <1>b, <2>1, <2>3, SavingTurn DEF StartLead
<1>9. CASE RecordStep(w)
  <2>1. Saving(w, t.lead) /\ chats' = chats
    BY <1>9 DEF RecordStep
  <2>2. PointerOK(leads, t.conv, t.res.state, t.lead)
    BY <1>0, <1>9 DEF RecordStep, AnsweredStep, TurnSound
  <2>3. PointerOK(leads', t.conv, t.res.state, t.lead)
    BY <1>0, <2>2, PointerKept
  <2> QED BY <1>0, <1>a, <1>b, <2>1, <2>3, SavingTurn
<1>10. CASE FinishLead(w) \/ NothingToPersist(w)
  <2>1. Saving(w, t.lead) /\ chats' = chats
    BY <1>10 DEF FinishLead, NothingToPersist
  <2>2. t.res.state.phase # "in_flow"
    BY <1>0, <1>10 DEF FinishLead, NothingToPersist, TurnSound, NoEvent
  <2> QED BY <1>0, <1>a, <1>b, <2>1, <2>2, SavingTurn
<1>11. CASE BookingLead(w) \/ HandOff(w)
  <2>1. chats' = chats /\ \E l \in Lead \cup {NoLead} : Saving(w, l)
    BY <1>0, <1>11 DEF BookingLead, HandOff
  <2>2. t.res.state.phase # "in_flow"
    BY <1>0, <1>11 DEF BookingLead, HandOff, TurnSound, NoEvent
  <2> QED BY <1>0, <1>a, <1>b, <2>1, <2>2, SavingTurn
<1>12. CASE MarkWaiting(w)
  <2>1. \A c \in Conv : Same(c)
    BY <1>0, <1>12, AccessorsKeepPointers DEF MarkWaiting
  <2>2. turns'[w] = [t EXCEPT !.pc = "handoff"]
    BY <1>0, <1>12 DEF MarkWaiting, Goto, TypeOK
  <2>3. turns'[w].pc = "handoff" /\ turns'[w].res = t.res /\ t.res.event = "handed_off"
    BY <1>0, <1>12, <2>2 DEF MarkWaiting, Turn
  <2>4. TurnSound(leads', turns'[w])
    BY <1>0, <2>3 DEF TurnSound, NoEvent
  <2>5. \A v \in Worker \ {w} : turns'[v] = turns[v]
    BY <1>0, <1>12 DEF MarkWaiting, Goto, TypeOK
  <2> QED BY <1>a, <2>1, <2>4, <2>5
<1>13. CASE RejectTransaction(w)
  BY <1>13, <1>a, <1>b, <1>d DEF RejectTransaction
<1>14. CASE SaveState(w)
  <2> DEFINE l == IF t.res.state.phase = "in_flow" THEN t.lead ELSE NoLead
  <2>1. PointerOK(leads, t.conv, t.res.state, l)
    BY <1>0, <1>14 DEF SaveState, TurnSound, PointerOK
  <2>2. PointerOK(leads', t.conv, t.res.state, l)
    BY <1>0, <2>1, PointerKept
  <2>3. chats' = [chats EXCEPT ![t.conv] = [@ EXCEPT !.state = t.res.state, !.lead = l]]
    BY <1>14 DEF SaveState, SetState
  <2> HIDE DEF l
  <2>4. chats[t.conv] \in Chat
    BY <1>0 DEF TypeOK
  <2>5. chats'[t.conv].state = t.res.state /\ chats'[t.conv].lead = l
    BY <1>0, <2>3, <2>4 DEF Chat, TypeOK
  <2>6. \A c \in Conv : c # t.conv => Same(c)
    BY <1>0, <2>3 DEF TypeOK
  <2>7. TurnSound(leads', turns'[w]) /\ \A v \in Worker \ {w} : turns'[v] = turns[v]
    BY <1>14, <1>c, <1>e DEF SaveState
  <2> QED BY <1>0, <2>2, <2>5, <2>6, <2>7, OneTurnKeeps
<1>15. CASE Reply(w)
  <2>1. Goto(w, "close") \/ Finish(w)
    BY <1>15 DEF Reply
  <2>2. TurnSound(leads', turns'[w]) /\ \A v \in Worker \ {w} : turns'[v] = turns[v]
    BY <1>c, <1>d, <1>e, <2>1
  <2> QED BY <1>0, <1>15, <1>a, <2>2, AccessorsKeepPointers DEF Reply
<1>16. CASE CloseChat(w)
  BY <1>0, <1>16, <1>a, <1>d, AccessorsKeepPointers DEF CloseChat
<1> QED
  BY <1>1, <1>2, <1>3, <1>4, <1>5, <1>6, <1>7, <1>8, <1>9, <1>10, <1>11, <1>12,
     <1>13, <1>14, <1>15, <1>16 DEF TurnStep

\* Every step of the system keeps the pointers sound.
LEMMA NextPointer ==
  ASSUME PointerInv, [Next]_vars
  PROVE  PointerInv'
<1>0. TypeOK
  BY DEF PointerInv
<1> DEFINE SameChats == \A c \in Conv : /\ chats'[c].state = chats[c].state
                                       /\ chats'[c].lead = chats[c].lead
<1>1. ASSUME NEW w \in Worker, NEW c \in Conv, NEW m \in Inbound, Receive(w, c, m)
      PROVE  PointerInv'
  <2>1. turns'[w] = [IdleTurn EXCEPT !.pc = "status", !.conv = c, !.msg = m]
    BY <1>0, <1>1 DEF Receive, TypeOK
  <2>2. TurnSound(leads', turns'[w])
    BY <2>1 DEF TurnSound, IdleTurn, Result, InitialState
  <2>3. \A v \in Worker \ {w} : turns'[v] = turns[v]
    BY <1>0, <1>1 DEF Receive, TypeOK
  <2>4. SameChats
    BY <1>1 DEF Receive
  <2> QED BY <2>2, <2>3, <2>4, OneTurnKeeps
<1>2. ASSUME NEW w \in Worker, TurnFails(w)
      PROVE  PointerInv'
  <2>1. TurnSound(leads', turns'[w]) /\ \A v \in Worker \ {w} : turns'[v] = turns[v]
    BY <1>0, <1>2, MovedTurn DEF TurnFails
  <2>2. SameChats
    BY <1>2 DEF TurnFails
  <2> QED BY <2>1, <2>2, OneTurnKeeps
<1>3. CASE turns' = turns /\ SameChats
  BY <1>3, OtherStepKeeps
<1>4. CASE OwnerStep
  <2>1. turns' = turns
    BY <1>4 DEF OwnerStep, OwnerSetsStatus, OwnerReplies, OwnerSetsLeadStatus,
       OwnerDeletesLead, OwnerSavesBot
  <2>2. \/ chats' = chats
        \/ \E c \in Conv : AppendMessage(c) \/ \E s : SetStatus(c, s)
    BY <1>4 DEF OwnerStep, OwnerSetsStatus, OwnerReplies, OwnerSetsLeadStatus,
       OwnerDeletesLead, OwnerSavesBot
  <2>3. SameChats
    BY <1>0, <2>2, AccessorsKeepPointers
  <2> QED BY <1>3, <2>1, <2>3
<1>5. ASSUME NEW s \in Sweeper, SweepStep(s) \/ SweepFails(s)
      PROVE  PointerInv'
  <2>1. turns' = turns
    BY <1>5 DEF SweepStep, SweepList, SweepSend, SweepAppend, SweepClose, SweepDone,
       SweepFails
  <2>2. sweeps[s].conv \in Conv
    BY <1>0 DEF TypeOK, Sweep
  <2>3. \/ chats' = chats
        \/ AppendMessage(sweeps[s].conv)
        \/ SetStatus(sweeps[s].conv, "closed")
    BY <1>5 DEF SweepStep, SweepList, SweepSend, SweepAppend, SweepClose, SweepDone,
       SweepFails
  <2>4. SameChats
    BY <1>0, <2>2, <2>3, AccessorsKeepPointers
  <2> QED BY <1>3, <2>1, <2>4
<1>6. ASSUME NEW c \in Conv, CloseAbandoned(c)
      PROVE  PointerInv'
  BY <1>0, <1>3, <1>6, AccessorsKeepPointers DEF CloseAbandoned
<1>7. ASSUME NEW c \in Conv, ChatExpires(c)
      PROVE  PointerInv'
  <2>1. \A d \in Conv : \/ chats'[d].state = chats[d].state /\ chats'[d].lead = chats[d].lead
                       \/ PointerOK(leads', d, chats'[d].state, chats'[d].lead)
    BY <1>0, <1>7, ResetPointer DEF ChatExpires
  <2>2. turns' = turns /\ leads' = leads
    BY <1>7 DEF ChatExpires
  <2>3. TypeOK'
    BY <1>0, NextType
  <2> QED BY <2>1, <2>2, <2>3 DEF PointerInv, LeadPointerSound
<1>8. CASE Tick
  <2>1. \A c \in Conv : chats[c] \in Chat
    BY <1>0 DEF TypeOK
  <2>2. SameChats
    BY <1>8, <2>1 DEF Tick, Chat
  <2>3. \A w \in Worker : turns[w] \in Turn
    BY <1>0 DEF TypeOK
  <2>4. \A w \in Worker : /\ turns'[w].pc = turns[w].pc /\ turns'[w].conv = turns[w].conv
                         /\ turns'[w].lead = turns[w].lead /\ turns'[w].res = turns[w].res
    BY <1>8, <2>3 DEF Tick, Turn
  <2> QED BY <2>2, <2>4, OtherStepKeeps
<1>9. CASE LockExpires \/ AbandonLeads \/ AbandonFails \/ UNCHANGED vars
  BY <1>3, <1>9 DEF LockExpires, AbandonLeads, AbandonFails, vars
<1> QED
  BY <1>1, <1>2, <1>4, <1>5, <1>6, <1>7, <1>8, <1>9, TurnStepPointer DEF Next

\* However many turns, sweeps, crashes, deletions and dashboard edits interleave,
\* the lead id saved with a questionnaire state (bot_runtime step 6) names a row
\* that was opened for that conversation and that flow, and no lead id is saved
\* outside a questionnaire.
THEOREM LeadPointerAlwaysSound == Spec => []LeadPointerSound
<1>1. Init => PointerInv
  <2> SUFFICES ASSUME Init PROVE PointerInv
    OBVIOUS
  <2>1. LeadPointerSound
    BY DEF Init, LeadPointerSound, PointerOK, FreshChat, InitialState
  <2>2. \A w \in Worker : TurnSound(leads, turns[w])
    BY DEF Init, TurnSound, IdleTurn, Result, InitialState
  <2> QED BY <2>1, <2>2, InitType DEF PointerInv
<1>2. PointerInv /\ [Next]_vars => PointerInv'
  BY NextPointer
<1>3. PointerInv => LeadPointerSound
  BY DEF PointerInv
<1> QED BY <1>1, <1>2, <1>3, PTL DEF Spec

=============================================================================
