------------------------------ MODULE LeadProofs ------------------------------
(***************************************************************************)
(* More theorems about module Conversation: what the bot knows of a         *)
(* customer's answers and requests, for every set of conversations,         *)
(* workers, leads, sweepers and messages.  What an edit of the bot, an      *)
(* overlap of two turns or a crash would break is a hypothesis of the       *)
(* theorem that needs it.                                                   *)
(***************************************************************************)
EXTENDS ConversationProofs

-----------------------------------------------------------------------------
(* The engine and the answers *)

\* The questions up to the next one are those so far and the next one.
LEMMA NextKey ==
  ASSUME NEW cfg \in Config, NEW f, NEW n \in Nat, n < Len(StepsOf(cfg, f))
  PROVE  KeysUpTo(cfg, f, n + 1) = KeysUpTo(cfg, f, n) \cup {StepsOf(cfg, f)[n + 1].key}
<1> DEFINE s == StepsOf(cfg, f)
<1>1. s \in Seq(Step) /\ Len(s) \in Nat /\ DOMAIN s = 1..Len(s)
  BY StepsOfType
<1>2. n + 1 \in DOMAIN s
  BY <1>1
<1>3. {j \in DOMAIN s : j <= n + 1} = {j \in DOMAIN s : j <= n} \cup {n + 1}
  BY <1>1, <1>2
<1> HIDE DEF s
<1>4. {s[i].key : i \in {j \in DOMAIN s : j <= n + 1}}
        = {s[i].key : i \in {j \in DOMAIN s : j <= n}} \cup {s[n + 1].key}
  BY <1>3
<1> QED BY <1>4 DEF s, KeysUpTo

\* Before the first question there is no answer.
LEMMA NoKey ==
  ASSUME NEW cfg \in Config, NEW f
  PROVE  KeysUpTo(cfg, f, 0) = {}
<1>1. StepsOf(cfg, f) \in Seq(Step)
  BY StepsOfType
<1>2. {j \in DOMAIN StepsOf(cfg, f) : j <= 0} = {}
  BY <1>1
<1> QED BY <1>2 DEF KeysUpTo

\* A flow is found under its name.
LEMMA StepsOfPicked ==
  ASSUME NEW cfg \in Config, NEW i \in DOMAIN cfg
  PROVE  StepsOf(cfg, cfg[i].name) = cfg[i].steps
<1>1. cfg[i].name \in FlowNames(cfg)
  BY DEF FlowNames
<1>2. (CHOOSE j \in DOMAIN cfg : cfg[j].name = cfg[i].name) = i
  BY DEF Config
<1> QED BY <1>1, <1>2 DEF StepsOf

\* What one turn of the engine owes: a state whose answers match its step, and a
\* completed lead only with every answer of the flow it was in.
Owed(st, res) ==
  /\ AnswersOK(res.state)
  /\ res.event = "lead_completed" =>
       st.phase = "in_flow" /\ res.lead = AllKeys(bot, st.flow)

\* The states outside a questionnaire hold no answers.
LEMMA OutsideOK == AnswersOK(InitialState) /\ AnswersOK(MenuState) /\ AnswersOK(HandedOffState)
BY DEF AnswersOK, InitialState, MenuState, HandedOffState

\* An answer to a questionnaire.
LEMMA AdvanceInFlowOwed ==
  ASSUME bot \in Config, NEW st \in EngineState, NEW m \in Message,
         st.phase = "in_flow", AnswersOK(st)
  PROVE  Owed(st, AdvanceInFlow(bot, st, m))
<1> DEFINE steps == StepsOf(bot, st.flow)
           answers == st.collected \cup {steps[st.step + 1].key}
<1>1. steps \in Seq(Step) /\ Len(steps) \in Nat /\ st.step \in Nat
  BY StepsOfType DEF EngineState
<1>2. st.step < Len(steps) /\ st.collected = KeysUpTo(bot, st.flow, st.step)
  BY DEF AnswersOK
<1>3. answers = KeysUpTo(bot, st.flow, st.step + 1)
  <2>1. PICK n \in Nat : n = st.step
    BY <1>1
  <2>2. n < Len(StepsOf(bot, st.flow))
    BY <1>2, <2>1
  <2>3. KeysUpTo(bot, st.flow, n + 1)
          = KeysUpTo(bot, st.flow, n) \cup {StepsOf(bot, st.flow)[n + 1].key}
    BY <2>2, NextKey
  <2> QED BY <1>2, <2>1, <2>3
<1>4. \/ AdvanceInFlow(bot, st, m) = Result(st, NoEvent, {})
      \/ st.step + 1 >= Len(steps)
         /\ AdvanceInFlow(bot, st, m) = Result(MenuState, "lead_completed", answers)
      \/ st.step + 1 < Len(steps)
         /\ AdvanceInFlow(bot, st, m)
              = Result(InFlowState(st.flow, st.step + 1, answers), NoEvent, {})
  BY <1>1, <1>2 DEF AdvanceInFlow
<1> HIDE DEF answers
<1>5. CASE AdvanceInFlow(bot, st, m) = Result(st, NoEvent, {})
  BY <1>5 DEF Owed, Result, NoEvent
<1>6. CASE st.step + 1 >= Len(steps)
           /\ AdvanceInFlow(bot, st, m) = Result(MenuState, "lead_completed", answers)
  <2>1. st.step + 1 = Len(steps)
    BY <1>1, <1>2, <1>6
  <2>2. answers = AllKeys(bot, st.flow)
    BY <1>3, <2>1 DEF AllKeys
  <2> QED BY <1>6, <2>2, OutsideOK DEF Owed, Result
<1>7. CASE st.step + 1 < Len(steps)
           /\ AdvanceInFlow(bot, st, m)
                = Result(InFlowState(st.flow, st.step + 1, answers), NoEvent, {})
  <2>1. AnswersOK(InFlowState(st.flow, st.step + 1, answers))
    BY <1>3, <1>7 DEF AnswersOK, InFlowState
  <2> QED BY <1>7, <2>1 DEF Owed, Result, NoEvent
<1> QED BY <1>4, <1>5, <1>6, <1>7

\* A choice at the menu starts a questionnaire at its first question.
LEMMA AdvanceMenuOwed ==
  ASSUME bot \in Config, NEW st, NEW m \in Message
  PROVE  Owed(st, AdvanceMenu(bot, m))
<1>1. CASE m.blank \/ m.pick \notin DOMAIN bot
  <2>1. AdvanceMenu(bot, m) = Result(MenuState, NoEvent, {})
    BY <1>1 DEF AdvanceMenu
  <2> QED BY <2>1, OutsideOK DEF Owed, Result, NoEvent
<1>2. CASE ~(m.blank \/ m.pick \notin DOMAIN bot)
  <2> DEFINE f == bot[m.pick].name
  <2>1. \/ /\ bot[m.pick].steps # <<>>
           /\ AdvanceMenu(bot, m) = Result(InFlowState(f, 0, {}), NoEvent, {})
        \/ AdvanceMenu(bot, m) = Result(HandedOffState, "handed_off", {})
        \/ AdvanceMenu(bot, m) = Result(MenuState, "booking", {})
        \/ AdvanceMenu(bot, m) = Result(MenuState, NoEvent, {})
    BY <1>2 DEF AdvanceMenu
  <2>2. StepsOf(bot, f) = bot[m.pick].steps /\ StepsOf(bot, f) \in Seq(Step)
    BY <1>2, StepsOfPicked, StepsOfType
  <2>3. bot[m.pick].steps # <<>> => 0 < Len(StepsOf(bot, f))
    BY <2>2
  <2>4. KeysUpTo(bot, f, 0) = {}
    BY NoKey
  <2>5. bot[m.pick].steps # <<>> => AnswersOK(InFlowState(f, 0, {}))
    BY <2>3, <2>4 DEF AnswersOK, InFlowState
  <2> HIDE DEF f
  <2> QED BY <2>1, <2>5, OutsideOK DEF Owed, Result, NoEvent
<1> QED BY <1>1, <1>2

\* Any turn of the engine.
LEMMA AdvanceOwed ==
  ASSUME bot \in Config, NEW st \in EngineState, NEW m \in Message, AnswersOK(st)
  PROVE  Owed(st, Advance(bot, st, m))
<1>1. \/ Advance(bot, st, m) = Result(MenuState, NoEvent, {})
      \/ Advance(bot, st, m) = Result(st, NoEvent, {})
      \/ Advance(bot, st, m) = Result(HandedOffState, "handed_off", {})
      \/ st.phase = "in_flow" /\ Advance(bot, st, m) = AdvanceInFlow(bot, st, m)
      \/ Advance(bot, st, m) = AdvanceMenu(bot, m)
  BY DEF Advance
<1>2. CASE \/ Advance(bot, st, m) = Result(MenuState, NoEvent, {})
           \/ Advance(bot, st, m) = Result(st, NoEvent, {})
           \/ Advance(bot, st, m) = Result(HandedOffState, "handed_off", {})
  BY <1>2, OutsideOK DEF Owed, Result, NoEvent
<1> QED BY <1>1, <1>2, AdvanceInFlowOwed, AdvanceMenuOwed

-----------------------------------------------------------------------------
(* Which steps change what *)

\* A turn gets a new result only from the engine; only then does it stand before
\* its transaction.
Moved(w) ==
  \/ turns'[w].res = turns[w].res /\ turns'[w].pc # "persist"
  \/ /\ turns'[w].pc = turns[w].pc /\ turns'[w].conv = turns[w].conv
     /\ turns'[w].status = turns[w].status
     /\ turns'[w].lead = turns[w].lead /\ turns'[w].res = turns[w].res
  \/ LoadAndAdvance(w)
  \/ turns'[w].res = Result(InitialState, NoEvent, {}) /\ turns'[w].pc \in {"idle", "status"}

\* The steps of a turn that write its record with Goto, Finish or Saving.
LEMMA TurnWrites ==
  ASSUME TypeOK, NEW w \in Worker
  PROVE  /\ \A pc : Goto(w, pc) =>
              /\ turns'[w].pc = pc /\ turns'[w].conv = turns[w].conv
              /\ turns'[w].status = turns[w].status
              /\ turns'[w].lead = turns[w].lead /\ turns'[w].res = turns[w].res
         /\ Finish(w) => turns'[w] = IdleTurn
         /\ \A l : Saving(w, l) =>
              /\ turns'[w].pc = "save" /\ turns'[w].conv = turns[w].conv
              /\ turns'[w].status = turns[w].status
              /\ turns'[w].lead = l /\ turns'[w].res = turns[w].res
<1>1. turns[w] \in Turn
  BY DEF TypeOK
<1>2. ASSUME NEW pc, Goto(w, pc)
      PROVE  /\ turns'[w].pc = pc /\ turns'[w].conv = turns[w].conv
             /\ turns'[w].status = turns[w].status
             /\ turns'[w].lead = turns[w].lead /\ turns'[w].res = turns[w].res
  <2>1. turns'[w] = [turns[w] EXCEPT !.pc = pc]
    BY <1>2 DEF Goto, TypeOK
  <2> QED BY <1>1, <2>1 DEF Turn
<1>3. ASSUME NEW l, Saving(w, l)
      PROVE  /\ turns'[w].pc = "save" /\ turns'[w].conv = turns[w].conv
             /\ turns'[w].status = turns[w].status
             /\ turns'[w].lead = l /\ turns'[w].res = turns[w].res
  <2>1. turns'[w] = [turns[w] EXCEPT !.pc = "save", !.lead = l]
    BY <1>3 DEF Saving, TypeOK
  <2> QED BY <1>1, <2>1 DEF Turn
<1>4. Finish(w) => turns'[w] = IdleTurn
  BY DEF Finish, TypeOK
<1> QED BY <1>2, <1>3, <1>4

\* The record of a turn that reads the status.
LEMMA StatusRead ==
  ASSUME TypeOK, NEW w \in Worker, ReadStatus(w)
  PROVE  /\ turns'[w].conv = turns[w].conv /\ turns'[w].status = chats[turns[w].conv].status
         /\ turns'[w].lead = turns[w].lead /\ turns'[w].res = turns[w].res
         /\ turns'[w].pc = IF turns'[w].status \in Handled THEN "activity"
                           ELSE IF turns'[w].status = "closed" THEN "reset" ELSE "log"
<1>1. turns[w] \in Turn
  BY DEF TypeOK
<1>2. PICK s : s = chats[turns[w].conv].status
  OBVIOUS
<1>3. PICK p : p = IF s \in Handled THEN "activity" ELSE IF s = "closed" THEN "reset" ELSE "log"
  OBVIOUS
<1>4. turns'[w] = [turns[w] EXCEPT !.status = s, !.pc = p]
  BY <1>2, <1>3 DEF ReadStatus, TypeOK
<1>5. /\ turns'[w].conv = turns[w].conv /\ turns'[w].status = s /\ turns'[w].pc = p
      /\ turns'[w].lead = turns[w].lead /\ turns'[w].res = turns[w].res
  BY <1>1, <1>4 DEF Turn
<1> QED BY <1>2, <1>3, <1>5

\* The record of a turn the engine has answered.
LEMMA Loaded ==
  ASSUME TypeOK, NEW w \in Worker, LoadAndAdvance(w)
  PROVE  /\ turns'[w].pc = "persist" /\ turns'[w].conv = turns[w].conv
         /\ turns'[w].status = turns[w].status
         /\ turns'[w].lead = chats[turns[w].conv].lead
         /\ turns'[w].res = Advance(bot, chats[turns[w].conv].state, turns[w].msg)
<1>1. turns[w] \in Turn
  BY DEF TypeOK
<1>2. PICK l, r : l = chats[turns[w].conv].lead
                  /\ r = Advance(bot, chats[turns[w].conv].state, turns[w].msg)
  OBVIOUS
<1>3. turns'[w] = [turns[w] EXCEPT !.pc = "persist", !.lead = l, !.res = r]
  BY <1>2 DEF LoadAndAdvance, TypeOK
<1>4. /\ turns'[w].pc = "persist" /\ turns'[w].conv = turns[w].conv
      /\ turns'[w].status = turns[w].status /\ turns'[w].lead = l /\ turns'[w].res = r
  BY <1>1, <1>3 DEF Turn
<1> QED BY <1>2, <1>4

\* The record of a turn that starts.
LEMMA Received ==
  ASSUME TypeOK, NEW w \in Worker, NEW c \in Conv, NEW m \in Inbound, Receive(w, c, m)
  PROVE  /\ turns'[w].pc = "status" /\ turns'[w].conv = c /\ turns'[w].status = "none"
         /\ turns'[w].lead = NoLead /\ turns'[w].res = Result(InitialState, NoEvent, {})
<1>1. turns'[w] = [IdleTurn EXCEPT !.pc = "status", !.conv = c, !.msg = m]
  BY DEF Receive, TypeOK
<1> QED BY <1>1, InitialValues DEF IdleTurn, Turn

\* Time changes the age of a turn only.
LEMMA Ticked ==
  ASSUME TypeOK, Tick, NEW w \in Worker
  PROVE  /\ turns'[w].pc = turns[w].pc /\ turns'[w].conv = turns[w].conv
         /\ turns'[w].status = turns[w].status
         /\ turns'[w].lead = turns[w].lead /\ turns'[w].res = turns[w].res
<1>1. turns[w] \in Turn
  BY DEF TypeOK
<1> QED BY <1>1 DEF Tick, Turn

\* Only run_turn itself, a crash of it and time change the record of a turn.
LEMMA OthersLeaveTurns ==
  ASSUME [Next]_vars
  PROVE  \/ turns' = turns
         \/ Tick
         \/ \E w \in Worker : \/ TurnStep(w) \/ TurnFails(w)
                              \/ \E c \in Conv, m \in Inbound : Receive(w, c, m)
BY DEF Next, OwnerStep, SweepStep, vars, OwnerSetsStatus, OwnerReplies,
   OwnerSetsLeadStatus, OwnerDeletesLead, OwnerSavesBot, SweepList, SweepSend,
   SweepAppend, SweepClose, SweepDone, SweepFails, LockExpires, AbandonLeads,
   CloseAbandoned, ChatExpires, AbandonFails

\* A turn's own step writes no other turn.
LEMMA OwnTurnOnly ==
  ASSUME TypeOK, NEW w \in Worker,
         TurnStep(w) \/ TurnFails(w) \/ \E c \in Conv, m \in Inbound : Receive(w, c, m)
  PROVE  \A v \in Worker \ {w} : turns'[v] = turns[v]
<1>1. \E t : turns' = [turns EXCEPT ![w] = t]
  <2>1. ASSUME NEW pc, Goto(w, pc) PROVE \E t : turns' = [turns EXCEPT ![w] = t]
    BY <2>1 DEF Goto
  <2>2. ASSUME NEW l, Saving(w, l) PROVE \E t : turns' = [turns EXCEPT ![w] = t]
    BY <2>2 DEF Saving
  <2>3. Finish(w) => \E t : turns' = [turns EXCEPT ![w] = t]
    BY DEF Finish
  <2>4. CASE ReadStatus(w)
    BY <2>4 DEF ReadStatus
  <2>5. CASE LoadAndAdvance(w)
    BY <2>5 DEF LoadAndAdvance
  <2>6. ASSUME NEW c \in Conv, NEW m \in Inbound, Receive(w, c, m)
        PROVE  \E t : turns' = [turns EXCEPT ![w] = t]
    BY <2>6 DEF Receive
  <2>7. CASE ReadActivity(w) \/ ResetChat(w) \/ SilentLog(w) \/ LogMessage(w) \/ MarkWaiting(w)
             \/ SaveState(w)
    BY <2>1, <2>7 DEF ReadActivity, ResetChat, SilentLog, LogMessage, MarkWaiting, SaveState
  <2>8. CASE SilentTouch(w) \/ RejectTransaction(w) \/ CloseChat(w) \/ TurnFails(w)
    BY <2>3, <2>8 DEF SilentTouch, RejectTransaction, CloseChat, TurnFails
  <2>9. CASE StartLead(w) \/ RecordStep(w) \/ FinishLead(w) \/ BookingLead(w)
             \/ NothingToPersist(w) \/ HandOff(w)
    BY <2>2, <2>9 DEF StartLead, RecordStep, FinishLead, BookingLead, NothingToPersist, HandOff
  <2>10. CASE Reply(w)
    BY <2>1, <2>3, <2>10 DEF Reply
  <2> QED BY <2>4, <2>5, <2>6, <2>7, <2>8, <2>9, <2>10 DEF TurnStep
<1> QED BY <1>1 DEF TypeOK

\* A turn that stands still while others work.
Still(w) ==
  /\ turns'[w].pc = turns[w].pc /\ turns'[w].conv = turns[w].conv
  /\ turns'[w].status = turns[w].status
  /\ turns'[w].lead = turns[w].lead /\ turns'[w].res = turns[w].res

\* In every step a turn stands still, takes a step of its own, crashes or starts.
LEMMA StillOrOwn ==
  ASSUME TypeOK, [Next]_vars, NEW w \in Worker
  PROVE  \/ Still(w) \/ TurnStep(w) \/ TurnFails(w)
         \/ \E c \in Conv, m \in Inbound : Receive(w, c, m)
<1>1. CASE turns' = turns
  BY <1>1 DEF Still
<1>2. CASE Tick
  BY <1>2, Ticked DEF Still
<1>3. ASSUME NEW v \in Worker, v # w,
             TurnStep(v) \/ TurnFails(v) \/ \E c \in Conv, m \in Inbound : Receive(v, c, m)
      PROVE  Still(w)
  <2>1. turns'[w] = turns[w]
    BY <1>3, OwnTurnOnly
  <2> QED BY <2>1 DEF Still
<1> QED BY <1>1, <1>2, <1>3, OthersLeaveTurns

\* Every step moves every turn in one of the ways above.
LEMMA TurnsMove ==
  ASSUME TypeOK, [Next]_vars, NEW w \in Worker
  PROVE  Moved(w)
<1>1. CASE Still(w)
  BY <1>1 DEF Moved, Still
<1>4. ASSUME NEW c \in Conv, NEW m \in Inbound, Receive(w, c, m)
      PROVE  Moved(w)
  BY <1>4, Received DEF Moved
<1>5. ASSUME NEW pc, pc # "persist", Goto(w, pc) PROVE Moved(w)
  BY <1>5, TurnWrites DEF Moved
<1>6. ASSUME NEW l, Saving(w, l) PROVE Moved(w)
  BY <1>6, TurnWrites DEF Moved
<1>7. ASSUME Finish(w) PROVE Moved(w)
  BY <1>7, TurnWrites DEF Moved, IdleTurn
<1>8. CASE TurnFails(w)
  BY <1>7, <1>8 DEF TurnFails
<1>9. CASE TurnStep(w)
  <2>1. CASE ReadStatus(w)
    BY <2>1, StatusRead DEF Moved
  <2>2. CASE LoadAndAdvance(w)
    BY <2>2 DEF Moved
  <2>3. CASE ReadActivity(w) \/ ResetChat(w) \/ SilentLog(w) \/ LogMessage(w) \/ MarkWaiting(w)
             \/ SaveState(w)
    BY <1>5, <2>3 DEF ReadActivity, ResetChat, SilentLog, LogMessage, MarkWaiting, SaveState
  <2>4. CASE SilentTouch(w) \/ RejectTransaction(w) \/ CloseChat(w)
    BY <1>7, <2>4 DEF SilentTouch, RejectTransaction, CloseChat
  <2>5. CASE StartLead(w) \/ RecordStep(w) \/ FinishLead(w) \/ BookingLead(w)
             \/ NothingToPersist(w) \/ HandOff(w)
    BY <1>6, <2>5 DEF StartLead, RecordStep, FinishLead, BookingLead, NothingToPersist, HandOff
  <2>6. CASE Reply(w)
    BY <1>5, <1>7, <2>6 DEF Reply
  <2> QED BY <1>9, <2>1, <2>2, <2>3, <2>4, <2>5, <2>6 DEF TurnStep
<1> QED BY <1>1, <1>4, <1>8, <1>9, StillOrOwn

\* The engine state and the lead id of a chat change together: when the chat is
\* reset, or when a turn saves what the engine gave it.
ChatMoved(c) ==
  \/ chats'[c].state = chats[c].state /\ chats'[c].lead = chats[c].lead
  \/ chats'[c] = FreshChat
  \/ \E w \in Worker :
       /\ SaveState(w) /\ turns[w].conv = c
       /\ chats'[c].state = turns[w].res.state
       /\ chats'[c].lead = IF turns[w].res.state.phase = "in_flow" THEN turns[w].lead ELSE NoLead

\* The steps that only stamp a chat or set its status.
LEMMA StatusOnly ==
  ASSUME TypeOK, NEW d \in Conv, AppendMessage(d) \/ \E s : SetStatus(d, s), NEW c \in Conv
  PROVE  ChatMoved(c)
BY AccessorsKeepPointers DEF ChatMoved

\* A reset chat is as a chat that never was.
LEMMA ResetOnly ==
  ASSUME TypeOK, NEW d \in Conv, ResetConversation(d), NEW c \in Conv
  PROVE  ChatMoved(c)
BY DEF ChatMoved, ResetConversation, TypeOK

\* What a turn saves in its chat.
LEMMA Saved ==
  ASSUME TypeOK, NEW w \in Worker, SaveState(w)
  PROVE  /\ chats'[turns[w].conv].state = turns[w].res.state
         /\ chats'[turns[w].conv].lead
              = IF turns[w].res.state.phase = "in_flow" THEN turns[w].lead ELSE NoLead
         /\ \A c \in Conv \ {turns[w].conv} : chats'[c] = chats[c]
<1>1. turns[w].conv \in Conv /\ chats[turns[w].conv] \in Chat
  BY DEF TypeOK, Turn
<1>2. PICK l : l = IF turns[w].res.state.phase = "in_flow" THEN turns[w].lead ELSE NoLead
  OBVIOUS
<1>3. chats' = [chats EXCEPT ![turns[w].conv] = [@ EXCEPT !.state = turns[w].res.state, !.lead = l]]
  BY <1>2 DEF SaveState, SetState
<1>4. chats'[turns[w].conv].state = turns[w].res.state /\ chats'[turns[w].conv].lead = l
  BY <1>1, <1>3 DEF TypeOK, Chat
<1> QED BY <1>2, <1>3, <1>4 DEF TypeOK

\* Every step moves every chat in one of those ways.
LEMMA ChatsMove ==
  ASSUME TypeOK, [Next]_vars, NEW c \in Conv
  PROVE  ChatMoved(c)
<1>1. CASE chats' = chats
  BY <1>1 DEF ChatMoved
<1>2. ASSUME NEW w \in Worker, TurnStep(w) PROVE ChatMoved(c)
  <2>0. turns[w] \in Turn /\ turns[w].conv \in Conv
    BY DEF TypeOK, Turn
  <2>1. CASE ResetChat(w)
    BY <2>0, <2>1, ResetOnly DEF ResetChat
  <2>2. CASE SilentLog(w) \/ LogMessage(w) \/ Reply(w)
    BY <2>0, <2>2, StatusOnly DEF SilentLog, LogMessage, Reply
  <2>3. CASE MarkWaiting(w) \/ CloseChat(w)
    BY <2>0, <2>3, StatusOnly DEF MarkWaiting, CloseChat
  <2>4. CASE SaveState(w)
    BY <2>4, Saved DEF ChatMoved
  <2>5. CASE ReadStatus(w) \/ ReadActivity(w) \/ SilentTouch(w) \/ LoadAndAdvance(w)
             \/ StartLead(w) \/ RecordStep(w) \/ FinishLead(w) \/ BookingLead(w)
             \/ NothingToPersist(w) \/ HandOff(w) \/ RejectTransaction(w)
    BY <1>1, <2>5 DEF ReadStatus, ReadActivity, SilentTouch, LoadAndAdvance, StartLead,
       RecordStep, FinishLead, BookingLead, NothingToPersist, HandOff, RejectTransaction
  <2> QED BY <1>2, <2>1, <2>2, <2>3, <2>4, <2>5 DEF TurnStep
<1>3. CASE OwnerStep
  BY <1>1, <1>3, StatusOnly DEF OwnerStep, OwnerSetsStatus, OwnerReplies, OwnerSetsLeadStatus,
     OwnerDeletesLead, OwnerSavesBot
<1>4. ASSUME NEW s \in Sweeper, SweepStep(s) \/ SweepFails(s) PROVE ChatMoved(c)
  <2>1. sweeps[s].conv \in Conv
    BY DEF TypeOK, Sweep
  <2>2. \/ chats' = chats
        \/ AppendMessage(sweeps[s].conv)
        \/ SetStatus(sweeps[s].conv, "closed")
    BY <1>4 DEF SweepStep, SweepList, SweepSend, SweepAppend, SweepClose, SweepDone,
       SweepFails
  <2> QED BY <1>1, <2>1, <2>2, StatusOnly
<1>5. ASSUME NEW d \in Conv, CloseAbandoned(d) PROVE ChatMoved(c)
  BY <1>5, StatusOnly DEF CloseAbandoned
<1>6. ASSUME NEW d \in Conv, ChatExpires(d) PROVE ChatMoved(c)
  BY <1>6, ResetOnly DEF ChatExpires
<1>7. CASE Tick
  <2>1. chats[c] \in Chat
    BY DEF TypeOK
  <2>2. chats'[c].state = chats[c].state /\ chats'[c].lead = chats[c].lead
    BY <1>7, <2>1 DEF Tick, Chat
  <2> QED BY <2>2 DEF ChatMoved
<1>8. ASSUME NEW w \in Worker,
             TurnFails(w) \/ \E d \in Conv, m \in Inbound : Receive(w, d, m)
      PROVE  ChatMoved(c)
  BY <1>1, <1>8 DEF TurnFails, Receive
<1>9. CASE LockExpires \/ AbandonLeads \/ AbandonFails \/ UNCHANGED vars
  BY <1>1, <1>9 DEF LockExpires, AbandonLeads, AbandonFails, vars
<1> QED BY <1>2, <1>3, <1>4, <1>5, <1>6, <1>7, <1>8, <1>9 DEF Next

-----------------------------------------------------------------------------
(* Answers while the bot is not edited *)

Unedited == "save_bot" \notin OwnerOps

\* What a turn in flight is about to save and to complete.
TurnFull(rows, t) ==
  /\ AnswersOK(t.res.state)
  /\ t.pc = "persist" /\ t.res.event = "lead_completed" =>
       /\ t.lead \in Lead
       /\ rows[t.lead].status # "unused"
       /\ t.res.lead = AllKeys(bot, rows[t.lead].flow)

AnswersInv ==
  /\ PointerInv
  /\ AnswersMatchStep
  /\ \A w \in Worker : TurnFull(leads, turns[w])

\* The bot stays as it is.
LEMMA BotStays ==
  ASSUME Unedited, [Next]_vars
  PROVE  bot' = bot
BY DEF Unedited, Next, TurnStep, OwnerStep, SweepStep, vars, Receive, TurnFails,
   ReadStatus, ReadActivity, ResetChat, SilentLog, SilentTouch, LogMessage, LoadAndAdvance,
   StartLead, RecordStep, FinishLead, BookingLead, NothingToPersist, MarkWaiting, HandOff,
   RejectTransaction, SaveState, Reply, CloseChat, OwnerSetsStatus, OwnerReplies,
   OwnerSetsLeadStatus, OwnerDeletesLead, OwnerSavesBot, OwnerDoes, SweepList, SweepSend,
   SweepAppend, SweepClose, SweepDone, SweepFails, LockExpires, AbandonLeads,
   CloseAbandoned, ChatExpires, AbandonFails, Tick

\* Every step keeps the answers in line with the question asked.
LEMMA NextAnswers ==
  ASSUME Unedited, AnswersInv, [Next]_vars
  PROVE  AnswersInv'
<1>0. /\ PointerInv /\ PointerInv' /\ TypeOK /\ bot' = bot /\ Kept(leads, leads')
      /\ bot \in Config
  <2>1. PointerInv /\ TypeOK
    BY DEF AnswersInv, PointerInv
  <2>2. bot \in Config
    BY <2>1, ConfigsAssumption DEF TypeOK
  <2> QED BY <2>1, <2>2, NextPointer, BotStays, RowsKept
<1>1. \A st : AnswersOK(st)' <=> AnswersOK(st)
  BY <1>0 DEF AnswersOK, StepsOf, KeysUpTo, FlowNames
<1>2. ASSUME NEW c \in Conv PROVE AnswersOK(chats'[c].state)
  <2>1. AnswersOK(chats[c].state)
    BY DEF AnswersInv, AnswersMatchStep
  <2>2. AnswersOK(FreshChat.state)
    BY OutsideOK DEF FreshChat
  <2>3. \A w \in Worker : AnswersOK(turns[w].res.state)
    BY DEF AnswersInv, TurnFull
  <2>4. ChatMoved(c)
    BY <1>0, ChatsMove
  <2> QED BY <2>1, <2>2, <2>3, <2>4 DEF ChatMoved
<1>3. ASSUME NEW w \in Worker PROVE TurnFull(leads', turns'[w])
  <2>1. TurnFull(leads, turns[w])
    BY DEF AnswersInv
  <2>2. CASE turns'[w].res = turns[w].res /\ turns'[w].pc # "persist"
    BY <2>1, <2>2 DEF TurnFull
  <2>3. CASE /\ turns'[w].pc = turns[w].pc /\ turns'[w].lead = turns[w].lead
             /\ turns'[w].res = turns[w].res
    BY <1>0, <2>1, <2>3 DEF TurnFull, Kept
  <2>4. CASE LoadAndAdvance(w)
    <3> DEFINE chat == chats[turns[w].conv]
               res == Advance(bot, chat.state, turns[w].msg)
    <3>1. /\ turns'[w].lead = chat.lead /\ turns'[w].res = res /\ turns[w].conv \in Conv
          /\ leads' = leads
      BY <1>0, <2>4, Loaded DEF LoadAndAdvance, TypeOK, Turn
    <3>2. chat.state \in EngineState /\ turns[w].msg \in Message
      BY <1>0, <3>1 DEF TypeOK, Chat, Turn
    <3>3. AnswersOK(chat.state)
      BY <3>1 DEF AnswersInv, AnswersMatchStep
    <3>4. Owed(chat.state, res)
      BY <1>0, <3>2, <3>3, AdvanceOwed
    <3>5. PointerOK(leads, turns[w].conv, chat.state, chat.lead)
      BY <1>0, <3>1 DEF PointerInv, LeadPointerSound
    <3> HIDE DEF res
    <3> QED BY <3>1, <3>4, <3>5 DEF TurnFull, Owed, PointerOK
  <2>5. CASE turns'[w].res = Result(InitialState, NoEvent, {})
    BY <2>5, OutsideOK DEF TurnFull, Result, NoEvent
  <2> QED BY <1>0, <2>2, <2>3, <2>4, <2>5, TurnsMove DEF Moved
<1>4. \A w \in Worker : TurnFull(leads, turns[w])'
  <2>1. \A f : AllKeys(bot, f)' = AllKeys(bot, f)
    BY <1>0
  <2> QED BY <1>0, <1>1, <1>3 DEF TurnFull
<1> QED BY <1>0, <1>1, <1>2, <1>4 DEF AnswersInv, AnswersMatchStep

\* A tenant that starts has saved no answers and runs no turn.
LEMMA InitAnswers ==
  ASSUME Init
  PROVE  AnswersInv
<1>1. PointerInv
  <2>1. LeadPointerSound
    BY DEF Init, LeadPointerSound, PointerOK, FreshChat, InitialState
  <2>2. \A w \in Worker : TurnSound(leads, turns[w])
    BY DEF Init, TurnSound, IdleTurn, Result, InitialState
  <2> QED BY <2>1, <2>2, InitType DEF PointerInv
<1>2. AnswersMatchStep
  BY OutsideOK DEF Init, AnswersMatchStep, FreshChat
<1>3. \A w \in Worker : TurnFull(leads, turns[w])
  BY OutsideOK DEF Init, TurnFull, IdleTurn, Result, NoEvent
<1> QED BY <1>1, <1>2, <1>3 DEF AnswersInv

\* While the owner saves no new bot, a questionnaire state in Redis holds the
\* answers to exactly the questions before the one it asks, however the turns of
\* a chat overlap, crash or repeat.
THEOREM AnswersAlwaysMatchStep == Unedited /\ Spec => []AnswersMatchStep
<1>1. Init => AnswersInv
  BY InitAnswers
<1>2. Unedited /\ AnswersInv /\ [Next]_vars => (Unedited /\ AnswersInv)'
  BY NextAnswers DEF Unedited
<1>3. AnswersInv => AnswersMatchStep
  BY DEF AnswersInv
<1> QED BY <1>1, <1>2, <1>3, PTL DEF Spec

\* While the owner saves no new bot, complete_lead is only ever reached with a
\* lead and with an answer to every question of the flow that lead was opened for.
THEOREM CompletionAlwaysFull == Unedited /\ Spec => CompletionIsFull
<1>1. Init => AnswersInv
  BY InitAnswers
<1>2. Unedited /\ AnswersInv /\ [Next]_vars => (Unedited /\ AnswersInv)'
  BY NextAnswers DEF Unedited
<1>3. AnswersInv =>
        \A w \in Worker : FinishLead(w) =>
          /\ turns[w].lead \in Lead
          /\ turns[w].res.lead = AllKeys(bot, leads[turns[w].lead].flow)
  BY DEF AnswersInv, TurnFull, FinishLead
<1> QED BY <1>1, <1>2, <1>3, PTL DEF Spec, CompletionIsFull

-----------------------------------------------------------------------------
(* A chat whose turns do not overlap starts over after it was closed *)

\* No two turns of one chat run at the same time.  Turns of different chats, the
\* sweeps and the owner interleave freely.
OneTurnPerChat ==
  \A v, w \in Worker : v # w /\ turns[v].pc # "idle" /\ turns[w].pc # "idle" =>
    turns[v].conv # turns[w].conv

\* A turn that found the chat closed or stale has reset it, and nothing has been
\* saved there since.
StartsOver(w) ==
  turns[w].status \in Handled \cup {"closed"} =>
    /\ turns[w].pc \in {"log", "load"} => chats[turns[w].conv].state = InitialState
    /\ turns[w].pc = "persist" => turns[w].res = Result(MenuState, NoEvent, {})

FreshInv == TypeOK /\ \A w \in Worker : StartsOver(w)

\* A turn that stands still: nobody else saves into its chat meanwhile.
LEMMA StillStartsOver ==
  ASSUME TypeOK, OneTurnPerChat, [Next]_vars, NEW w \in Worker, StartsOver(w), Still(w)
  PROVE  StartsOver(w)'
<1> DEFINE c == turns[w].conv
<1>0. c \in Conv
  BY DEF TypeOK, Turn
<1>1. ASSUME turns[w].status \in Handled \cup {"closed"}, turns[w].pc \in {"log", "load"}
      PROVE  chats'[c].state = InitialState
  <2>1. chats[c].state = InitialState
    BY <1>1 DEF StartsOver
  <2>2. ~\E v \in Worker : SaveState(v) /\ turns[v].conv = c
    BY <1>1 DEF OneTurnPerChat, SaveState
  <2>3. ChatMoved(c)
    BY <1>0, ChatsMove
  <2> QED BY <2>1, <2>2, <2>3 DEF ChatMoved, FreshChat
<1> QED BY <1>1 DEF StartsOver, Still

\* The turn's own steps.
LEMMA OwnStartsOver ==
  ASSUME TypeOK, NEW w \in Worker, StartsOver(w), TurnStep(w)
  PROVE  StartsOver(w)'
<1> DEFINE c == turns[w].conv
<1>0. c \in Conv /\ chats[c] \in Chat /\ turns[w].msg \in Message
  BY DEF TypeOK, Turn
<1>1. ASSUME turns'[w].pc \notin {"log", "load", "persist"} PROVE StartsOver(w)'
  BY <1>1 DEF StartsOver
<1>2. CASE ReadStatus(w)
  BY <1>2, StatusRead DEF StartsOver
<1>3. CASE ResetChat(w)
  <2>1. turns'[w].pc = "log" /\ turns'[w].conv = c
    BY <1>3, TurnWrites DEF ResetChat
  <2>2. chats'[c] = FreshChat
    BY <1>0, <1>3 DEF ResetChat, ResetConversation, TypeOK
  <2> QED BY <2>1, <2>2 DEF StartsOver, FreshChat
<1>4. CASE LogMessage(w)
  <2>1. /\ turns'[w].pc = "load" /\ turns'[w].conv = c /\ turns'[w].status = turns[w].status
        /\ turns[w].pc = "log"
    BY <1>4, TurnWrites DEF LogMessage
  <2>2. chats'[c].state = chats[c].state
    BY <1>0, <1>4, AccessorsKeepPointers DEF LogMessage
  <2> QED BY <2>1, <2>2 DEF StartsOver
<1>5. CASE LoadAndAdvance(w)
  <2>1. /\ turns'[w].pc = "persist" /\ turns'[w].status = turns[w].status
        /\ turns'[w].res = Advance(bot, chats[c].state, turns[w].msg)
        /\ turns[w].pc = "load"
    BY <1>5, Loaded DEF LoadAndAdvance
  <2>2. \A m : Advance(bot, InitialState, m) = Result(MenuState, NoEvent, {})
    BY DEF Advance, InitialState
  <2> QED BY <2>1, <2>2 DEF StartsOver
<1>6. CASE ReadActivity(w) \/ SilentLog(w) \/ MarkWaiting(w) \/ SaveState(w)
  <2>1. \E pc \in {"reset", "silent", "touch", "handoff", "reply"} : Goto(w, pc)
    BY <1>6 DEF ReadActivity, SilentLog, MarkWaiting, SaveState
  <2> QED BY <1>1, <2>1, TurnWrites
<1>7. CASE SilentTouch(w) \/ RejectTransaction(w) \/ CloseChat(w)
  <2>1. Finish(w)
    BY <1>7 DEF SilentTouch, RejectTransaction, CloseChat
  <2> QED BY <1>1, <2>1, TurnWrites DEF IdleTurn
<1>8. CASE StartLead(w) \/ RecordStep(w) \/ FinishLead(w) \/ BookingLead(w)
           \/ NothingToPersist(w) \/ HandOff(w)
  <2>1. \E l : Saving(w, l)
    BY <1>8 DEF StartLead, RecordStep, FinishLead, BookingLead, NothingToPersist, HandOff
  <2> QED BY <1>1, <2>1, TurnWrites
<1>9. CASE Reply(w)
  <2>1. Goto(w, "close") \/ Finish(w)
    BY <1>9 DEF Reply
  <2> QED BY <1>1, <2>1, TurnWrites DEF IdleTurn
<1> QED BY <1>2, <1>3, <1>4, <1>5, <1>6, <1>7, <1>8, <1>9 DEF TurnStep

\* Every step.
LEMMA NextFresh ==
  ASSUME FreshInv, OneTurnPerChat, [Next]_vars
  PROVE  FreshInv'
<1>0. TypeOK /\ TypeOK'
  BY NextType DEF FreshInv
<1>1. ASSUME NEW w \in Worker PROVE StartsOver(w)'
  <2>0. StartsOver(w)
    BY DEF FreshInv
  <2>1. CASE Still(w)
    BY <1>0, <2>0, <2>1, StillStartsOver
  <2>4. CASE TurnStep(w)
    BY <1>0, <2>0, <2>4, OwnStartsOver
  <2>5. CASE TurnFails(w)
    <3>1. turns'[w] = IdleTurn
      BY <1>0, <2>5, TurnWrites DEF TurnFails
    <3> QED BY <3>1 DEF StartsOver, IdleTurn
  <2>6. ASSUME NEW c \in Conv, NEW m \in Inbound, Receive(w, c, m)
        PROVE  StartsOver(w)'
    BY <1>0, <2>6, Received DEF StartsOver
  <2> QED BY <1>0, <2>1, <2>4, <2>5, <2>6, StillOrOwn
<1> QED BY <1>0, <1>1 DEF FreshInv

\* A message that reaches a closed chat, or a handoff nobody attended for an hour,
\* is greeted as a first contact whenever no other turn of that chat is running:
\* the sweeps, the owner, crashes and the turns of other chats cannot bring the
\* finished conversation's state back (run_turn steps 1 and 1a).
THEOREM SerialFreshStart == Spec /\ []OneTurnPerChat => []FreshStartAfterClose
<1>1. Init => FreshInv
  <2> SUFFICES ASSUME Init PROVE FreshInv
    OBVIOUS
  <2>1. \A w \in Worker : StartsOver(w)
    BY DEF Init, StartsOver, IdleTurn
  <2> QED BY <2>1, InitType DEF FreshInv
<1>2. FreshInv /\ OneTurnPerChat /\ [Next]_vars => FreshInv'
  BY NextFresh
<1>3. FreshInv => FreshStartAfterClose
  BY DEF FreshInv, StartsOver, FreshStartAfterClose
<1> QED BY <1>1, <1>2, <1>3, PTL DEF Spec

-----------------------------------------------------------------------------
(* What a step does to a lead row *)

\* A statement that neither completes the lead nor touches what it says.
Touched(row, new) ==
  /\ new.answers = row.answers
  /\ new.handoff = row.handoff
  /\ new.reason = row.reason \/ new.reason # "completed"
  /\ \/ new.status = row.status
     \/ row.status \in LeadStatus /\ new.status \in LeadStatus
     \/ new.status = "deleted" /\ "delete" \in OwnerOps

RowMoved(l) ==
  \/ Touched(leads[l], leads'[l])
  \/ leads[l].status = "unused" /\ leads'[l].status = "in_progress" /\ leads'[l].reason = "null"
  \/ \E w \in Worker :
       /\ RecordStep(w) /\ turns[w].lead = l
       /\ leads'[l].status = leads[l].status /\ leads'[l].reason = leads[l].reason
       /\ leads'[l].handoff = leads[l].handoff
  \/ \E w \in Worker :
       /\ FinishLead(w) /\ turns[w].lead = l
       /\ leads'[l].status = "new" /\ leads'[l].reason = "completed"
       /\ leads'[l].handoff = leads[l].handoff
       /\ leads'[l].answers = turns[w].res.lead
  \/ \E w \in Worker :
       /\ HandOff(w) /\ turns[w].lead = l
       /\ leads'[l].status = leads[l].status /\ leads'[l].reason = leads[l].reason
       /\ leads'[l].answers = leads[l].answers /\ leads'[l].handoff

\* A statement that writes one row leaves the others.
LEMMA OneRow ==
  ASSUME TypeOK, NEW k \in Lead, NEW row, leads' = [leads EXCEPT ![k] = row], NEW l \in Lead
  PROVE  \/ l = k /\ leads'[l] = row
         \/ l # k /\ leads'[l] = leads[l]
BY DEF TypeOK

\* A row as create_lead inserts it.
LEMMA CreatedMoves ==
  ASSUME TypeOK, NEW k \in Lead, NEW c, NEW f, NEW h, CreateLead(k, c, f, h), NEW l \in Lead
  PROVE  RowMoved(l)
<1>1. \/ l = k /\ leads'[l] = NewLead(c, f, h)
      \/ leads'[l] = leads[l]
  BY OneRow DEF CreateLead
<1> QED BY <1>1 DEF CreateLead, RowMoved, Touched, NewLead

\* The statements of one turn.
LEMMA TurnMovesRows ==
  ASSUME TypeOK, NEW w \in Worker, TurnStep(w), NEW l \in Lead
  PROVE  RowMoved(l)
<1> DEFINE t == turns[w]
<1>a. leads[l] \in LeadRow /\ t.lead \in Lead \cup {NoLead}
  BY DEF TypeOK, Turn
<1>b. leads'[l] = leads[l] => RowMoved(l)
  BY DEF RowMoved, Touched
<1>1. CASE SilentTouch(w)
  <2>1. leads' = leads \/ \E k \in Lead : TouchLead(k)
    BY <1>1 DEF SilentTouch, NewestLeads, LeadsOf
  <2>2. ASSUME NEW k \in Lead, TouchLead(k) PROVE RowMoved(l)
    <3>1. leads'[l] = [leads[l] EXCEPT !.idle = 0] \/ leads'[l] = leads[l]
      BY <2>2 DEF TouchLead, TypeOK
    <3>2. Touched(leads[l], [leads[l] EXCEPT !.idle = 0])
      BY <1>a DEF Touched, LeadRow
    <3> QED BY <1>b, <3>1, <3>2 DEF RowMoved
  <2> QED BY <1>b, <2>1, <2>2
<1>2. CASE StartLead(w)
  BY <1>2, CreatedMoves DEF StartLead
<1>3. CASE RecordStep(w)
  <2>1. PICK row : row = [leads[t.lead] EXCEPT !.answers = t.res.state.collected, !.idle = 0]
    OBVIOUS
  <2>2. t.lead \in Lead /\ leads' = [leads EXCEPT ![t.lead] = row]
    BY <1>a, <1>3, <2>1 DEF RecordStep, AnsweredStep, UpdateLead
  <2>3. l = t.lead => row.status = leads[l].status /\ row.reason = leads[l].reason
                      /\ row.handoff = leads[l].handoff
    BY <1>a, <2>1 DEF LeadRow
  <2> QED BY <1>b, <1>3, <2>2, <2>3, OneRow DEF RowMoved
<1>4. CASE FinishLead(w)
  <2>1. CASE t.lead = NoLead
    BY <1>b, <1>4, <2>1 DEF FinishLead
  <2>2. CASE t.lead # NoLead
    <3>1. PICK row : row = [leads[t.lead] EXCEPT !.answers = t.res.lead, !.status = "new",
                                                 !.reason = "completed", !.idle = 0]
      OBVIOUS
    <3>2. t.lead \in Lead /\ leads' = [leads EXCEPT ![t.lead] = row]
      BY <1>a, <1>4, <2>2, <3>1 DEF FinishLead, CompleteLead
    <3>3. l = t.lead => /\ row.status = "new" /\ row.reason = "completed"
                        /\ row.handoff = leads[l].handoff /\ row.answers = t.res.lead
      BY <1>a, <3>1 DEF LeadRow
    <3> QED BY <1>b, <1>4, <3>2, <3>3, OneRow DEF RowMoved
  <2> QED BY <2>1, <2>2
<1>5. CASE BookingLead(w)
  BY <1>b, <1>5, CreatedMoves DEF BookingLead
<1>6. CASE HandOff(w)
  <2>1. CASE t.lead = NoLead
    BY <1>6, <2>1, CreatedMoves DEF HandOff
  <2>2. CASE t.lead # NoLead
    <3>1. PICK row : row = [leads[t.lead] EXCEPT !.handoff = TRUE]
      OBVIOUS
    <3>2. t.lead \in Lead /\ leads' = [leads EXCEPT ![t.lead] = row]
      BY <1>a, <1>6, <2>2, <3>1 DEF HandOff
    <3>3. l = t.lead => /\ row.status = leads[l].status /\ row.reason = leads[l].reason
                        /\ row.answers = leads[l].answers /\ row.handoff
      BY <1>a, <3>1 DEF LeadRow
    <3> QED BY <1>b, <1>6, <3>2, <3>3, OneRow DEF RowMoved
  <2> QED BY <2>1, <2>2
<1>7. CASE \/ ReadStatus(w) \/ ReadActivity(w) \/ ResetChat(w) \/ SilentLog(w)
           \/ LogMessage(w) \/ LoadAndAdvance(w) \/ NothingToPersist(w)
           \/ MarkWaiting(w) \/ RejectTransaction(w) \/ SaveState(w)
           \/ Reply(w) \/ CloseChat(w)
  BY <1>b, <1>7 DEF ReadStatus, ReadActivity, ResetChat, SilentLog, LogMessage,
     LoadAndAdvance, NothingToPersist, MarkWaiting, RejectTransaction, SaveState,
     Reply, CloseChat
<1> QED BY <1>1, <1>2, <1>3, <1>4, <1>5, <1>6, <1>7 DEF TurnStep

\* Every step moves every row in one of those ways.
LEMMA RowsMove ==
  ASSUME TypeOK, [Next]_vars, NEW l \in Lead
  PROVE  RowMoved(l)
<1>a. leads[l] \in LeadRow
  BY DEF TypeOK
<1>b. leads'[l] = leads[l] => RowMoved(l)
  BY DEF RowMoved, Touched
<1>1. ASSUME NEW k \in Lead, NEW s \in LeadStatus, OwnerSetsLeadStatus(k, s)
      PROVE  RowMoved(l)
  <2>1. PICK r : r = IF s = "closed" /\ chats[leads[k].conv].status \in Handled
                     THEN "answered" ELSE leads[k].reason
    OBVIOUS
  <2>2. leads' = [leads EXCEPT ![k] = [@ EXCEPT !.status = s, !.idle = 0, !.reason = r]]
    BY <1>1, <2>1 DEF OwnerSetsLeadStatus
  <2>3. CASE l = k
    <3>1. leads'[l] = [leads[l] EXCEPT !.status = s, !.idle = 0, !.reason = r]
      BY <2>2, <2>3 DEF TypeOK
    <3>2. /\ leads'[l].status = s /\ leads'[l].reason = r
          /\ leads'[l].answers = leads[l].answers /\ leads'[l].handoff = leads[l].handoff
      BY <1>a, <3>1 DEF LeadRow
    <3>3. leads[l].status \in LeadStatus
      BY <1>1, <2>3 DEF OwnerSetsLeadStatus, Live
    <3> QED BY <2>1, <2>3, <3>2, <3>3 DEF RowMoved, Touched
  <2>4. CASE l # k
    BY <1>b, <2>2, <2>4 DEF TypeOK
  <2> QED BY <2>3, <2>4
<1>2. ASSUME NEW k \in Lead, OwnerDeletesLead(k)
      PROVE  RowMoved(l)
  <2>1. leads'[l] = [leads[l] EXCEPT !.status = "deleted"] \/ leads'[l] = leads[l]
    BY <1>2 DEF OwnerDeletesLead, TypeOK
  <2>2. "delete" \in OwnerOps
    BY <1>2 DEF OwnerDeletesLead, OwnerDoes
  <2>3. Touched(leads[l], [leads[l] EXCEPT !.status = "deleted"])
    BY <1>a, <2>2 DEF Touched, LeadRow
  <2> QED BY <1>b, <2>1, <2>3 DEF RowMoved
<1>3. CASE AbandonLeads
  <2>1. \/ leads'[l] = leads[l]
        \/ /\ leads[l].status = "in_progress"
           /\ leads'[l] = [leads[l] EXCEPT !.status = "abandoned", !.reason = "abandoned"]
    BY <1>3 DEF AbandonLeads, Abandoned
  <2>2. leads[l].status = "in_progress" =>
          Touched(leads[l], [leads[l] EXCEPT !.status = "abandoned", !.reason = "abandoned"])
    BY <1>a DEF Touched, LeadRow, LeadStatus
  <2> QED BY <1>b, <2>1, <2>2 DEF RowMoved
<1>4. CASE Tick
  <2>1. PICK i : i = Older(leads[l].idle)
    OBVIOUS
  <2>2. leads'[l] = [leads[l] EXCEPT !.idle = i] \/ leads'[l] = leads[l]
    BY <1>4, <2>1 DEF Tick
  <2>3. Touched(leads[l], [leads[l] EXCEPT !.idle = i])
    BY <1>a DEF Touched, LeadRow
  <2> QED BY <1>b, <2>2, <2>3 DEF RowMoved
<1>5. CASE UNCHANGED leads
  BY <1>b, <1>5
<1> QED
  BY <1>1, <1>2, <1>3, <1>4, <1>5, TurnMovesRows
  DEF Next, OwnerStep, SweepStep, vars, Receive, TurnFails, OwnerSetsStatus,
      OwnerReplies, OwnerSavesBot, SweepList, SweepSend, SweepAppend, SweepClose,
      SweepDone, SweepFails, LockExpires, CloseAbandoned, ChatExpires, AbandonFails

-----------------------------------------------------------------------------
(* The lead of a turn in flight *)

\* A turn before its commit writes no lead but one of its own chat.
OwnLead(rows, t) ==
  t.pc \in {"persist", "handoff"} /\ t.lead # NoLead =>
    /\ t.lead \in Lead
    /\ rows[t.lead].status # "unused"
    /\ rows[t.lead].conv = t.conv

OwnLeads == PointerInv /\ \A w \in Worker : OwnLead(leads, turns[w])

\* Every step keeps it so.
LEMMA NextOwnLeads ==
  ASSUME OwnLeads, [Next]_vars
  PROVE  OwnLeads'
<1>0. PointerInv /\ PointerInv' /\ TypeOK /\ Kept(leads, leads')
  <2>1. PointerInv /\ TypeOK
    BY DEF OwnLeads, PointerInv
  <2> QED BY <2>1, NextPointer, RowsKept
<1>1. ASSUME NEW w \in Worker PROVE OwnLead(leads', turns'[w])
  <2>0. OwnLead(leads, turns[w])
    BY DEF OwnLeads
  <2>1. CASE Still(w)
    BY <1>0, <2>0, <2>1 DEF Still, OwnLead, Kept
  <2>2. ASSUME turns'[w].pc \notin {"persist", "handoff"} PROVE OwnLead(leads', turns'[w])
    BY <2>2 DEF OwnLead
  <2>3. CASE TurnFails(w)
    <3>1. turns'[w] = IdleTurn
      BY <1>0, <2>3, TurnWrites DEF TurnFails
    <3> QED BY <2>2, <3>1 DEF IdleTurn
  <2>4. ASSUME NEW c \in Conv, NEW m \in Inbound, Receive(w, c, m)
        PROVE  OwnLead(leads', turns'[w])
    BY <1>0, <2>2, <2>4, Received
  <2>5. CASE LoadAndAdvance(w)
    <3>1. /\ turns'[w].conv = turns[w].conv /\ turns'[w].lead = chats[turns[w].conv].lead
          /\ turns[w].conv \in Conv /\ leads' = leads
      BY <1>0, <2>5, Loaded DEF LoadAndAdvance, TypeOK, Turn
    <3>2. PointerOK(leads, turns[w].conv, chats[turns[w].conv].state, chats[turns[w].conv].lead)
      BY <1>0, <3>1 DEF PointerInv, LeadPointerSound
    <3> QED BY <3>1, <3>2 DEF PointerOK, OwnLead
  <2>6. CASE MarkWaiting(w)
    <3>1. /\ turns'[w].conv = turns[w].conv /\ turns'[w].lead = turns[w].lead
          /\ turns[w].pc = "persist" /\ leads' = leads
      BY <1>0, <2>6, TurnWrites DEF MarkWaiting
    <3> QED BY <2>0, <3>1 DEF OwnLead
  <2>7. CASE ReadStatus(w)
    BY <1>0, <2>2, <2>7, StatusRead
  <2>8. CASE ReadActivity(w) \/ ResetChat(w) \/ SilentLog(w) \/ LogMessage(w) \/ SaveState(w)
    <3>1. \E pc \in {"reset", "silent", "log", "touch", "load", "reply"} : Goto(w, pc)
      BY <2>8 DEF ReadActivity, ResetChat, SilentLog, LogMessage, SaveState
    <3> QED BY <1>0, <2>2, <3>1, TurnWrites
  <2>9. CASE SilentTouch(w) \/ RejectTransaction(w) \/ CloseChat(w)
    <3>1. Finish(w)
      BY <2>9 DEF SilentTouch, RejectTransaction, CloseChat
    <3> QED BY <1>0, <2>2, <3>1, TurnWrites DEF IdleTurn
  <2>10. CASE StartLead(w) \/ RecordStep(w) \/ FinishLead(w) \/ BookingLead(w)
              \/ NothingToPersist(w) \/ HandOff(w)
    <3>1. \E l : Saving(w, l)
      BY <2>10 DEF StartLead, RecordStep, FinishLead, BookingLead, NothingToPersist, HandOff
    <3> QED BY <1>0, <2>2, <3>1, TurnWrites
  <2>11. CASE Reply(w)
    <3>1. Goto(w, "close") \/ Finish(w)
      BY <2>11 DEF Reply
    <3> QED BY <1>0, <2>2, <3>1, TurnWrites DEF IdleTurn
  <2> QED BY <1>0, <2>1, <2>3, <2>4, <2>5, <2>6, <2>7, <2>8, <2>9, <2>10, <2>11,
             StillOrOwn DEF TurnStep
<1> QED BY <1>0, <1>1 DEF OwnLeads

\* At the start no turn has a lead.
LEMMA InitOwnLeads ==
  ASSUME Init
  PROVE  OwnLeads
<1>1. PointerInv
  BY InitAnswers DEF AnswersInv
<1>2. \A w \in Worker : OwnLead(leads, turns[w])
  BY DEF Init, OwnLead, IdleTurn
<1> QED BY <1>1, <1>2 DEF OwnLeads

-----------------------------------------------------------------------------
(* A handoff yields a lead *)

\* The owner sets no chat status and deletes no lead.
HandsOff == OwnerOps \cap {"status", "delete"} = {}

\* What a step does to the counts: only a turn that fails touches the mark of a torn one.
LEMMA UsesMove ==
  ASSUME [Next]_vars
  PROVE  \/ used' = used \/ used' = [used EXCEPT !.fail = @ + 1]
         \/ used' = [used EXCEPT !.inbound = @ + 1] \/ used' = [used EXCEPT !.owner = @ + 1]
         \/ \E w \in Worker : TurnFails(w)
BY DEF Next, TurnStep, OwnerStep, SweepStep, vars, Receive,
   ReadStatus, ReadActivity, ResetChat, SilentLog, SilentTouch, LogMessage,
   LoadAndAdvance, StartLead, RecordStep, FinishLead, BookingLead, NothingToPersist,
   MarkWaiting, HandOff, RejectTransaction, SaveState, Reply, CloseChat, OwnerSetsStatus,
   OwnerReplies, OwnerSetsLeadStatus, OwnerDeletesLead, OwnerSavesBot, OwnerDoes,
   SweepList, SweepSend, SweepAppend, SweepClose, SweepDone, SweepFails, LockExpires,
   AbandonLeads, CloseAbandoned, ChatExpires, AbandonFails, Tick

\* Without a crash or a failed transaction the count of failures stands.
LEMMA FailuresCount ==
  ASSUME TypeOK, [Next]_vars, used'.fail = 0
  PROVE  used.fail = 0 /\ \A w \in Worker : ~TurnFails(w)
<1>1. used.fail \in Nat /\ used \in [inbound : Nat, owner : Nat, fail : Nat, torn : BOOLEAN]
  BY DEF TypeOK
<1>2. \A w \in Worker : ~TurnFails(w)
  <2> SUFFICES ASSUME NEW w \in Worker, TurnFails(w) PROVE FALSE
    OBVIOUS
  <2>1. PICK b : used' = [used EXCEPT !.fail = @ + 1, !.torn = b]
    BY DEF TurnFails
  <2>2. used'.fail = used.fail + 1
    BY <1>1, <2>1
  <2> QED BY <1>1, <2>2
<1>3. \/ used'.fail = used.fail
      \/ used'.fail = used.fail + 1
  <2>1. CASE used' = used
    BY <2>1
  <2>2. CASE used' = [used EXCEPT !.fail = @ + 1]
    BY <1>1, <2>2
  <2>3. CASE \/ used' = [used EXCEPT !.inbound = @ + 1]
             \/ used' = [used EXCEPT !.owner = @ + 1]
    BY <1>1, <2>3
  <2> QED BY <1>2, <2>1, <2>2, <2>3, UsesMove
<1> QED BY <1>1, <1>2, <1>3

\* What the accessors do to the status of a chat.
LEMMA StatusWrites ==
  ASSUME TypeOK, NEW d \in Conv, NEW c \in Conv
  PROVE  /\ AppendMessage(d) => chats'[c].status = chats[c].status
         /\ \A s : SetStatus(d, s) => \/ c = d /\ chats'[c].status = s
                                      \/ c # d /\ chats'[c].status = chats[c].status
         /\ ResetConversation(d) => \/ chats'[c].status = "none"
                                    \/ chats'[c].status = chats[c].status
<1>1. chats[c] \in Chat
  BY DEF TypeOK
<1>2. Stamped(chats[c]).status = chats[c].status
  BY <1>1 DEF Stamped, Chat
<1>3. \A s : WithStatus(chats[c], s).status = s
  BY <1>1 DEF WithStatus, Stamped, Chat
<1>4. FreshChat.status = "none"
  BY DEF FreshChat
<1> QED BY <1>2, <1>3, <1>4 DEF AppendMessage, SetStatus, ResetConversation, TypeOK

\* Only a turn that hands over puts a chat in the waiting queue.
LEMMA WaitingMoves ==
  ASSUME TypeOK, HandsOff, [Next]_vars, NEW c \in Conv, chats'[c].status = "waiting"
  PROVE  \/ chats[c].status = "waiting"
         \/ \E w \in Worker : MarkWaiting(w) /\ turns[w].conv = c
<1>1. ASSUME NEW d \in Conv, AppendMessage(d) \/ SetStatus(d, "closed") \/ ResetConversation(d)
      PROVE  chats[c].status = "waiting"
  BY <1>1, StatusWrites
<1>2. ASSUME NEW w \in Worker, TurnStep(w)
      PROVE  \/ chats[c].status = "waiting"
             \/ MarkWaiting(w) /\ turns[w].conv = c
  <2>0. turns[w].conv \in Conv
    BY DEF TypeOK, Turn
  <2>1. CASE MarkWaiting(w)
    BY <2>0, <2>1, StatusWrites DEF MarkWaiting
  <2>2. CASE ResetChat(w) \/ SilentLog(w) \/ LogMessage(w) \/ Reply(w) \/ CloseChat(w)
    BY <1>1, <2>0, <2>2 DEF ResetChat, SilentLog, LogMessage, Reply, CloseChat
  <2>3. CASE SaveState(w)
    <3>1. PICK l : l = IF turns[w].res.state.phase = "in_flow" THEN turns[w].lead ELSE NoLead
      OBVIOUS
    <3>2. chats[c] \in Chat
      BY DEF TypeOK
    <3>3. \/ chats'[c] = [chats[c] EXCEPT !.state = turns[w].res.state, !.lead = l]
          \/ chats'[c] = chats[c]
      BY <2>3, <3>1 DEF SaveState, SetState, TypeOK
    <3> QED BY <3>2, <3>3 DEF Chat
  <2>4. CASE ReadStatus(w) \/ ReadActivity(w) \/ SilentTouch(w) \/ LoadAndAdvance(w)
             \/ StartLead(w) \/ RecordStep(w) \/ FinishLead(w) \/ BookingLead(w)
             \/ NothingToPersist(w) \/ HandOff(w) \/ RejectTransaction(w)
    BY <2>4 DEF ReadStatus, ReadActivity, SilentTouch, LoadAndAdvance, StartLead,
       RecordStep, FinishLead, BookingLead, NothingToPersist, HandOff, RejectTransaction
  <2> QED BY <1>2, <2>1, <2>2, <2>3, <2>4 DEF TurnStep
<1>3. CASE OwnerStep
  BY <1>1, <1>3 DEF OwnerStep, OwnerSetsStatus, OwnerReplies, OwnerSetsLeadStatus,
     OwnerDeletesLead, OwnerSavesBot, OwnerDoes, HandsOff
<1>4. ASSUME NEW s \in Sweeper, SweepStep(s) \/ SweepFails(s) PROVE chats[c].status = "waiting"
  <2>1. sweeps[s].conv \in Conv
    BY DEF TypeOK, Sweep
  <2>2. \/ chats' = chats
        \/ AppendMessage(sweeps[s].conv)
        \/ SetStatus(sweeps[s].conv, "closed")
    BY <1>4 DEF SweepStep, SweepList, SweepSend, SweepAppend, SweepClose, SweepDone,
       SweepFails
  <2> QED BY <1>1, <2>1, <2>2
<1>5. ASSUME NEW d \in Conv, CloseAbandoned(d) \/ ChatExpires(d) PROVE chats[c].status = "waiting"
  BY <1>1, <1>5 DEF CloseAbandoned, ChatExpires
<1>6. CASE Tick
  <2>1. chats[c] \in Chat
    BY DEF TypeOK
  <2>2. chats'[c].status = chats[c].status
    BY <1>6, <2>1 DEF Tick, Chat
  <2> QED BY <2>2
<1>7. ASSUME NEW w \in Worker,
             TurnFails(w) \/ \E d \in Conv, m \in Inbound : Receive(w, d, m)
      PROVE  chats[c].status = "waiting"
  BY <1>7 DEF TurnFails, Receive
<1>8. CASE LockExpires \/ AbandonLeads \/ AbandonFails \/ UNCHANGED vars
  BY <1>8 DEF LockExpires, AbandonLeads, AbandonFails, vars
<1> QED BY <1>2, <1>3, <1>4, <1>5, <1>6, <1>7, <1>8 DEF Next

\* No row is deleted, and HandoffHasLead itself.
HandoffInv ==
  /\ OwnLeads
  /\ \A l \in Lead : leads[l].status # "deleted"
  /\ HandoffHasLead

\* The lead that carries the request of a chat.
Asked(rows, c, l) == rows[l].status # "unused" /\ rows[l].conv = c /\ rows[l].handoff

\* A request, once on a lead, stays there.
LEMMA AskedStays ==
  ASSUME TypeOK, [Next]_vars, NEW c, NEW l \in Lead, Asked(leads, c, l)
  PROVE  Asked(leads', c, l)
<1>1. RowMoved(l) /\ Kept(leads, leads')
  BY RowsMove, RowsKept
<1>2. leads'[l].handoff
  BY <1>1 DEF RowMoved, Touched, Asked
<1> QED BY <1>1, <1>2 DEF Kept, Asked

\* The transaction of a handoff leaves a lead with the request.
LEMMA HandOffAsks ==
  ASSUME TypeOK, NEW w \in Worker, HandOff(w), OwnLead(leads, turns[w])
  PROVE  \E l \in Lead : Asked(leads', turns[w].conv, l)
<1> DEFINE t == turns[w]
<1>1. CASE t.lead = NoLead
  <2>1. PICK l \in Lead : leads' = [leads EXCEPT ![l] = NewLead(t.conv, NoFlow, TRUE)]
    BY <1>1 DEF HandOff, CreateLead
  <2>2. leads'[l] = NewLead(t.conv, NoFlow, TRUE)
    BY <2>1 DEF TypeOK
  <2>3. Asked(leads', t.conv, l)
    BY <2>2 DEF NewLead, Asked
  <2> QED BY <2>3
<1>2. CASE t.lead # NoLead
  <2>1. /\ t.lead \in Lead /\ leads[t.lead].status # "unused" /\ leads[t.lead].conv = t.conv
        /\ leads[t.lead] \in LeadRow
    BY <1>2 DEF OwnLead, HandOff, TypeOK
  <2>2. leads'[t.lead] = [leads[t.lead] EXCEPT !.handoff = TRUE]
    BY <1>2, <2>1 DEF HandOff, TypeOK
  <2>3. Asked(leads', t.conv, t.lead)
    BY <2>1, <2>2 DEF LeadRow, Asked
  <2> QED BY <2>1, <2>3
<1> QED BY <1>1, <1>2

\* Every step keeps the request of every waiting chat.
LEMMA NextHandoff ==
  ASSUME HandsOff, HandoffInv, [Next]_vars
  PROVE  HandoffInv'
<1>0. OwnLeads /\ OwnLeads' /\ TypeOK
  BY NextOwnLeads DEF HandoffInv, OwnLeads, PointerInv
<1>1. ASSUME NEW l \in Lead PROVE leads'[l].status # "deleted"
  <2>1. RowMoved(l) /\ leads[l].status # "deleted"
    BY <1>0, RowsMove DEF HandoffInv
  <2> QED BY <2>1 DEF RowMoved, Touched, HandsOff, LeadStatus
<1>2. ASSUME used'.fail = 0, NEW c \in Conv, chats'[c].status = "waiting",
             \A w \in Worker : turns'[w].conv = c => turns'[w].pc # "handoff"
      PROVE  \E l \in Lead : Asked(leads', c, l)
  <2>1. used.fail = 0 /\ \A w \in Worker : ~TurnFails(w)
    BY <1>0, <1>2, FailuresCount
  <2>2. chats[c].status = "waiting"
    <3> SUFFICES ASSUME NEW w \in Worker, MarkWaiting(w), turns[w].conv = c PROVE FALSE
      BY <1>0, <1>2, WaitingMoves
    <3>1. turns'[w].pc = "handoff" /\ turns'[w].conv = c
      BY <1>0, TurnWrites DEF MarkWaiting
    <3> QED BY <1>2, <3>1
  <2>3. ASSUME NEW w \in Worker, turns[w].conv = c, turns[w].pc = "handoff"
        PROVE  \E l \in Lead : Asked(leads', c, l)
    <3>1. ~Still(w)
      BY <1>2, <2>3 DEF Still
    <3>2. HandOff(w) \/ RejectTransaction(w)
      BY <1>0, <2>1, <2>3, <3>1, StillOrOwn DEF TurnStep, Receive, ReadStatus, ReadActivity,
         ResetChat, SilentLog, SilentTouch, LogMessage, LoadAndAdvance, StartLead, RecordStep,
         FinishLead, BookingLead, NothingToPersist, MarkWaiting, SaveState, Reply, CloseChat
    <3>3. OwnLead(leads, turns[w])
      BY <1>0 DEF OwnLeads
    <3>4. ~RejectTransaction(w)
      <4>1. ASSUME turns[w].lead # NoLead PROVE Live(turns[w].lead)
        <5>1. turns[w].lead \in Lead /\ leads[turns[w].lead].status # "unused"
          BY <2>3, <3>3, <4>1 DEF OwnLead
        <5>2. leads[turns[w].lead].status \in LeadStatus \cup {"unused", "deleted"}
          BY <1>0, <5>1 DEF TypeOK, LeadRow
        <5> QED BY <5>1, <5>2 DEF HandoffInv, Live
      <4> QED BY <4>1 DEF RejectTransaction, LeadGone
    <3> QED BY <1>0, <2>3, <3>2, <3>3, <3>4, HandOffAsks
  <2>4. ASSUME \A w \in Worker : turns[w].conv = c => turns[w].pc # "handoff"
        PROVE  \E l \in Lead : Asked(leads', c, l)
    <3>1. PICK l \in Lead : Asked(leads, c, l)
      BY <2>1, <2>2, <2>4 DEF HandoffInv, HandoffHasLead, Asked
    <3> QED BY <1>0, <3>1, AskedStays
  <2> QED BY <2>3, <2>4
<1>3. HandoffHasLead'
  BY <1>2 DEF HandoffHasLead, Asked
<1> QED BY <1>0, <1>1, <1>3 DEF HandoffInv

\* "a handoff ALWAYS yields a lead": whatever turns of one or of many chats
\* overlap, and whatever the sweeps and the owner's replies and bot edits do
\* meanwhile, a chat the bot put in the waiting queue has a lead that carries the
\* request, until a turn crashes.  The owner who deletes the very lead a handoff is
\* about to write, or who files a chat as waiting by hand, is left out.
THEOREM HandoffAlwaysHasLead == HandsOff /\ Spec => []HandoffHasLead
<1>1. Init => HandoffInv
  <2> SUFFICES ASSUME Init PROVE HandoffInv
    OBVIOUS
  <2>1. \A l \in Lead : leads[l].status # "deleted"
    BY DEF Init, NoRow
  <2>2. HandoffHasLead
    BY DEF Init, FreshChat, HandoffHasLead
  <2> QED BY <2>1, <2>2, InitOwnLeads DEF HandoffInv
<1>2. HandsOff /\ HandoffInv /\ [Next]_vars => (HandsOff /\ HandoffInv)'
  BY NextHandoff DEF HandsOff
<1>3. HandoffInv => HandoffHasLead
  BY DEF HandoffInv
<1> QED BY <1>1, <1>2, <1>3, PTL DEF Spec

-----------------------------------------------------------------------------
(* A completed lead keeps its answers *)

\* The turn that completed lead l of chat c and has yet to save the chat's state.
Completing(ts, c, l) ==
  \E w \in Worker : /\ ts[w].pc = "save" /\ ts[w].res.event = "lead_completed"
                    /\ ts[w].conv = c /\ ts[w].lead = l

\* The lead a turn still asks questions for.
Asking(t) ==
  /\ t.pc = "save" \/ (t.pc = "persist" /\ t.lead # NoLead)
  /\ t.res.state.phase = "in_flow"

\* A completed lead has its answers, no chat points to it but one that is about
\* to drop it, and no turn is about to write answers to it.
SettledLeads ==
  /\ \A l \in Lead : Live(l) /\ leads[l].reason = "completed" =>
       leads[l].answers = AllKeys(bot, leads[l].flow)
  /\ \A c \in Conv : chats[c].lead # NoLead /\ leads[chats[c].lead].reason = "completed" =>
       Completing(turns, c, chats[c].lead)
  /\ \A w \in Worker : Asking(turns[w]) => leads[turns[w].lead].reason # "completed"

KeepInv == AnswersInv /\ OwnLeads /\ (~used.torn => SettledLeads)

\* A step after which no turn is torn starts where none was, and tears none.
LEMMA TearsStay ==
  ASSUME TypeOK, [Next]_vars, ~used'.torn
  PROVE  ~used.torn /\ \A w \in Worker : TurnFails(w) => ~Torn(turns[w])
<1>1. used \in [inbound : Nat, owner : Nat, fail : Nat, torn : BOOLEAN]
  BY DEF TypeOK
<1>2. ASSUME NEW w \in Worker, TurnFails(w)
      PROVE  ~used.torn /\ ~Torn(turns[w])
  <2>1. PICK b \in BOOLEAN : b = (used.torn \/ Torn(turns[w]))
    BY <1>1 DEF Torn
  <2>2. used' = [used EXCEPT !.fail = @ + 1, !.torn = b]
    BY <1>2, <2>1 DEF TurnFails
  <2>3. used'.torn = b
    BY <1>1, <2>2
  <2> QED BY <2>1, <2>3
<1>3. ASSUME \A w \in Worker : ~TurnFails(w)
      PROVE  ~used.torn
  <2>1. used'.torn = used.torn
    BY <1>1, <1>3, UsesMove
  <2> QED BY <2>1
<1> QED BY <1>2, <1>3

\* Only a turn that still asks questions writes answers, so a completed lead is
\* rewritten by nobody, and a lead becomes completed with all its answers.
LEMMA AnswersSettle ==
  ASSUME Unedited, KeepInv, SettledLeads, [Next]_vars, NEW l \in Lead,
         Live(l)', leads'[l].reason = "completed"
  PROVE  leads'[l].answers = AllKeys(bot, leads'[l].flow)
<1>0. TypeOK /\ Kept(leads, leads') /\ RowMoved(l)
  BY RowsKept, RowsMove DEF KeepInv, OwnLeads, PointerInv
<1>1. ASSUME leads[l].status \in LeadStatus, leads[l].reason = "completed",
             leads'[l].answers = leads[l].answers
      PROVE  leads'[l].answers = AllKeys(bot, leads'[l].flow)
  BY <1>0, <1>1 DEF SettledLeads, Live, Kept, LeadStatus
<1>2. CASE Touched(leads[l], leads'[l])
  <2>1. leads[l].status \in LeadStatus
    BY <1>2 DEF Touched, Live, LeadStatus
  <2> QED BY <1>1, <1>2, <2>1 DEF Touched
<1>3. ASSUME NEW w \in Worker, RecordStep(w), turns[w].lead = l,
             leads'[l].reason = leads[l].reason
      PROVE  FALSE
  BY <1>3 DEF RecordStep, AnsweredStep, Asking, SettledLeads
<1>4. ASSUME NEW w \in Worker, FinishLead(w), turns[w].lead = l,
             leads'[l].answers = turns[w].res.lead
      PROVE  leads'[l].answers = AllKeys(bot, leads'[l].flow)
  <2>1. leads[l].status # "unused" /\ turns[w].res.lead = AllKeys(bot, leads[l].flow)
    BY <1>4 DEF KeepInv, AnswersInv, TurnFull, FinishLead
  <2> QED BY <1>0, <1>4, <2>1 DEF Kept
<1>5. ASSUME leads'[l].status = leads[l].status, leads'[l].reason = leads[l].reason,
             leads'[l].answers = leads[l].answers
      PROVE  leads'[l].answers = AllKeys(bot, leads'[l].flow)
  BY <1>1, <1>5 DEF Live
<1> QED BY <1>0, <1>2, <1>3, <1>4, <1>5 DEF RowMoved

\* A chat points to a completed lead only until the turn that completed it saves.
LEMMA PointersSettle ==
  ASSUME KeepInv, SettledLeads, [Next]_vars, NEW c \in Conv,
         \A w \in Worker : TurnFails(w) => ~Torn(turns[w]),
         chats'[c].lead # NoLead, leads'[chats'[c].lead].reason = "completed"
  PROVE  Completing(turns', c, chats'[c].lead)
<1> DEFINE l == chats'[c].lead
<1>0. PointerInv /\ TypeOK
  BY DEF KeepInv, OwnLeads, PointerInv
<1>1. CASE chats'[c].state = chats[c].state /\ chats'[c].lead = chats[c].lead
  <2>1. l \in Lead /\ leads[l].status # "unused" /\ leads[l].conv = c
    BY <1>0, <1>1 DEF PointerInv, LeadPointerSound, PointerOK
  <2>2. ASSUME leads[l].reason = "completed" PROVE Completing(turns', c, l)
    <3>1. PICK w \in Worker : /\ turns[w].pc = "save" /\ turns[w].res.event = "lead_completed"
                              /\ turns[w].conv = c /\ turns[w].lead = l
      BY <1>1, <2>2 DEF SettledLeads, Completing
    <3>2. ~SaveState(w)
      <4>1. turns[w].res.state.phase # "in_flow"
        BY <1>0, <3>1 DEF PointerInv, TurnSound, NoEvent
      <4> QED BY <1>0, <3>1, <4>1, Saved
    <3>3. Still(w)
      BY <1>0, <3>1, <3>2, StillOrOwn DEF TurnStep, Receive, ReadStatus, ReadActivity,
         ResetChat, SilentLog, SilentTouch, LogMessage, LoadAndAdvance, StartLead, RecordStep,
         FinishLead, BookingLead, NothingToPersist, MarkWaiting, HandOff, RejectTransaction,
         Reply, CloseChat, Torn
    <3> HIDE DEF l
    <3> QED BY <3>1, <3>3 DEF Still, Completing
  <2>3. ASSUME NEW w \in Worker, FinishLead(w), turns[w].lead = l PROVE Completing(turns', c, l)
    <3>1. turns[w].conv = c
      BY <2>1, <2>3, NoneAssumption DEF KeepInv, OwnLeads, OwnLead, FinishLead
    <3>2. /\ turns'[w].pc = "save" /\ turns'[w].conv = c /\ turns'[w].lead = l
          /\ turns'[w].res.event = "lead_completed"
      BY <1>0, <2>3, <3>1, TurnWrites DEF FinishLead
    <3> HIDE DEF l
    <3> QED BY <3>2 DEF Completing
  <2>4. RowMoved(l)
    BY <1>0, <2>1, RowsMove
  <2> HIDE DEF l
  <2>5. leads'[l].reason = "completed"
    BY DEF l
  <2>6. Completing(turns', c, l)
    BY <2>1, <2>2, <2>3, <2>4, <2>5 DEF RowMoved, Touched
  <2> QED BY <2>6 DEF l
<1>2. CASE chats'[c] = FreshChat
  BY <1>2 DEF FreshChat
<1>3. ASSUME NEW w \in Worker, SaveState(w), turns[w].conv = c,
             chats'[c].lead = IF turns[w].res.state.phase = "in_flow" THEN turns[w].lead
                              ELSE NoLead
      PROVE  FALSE
  <2>1. leads' = leads /\ turns[w].pc = "save"
    BY <1>3 DEF SaveState
  <2> QED BY <1>3, <2>1 DEF SettledLeads, Asking
<1> QED BY <1>0, <1>1, <1>2, <1>3, ChatsMove DEF ChatMoved

\* A turn that asks questions does so for a lead nobody has completed.
LEMMA AskersSettle ==
  ASSUME KeepInv, SettledLeads, OneTurnPerChat, [Next]_vars, NEW w \in Worker,
         Asking(turns'[w])
  PROVE  leads'[turns'[w].lead].reason # "completed"
<1>0. PointerInv /\ TypeOK
  BY DEF KeepInv, OwnLeads, PointerInv
<1>1. CASE Still(w)
  <2> DEFINE l == turns[w].lead
  <2>0. Asking(turns[w]) /\ turns'[w].lead = l
    BY <1>1 DEF Still, Asking
  <2>1. /\ l \in Lead /\ leads[l].status # "unused" /\ leads[l].conv = turns[w].conv
        /\ turns[w].pc # "idle"
    BY <1>0, <2>0 DEF Asking, PointerInv, TurnSound, PointerOK
  <2>2. leads[l].reason # "completed"
    BY <2>0 DEF SettledLeads
  <2>3. ASSUME NEW v \in Worker, FinishLead(v), turns[v].lead = l PROVE FALSE
    <3>1. turns[v].conv = turns[w].conv /\ turns[v].pc = "persist"
      BY <2>1, <2>3, NoneAssumption DEF KeepInv, OwnLeads, OwnLead, FinishLead
    <3>2. v = w
      BY <2>1, <3>1 DEF OneTurnPerChat
    <3>3. turns'[v].pc = "save"
      BY <1>0, <2>3, TurnWrites DEF FinishLead
    <3> QED BY <1>1, <3>1, <3>2, <3>3 DEF Still
  <2>4. RowMoved(l)
    BY <1>0, <2>1, RowsMove
  <2> HIDE DEF l
  <2> QED BY <2>0, <2>1, <2>2, <2>3, <2>4 DEF RowMoved, Touched
<1>2. CASE LoadAndAdvance(w)
  <2>1. /\ turns'[w].pc = "persist" /\ turns'[w].lead = chats[turns[w].conv].lead
        /\ turns[w].conv \in Conv /\ leads' = leads /\ turns[w].pc = "load"
    BY <1>0, <1>2, Loaded DEF LoadAndAdvance, TypeOK, Turn
  <2>2. ~Completing(turns, turns[w].conv, turns'[w].lead)
    BY <2>1 DEF Completing, OneTurnPerChat
  <2> QED BY <2>1, <2>2 DEF SettledLeads, Asking
<1>3. CASE StartLead(w)
  <2>1. PICK l \in Lead : /\ CreateLead(l, turns[w].conv, turns[w].res.state.flow, FALSE)
                          /\ Saving(w, l)
    BY <1>3 DEF StartLead
  <2>2. turns'[w].lead = l
    BY <1>0, <2>1, TurnWrites
  <2>3. leads'[l].reason = "null"
    BY <1>0, <2>1 DEF CreateLead, NewLead, TypeOK
  <2> QED BY <2>2, <2>3
<1>4. CASE RecordStep(w)
  <2>1. /\ turns'[w].lead = turns[w].lead /\ turns[w].lead # NoLead
        /\ leads[turns[w].lead].reason # "completed"
    BY <1>0, <1>4, TurnWrites DEF RecordStep, AnsweredStep, SettledLeads, Asking
  <2>2. turns[w].lead \in Lead
    BY <1>0, <2>1 DEF TypeOK, Turn
  <2>3. leads[turns[w].lead] \in LeadRow
    BY <1>0, <2>2 DEF TypeOK
  <2>4. PICK a : a = turns[w].res.state.collected
    OBVIOUS
  <2>5. leads'[turns[w].lead] = [leads[turns[w].lead] EXCEPT !.answers = a, !.idle = 0]
    BY <1>0, <1>4, <2>2, <2>4 DEF RecordStep, UpdateLead, TypeOK
  <2>6. leads'[turns[w].lead].reason = leads[turns[w].lead].reason
    BY <2>3, <2>5 DEF LeadRow
  <2> QED BY <2>1, <2>6
<1>5. CASE FinishLead(w) \/ BookingLead(w) \/ NothingToPersist(w) \/ HandOff(w)
  <2>1. turns[w].res.state.phase # "in_flow"
    BY <1>0, <1>5 DEF PointerInv, TurnSound, NoEvent, FinishLead, BookingLead,
       NothingToPersist, HandOff
  <2>2. \E l : Saving(w, l)
    BY <1>5 DEF FinishLead, BookingLead, NothingToPersist, HandOff
  <2>3. turns'[w].res = turns[w].res
    BY <1>0, <2>2, TurnWrites
  <2> QED BY <2>1, <2>3 DEF Asking
<1>6. CASE ReadStatus(w)
  BY <1>0, <1>6, StatusRead DEF Asking
<1>7. CASE ReadActivity(w) \/ ResetChat(w) \/ SilentLog(w) \/ LogMessage(w) \/ MarkWaiting(w)
           \/ SaveState(w)
  <2>1. \E pc \in {"reset", "silent", "log", "touch", "load", "handoff", "reply"} : Goto(w, pc)
    BY <1>7 DEF ReadActivity, ResetChat, SilentLog, LogMessage, MarkWaiting, SaveState
  <2> QED BY <1>0, <2>1, TurnWrites DEF Asking
<1>8. CASE SilentTouch(w) \/ RejectTransaction(w) \/ CloseChat(w) \/ TurnFails(w)
  <2>1. Finish(w)
    BY <1>8 DEF SilentTouch, RejectTransaction, CloseChat, TurnFails
  <2> QED BY <1>0, <2>1, TurnWrites DEF IdleTurn, Asking
<1>9. CASE Reply(w)
  <2>1. Goto(w, "close") \/ Finish(w)
    BY <1>9 DEF Reply
  <2> QED BY <1>0, <2>1, TurnWrites DEF IdleTurn, Asking
<1>10. ASSUME NEW c \in Conv, NEW m \in Inbound, Receive(w, c, m) PROVE FALSE
  BY <1>0, <1>10, Received DEF Asking
<1> QED BY <1>0, <1>1, <1>2, <1>3, <1>4, <1>5, <1>6, <1>7, <1>8, <1>9, <1>10,
           StillOrOwn DEF TurnStep

\* Every step.
LEMMA NextKeeps ==
  ASSUME Unedited, KeepInv, OneTurnPerChat, [Next]_vars
  PROVE  KeepInv'
<1>1. AnswersInv' /\ OwnLeads' /\ TypeOK /\ bot' = bot
  BY NextAnswers, NextOwnLeads, BotStays DEF KeepInv, OwnLeads, PointerInv
<1>2. ASSUME ~used'.torn PROVE SettledLeads'
  <2>1. SettledLeads /\ \A w \in Worker : TurnFails(w) => ~Torn(turns[w])
    BY <1>1, <1>2, TearsStay DEF KeepInv
  <2>2. \A l \in Lead : Live(l)' /\ leads'[l].reason = "completed" =>
          leads'[l].answers = AllKeys(bot, leads'[l].flow)
    BY <2>1, AnswersSettle
  <2>3. \A c \in Conv : chats'[c].lead # NoLead /\ leads'[chats'[c].lead].reason = "completed" =>
          Completing(turns', c, chats'[c].lead)
    BY <2>1, PointersSettle
  <2>4. \A w \in Worker : Asking(turns'[w]) => leads'[turns'[w].lead].reason # "completed"
    BY <2>1, AskersSettle
  <2> QED BY <1>1, <2>2, <2>3, <2>4 DEF SettledLeads, Asking
<1> QED BY <1>1, <1>2 DEF KeepInv

\* No step takes an answer from a completed lead: a turn that asks questions is not
\* the one that may write to it, and completing it again brings the same answers.
LEMMA StepKeepsAnswers ==
  ASSUME KeepInv, SettledLeads, [Next]_vars, NEW l \in Lead,
         Live(l), leads[l].reason = "completed", Live(l)'
  PROVE  leads[l].answers \subseteq leads'[l].answers
<1>0. TypeOK /\ RowMoved(l)
  BY RowsMove DEF KeepInv, OwnLeads, PointerInv
<1>1. leads[l].answers = AllKeys(bot, leads[l].flow)
  BY DEF SettledLeads
<1>2. ASSUME NEW w \in Worker, RecordStep(w), turns[w].lead = l
      PROVE  FALSE
  BY <1>2 DEF RecordStep, AnsweredStep, Asking, SettledLeads
<1>3. ASSUME NEW w \in Worker, FinishLead(w), turns[w].lead = l,
             leads'[l].answers = turns[w].res.lead
      PROVE  leads'[l].answers = AllKeys(bot, leads[l].flow)
  BY <1>3 DEF KeepInv, AnswersInv, TurnFull, FinishLead
<1>4. leads[l].status # "unused"
  BY DEF Live, LeadStatus
<1> QED BY <1>0, <1>1, <1>2, <1>3, <1>4 DEF RowMoved, Touched

\* While the owner saves no new bot and the turns of a chat do not overlap, a lead
\* the bot finished keeps its answers: no later turn of the chat, sweep or dashboard
\* edit takes one away, and no crash of a turn but one between the commit that
\* completes a lead and the state it saves.
THEOREM SerialLeadsKeepAnswers ==
  Unedited /\ Spec /\ []OneTurnPerChat => CompletedLeadKeepsAnswers
<1> DEFINE AnswersKept ==
      \A l \in Lead :
        Live(l) /\ leads[l].reason = "completed" /\ ~used.torn /\ Live(l)' =>
          leads[l].answers \subseteq leads'[l].answers
<1>1. Init => KeepInv
  <2> SUFFICES ASSUME Init PROVE KeepInv
    OBVIOUS
  <2>1. SettledLeads
    BY DEF Init, SettledLeads, Live, LeadStatus, NoRow, FreshChat, IdleTurn, Asking
  <2> QED BY <2>1, InitAnswers, InitOwnLeads DEF KeepInv
<1>2. Unedited /\ KeepInv /\ OneTurnPerChat /\ [Next]_vars => (Unedited /\ KeepInv)'
  BY NextKeeps DEF Unedited
<1>3. KeepInv /\ [Next]_vars => [AnswersKept]_vars
  BY StepKeepsAnswers DEF KeepInv
<1> QED BY <1>1, <1>2, <1>3, PTL DEF Spec, CompletedLeadKeepsAnswers

=============================================================================
