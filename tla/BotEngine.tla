------------------------------ MODULE BotEngine ------------------------------
(***************************************************************************)
(* The pure bot engine (backend/app/services/bot_engine.py): one message   *)
(* plus the current conversation state gives the next state and an event.  *)
(*                                                                         *)
(* A message is the record of what the engine's matchers tell about it:    *)
(*   blank      the text is empty once stripped                            *)
(*   menuKw     the whole text is a return-to-menu keyword                 *)
(*   handoffKw  the text contains a handoff keyword                        *)
(*   pick       the menu entry it selects (number or label), 0 for none    *)
(*   skip       the whole text is a skip word                              *)
(*   fits       the step types it is a well-formed answer to               *)
(*   media      the kind of the attachment, NoMedia when there is none     *)
(*                                                                         *)
(* A bot configuration is the ordered sequence of the flows of lead_steps. *)
(* Replies are wording and are left out: every turn says one thing.        *)
(*                                                                         *)
(* A definition whose comment begins with "Fault" is a plausible mistake   *)
(* in the definition after it.  No action uses it: it is there to show     *)
(* that a property notices the mistake.                                    *)
(***************************************************************************)
EXTENDS Naturals, Sequences

CONSTANTS
  FlowName,      \* machine names of flows
  Key            \* machine keys of questionnaire steps

NoFlow == "no_flow"
NoMedia == "no_media"
NoEvent == "none"

MediaKind == {"image", "pdf", "doc", "ppt"}
StepType == {"file", "phone", "email", "choice", "text"}
FlowType == {"lead", "human_handoff", "booking"}
Phase == {"new", "menu", "in_flow", "handed_off"}
Event == {NoEvent, "lead_completed", "handed_off", "booking"}

Step == [key : Key, type : StepType, required : BOOLEAN, accept : SUBSET MediaKind]
Flow == [name : FlowName, type : FlowType, steps : Seq(Step)]

\* A lead_steps object: flow names are its keys, so they are distinct.
Config == {cfg \in Seq(Flow) :
             \A i, j \in DOMAIN cfg : cfg[i].name = cfg[j].name => i = j}

Message == [blank : BOOLEAN, menuKw : BOOLEAN, handoffKw : BOOLEAN, pick : Nat,
            skip : BOOLEAN, fits : SUBSET StepType,
            media : MediaKind \cup {NoMedia, "other"}]

EngineState == [phase : Phase, flow : FlowName \cup {NoFlow}, step : Nat,
                collected : SUBSET Key]

-----------------------------------------------------------------------------
(* States and results *)

InitialState == [phase |-> "new", flow |-> NoFlow, step |-> 0, collected |-> {}]

MenuState == [phase |-> "menu", flow |-> NoFlow, step |-> 0, collected |-> {}]

HandedOffState ==
  [phase |-> "handed_off", flow |-> NoFlow, step |-> 0, collected |-> {}]

InFlowState(f, i, answers) ==
  [phase |-> "in_flow", flow |-> f, step |-> i, collected |-> answers]

\* lead: the answers of a finished questionnaire, {} on every other turn.
Result(st, event, lead) == [state |-> st, event |-> event, lead |-> lead]

-----------------------------------------------------------------------------
(* Lookups in the configuration *)

FlowNames(cfg) == {cfg[i].name : i \in DOMAIN cfg}

\* The steps of the flow called f, empty when the owner removed it mid-chat.
StepsOf(cfg, f) ==
  IF f \in FlowNames(cfg)
  THEN cfg[CHOOSE i \in DOMAIN cfg : cfg[i].name = f].steps
  ELSE <<>>

\* The keys of the first n questions of flow f.
KeysUpTo(cfg, f, n) ==
  {StepsOf(cfg, f)[i].key : i \in {j \in DOMAIN StepsOf(cfg, f) : j <= n}}

AllKeys(cfg, f) == KeysUpTo(cfg, f, Len(StepsOf(cfg, f)))

AcceptedKinds(step) == IF step.accept = {} THEN MediaKind ELSE step.accept

-----------------------------------------------------------------------------
(* Validation of one answer *)

ValidateAnswer(step, m) ==
  CASE step.type = "file" /\ m.media # NoMedia -> m.media \in AcceptedKinds(step)
    [] step.type = "file" /\ m.media = NoMedia ->
         ~step.required /\ (m.blank \/ m.skip)
    [] step.type = "text" -> ~step.required \/ ~m.blank
    [] OTHER -> step.type \in m.fits

\* An attachment that lands on a file step is the answer, whatever its caption.
AnsweringFileStep(cfg, st, m) ==
  /\ m.media # NoMedia
  /\ st.phase = "in_flow"
  /\ st.step < Len(StepsOf(cfg, st.flow))
  /\ StepsOf(cfg, st.flow)[st.step + 1].type = "file"

-----------------------------------------------------------------------------
(* One turn *)

\* Fault: the answer is recorded before it is validated.
AdvanceRecordFirst(cfg, st, m) ==
  LET steps == StepsOf(cfg, st.flow)
      step == steps[st.step + 1]
      answers == st.collected \cup {step.key}
  IN IF st.step >= Len(steps)
     THEN Result(MenuState, NoEvent, {})
     ELSE IF ~ValidateAnswer(step, m)
     THEN Result([st EXCEPT !.collected = answers], NoEvent, {})
     ELSE IF st.step + 1 >= Len(steps)
     THEN Result(MenuState, "lead_completed", answers)
     ELSE Result(InFlowState(st.flow, st.step + 1, answers), NoEvent, {})

\* Fault: the questionnaire ends one question early.
AdvanceOneShort(cfg, st, m) ==
  LET steps == StepsOf(cfg, st.flow)
      step == steps[st.step + 1]
      answers == st.collected \cup {step.key}
  IN IF st.step >= Len(steps)
     THEN Result(MenuState, NoEvent, {})
     ELSE IF ~ValidateAnswer(step, m)
     THEN Result(st, NoEvent, {})
     ELSE IF st.step + 2 >= Len(steps)
     THEN Result(MenuState, "lead_completed", answers)
     ELSE Result(InFlowState(st.flow, st.step + 1, answers), NoEvent, {})

AdvanceInFlow(cfg, st, m) ==
  LET steps == StepsOf(cfg, st.flow)
      step == steps[st.step + 1]
      answers == st.collected \cup {step.key}
  IN IF st.step >= Len(steps)                       \* the flow vanished or shrank
     THEN Result(MenuState, NoEvent, {})
     ELSE IF ~ValidateAnswer(step, m)               \* ask the same question again
     THEN Result(st, NoEvent, {})
     ELSE IF st.step + 1 >= Len(steps)
     THEN Result(MenuState, "lead_completed", answers)
     ELSE Result(InFlowState(st.flow, st.step + 1, answers), NoEvent, {})

AdvanceMenu(cfg, m) ==
  IF m.blank \/ m.pick \notin DOMAIN cfg            \* the nudge
  THEN Result(MenuState, NoEvent, {})
  ELSE CASE cfg[m.pick].type = "lead" /\ cfg[m.pick].steps # <<>> ->
              Result(InFlowState(cfg[m.pick].name, 0, {}), NoEvent, {})
         [] cfg[m.pick].type = "human_handoff" ->
              Result(HandedOffState, "handed_off", {})
         [] cfg[m.pick].type = "booking" -> Result(MenuState, "booking", {})
         [] OTHER -> Result(MenuState, NoEvent, {})

Advance(cfg, st, m) ==
  IF st.phase = "new" \/ (m.blank /\ m.media = NoMedia)
  THEN Result(MenuState, NoEvent, {})
  ELSE IF st.phase = "handed_off"
  THEN Result(st, NoEvent, {})
  ELSE IF ~AnsweringFileStep(cfg, st, m) /\ m.menuKw
  THEN Result(MenuState, NoEvent, {})
  ELSE IF ~AnsweringFileStep(cfg, st, m) /\ m.handoffKw
  THEN Result(HandedOffState, "handed_off", {})
  ELSE IF st.phase = "in_flow"
  THEN AdvanceInFlow(cfg, st, m)
  ELSE AdvanceMenu(cfg, m)

=============================================================================
