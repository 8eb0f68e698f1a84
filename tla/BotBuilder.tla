----------------------------- MODULE BotBuilder -----------------------------
(***************************************************************************)
(* The bot builder page of the owner's app: the flow tabs, the flow type,  *)
(* the steps editor, the AI assistant, the publish switch and the save     *)
(* button, over the bot_settings row.  Every handler is one step; a call   *)
(* to the server takes effect and is answered in steps of their own, and   *)
(* nothing on the page is disabled meanwhile but the button that made it.  *)
(* A call that fails has either taken effect or never will.                *)
(***************************************************************************)
EXTENDS Pages, FiniteSets

CONSTANTS MaxFlows, MaxSteps, MaxOptions,  \* the bounds of botbuilder/types.ts
          FirstBots,                       \* rows the page may find
          MaxBotEdits,                     \* bound: edits, by hand or by the assistant
          MaxBotSaves                      \* bound: saves and publish calls

ASSUME BotsAssumption ==
    \A c \in FirstBots : c = [profile |-> c.profile, pub |-> c.pub, flows |-> c.flows]

VARIABLES
  bb,     \* the state of the page
  bbrow,  \* the bot_settings row
  bbnet   \* calls on their way: save, ai and publish

bbvars == <<bb, bbrow, bbnet>>

FlowType == {"lead", "human_handoff", "booking"}
StepType == {"text", "choice", "file"}
FileKind == {"image", "pdf"}

\* emptyStep: a step filled with an example.
EmptyStep(k) == [key |-> k, type |-> "text", options |-> <<>>, accept |-> {}]

\* emptyFlow: a lead flow starts with one step.  A message is the default of a
\* flow type, one the owner wrote, or blank.
EmptyFlow(k) ==
    [key |-> k, label |-> TRUE, type |-> "lead", steps |-> <<EmptyStep(1)>>, msg |-> "blank"]

\* uniqueKey: the base, base_2, base_3, ... the first that is free.
UniqueKey(taken) ==
    CHOOSE n \in 1 .. Cardinality(taken) + 1 :
      n \notin taken /\ \A m \in 1 .. n - 1 : m \in taken

\* withDefaultMessages, the part of normalizeSettings that changes anything.
Normalize(c) ==
    [c EXCEPT !.flows = [i \in DOMAIN c.flows |->
       IF c.flows[i].type # "lead" /\ c.flows[i].msg = "blank"
       THEN [c.flows[i] EXCEPT !.msg = c.flows[i].type] ELSE c.flows[i]]]

\* The contract of the server: what PUT /api/bot/settings answers 422 to.
Filled(s) == {s.options[j] : j \in DOMAIN s.options} \ {"blank"}
ValidFlow(f) ==
    /\ f.label
    /\ f.type = "human_handoff" => f.steps = <<>>
    /\ f.type = "lead" => f.steps # <<>>
    /\ Cardinality(Keys(f.steps)) = Len(f.steps)
    /\ \A i \in DOMAIN f.steps :
         f.steps[i].type = "choice" => Cardinality(Filled(f.steps[i])) >= 2
Valid(c) == c.profile /\ \A i \in DOMAIN c.flows : ValidFlow(c.flows[i])

\* ... and the shape it stores: blank and repeated options are dropped.
FirstOccurrence(s, j) == s[j] # "blank" /\ \A k \in 1 .. j - 1 : s[k] # s[j]
StoredStep(s) ==
    [s EXCEPT !.options = LET keep == {j \in DOMAIN s.options : FirstOccurrence(s.options, j)}
                          IN [n \in 1 .. Cardinality(keep) |->
                                s.options[CHOOSE j \in keep :
                                            Cardinality({k \in keep : k <= j}) = n]],
              !.accept = IF s.type = "file" /\ s.accept = {} THEN FileKind ELSE s.accept]
Stored(c) ==
    [c EXCEPT !.flows = [i \in DOMAIN c.flows |->
       [c.flows[i] EXCEPT !.steps = [j \in DOMAIN c.flows[i].steps |->
                                       StoredStep(c.flows[i].steps[j])]]]]

\* lead_steps is a jsonb object keyed by flow.  jsonb keeps the keys of an object
\* shorter first and then by their bytes, for flow, flow_2, flow_3, ... the order of
\* their numbers.  There is one such order.
KeyOrders(flows) ==
    {s \in [DOMAIN flows -> ToSet(flows)] :
       /\ ToSet(s) = ToSet(flows)
       /\ \A i, j \in DOMAIN s : i < j => s[i].key < s[j].key}

-----------------------------------------------------------------------------
BBInit ==
    /\ bbrow \in FirstBots
    /\ bbnet = [save |-> Nothing, ai |-> Nothing, publish |-> Nothing]
    /\ bb = [config |-> Nothing, loading |-> TRUE, active |-> 0, open |-> 0, confirm |-> 0,
             saving |-> FALSE, saved |-> FALSE, ai |-> FALSE, edits |-> 0, saves |-> 0]

Loaded == bb.config # Nothing
Config == bb.config
FirstKey(c) == IF c.flows = <<>> THEN 0 ELSE c.flows[1].key
HasTab == Loaded /\ bb.active \in Keys(Config.flows)
Tab == KeyAt(Config.flows, bb.active)
ActiveFlow == Config.flows[Tab]

\* The steps editor and the delete prompt live as long as the tab they belong to:
\* the editor is keyed by the tab, the prompt is reset by an effect.
OpenStep(c, k) ==
    IF k \in Keys(c.flows) /\ c.flows[KeyAt(c.flows, k)].steps # <<>> THEN 1 ELSE 0
HasEditor(c, k) ==
    k \in Keys(c.flows) /\ c.flows[KeyAt(c.flows, k)].type # "human_handoff"

\* Fault: the prompt outlives the tab it was opened for.
RenderKeepsPrompt(b, c, k) ==
    [b EXCEPT !.config = c, !.active = k,
       !.open = IF k = b.active /\ HasEditor(c, k) /\ HasEditor(b.config, k)
                THEN @ ELSE OpenStep(c, k)]

Render(b, c, k) ==
    [b EXCEPT !.config = c, !.active = k,
       !.open = IF k = b.active /\ HasEditor(c, k) /\ HasEditor(b.config, k)
                THEN @ ELSE OpenStep(c, k),
       !.confirm = IF k = b.active /\ k \in Keys(c.flows) THEN @ ELSE 0]

\* GET /api/bot/settings on mount, and its failure.
LoadSettings ==
    /\ bb.loading
    /\ LET c == Normalize(bbrow) IN
       bb' = [bb EXCEPT !.config = c, !.loading = FALSE, !.active = FirstKey(c),
                        !.open = OpenStep(c, FirstKey(c))]
    /\ UNCHANGED <<bbrow, bbnet>>

LoadSettingsFails ==
    /\ bb.loading
    /\ bb' = [bb EXCEPT !.loading = FALSE]
    /\ UNCHANGED <<bbrow, bbnet>>

-----------------------------------------------------------------------------
(* Editing *)

\* mutate(): the working copy changes and the form is no longer "saved".
Mutate(c, k) ==
    /\ bb.edits < MaxBotEdits
    /\ bb' = [Render(bb, c, k) EXCEPT !.saved = FALSE, !.edits = @ + 1]
    /\ UNCHANGED <<bbrow, bbnet>>

PatchActiveFlow(f) == Mutate([Config EXCEPT !.flows[Tab] = f], bb.active)

SetProfile == Loaded /\ Mutate([Config EXCEPT !.profile = ~@], bb.active)

AddFlow ==
    /\ Loaded /\ Len(Config.flows) < MaxFlows
    /\ LET k == UniqueKey(Keys(Config.flows))
       IN Mutate([Config EXCEPT !.flows = Append(@, EmptyFlow(k))], k)

SelectTab(k) ==
    /\ Loaded /\ bb.active # 0 /\ k \in Keys(Config.flows) \ {bb.active}
    /\ bb' = Render(bb, Config, k)
    /\ UNCHANGED <<bbrow, bbnet>>

AskDelete ==
    /\ HasTab /\ bb.confirm = 0
    /\ bb' = [bb EXCEPT !.confirm = bb.active]
    /\ UNCHANGED <<bbrow, bbnet>>

CancelDelete ==
    /\ HasTab /\ bb.confirm # 0
    /\ bb' = [bb EXCEPT !.confirm = 0]
    /\ UNCHANGED <<bbrow, bbnet>>

\* The toolbar deletes the flow of the tab that is active now.
DeleteFlow ==
    /\ HasTab /\ bb.confirm # 0
    /\ LET c == [Config EXCEPT !.flows = RemoveAt(@, Tab)] IN
       /\ bb.edits < MaxBotEdits
       /\ bb' = [Render(bb, c, FirstKey(c)) EXCEPT !.saved = FALSE, !.confirm = 0,
                                                !.edits = @ + 1]
    /\ UNCHANGED <<bbrow, bbnet>>

RenameFlowLabel == HasTab /\ PatchActiveFlow([ActiveFlow EXCEPT !.label = ~@])

SetMessage(m) ==
    /\ HasTab /\ ActiveFlow.type # "lead" /\ m # ActiveFlow.msg
    /\ PatchActiveFlow([ActiveFlow EXCEPT !.msg = m])

\* changeActiveFlowType: the steps follow the type, and so does a message that is
\* blank or the other type's default.
ChangeActiveFlowType(t) ==
    /\ HasTab
    /\ PatchActiveFlow([ActiveFlow EXCEPT
         !.type = t,
         !.steps = IF t = "human_handoff" THEN <<>>
                   ELSE IF t = "lead" /\ @ = <<>> THEN <<EmptyStep(1)>> ELSE @,
         !.msg = IF t # "lead" /\ @ \in {"blank", "human_handoff", "booking"} THEN t ELSE @])

Editing == HasTab /\ HasEditor(Config, bb.active)
SetSteps(s) == PatchActiveFlow([ActiveFlow EXCEPT !.steps = s])
Current == ActiveFlow.steps[bb.open]
EditingStep == Editing /\ bb.open \in DOMAIN ActiveFlow.steps
UpdateStep(s) == SetSteps([ActiveFlow.steps EXCEPT ![bb.open] = s])

AddStep ==
    /\ Editing /\ Len(ActiveFlow.steps) < MaxSteps /\ bb.edits < MaxBotEdits
    /\ LET s == Append(ActiveFlow.steps, EmptyStep(UniqueKey(Keys(ActiveFlow.steps)))) IN
       bb' = [bb EXCEPT !.config.flows[Tab].steps = s, !.open = Len(s),
                        !.saved = FALSE, !.edits = @ + 1]
    /\ UNCHANGED <<bbrow, bbnet>>

\* The step that is open stays open, at its new place.
RemoveStep(i) ==
    /\ Editing /\ i \in DOMAIN ActiveFlow.steps /\ bb.edits < MaxBotEdits
    /\ bb' = [bb EXCEPT !.config.flows[Tab].steps = RemoveAt(@, i),
                        !.open = IF @ = i THEN 0 ELSE IF @ > i THEN @ - 1 ELSE @,
                        !.saved = FALSE, !.edits = @ + 1]
    /\ UNCHANGED <<bbrow, bbnet>>

ToggleStep(i) ==
    /\ Editing /\ i \in DOMAIN ActiveFlow.steps
    /\ bb' = [bb EXCEPT !.open = IF @ = i THEN 0 ELSE i]
    /\ UNCHANGED <<bbrow, bbnet>>

\* The key of a step is free text: the owner may type one that is taken.
SetStepKey(k) ==
    /\ EditingStep /\ k # Current.key
    /\ UpdateStep([Current EXCEPT !.key = k])

\* changeType: options belong to a choice, accepted kinds to a file.
ChangeStepType(t) ==
    /\ EditingStep
    /\ UpdateStep([Current EXCEPT
         !.type = t,
         !.options = IF t # "choice" THEN <<>>
                     ELSE IF Len(@) >= 2 THEN @ ELSE <<"blank", "blank">>,
         !.accept = IF t # "file" THEN {} ELSE IF @ # {} THEN @ ELSE FileKind])

\* toggleAccept: the last kind cannot be taken away.
ToggleAccept(kind) ==
    /\ EditingStep /\ Current.type = "file"
    /\ LET next == IF kind \in Current.accept THEN Current.accept \ {kind}
                   ELSE Current.accept \cup {kind}
       IN UpdateStep([Current EXCEPT !.accept = IF next # {} THEN next ELSE @])

UpdateOption(j, v) ==
    /\ EditingStep /\ Current.type = "choice" /\ j \in DOMAIN Current.options
    /\ UpdateStep([Current EXCEPT !.options[j] = v])

AddOption ==
    /\ EditingStep /\ Current.type = "choice" /\ Len(Current.options) < MaxOptions
    /\ UpdateStep([Current EXCEPT !.options = Append(@, "blank")])

RemoveOption(j) ==
    /\ EditingStep /\ Current.type = "choice" /\ j \in DOMAIN Current.options
    /\ UpdateStep([Current EXCEPT !.options = RemoveAt(@, j)])

-----------------------------------------------------------------------------
(* The save button *)

OnSave ==
    /\ Loaded /\ ~bb.saving /\ bb.saves < MaxBotSaves
    /\ bb' = [bb EXCEPT !.saving = TRUE, !.saved = FALSE, !.saves = @ + 1]
    /\ bbnet' = [bbnet EXCEPT !.save = Sent(Config)]
    /\ UNCHANGED bbrow

\* PUT /api/bot/settings writes the whole row, is_published with it.  The answer is
\* the validated body, with the flows in the order in which the page sent them.
SaveLands ==
    /\ bbnet.save.st = "sent" /\ Valid(bbnet.save.v)
    /\ \E flows \in KeyOrders(Stored(bbnet.save.v).flows) :
         bbrow' = [Stored(bbnet.save.v) EXCEPT !.flows = flows]
    /\ bbnet' = [bbnet EXCEPT !.save = Done(Stored(bbnet.save.v))]
    /\ UNCHANGED bb

\* Fault: the page says "saved" without adopting what the server answered.
SaveAnsweredKeepsDraft ==
    /\ bbnet.save.st = "done"
    /\ bb' = [bb EXCEPT !.saving = FALSE, !.saved = TRUE]
    /\ bbnet' = [bbnet EXCEPT !.save = Nothing]
    /\ UNCHANGED bbrow

\* The page adopts what the server answered; the active tab stays as it is.
SaveAnswered ==
    /\ bbnet.save.st = "done"
    /\ bb' = [Render(bb, Normalize(bbnet.save.v), bb.active)
                EXCEPT !.saving = FALSE, !.saved = TRUE]
    /\ bbnet' = [bbnet EXCEPT !.save = Nothing]
    /\ UNCHANGED bbrow

\* 422, or no answer in time, before or after the save took effect.
SaveFails ==
    /\ bbnet.save # Nothing
    /\ bb' = [bb EXCEPT !.saving = FALSE]
    /\ bbnet' = [bbnet EXCEPT !.save = Nothing]
    /\ UNCHANGED bbrow

-----------------------------------------------------------------------------
(* The AI assistant *)

ToggleAiPanel ==
    /\ Loaded
    /\ bb' = [bb EXCEPT !.ai = ~@]
    /\ UNCHANGED <<bbrow, bbnet>>

\* The message goes out with the working copy of this moment.
AiSubmit ==
    /\ Loaded /\ bb.ai /\ bbnet.ai = Nothing /\ bb.edits < MaxBotEdits
    /\ bb' = [bb EXCEPT !.edits = @ + 1]
    /\ bbnet' = [bbnet EXCEPT !.ai = Sent(Config)]
    /\ UNCHANGED bbrow

\* What the assistant may make of it: a flow more or a flow less, if that is valid.
Proposals(c) ==
    {d \in {[c EXCEPT !.profile = TRUE, !.flows = Append(@, EmptyFlow(UniqueKey(Keys(@))))],
            [c EXCEPT !.flows = IF @ = <<>> THEN @ ELSE Tail(@)]} :
       Valid(d) /\ Len(d.flows) <= MaxFlows}

\* applyAiChanges: the answer replaces the working copy, also when the panel was
\* closed meanwhile; the tab stays if its flow still exists.
AiAnswers ==
    /\ bbnet.ai # Nothing
    /\ \E d \in Proposals(bbnet.ai.v) :
         LET c == Normalize(Stored(d))
             k == IF bb.active # 0 /\ bb.active \in Keys(c.flows) THEN bb.active ELSE FirstKey(c)
         IN bb' = [Render(bb, c, k) EXCEPT !.saved = FALSE]
    /\ bbnet' = [bbnet EXCEPT !.ai = Nothing]
    /\ UNCHANGED bbrow

\* An answer without changes, or an error: only the chat shows it.
AiSaysOnly ==
    /\ bbnet.ai # Nothing
    /\ bbnet' = [bbnet EXCEPT !.ai = Nothing]
    /\ UNCHANGED <<bb, bbrow>>

-----------------------------------------------------------------------------
(* The publish switch *)

\* toggle(): flipped at once, rolled back if the call fails.
TogglePublish ==
    /\ Loaded /\ bbnet.publish = Nothing /\ bb.saves < MaxBotSaves
    /\ bb' = [bb EXCEPT !.config.pub = ~@, !.saves = @ + 1]
    /\ bbnet' = [bbnet EXCEPT !.publish = Sent(~Config.pub)]
    /\ UNCHANGED bbrow

PublishLands ==
    /\ bbnet.publish.st = "sent"
    /\ bbrow' = [bbrow EXCEPT !.pub = bbnet.publish.v]
    /\ bbnet' = [bbnet EXCEPT !.publish.st = "done"]
    /\ UNCHANGED bb

PublishAnswered ==
    /\ bbnet.publish.st = "done"
    /\ bb' = [bb EXCEPT !.config.pub = bbnet.publish.v]
    /\ bbnet' = [bbnet EXCEPT !.publish = Nothing]
    /\ UNCHANGED bbrow

PublishFails ==
    /\ bbnet.publish # Nothing
    /\ bb' = [bb EXCEPT !.config.pub = ~bbnet.publish.v]
    /\ bbnet' = [bbnet EXCEPT !.publish = Nothing]
    /\ UNCHANGED bbrow

-----------------------------------------------------------------------------
EditFlow ==
    \/ SetProfile \/ AddFlow \/ AskDelete \/ CancelDelete \/ DeleteFlow \/ RenameFlowLabel
    \/ \E k \in 1 .. MaxFlows : SelectTab(k)
    \/ \E m \in {"blank", "own"} : SetMessage(m)
    \/ \E t \in FlowType : ChangeActiveFlowType(t)

EditSteps ==
    \/ AddStep \/ AddOption
    \/ \E i \in 1 .. MaxSteps : RemoveStep(i) \/ ToggleStep(i) \/ SetStepKey(i)
    \/ \E t \in StepType : ChangeStepType(t)
    \/ \E kind \in FileKind : ToggleAccept(kind)
    \/ \E j \in 1 .. MaxOptions : RemoveOption(j) \/ \E v \in {"x", "y"} : UpdateOption(j, v)

BBNext ==
    \/ LoadSettings \/ LoadSettingsFails \/ EditFlow \/ EditSteps
    \/ OnSave \/ SaveLands \/ SaveAnswered \/ SaveFails
    \/ ToggleAiPanel \/ AiSubmit \/ AiAnswers \/ AiSaysOnly
    \/ TogglePublish \/ PublishLands \/ PublishAnswered \/ PublishFails

BBSpec == BBInit /\ [][BBNext]_bbvars

-----------------------------------------------------------------------------
(* Properties *)

\* The builder is a form that keeps its word: while it says "saved", the flows and
\* the profile it shows are the ones the bot runs on, whatever was edited, answered
\* by the assistant or published while the save was on its way.  The order of the
\* flows is left out of it: the row keeps them in the order of their keys, which may be
\* another one than the tabs show.
Content(c) == IF c = Nothing THEN c ELSE [flows |-> ToSet(c.flows), profile |-> c.profile]

Builder == INSTANCE SaveForm WITH
             shown <- Content(bb.config), stored <- Content(Normalize(bbrow)), note <- bb.saved

BuilderKeepsItsWord == Builder!Spec

\* A flow is deleted only after the owner was asked about that very flow: the
\* prompt on screen never belongs to another tab than the active one, also when the
\* assistant or a save replaces the flows under it.
PromptIsForActiveTab == bb.confirm # 0 => bb.confirm = bb.active

\* "PUT /api/bot/publish persists immediately (independent of the config save)":
\* a save never changes whether the bot is live, once the switch has been answered.
PublishIndependent ==
    [][bbnet.save.st = "sent" /\ bbnet.save' # bbnet.save /\ bbnet.publish = Nothing
         => bbrow'.pub = bbrow.pub]_bbvars
=============================================================================
