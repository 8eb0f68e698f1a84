----------------------------- MODULE FormProofs -----------------------------
(***************************************************************************)
(* The forms of the owner's pages implement SaveForm, for any bounds, any  *)
(* rows the pages may find and any order of edits and answers.             *)
(***************************************************************************)
EXTENDS Frontend, TLAPS

-----------------------------------------------------------------------------
(* Booking settings *)

\* No call is on its way while the form says "saved", and an answer on its way is
\* what the server keeps.
SettingsInv ==
    /\ sf = [draft |-> sf.draft, loading |-> sf.loading, saving |-> sf.saving,
             saved |-> sf.saved, generating |-> sf.generating, edits |-> sf.edits]
    /\ sf.loading => ~sf.saved /\ sf.draft = Nothing /\ sfnet = Nothing /\ ~sf.generating
    /\ sfnet # Nothing => ~sf.saved
    /\ sfnet.st \in {"none", "sent", "done"} /\ (sfnet.st # "none" <=> sfnet # Nothing)
    /\ sfnet.st = "done" => sfnet.v = sfrow
    /\ sf.saved \in BOOLEAN

\* A form that is opened.
LEMMA SettingsInit == SFInit => SettingsInv /\ Settings!Init
BY DEF SFInit, SettingsInv, Nothing, Settings!Init

\* Every step of the settings is one of SaveForm, or nothing it can see.
LEMMA SettingsNext ==
  ASSUME SettingsInv, [SFNext]_sfvars
  PROVE  SettingsInv' /\ [Settings!Next]_(Settings!vars)
<1> DEFINE Goal == SettingsInv' /\ [Settings!Next]_(Settings!vars)
<1>1. CASE LoadSetup
  BY <1>1 DEF LoadSetup, SettingsInv, Settings!Next, Settings!Edit
<1>2. ASSUME NEW d, PatchSettings(d) PROVE Goal
  BY <1>2 DEF PatchSettings, HasDraft, SettingsInv, Settings!Next, Settings!Edit
<1>3. CASE GenerateWelcome
  BY <1>3 DEF GenerateWelcome, HasDraft, SettingsInv, Settings!vars
<1>4. CASE WelcomeGenerated
  <2>1. CASE sf' = [sf EXCEPT !.generating = FALSE, !.draft.welcome = "ai", !.saved = FALSE]
    BY <1>4, <2>1 DEF WelcomeGenerated, SettingsInv, Settings!Next, Settings!Edit
  <2>2. CASE sf' = [sf EXCEPT !.generating = FALSE]
    BY <1>4, <2>2 DEF WelcomeGenerated, SettingsInv, Settings!vars
  <2> QED BY <1>4, <2>1, <2>2 DEF WelcomeGenerated
<1>5. CASE SaveSettings
  BY <1>5 DEF SaveSettings, HasDraft, Sent, Nothing, SettingsInv, Settings!Next, Settings!Edit
<1>6. CASE SettingsLand
  BY <1>6 DEF SettingsLand, Done, Nothing, SettingsInv, Settings!Next, Settings!Store
<1>7. CASE SettingsAnswered
  BY <1>7 DEF SettingsAnswered, Nothing, SettingsInv, Settings!Next, Settings!Acknowledge
<1>8. CASE SettingsFail
  BY <1>8 DEF SettingsFail, Nothing, SettingsInv, Settings!vars
<1>9. CASE UNCHANGED sfvars
  BY <1>9 DEF sfvars, SettingsInv, Settings!vars
<1> QED
  BY <1>1, <1>2, <1>3, <1>4, <1>5, <1>6, <1>7, <1>8, <1>9
     DEF SFNext, AddRange, TypeWelcome, SetRule, RemoveRange, UpdateRange

-----------------------------------------------------------------------------
(* Test numbers *)

\* The same of the test numbers.
NumbersInv ==
    /\ tn = [rows |-> tn.rows, loading |-> tn.loading, saved |-> tn.saved, edits |-> tn.edits]
    /\ tn.loading => ~tn.saved /\ tn.rows = <<>> /\ tnnet = Nothing
    /\ tnnet # Nothing => ~tn.saved
    /\ tnnet.st \in {"none", "sent", "done"} /\ (tnnet.st # "none" <=> tnnet # Nothing)
    /\ tnnet.st = "done" => tnnet.v = tnrow
    /\ tn.saved \in BOOLEAN

\* A card that is opened.
LEMMA NumbersInit == TNInit => NumbersInv /\ Numbers!Init
BY DEF TNInit, NumbersInv, Nothing, Numbers!Init

\* Every step of the test numbers is one of SaveForm, or nothing it can see.
LEMMA NumbersNext ==
  ASSUME NumbersInv, [TNNext]_tnvars
  PROVE  NumbersInv' /\ [Numbers!Next]_(Numbers!vars)
<1> DEFINE Goal == NumbersInv' /\ [Numbers!Next]_(Numbers!vars)
<1>1. CASE LoadNumbers
  BY <1>1 DEF LoadNumbers, NumbersInv, Numbers!Next, Numbers!Edit
<1>2. ASSUME NEW rows, EditRows(rows) PROVE Goal
  BY <1>2 DEF EditRows, NumbersInv, Numbers!Next, Numbers!Edit
<1>3. CASE SaveNumbers
  <2>1. \/ tnnet' = Nothing
        \/ \E v : tnnet' = Sent(v)
    BY <1>3 DEF SaveNumbers
  <2>2. /\ tn' = [tn EXCEPT !.saved = FALSE, !.edits = @ + 1]
        /\ tn.rows # <<>> /\ tnrow' = tnrow
    BY <1>3 DEF SaveNumbers
  <2>3. CASE tnnet' = Nothing
    BY <2>2, <2>3 DEF Nothing, NumbersInv, Numbers!Next, Numbers!Edit
  <2>4. ASSUME NEW v, tnnet' = Sent(v) PROVE Goal
    BY <2>2, <2>4 DEF Sent, Nothing, NumbersInv, Numbers!Next, Numbers!Edit
  <2> QED BY <2>1, <2>3, <2>4
<1>4. CASE NumbersLand
  BY <1>4 DEF NumbersLand, Done, Nothing, NumbersInv, Numbers!Next, Numbers!Store
<1>5. CASE NumbersAnswered
  BY <1>5 DEF NumbersAnswered, Nothing, NumbersInv, Numbers!Next, Numbers!Acknowledge
<1>6. CASE NumbersFail
  BY <1>6 DEF NumbersFail, Nothing, NumbersInv, Numbers!vars
<1>7. CASE UNCHANGED tnvars
  BY <1>7 DEF tnvars, NumbersInv, Numbers!vars
<1> QED
  BY <1>1, <1>2, <1>3, <1>4, <1>5, <1>6, <1>7
     DEF TNNext, AddRow, RemoveRow, PatchRow

-----------------------------------------------------------------------------
(* Details card *)

\* The same of the details card, whose row has a logo that its fields do not show:
\* a logo that lands while a save is on its way, or while the card says "saved",
\* changes nothing the form shows.
DetailsInv ==
    /\ dc = [page |-> dc.page, draft |-> dc.draft, loading |-> dc.loading,
             saved |-> dc.saved, edits |-> dc.edits]
    /\ dcnet = [save |-> dcnet.save, logo |-> dcnet.logo]
    /\ {"name", "link"} \subseteq DOMAIN dcrow
    /\ dc.loading => ~dc.saved /\ dc.page = Nothing
                  /\ dcnet.save = Nothing /\ dcnet.logo = Nothing
    /\ dcnet.save # Nothing => ~dc.saved
    /\ \A call \in {"save", "logo"} :
         /\ dcnet[call].st \in {"none", "sent", "done"}
         /\ dcnet[call].st # "none" <=> dcnet[call] # Nothing
    /\ dcnet.logo.st = "sent" => dcnet.logo.v = [logo |-> dcnet.logo.v.logo]
    /\ dcnet.save.st = "done" => DraftFrom(dcnet.save.v) = DraftFrom(dcrow)
    /\ dc.saved \in BOOLEAN

\* A card that is opened.
LEMMA DetailsInit == DCInit => DetailsInv /\ Details!Init
BY DetailsAssumption DEF DCInit, DetailsInv, Nothing, Details!Init

\* Every step of the card is one of SaveForm, or nothing it can see.
LEMMA DetailsNext ==
  ASSUME DetailsInv, [DCNext]_dcvars
  PROVE  DetailsInv' /\ [Details!Next]_(Details!vars)
<1> DEFINE Goal == DetailsInv' /\ [Details!Next]_(Details!vars)
<1>1. CASE LoadPage
  BY <1>1 DEF LoadPage, DetailsInv, Details!Next, Details!Edit
<1>2. ASSUME NEW f, NEW v, SetField(f, v) PROVE Goal
  BY <1>2 DEF SetField, Saving, DetailsInv, Details!Next, Details!Edit
<1>3. CASE SaveDetails
  BY <1>3 DEF SaveDetails, Saving, Sent, Nothing, DetailsInv, Details!Next, Details!Edit
<1>4. CASE PutPage("save")
  BY <1>4 DEF PutPage, Done, Nothing, DetailsInv, Details!Next, Details!Store
<1>5. CASE PutPage("logo")
  <2>1. /\ DraftFrom(dcrow') = DraftFrom(dcrow)
        /\ {"name", "link"} \subseteq DOMAIN dcrow'
    BY <1>5 DEF PutPage, DetailsInv, DraftFrom
  <2> QED BY <1>5, <2>1 DEF PutPage, Done, Nothing, DetailsInv, Details!vars
<1>6. CASE DetailsAnswered
  BY <1>6 DEF DetailsAnswered, Nothing, DetailsInv, Details!Next, Details!Acknowledge
<1>7. ASSUME NEW v, ChangeLogo(v) PROVE Goal
  BY <1>7 DEF ChangeLogo, Locked, Saving, Sent, Nothing, DetailsInv, Details!vars
<1>8. CASE LogoAnswered
  <2>1. ~dc.loading
    BY <1>8 DEF LogoAnswered, DetailsInv
  <2> QED BY <1>8, <2>1 DEF LogoAnswered, Nothing, DetailsInv, Details!vars
<1>9. ASSUME NEW call \in {"save", "logo"}, PageCallFails(call) PROVE Goal
  BY <1>9 DEF PageCallFails, Nothing, DetailsInv, Details!vars
<1>10. CASE UNCHANGED dcvars
  BY <1>10 DEF dcvars, DetailsInv, Details!vars
<1> QED
  BY <1>1, <1>2, <1>3, <1>4, <1>5, <1>6, <1>7, <1>8, <1>9, <1>10 DEF DCNext

-----------------------------------------------------------------------------
(* The bot builder *)

\* A working copy, a row, or the body of a call.
IsConfig(c) == c = [profile |-> c.profile, pub |-> c.pub, flows |-> c.flows]

\* The page has its fields.
Fields(b) ==
    b \in [config : {b.config}, loading : {b.loading}, active : {b.active}, open : {b.open},
           confirm : {b.confirm}, saving : {b.saving}, saved : {b.saved}, ai : {b.ai},
           edits : {b.edits}, saves : {b.saves}]

\* The same of the builder: what an answered save carries has the flows and the
\* profile of the row, although a publish call may have changed the row since.
BuilderInv ==
    /\ Fields(bb)
    /\ bbnet = [save |-> bbnet.save, ai |-> bbnet.ai, publish |-> bbnet.publish]
    /\ bb.config = Nothing \/ IsConfig(bb.config)
    /\ IsConfig(bbrow)
    /\ bb.loading => /\ bb.config = Nothing /\ ~bb.saved /\ bb.confirm = 0
                     /\ bbnet.save = Nothing /\ bbnet.ai = Nothing /\ bbnet.publish = Nothing
    /\ bb.config = Nothing => ~bb.saved /\ bbnet.publish = Nothing
    /\ bbnet.save # Nothing => ~bb.saved /\ IsConfig(bbnet.save.v)
    /\ bbnet.save.st \in {"none", "sent", "done"}
    /\ bbnet.save.st # "none" <=> bbnet.save # Nothing
    /\ bbnet.save.st = "done" =>
         /\ ToSet(bbnet.save.v.flows) = ToSet(bbrow.flows)
         /\ bbnet.save.v.profile = bbrow.profile
    /\ bbnet.ai # Nothing => IsConfig(bbnet.ai.v)
    /\ bbnet.publish # Nothing =>
         bbnet.publish = [st |-> bbnet.publish.st, v |-> bbnet.publish.v]
    /\ bb.saved \in BOOLEAN
    /\ PromptIsForActiveTab

\* The conversions of a configuration keep its shape.
LEMMA ConfigShapes ==
  ASSUME NEW c, IsConfig(c)
  PROVE  /\ c # Nothing
         /\ IsConfig(Normalize(c)) /\ IsConfig(Stored(c))
         /\ \A f : IsConfig([c EXCEPT !.flows = f])
         /\ \A v : /\ IsConfig([c EXCEPT !.pub = v])
                   /\ [c EXCEPT !.pub = v].flows = c.flows
                   /\ [c EXCEPT !.pub = v].profile = c.profile
                   /\ IsConfig([c EXCEPT !.profile = v])
<1>1. c # Nothing
  BY DEF IsConfig, Nothing
<1>2. \A f : IsConfig([c EXCEPT !.flows = f])
  BY DEF IsConfig
<1>3. \A v : /\ IsConfig([c EXCEPT !.pub = v])
             /\ [c EXCEPT !.pub = v].flows = c.flows
             /\ [c EXCEPT !.pub = v].profile = c.profile
             /\ IsConfig([c EXCEPT !.profile = v])
  BY DEF IsConfig
<1>4. IsConfig(Normalize(c)) /\ IsConfig(Stored(c))
  BY <1>2 DEF Normalize, Stored
<1> QED BY <1>1, <1>2, <1>3, <1>4

\* What the form shows of two configurations with the same flows, in whatever order,
\* and the same profile.
LEMMA SameContent ==
  ASSUME NEW c, NEW d, IsConfig(c), IsConfig(d), ToSet(c.flows) = ToSet(d.flows),
         c.profile = d.profile
  PROVE  Content(c) = Content(d) /\ Content(Normalize(c)) = Content(Normalize(d))
<1> DEFINE g(f) == IF f.type # "lead" /\ f.msg = "blank" THEN [f EXCEPT !.msg = f.type] ELSE f
<1>1. Content(c) = Content(d)
  BY ConfigShapes DEF Content
<1>2. ASSUME NEW b, IsConfig(b)
      PROVE  /\ ToSet(Normalize(b).flows) = {g(f) : f \in ToSet(b.flows)}
             /\ Normalize(b).profile = b.profile
  <2>1. /\ Normalize(b).flows = [i \in DOMAIN b.flows |-> g(b.flows[i])]
        /\ Normalize(b).profile = b.profile
    BY <1>2 DEF Normalize, IsConfig
  <2> HIDE DEF g
  <2> QED BY <2>1 DEF ToSet
<1> HIDE DEF g
<1>3. /\ ToSet(Normalize(c).flows) = ToSet(Normalize(d).flows)
      /\ Normalize(c).profile = Normalize(d).profile
  BY <1>2
<1> QED BY <1>1, <1>3, ConfigShapes DEF Content

\* A rendering shows the configuration it is given under the tab it is given.
LEMMA RenderShape ==
  ASSUME NEW b, Fields(b), b.confirm # 0 => b.confirm = b.active, NEW c, NEW k
  PROVE  LET r == Render(b, c, k) IN
         /\ Fields(r) /\ r.config = c /\ r.active = k /\ (r.confirm # 0 => r.confirm = k)
         /\ r.loading = b.loading /\ r.saved = b.saved
<1>1. PICK o, q : /\ Render(b, c, k) = [b EXCEPT !.config = c, !.active = k, !.open = o,
                                                 !.confirm = q]
                  /\ q # 0 => q = k
  BY DEF Render
<1> QED BY <1>1 DEF Fields

\* A page that is opened.
LEMMA BuilderInit == BBInit => BuilderInv /\ Builder!Init
BY BotsAssumption DEF BBInit, BuilderInv, Fields, IsConfig, Nothing, PromptIsForActiveTab,
                      Builder!Init

\* A step that changes the working copy takes the note away.
LEMMA EditKeeps ==
  ASSUME BuilderInv, Loaded, Fields(bb)', IsConfig(bb.config'), bb'.loading = bb.loading,
         bb'.saved = FALSE, PromptIsForActiveTab', UNCHANGED <<bbrow, bbnet>>
  PROVE  BuilderInv' /\ [Builder!Next]_(Builder!vars)
<1>1. ~bb.loading
  BY DEF BuilderInv, Loaded
<1>2. BuilderInv'
  <2>1. bb.config' # Nothing
    BY ConfigShapes
  <2> QED BY <1>1, <2>1 DEF BuilderInv, IsConfig
<1>3. Builder!Edit
  BY DEF Builder!Edit
<1> QED BY <1>2, <1>3 DEF Builder!Next

\* Neither does a step that leaves the copy, the note and the calls alone disturb it.
LEMMA LookKeeps ==
  ASSUME BuilderInv, Fields(bb)', bb.config' = bb.config, bb'.loading = bb.loading,
         bb'.saved = bb.saved, PromptIsForActiveTab', Loaded, UNCHANGED <<bbrow, bbnet>>
  PROVE  BuilderInv' /\ [Builder!Next]_(Builder!vars)
<1>1. ~bb.loading
  BY DEF BuilderInv, Loaded
<1>2. BuilderInv'
  BY <1>1 DEF BuilderInv, IsConfig
<1>3. UNCHANGED Builder!vars
  BY DEF Builder!vars, Content
<1> QED BY <1>2, <1>3

\* mutate(), through which most edits go.
LEMMA MutateKeeps ==
  ASSUME BuilderInv, Loaded, NEW c, NEW k, IsConfig(c), Mutate(c, k)
  PROVE  BuilderInv' /\ [Builder!Next]_(Builder!vars)
<1> DEFINE r == Render(bb, c, k)
<1>1. /\ Fields(r) /\ r.config = c /\ r.active = k /\ (r.confirm # 0 => r.confirm = k)
      /\ r.loading = bb.loading
  BY RenderShape DEF BuilderInv, PromptIsForActiveTab
<1>2. bb' = [r EXCEPT !.saved = FALSE, !.edits = @ + 1]
  BY DEF Mutate
<1> HIDE DEF r
<1>3. Fields(bb)' /\ bb.config' = c /\ bb'.loading = bb.loading /\ bb'.saved = FALSE
      /\ PromptIsForActiveTab'
  BY <1>1, <1>2 DEF Fields, PromptIsForActiveTab
<1> QED BY <1>3, EditKeeps DEF Mutate, IsConfig

\* The edits of flows and steps.
LEMMA EditsKeep ==
  ASSUME BuilderInv, EditFlow \/ EditSteps
  PROVE  BuilderInv' /\ [Builder!Next]_(Builder!vars)
<1> DEFINE Goal == BuilderInv' /\ [Builder!Next]_(Builder!vars)
<1>c. Loaded => IsConfig(Config)
  BY DEF BuilderInv, Loaded, Config
<1>f. Fields(bb) /\ (bb.confirm # 0 => bb.confirm = bb.active)
  BY DEF BuilderInv, PromptIsForActiveTab
<1>1. ASSUME NEW f, NEW k, Loaded, Mutate([Config EXCEPT !.flows = f], k) PROVE Goal
  BY <1>1, <1>c, ConfigShapes, MutateKeeps
<1>2. ASSUME NEW g, HasTab, PatchActiveFlow(g) PROVE Goal
  <2>1. [Config EXCEPT !.flows[Tab] = g]
          = [Config EXCEPT !.flows = [Config.flows EXCEPT ![Tab] = g]]
    OBVIOUS
  <2> QED BY <1>1, <1>2, <2>1 DEF PatchActiveFlow, HasTab
<1>3. ASSUME Loaded, NEW f, Fields(bb)', bb.config' = [bb.config EXCEPT !.flows = f],
             bb'.loading = bb.loading, bb'.saved = FALSE, bb'.confirm = bb.confirm,
             bb'.active = bb.active, UNCHANGED <<bbrow, bbnet>>
      PROVE  Goal
  <2>1. IsConfig([Config EXCEPT !.flows = f])
    BY <1>3, <1>c, ConfigShapes
  <2>2. IsConfig(bb.config')
    BY <1>3, <2>1 DEF Config, IsConfig
  <2> QED BY <1>3, <1>f, <2>2, EditKeeps DEF PromptIsForActiveTab
<1>4. CASE SetProfile
  BY <1>4, <1>c, ConfigShapes, MutateKeeps DEF SetProfile
<1>5. CASE AddFlow
  BY <1>1, <1>5 DEF AddFlow
<1>6. CASE AskDelete \/ CancelDelete
  BY <1>6, <1>f, LookKeeps DEF AskDelete, CancelDelete, HasTab, Fields, PromptIsForActiveTab
<1>7. CASE DeleteFlow
  <2> DEFINE c == [Config EXCEPT !.flows = RemoveAt(@, Tab)]
             r == Render(bb, c, FirstKey(c))
  <2>1. IsConfig(c) /\ Loaded
    BY <1>7, <1>c, ConfigShapes DEF DeleteFlow, HasTab
  <2> HIDE DEF c
  <2>2. Fields(r) /\ r.config = c /\ r.loading = bb.loading
    BY <1>f, RenderShape
  <2>3. /\ bb' = [r EXCEPT !.saved = FALSE, !.confirm = 0, !.edits = @ + 1]
        /\ UNCHANGED <<bbrow, bbnet>>
    BY <1>7 DEF DeleteFlow, c
  <2> HIDE DEF r
  <2>4. Fields(bb)' /\ bb.config' = c /\ bb'.loading = bb.loading /\ bb'.saved = FALSE
        /\ PromptIsForActiveTab'
    BY <2>2, <2>3 DEF Fields, PromptIsForActiveTab
  <2> QED BY <2>1, <2>3, <2>4, EditKeeps DEF IsConfig
<1>8. ASSUME NEW k, SelectTab(k) PROVE Goal
  <2>1. /\ Fields(bb') /\ bb'.config = Config /\ bb'.active = k
        /\ bb'.confirm # 0 => bb'.confirm = k
        /\ bb'.loading = bb.loading /\ bb'.saved = bb.saved
    BY <1>8, <1>f, RenderShape DEF SelectTab
  <2> QED BY <1>8, <2>1, LookKeeps DEF SelectTab, Config, PromptIsForActiveTab, Fields
<1>9. CASE \E i \in 1 .. MaxSteps : ToggleStep(i)
  BY <1>9, <1>f, LookKeeps DEF ToggleStep, Editing, HasTab, Fields, PromptIsForActiveTab
<1>10. CASE AddStep
  <2>1. PICK f, o : bb' = [bb EXCEPT !.config = [bb.config EXCEPT !.flows = f], !.open = o,
                                     !.saved = FALSE, !.edits = @ + 1]
    BY <1>10 DEF AddStep
  <2>2. Loaded /\ UNCHANGED <<bbrow, bbnet>>
    BY <1>10 DEF AddStep, Editing, HasTab
  <2> QED BY <1>3, <1>f, <2>1, <2>2 DEF Fields
<1>11. ASSUME NEW i, RemoveStep(i) PROVE Goal
  <2>1. PICK f, o : bb' = [bb EXCEPT !.config = [bb.config EXCEPT !.flows = f], !.open = o,
                                     !.saved = FALSE, !.edits = @ + 1]
    BY <1>11 DEF RemoveStep
  <2>2. Loaded /\ UNCHANGED <<bbrow, bbnet>>
    BY <1>11 DEF RemoveStep, Editing, HasTab
  <2> QED BY <1>3, <1>f, <2>1, <2>2 DEF Fields
<1>12. CASE EditFlow
  BY <1>2, <1>4, <1>5, <1>6, <1>7, <1>8, <1>12
     DEF EditFlow, RenameFlowLabel, SetMessage, ChangeActiveFlowType
<1>13. CASE EditSteps
  <2>1. ASSUME NEW x, EditingStep, UpdateStep(x) PROVE Goal
    BY <1>2, <2>1 DEF EditingStep, Editing, UpdateStep, SetSteps
  <2> QED BY <1>9, <1>10, <1>11, <1>13, <2>1
       DEF EditSteps, SetStepKey, ChangeStepType, ToggleAccept, UpdateOption, AddOption,
           RemoveOption
<1> QED BY <1>12, <1>13

\* The save button, its answer and its failure.
LEMMA SavesKeep ==
  ASSUME BuilderInv, OnSave \/ SaveLands \/ SaveAnswered \/ SaveFails
  PROVE  BuilderInv' /\ [Builder!Next]_(Builder!vars)
<1> DEFINE Goal == BuilderInv' /\ [Builder!Next]_(Builder!vars)
<1>f. Fields(bb) /\ (bb.confirm # 0 => bb.confirm = bb.active)
  BY DEF BuilderInv, PromptIsForActiveTab
<1>1. CASE OnSave
  <2>1. /\ Fields(bb)' /\ bb'.saved = FALSE /\ bb'.config = bb.config
        /\ bb'.loading = bb.loading /\ PromptIsForActiveTab'
    BY <1>1, <1>f DEF OnSave, Fields, PromptIsForActiveTab
  <2>2. /\ bbnet' = [save |-> [st |-> "sent", v |-> bb.config], ai |-> bbnet.ai,
                     publish |-> bbnet.publish]
        /\ bbrow' = bbrow /\ bb.config # Nothing
    BY <1>1 DEF OnSave, Sent, Config, Loaded, BuilderInv
  <2>3. BuilderInv'
    BY <2>1, <2>2 DEF BuilderInv, IsConfig, Nothing
  <2>4. Builder!Edit
    BY <2>1, <2>2 DEF Builder!Edit
  <2> QED BY <2>3, <2>4 DEF Builder!Next
<1>2. CASE SaveLands
  <2>a. PICK d : d = Stored(bbnet.save.v)
    OBVIOUS
  <2>1. /\ bbnet.save.st = "sent" /\ bb' = bb
        /\ bbnet' = [save |-> [st |-> "done", v |-> d], ai |-> bbnet.ai,
                     publish |-> bbnet.publish]
    BY <1>2, <2>a DEF SaveLands, Done, BuilderInv
  <2>b. PICK s \in KeyOrders(d.flows) : bbrow' = [d EXCEPT !.flows = s]
    BY <1>2, <2>a DEF SaveLands
  <2>c. IsConfig(d) /\ ~bb.saved /\ ~bb.loading
    BY <2>1, <2>a, ConfigShapes DEF BuilderInv, Nothing
  <2>d. ToSet(s) = ToSet(d.flows)
    BY <2>b DEF KeyOrders
  <2>2. /\ IsConfig(bbrow') /\ ~bb.saved /\ ~bb.loading
        /\ ToSet(d.flows) = ToSet(bbrow'.flows) /\ d.profile = bbrow'.profile
    BY <2>b, <2>c, <2>d DEF IsConfig
  <2>3. BuilderInv'
    BY <2>1, <2>2, <2>c DEF BuilderInv, Nothing, PromptIsForActiveTab, Fields, IsConfig
  <2>4. Builder!Store
    BY <2>1, <2>2 DEF Builder!Store
  <2> QED BY <2>3, <2>4 DEF Builder!Next
<1>3. CASE SaveAnswered
  <2> DEFINE c == Normalize(bbnet.save.v)
             r == Render(bb, c, bb.active)
  <2>1. IsConfig(c) /\ c # Nothing /\ Content(c) = Content(Normalize(bbrow)) /\ ~bb.loading
    BY <1>3, ConfigShapes, SameContent DEF SaveAnswered, BuilderInv, Nothing
  <2>2. /\ bb' = [r EXCEPT !.saving = FALSE, !.saved = TRUE] /\ bbrow' = bbrow
        /\ bbnet' = [save |-> Nothing, ai |-> bbnet.ai, publish |-> bbnet.publish]
    BY <1>3 DEF SaveAnswered, BuilderInv
  <2> HIDE DEF c
  <2>3. /\ Fields(r) /\ r.config = c /\ r.active = bb.active /\ r.loading = bb.loading
        /\ r.confirm # 0 => r.confirm = bb.active
    BY <1>f, RenderShape
  <2> HIDE DEF r
  <2>4. /\ Fields(bb)' /\ bb'.config = c /\ bb'.saved = TRUE /\ bb'.loading = bb.loading
        /\ PromptIsForActiveTab'
    BY <2>2, <2>3 DEF Fields, PromptIsForActiveTab
  <2>5. BuilderInv'
    BY <2>1, <2>2, <2>4 DEF BuilderInv, Nothing, IsConfig
  <2>6. Builder!Acknowledge
    BY <2>1, <2>2, <2>4 DEF Builder!Acknowledge
  <2> QED BY <2>5, <2>6 DEF Builder!Next
<1>4. CASE SaveFails
  <2>1. /\ Fields(bb)' /\ bb'.saved = bb.saved /\ bb'.config = bb.config
        /\ bb'.loading = bb.loading /\ PromptIsForActiveTab'
    BY <1>4, <1>f DEF SaveFails, Fields, PromptIsForActiveTab
  <2>2. /\ bbnet' = [save |-> Nothing, ai |-> bbnet.ai, publish |-> bbnet.publish]
        /\ bbrow' = bbrow /\ ~bb.loading
    BY <1>4 DEF SaveFails, BuilderInv
  <2>3. BuilderInv'
    BY <2>1, <2>2 DEF BuilderInv, Nothing, IsConfig
  <2>4. UNCHANGED Builder!vars
    BY <2>1, <2>2 DEF Builder!vars
  <2> QED BY <2>3, <2>4
<1> QED BY <1>1, <1>2, <1>3, <1>4

\* The assistant: only an answer with changes is an edit.
LEMMA AssistantKeeps ==
  ASSUME BuilderInv, ToggleAiPanel \/ AiSubmit \/ AiAnswers \/ AiSaysOnly
  PROVE  BuilderInv' /\ [Builder!Next]_(Builder!vars)
<1>f. Fields(bb) /\ (bb.confirm # 0 => bb.confirm = bb.active)
  BY DEF BuilderInv, PromptIsForActiveTab
<1>1. CASE ToggleAiPanel
  BY <1>1, <1>f, LookKeeps DEF ToggleAiPanel, Fields, PromptIsForActiveTab
<1>2. CASE AiSubmit
  <2>1. /\ Fields(bb)' /\ bb'.saved = bb.saved /\ bb'.config = bb.config
        /\ bb'.loading = bb.loading /\ PromptIsForActiveTab'
    BY <1>2, <1>f DEF AiSubmit, Fields, PromptIsForActiveTab
  <2>2. /\ bbnet' = [save |-> bbnet.save, ai |-> [st |-> "sent", v |-> bb.config],
                     publish |-> bbnet.publish]
        /\ bbrow' = bbrow /\ bb.config # Nothing
    BY <1>2 DEF AiSubmit, Sent, Config, Loaded, BuilderInv
  <2>3. BuilderInv'
    BY <2>1, <2>2 DEF BuilderInv, IsConfig, Nothing
  <2>4. UNCHANGED Builder!vars
    BY <2>1, <2>2 DEF Builder!vars
  <2> QED BY <2>3, <2>4
<1>3. CASE AiAnswers
  <2>1. PICK d, k : /\ d \in Proposals(bbnet.ai.v)
                    /\ bb' = [Render(bb, Normalize(Stored(d)), k) EXCEPT !.saved = FALSE]
    BY <1>3 DEF AiAnswers
  <2>2. IsConfig(bbnet.ai.v) /\ ~bb.loading
    BY <1>3 DEF AiAnswers, BuilderInv
  <2>3. IsConfig(d)
    <3> DEFINE a == bbnet.ai.v
    <3>1. \/ d = [a EXCEPT !.profile = TRUE, !.flows = Append(@, EmptyFlow(UniqueKey(Keys(@))))]
          \/ d = [a EXCEPT !.flows = IF @ = <<>> THEN @ ELSE Tail(@)]
      BY <2>1 DEF Proposals
    <3>2. PICK p, f : d = [a EXCEPT !.profile = p, !.flows = f] \/ d = [a EXCEPT !.flows = f]
      BY <3>1
    <3> QED BY <2>2, <3>2 DEF IsConfig
  <2> DEFINE c == Normalize(Stored(d))
             r == Render(bb, c, k)
  <2>4. IsConfig(c) /\ c # Nothing
    BY <2>3, ConfigShapes
  <2> HIDE DEF c
  <2>5. Fields(r) /\ r.config = c /\ r.active = k /\ r.loading = bb.loading
        /\ (r.confirm # 0 => r.confirm = k)
    BY <1>f, RenderShape
  <2>6. /\ bb' = [r EXCEPT !.saved = FALSE] /\ bbrow' = bbrow
        /\ bbnet' = [save |-> bbnet.save, ai |-> Nothing, publish |-> bbnet.publish]
    BY <1>3, <2>1 DEF AiAnswers, BuilderInv, c
  <2> HIDE DEF r
  <2>7. /\ Fields(bb)' /\ bb'.config = c /\ bb'.saved = FALSE /\ bb'.loading = bb.loading
        /\ PromptIsForActiveTab'
    BY <2>5, <2>6 DEF Fields, PromptIsForActiveTab
  <2>8. BuilderInv'
    BY <2>2, <2>4, <2>6, <2>7 DEF BuilderInv, Nothing, IsConfig
  <2>9. Builder!Edit
    BY <2>6, <2>7 DEF Builder!Edit
  <2> QED BY <2>8, <2>9 DEF Builder!Next
<1>4. CASE AiSaysOnly
  <2>1. /\ bb' = bb /\ bbrow' = bbrow
        /\ bbnet' = [save |-> bbnet.save, ai |-> Nothing, publish |-> bbnet.publish]
    BY <1>4 DEF AiSaysOnly, BuilderInv
  <2>2. BuilderInv'
    BY <2>1 DEF BuilderInv, Nothing, IsConfig, Fields, PromptIsForActiveTab
  <2> QED BY <2>1, <2>2 DEF Builder!vars
<1> QED BY <1>1, <1>2, <1>3, <1>4

\* The publish switch, of which the form shows nothing.
LEMMA PublishKeeps ==
  ASSUME BuilderInv, TogglePublish \/ PublishLands \/ PublishAnswered \/ PublishFails
  PROVE  BuilderInv' /\ [Builder!Next]_(Builder!vars)
<1> DEFINE Goal == BuilderInv' /\ [Builder!Next]_(Builder!vars)
<1>f. Fields(bb) /\ (bb.confirm # 0 => bb.confirm = bb.active)
  BY DEF BuilderInv, PromptIsForActiveTab
<1>1. ASSUME NEW p, NEW n, IsConfig(bb.config),
             bb' = [bb EXCEPT !.config = [bb.config EXCEPT !.pub = p], !.saves = n],
             bbrow' = bbrow, NEW x,
             bbnet' = [save |-> bbnet.save, ai |-> bbnet.ai, publish |-> x],
             x = Nothing \/ x = [st |-> x.st, v |-> x.v]
      PROVE  Goal
  <2> DEFINE c == [bb.config EXCEPT !.pub = p]
  <2>1. IsConfig(c) /\ c # Nothing /\ Content(c) = Content(bb.config)
    <3>1. IsConfig(c) /\ c.flows = bb.config.flows /\ c.profile = bb.config.profile
      BY <1>1, ConfigShapes
    <3> HIDE DEF c
    <3> QED BY <1>1, <3>1, ConfigShapes, SameContent
  <2>2. bb' = [bb EXCEPT !.config = c, !.saves = n]
    BY <1>1
  <2> HIDE DEF c
  <2>3. /\ Fields(bb)' /\ bb'.saved = bb.saved /\ bb'.config = c
        /\ bb'.loading = bb.loading /\ PromptIsForActiveTab'
    BY <2>2, <1>f DEF Fields, PromptIsForActiveTab
  <2>4. ~bb.loading
    BY <1>1, ConfigShapes DEF BuilderInv
  <2>5. BuilderInv'
    BY <1>1, <2>1, <2>3, <2>4 DEF BuilderInv, IsConfig
  <2>6. UNCHANGED Builder!vars
    BY <1>1, <2>1, <2>3 DEF Builder!vars
  <2> QED BY <2>5, <2>6
<1>2. CASE TogglePublish
  <2>1. IsConfig(bb.config)
    BY <1>2 DEF TogglePublish, Loaded, BuilderInv
  <2>2. PICK p, n : bb' = [bb EXCEPT !.config = [bb.config EXCEPT !.pub = p], !.saves = n]
    BY <1>2 DEF TogglePublish
  <2>3. /\ bbnet' = [save |-> bbnet.save, ai |-> bbnet.ai, publish |-> Sent(~Config.pub)]
        /\ bbrow' = bbrow
    BY <1>2 DEF TogglePublish, BuilderInv
  <2> QED BY <1>1, <2>1, <2>2, <2>3 DEF Sent
<1>3. CASE PublishAnswered \/ PublishFails
  <2>1. bbnet.publish # Nothing /\ IsConfig(bb.config)
    BY <1>3 DEF PublishAnswered, PublishFails, BuilderInv, Nothing
  <2>2. PICK p : bb' = [bb EXCEPT !.config = [bb.config EXCEPT !.pub = p]]
    BY <1>3 DEF PublishAnswered, PublishFails
  <2>3. bb' = [bb EXCEPT !.config = [bb.config EXCEPT !.pub = p], !.saves = bb.saves]
    BY <2>2, <1>f DEF Fields
  <2>4. /\ bbnet' = [save |-> bbnet.save, ai |-> bbnet.ai, publish |-> Nothing]
        /\ bbrow' = bbrow
    BY <1>3 DEF PublishAnswered, PublishFails, BuilderInv
  <2> QED BY <1>1, <2>1, <2>3, <2>4
<1>4. CASE PublishLands
  <2>1. bbnet.publish # Nothing
    BY <1>4 DEF PublishLands, Nothing
  <2>2. PICK v : bbrow' = [bbrow EXCEPT !.pub = v]
    BY <1>4 DEF PublishLands
  <2>3. /\ bb' = bb
        /\ bbnet' = [save |-> bbnet.save, ai |-> bbnet.ai,
                     publish |-> [st |-> "done", v |-> bbnet.publish.v]]
    BY <1>4, <2>1 DEF PublishLands, BuilderInv
  <2>4. /\ IsConfig(bbrow') /\ bbrow'.flows = bbrow.flows /\ bbrow'.profile = bbrow.profile
        /\ Content(Normalize(bbrow')) = Content(Normalize(bbrow))
    <3>1. IsConfig(bbrow') /\ bbrow'.flows = bbrow.flows /\ bbrow'.profile = bbrow.profile
      BY <2>2, ConfigShapes DEF BuilderInv
    <3> QED BY <3>1, SameContent DEF BuilderInv
  <2>5. BuilderInv'
    BY <2>1, <2>3, <2>4 DEF BuilderInv, Nothing, IsConfig, Fields, PromptIsForActiveTab
  <2>6. UNCHANGED Builder!vars
    BY <2>3, <2>4 DEF Builder!vars
  <2> QED BY <2>5, <2>6
<1> QED BY <1>2, <1>3, <1>4

\* Every step of the builder is one of SaveForm, or nothing it can see.
LEMMA BuilderNext ==
  ASSUME BuilderInv, [BBNext]_bbvars
  PROVE  BuilderInv' /\ [Builder!Next]_(Builder!vars)
<1>f. Fields(bb) /\ (bb.confirm # 0 => bb.confirm = bb.active)
  BY DEF BuilderInv, PromptIsForActiveTab
<1>1. CASE LoadSettings
  <2>1. PICK k, o : bb' = [bb EXCEPT !.config = Normalize(bbrow), !.loading = FALSE,
                                     !.active = k, !.open = o]
    BY <1>1 DEF LoadSettings
  <2> DEFINE c == Normalize(bbrow)
  <2>2. IsConfig(c) /\ c # Nothing
    BY ConfigShapes DEF BuilderInv
  <2>3. bb' = [bb EXCEPT !.config = c, !.loading = FALSE, !.active = k, !.open = o]
    BY <2>1
  <2> HIDE DEF c
  <2>4. /\ Fields(bb)' /\ bb'.config = c /\ bb'.saved = bb.saved /\ bb'.loading = FALSE
        /\ bb'.confirm = bb.confirm
    BY <2>3, <1>f DEF Fields
  <2>5. bb.loading /\ UNCHANGED <<bbrow, bbnet>>
    BY <1>1 DEF LoadSettings
  <2>6. BuilderInv'
    BY <2>2, <2>4, <2>5 DEF BuilderInv, IsConfig, PromptIsForActiveTab
  <2>7. Builder!Edit
    BY <2>4, <2>5 DEF Builder!Edit, BuilderInv
  <2> QED BY <2>6, <2>7 DEF Builder!Next
<1>2. CASE LoadSettingsFails
  <2>1. /\ Fields(bb)' /\ bb'.config = bb.config /\ bb'.saved = bb.saved
        /\ bb'.loading = FALSE /\ PromptIsForActiveTab'
    BY <1>2, <1>f DEF LoadSettingsFails, Fields, PromptIsForActiveTab
  <2>2. UNCHANGED <<bbrow, bbnet>>
    BY <1>2 DEF LoadSettingsFails
  <2>3. BuilderInv'
    BY <2>1, <2>2 DEF BuilderInv, IsConfig
  <2> QED BY <2>1, <2>2, <2>3 DEF Builder!vars
<1>3. CASE UNCHANGED bbvars
  <2>1. BuilderInv'
    BY <1>3 DEF bbvars, BuilderInv, IsConfig, Fields, PromptIsForActiveTab
  <2> QED BY <1>3, <2>1 DEF bbvars, Builder!vars
<1> QED
  BY <1>1, <1>2, <1>3, EditsKeep, SavesKeep, AssistantKeeps, PublishKeeps DEF BBNext

-----------------------------------------------------------------------------
(* The theorems *)

\* Whatever page a visit is about, each form takes a step of its own or none.
LEMMA FormSteps ==
  ASSUME [Next]_<<page, me, pagevars>>
  PROVE  [SFNext]_sfvars /\ [DCNext]_dcvars /\ [TNNext]_tnvars /\ [BBNext]_bbvars
<1>1. CASE PageStep
  BY <1>1 DEF PageStep
<1>2. ASSUME NEW m, MeAnswered(m) PROVE UNCHANGED <<sfvars, dcvars, tnvars, bbvars>>
  BY <1>2 DEF MeAnswered, pagevars
<1>3. CASE UNCHANGED <<page, me, pagevars>>
  BY <1>3 DEF pagevars
<1> QED BY <1>1, <1>2, <1>3 DEF Next

\* The booking settings, the details card and the test numbers implement SaveForm:
\* while one says "saved" it shows what the server keeps, whatever is typed,
\* generated or uploaded while a save is on its way and whichever calls fail.
THEOREM FormsAlwaysKeepTheirWord == Spec => FormsKeepTheirWord
<1> DEFINE Inv == SettingsInv /\ DetailsInv /\ NumbersInv
<1>1. Init => Inv /\ Settings!Init /\ Details!Init /\ Numbers!Init
  BY SettingsInit, DetailsInit, NumbersInit DEF Init
<1>2. Inv /\ [Next]_<<page, me, pagevars>> =>
        Inv' /\ [Settings!Next]_(Settings!vars) /\ [Details!Next]_(Details!vars)
             /\ [Numbers!Next]_(Numbers!vars)
  BY FormSteps, SettingsNext, DetailsNext, NumbersNext
<1> QED
  BY <1>1, <1>2, PTL
     DEF Spec, FormsKeepTheirWord, Settings!Spec, Details!Spec, Numbers!Spec

\* So does the bot builder: while it says "saved" it shows the flows and the profile
\* the bot runs on, although the owner may go on editing, ask the assistant and
\* flip the publish switch while a save is on its way.
THEOREM BuilderAlwaysKeepsItsWord == Spec => BuilderKeepsItsWord
<1>1. Init => BuilderInv /\ Builder!Init
  BY BuilderInit DEF Init
<1>2. BuilderInv /\ [Next]_<<page, me, pagevars>> =>
        BuilderInv' /\ [Builder!Next]_(Builder!vars)
  BY FormSteps, BuilderNext
<1> QED BY <1>1, <1>2, PTL DEF Spec, BuilderKeepsItsWord, Builder!Spec

\* The delete prompt of the builder is always about the tab that is active, for any
\* number of flows: what replaces the flows or the tab also takes the prompt away.
THEOREM PromptAlwaysForActiveTab == Spec => []PromptIsForActiveTab
<1>1. Init => BuilderInv
  BY BuilderInit DEF Init
<1>2. BuilderInv /\ [Next]_<<page, me, pagevars>> => BuilderInv'
  BY FormSteps, BuilderNext
<1>3. BuilderInv => PromptIsForActiveTab
  BY DEF BuilderInv
<1> QED BY <1>1, <1>2, <1>3, PTL DEF Spec
=============================================================================
