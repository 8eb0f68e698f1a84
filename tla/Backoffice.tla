------------------------------ MODULE Backoffice ------------------------------
(***************************************************************************)
(* The operator's pages: the sales board, on which a card is moved at once *)
(* and put back if the server refuses, with the panel of one business in a *)
(* dialog above it; and the page of one business, with its subscription,   *)
(* its place in the pipeline and its deletion.                             *)
(***************************************************************************)
EXTENDS Pages

CONSTANTS CrmStages,   \* CRM_STAGE_ORDER
          MaxCrmCalls  \* bound: calls that change the server, from one page

VARIABLES
  ad, adrow, adnet,  \* the board with its dialog, the pipeline, calls in flight
  dt, dtrow, dtnet   \* the page of a business, the business, calls in flight

advars == <<ad, adrow, adnet>>
dtvars == <<dt, dtrow, dtnet>>

-----------------------------------------------------------------------------
(* The board *)

Due == {"none", "date"}     \* next_followup_at
Cards == 1 .. 2

ADInit ==
    /\ adrow = [b \in Cards |-> [stage |-> CHOOSE s \in CrmStages : TRUE,
                                 due |-> IF b = 1 THEN "date" ELSE "none", notes |-> 0]]
    /\ adnet = {}
    /\ ad = [cards |-> <<>>, state |-> "loading", moving |-> 0, open |-> 0, form |-> Nothing,
             saving |-> FALSE, notes |-> 0, adding |-> FALSE, panel |-> 0, calls |-> 0,
             over |-> FALSE, lost |-> FALSE]

Card(r) == [stage |-> r.stage, due |-> r.due]

LoadBoard ==
    /\ ad.state = "loading"
    /\ \/ ad' = [ad EXCEPT !.state = "ready", !.cards = [b \in Cards |-> Card(adrow[b])]]
       \/ ad' = [ad EXCEPT !.state = "error"]
    /\ UNCHANGED <<adrow, adnet>>

OnBoard == ad.state = "ready" /\ ad.open = 0
InPanel == ad.open # 0

\* A call from the board or from the panel; two at once for a card are remembered.
CrmCall(kind, b, v, prev) ==
    [kind |-> kind, b |-> b, v |-> v, prev |-> prev, panel |-> ad.panel, n |-> ad.calls,
     st |-> "sent"]
Overlap(b) == \E c \in adnet : c.b = b /\ c.kind \in {"move", "save"}
Ring(c) == adnet' = adnet \cup {c} /\ UNCHANGED adrow
HangUp(c) == adnet' = adnet \ {c} /\ UNCHANGED adrow

\* The board's cards change; a panel that is open on a changed one is seeded anew.
WithCard(a, b, card) ==
    [a EXCEPT !.cards[b] = card,
              !.form = IF a.open = b /\ a.cards[b] # card THEN card ELSE @]

\* moveTo: the card moves, then the server is told.  movingId is a single field, so
\* a second move frees the card of the first.
MoveCard(b, s) ==
    /\ OnBoard /\ ad.moving # b /\ s # ad.cards[b].stage /\ ad.calls < MaxCrmCalls
    /\ Ring(CrmCall("move", b, [stage |-> s, due |-> "none"], ad.cards[b].stage))
    /\ ad' = [WithCard(ad, b, [ad.cards[b] EXCEPT !.stage = s])
                EXCEPT !.moving = b, !.calls = @ + 1, !.over = @ \/ Overlap(b)]

\* PATCH .../crm writes the stage and the reminder; one that is not sent is cleared.
StageLands(c) ==
    /\ c.kind \in {"move", "save"} /\ c.st = "sent"
    /\ adrow' = [adrow EXCEPT ![c.b].stage = c.v.stage, ![c.b].due = c.v.due]
    /\ adnet' = (adnet \ {c}) \cup {[c EXCEPT !.st = "done"]}
    /\ UNCHANGED ad

MoveCardAnswered(c) ==
    /\ c.kind = "move" /\ c.st = "done"
    /\ ad' = [WithCard(ad, c.b, c.v) EXCEPT !.moving = 0]
    /\ HangUp(c)

\* Fault: the card stays where it was dragged to.
MoveCardFailsThere(c) ==
    /\ c.kind = "move"
    /\ ad' = [ad EXCEPT !.moving = 0, !.lost = @ \/ c.st = "done"]
    /\ HangUp(c)

MoveCardFails(c) ==
    /\ c.kind = "move"
    /\ ad' = [WithCard(ad, c.b, [ad.cards[c.b] EXCEPT !.stage = c.prev])
                EXCEPT !.moving = 0, !.lost = @ \/ c.st = "done"]
    /\ HangUp(c)

\* The dialog: a new panel each time, which fetches the notes of its business.
OpenPanel(b) ==
    /\ OnBoard /\ ad.panel < MaxCrmCalls
    /\ ad' = [ad EXCEPT !.open = b, !.form = ad.cards[b], !.saving = FALSE, !.notes = 0,
                        !.adding = FALSE, !.panel = @ + 1,
                        !.over = @ \/ \E c \in adnet : c.kind = "add" /\ c.b = b]
    /\ Ring([CrmCall("notes", b, 0, 0) EXCEPT !.panel = @ + 1])

\* ... and it may be closed at any time, also with a save on its way.
ClosePanel ==
    /\ InPanel
    /\ ad' = [ad EXCEPT !.open = 0, !.form = Nothing, !.saving = FALSE, !.adding = FALSE,
                        !.notes = 0]
    /\ UNCHANGED <<adrow, adnet>>

EditPanel(f, v) ==
    /\ InPanel /\ ~ad.saving /\ ad.form[f] # v
    /\ ad' = [ad EXCEPT !.form[f] = v]
    /\ UNCHANGED <<adrow, adnet>>

\* onSaveStage: stage and reminder go out together.
OnSaveStage ==
    /\ InPanel /\ ~ad.saving /\ ad.form # ad.cards[ad.open] /\ ad.calls < MaxCrmCalls
    /\ ad' = [ad EXCEPT !.saving = TRUE, !.calls = @ + 1, !.over = @ \/ Overlap(ad.open)]
    /\ Ring(CrmCall("save", ad.open, ad.form, 0))

\* onPanelChanged reaches the board also when the panel is gone.
Mine(c) == c.panel = ad.panel /\ InPanel
StageSaved(c) ==
    /\ c.kind = "save" /\ c.st = "done"
    /\ ad' = [WithCard(ad, c.b, c.v) EXCEPT !.saving = @ /\ ~Mine(c)]
    /\ HangUp(c)

StageSaveFails(c) ==
    /\ c.kind = "save"
    /\ ad' = [ad EXCEPT !.saving = @ /\ ~Mine(c), !.lost = @ \/ c.st = "done"]
    /\ HangUp(c)

\* onAddNote, and the log that is fetched again after it.
OnAddNote ==
    /\ InPanel /\ ~ad.adding /\ ad.calls < MaxCrmCalls
    /\ ad' = [ad EXCEPT !.adding = TRUE, !.calls = @ + 1,
                        !.over = @ \/ \E c \in adnet : c.kind = "notes"]
    /\ Ring(CrmCall("add", ad.open, 0, 0))

NoteLands(c) ==
    /\ c.kind = "add" /\ c.st = "sent"
    /\ adrow' = [adrow EXCEPT ![c.b].notes = @ + 1]
    /\ adnet' = (adnet \ {c}) \cup {[c EXCEPT !.st = "done"]}
    /\ UNCHANGED ad

NoteAdded(c) ==
    /\ c.kind = "add" /\ c.st = "done"
    /\ ad' = [ad EXCEPT !.adding = @ /\ ~Mine(c)]
    /\ adnet' = (adnet \ {c}) \cup {[c EXCEPT !.kind = "notes", !.st = "sent"]}
    /\ UNCHANGED adrow

NotesRead(c) ==
    /\ c.kind = "notes" /\ c.st = "sent"
    /\ adnet' = (adnet \ {c}) \cup {[c EXCEPT !.v = adrow[c.b].notes, !.st = "done"]}
    /\ UNCHANGED <<ad, adrow>>

NotesAnswered(c) ==
    /\ c.kind = "notes" /\ c.st = "done"
    /\ ad' = IF Mine(c) THEN [ad EXCEPT !.notes = c.v] ELSE ad
    /\ HangUp(c)

NoteCallFails(c) ==
    /\ c.kind \in {"notes", "add"}
    /\ ad' = [ad EXCEPT !.adding = @ /\ ~(c.kind = "add" /\ Mine(c)), !.lost = TRUE]
    /\ HangUp(c)

ADNext ==
    \/ LoadBoard \/ ClosePanel \/ OnSaveStage \/ OnAddNote
    \/ \E b \in Cards : OpenPanel(b) \/ \E s \in CrmStages : MoveCard(b, s)
    \/ \E s \in CrmStages : EditPanel("stage", s)
    \/ \E d \in Due : EditPanel("due", d)
    \/ \E c \in adnet :
         \/ StageLands(c) \/ MoveCardAnswered(c) \/ MoveCardFails(c)
         \/ StageSaved(c) \/ StageSaveFails(c)
         \/ NoteLands(c) \/ NoteAdded(c) \/ NotesRead(c) \/ NotesAnswered(c) \/ NoteCallFails(c)

-----------------------------------------------------------------------------
(* The page of one business *)

Panels == {"subscription", "crm"}

DTInit ==
    /\ dtrow = [exists |-> TRUE, subscription |-> 1, crm |-> 1]
    /\ dtnet = [subscription |-> Nothing, crm |-> Nothing, delete |-> Nothing]
    /\ dt = [state |-> "loading", page |-> Nothing, form |-> Nothing, confirm |-> FALSE,
             typed |-> FALSE, calls |-> 0, lost |-> FALSE]

LoadBusiness ==
    /\ dt.state = "loading"
    /\ LET page == [subscription |-> dtrow.subscription, crm |-> dtrow.crm] IN
       \/ dt' = [dt EXCEPT !.state = "ready", !.page = page, !.form = page]
       \/ dt' = [dt EXCEPT !.state = "error"]
    /\ UNCHANGED <<dtrow, dtnet>>

\* A panel's fields are disabled while it saves; the other panel's are not.
OnDetail == dt.state = "ready" /\ ~dt.confirm
EditForm(p, v) ==
    /\ OnDetail /\ dtnet[p] = Nothing /\ dt.form[p] # v
    /\ dt' = [dt EXCEPT !.form[p] = v]
    /\ UNCHANGED <<dtrow, dtnet>>

SaveDetail(p) ==
    /\ OnDetail /\ dtnet[p] = Nothing /\ dt.form[p] # dt.page[p] /\ dt.calls < MaxCrmCalls
    /\ dt' = [dt EXCEPT !.calls = @ + 1]
    /\ dtnet' = [dtnet EXCEPT ![p] = Sent(dt.form[p])]
    /\ UNCHANGED dtrow

FormLands(p) ==
    /\ dtnet[p].st = "sent" /\ dtrow.exists
    /\ dtrow' = [dtrow EXCEPT ![p] = dtnet[p].v]
    /\ dtnet' = [dtnet EXCEPT ![p].st = "done"]
    /\ UNCHANGED dt

\* handleSaved and handleCrmChanged patch their own part of the page; its panel is
\* seeded from it anew.
FormSaved(p) ==
    /\ dtnet[p].st = "done" /\ dt.state = "ready"
    /\ dt' = [dt EXCEPT !.page[p] = dtnet[p].v, !.form[p] = dtnet[p].v]
    /\ dtnet' = [dtnet EXCEPT ![p] = Nothing]
    /\ UNCHANGED dtrow

FormSaveFails(p) ==
    /\ dtnet[p] # Nothing
    /\ dt' = [dt EXCEPT !.lost = @ \/ dtnet[p].st = "done"]
    /\ dtnet' = [dtnet EXCEPT ![p] = Nothing]
    /\ UNCHANGED dtrow

\* The deletion: a dialog, and the name of the business typed into it.
OpenConfirm ==
    /\ OnDetail
    /\ dt' = [dt EXCEPT !.confirm = TRUE, !.typed = FALSE]
    /\ UNCHANGED <<dtrow, dtnet>>
CloseConfirm ==
    /\ dt.confirm /\ dtnet.delete = Nothing
    /\ dt' = [dt EXCEPT !.confirm = FALSE]
    /\ UNCHANGED <<dtrow, dtnet>>
TypeName ==
    /\ dt.confirm
    /\ dt' = [dt EXCEPT !.typed = ~@]
    /\ UNCHANGED <<dtrow, dtnet>>
HandleDelete ==
    /\ dt.confirm /\ dt.typed /\ dtnet.delete = Nothing /\ dt.calls < MaxCrmCalls
    /\ dt' = [dt EXCEPT !.calls = @ + 1]
    /\ dtnet' = [dtnet EXCEPT !.delete = Sent(0)]
    /\ UNCHANGED dtrow

DeleteLands ==
    /\ dtnet.delete.st = "sent" /\ dtrow.exists
    /\ dtrow' = [dtrow EXCEPT !.exists = FALSE]
    /\ dtnet' = [dtnet EXCEPT !.delete.st = "done"]
    /\ UNCHANGED dt

\* The page leaves for the list.
DeleteAnswered ==
    /\ dtnet.delete.st = "done"
    /\ dt' = [dt EXCEPT !.state = "left", !.confirm = FALSE]
    /\ dtnet' = [dtnet EXCEPT !.delete = Nothing]
    /\ UNCHANGED dtrow

\* 400 for the operator's own business, 404, or no answer.
DeleteFails ==
    /\ dtnet.delete # Nothing
    /\ dt' = [dt EXCEPT !.lost = @ \/ dtnet.delete.st = "done"]
    /\ dtnet' = [dtnet EXCEPT !.delete = Nothing]
    /\ UNCHANGED dtrow

DTNext ==
    \/ LoadBusiness \/ OpenConfirm \/ CloseConfirm \/ TypeName \/ HandleDelete
    \/ DeleteLands \/ DeleteAnswered \/ DeleteFails
    \/ \E p \in Panels :
         \/ SaveDetail(p) \/ FormLands(p) \/ FormSaved(p) \/ FormSaveFails(p)
         \/ \E v \in 1 .. 2 : EditForm(p, v)

-----------------------------------------------------------------------------
(* Properties *)

\* The board shows every business at the stage and with the reminder the server
\* keeps, once nothing is on its way, after any mix of moves, refusals and saves from
\* a panel, closed or open; the open panel shows the log; and the page of a business
\* shows its subscription and stage, or has left when the business is deleted.  Exempt
\* are an answer lost after its call took effect, and calls for one card that overlap.
BackofficeFollows ==
    /\ adnet = {} /\ ~ad.over /\ ~ad.lost /\ ad.state = "ready" =>
         /\ \A b \in Cards : ad.cards[b] = Card(adrow[b])
         /\ InPanel => ad.notes = adrow[ad.open].notes
    /\ ~dt.lost /\ dt.state \in {"ready", "left"} =>
         /\ dtnet.delete = Nothing => dtrow.exists = (dt.state = "ready")
         /\ dt.state = "ready" /\ dtrow.exists =>
              \A p \in Panels : dtnet[p] = Nothing => dt.page[p] = dtrow[p]
=============================================================================
