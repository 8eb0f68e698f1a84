----------------------------- MODULE OwnerForms -----------------------------
(***************************************************************************)
(* The forms with which an owner sets the business up: the booking         *)
(* settings, the details of the business page with its logo, the numbers   *)
(* the bot may answer in test mode, and the list of services.  The first   *)
(* three have a save button and a "saved" note and implement SaveForm; the *)
(* services are changed one by one and the list is fetched again.          *)
(***************************************************************************)
EXTENDS Pages, FiniteSets

CONSTANTS FirstSettings,  \* booking settings the page may find
          FirstDetails,   \* business pages it may find
          FirstNumbers,   \* test numbers it may find
          MaxNumbers,     \* MAX_TEST_NUMBERS
          MaxRanges,      \* bound: opening hours of a day
          FirstServices, MaxServices, \* services it may find, and a bound
          MaxEdits,       \* bound: edits and saves of one form
          MaxSaves        \* bound: changes of the services

ASSUME DetailsAssumption == \A r \in FirstDetails : DOMAIN r = {"name", "link", "logo"}

VARIABLES
  sf, sfrow, sfnet,  \* booking settings: panel, row, and the save call
  dc, dcrow, dcnet,  \* details card: card, row, save and logo calls
  tn, tnrow, tnnet,  \* test numbers: card, stored list, and the save call
  sv, svrow, svnet   \* services: editor, stored services, calls in flight

sfvars == <<sf, sfrow, sfnet>>
dcvars == <<dc, dcrow, dcnet>>
tnvars == <<tn, tnrow, tnnet>>
svvars == <<sv, svrow, svnet>>

-----------------------------------------------------------------------------
(* Booking settings: hours, availability rules and the welcome message *)

SFInit ==
    /\ sfrow \in FirstSettings
    /\ sfnet = Nothing
    /\ sf = [draft |-> Nothing, loading |-> TRUE, saving |-> FALSE, saved |-> FALSE,
             generating |-> FALSE, edits |-> 0]

\* load(): settings and services together, or an error instead of the form.
LoadSetup ==
    /\ sf.loading
    /\ \/ sf' = [sf EXCEPT !.draft = sfrow, !.loading = FALSE]
       \/ sf' = [sf EXCEPT !.loading = FALSE]
    /\ UNCHANGED <<sfrow, sfnet>>

HasDraft == sf.draft # Nothing

PatchSettings(d) ==
    /\ HasDraft /\ sf.edits < MaxEdits
    /\ sf' = [sf EXCEPT !.draft = d, !.saved = FALSE, !.edits = @ + 1]
    /\ UNCHANGED <<sfrow, sfnet>>

\* The welcome text may be typed, or emptied, unless the assistant is at work.
TypeWelcome(w) == ~sf.generating /\ PatchSettings([sf.draft EXCEPT !.welcome = w])

\* addRange, updateRange and removeRange of one weekday.  A new range is valid;
\* what is typed over it may be reversed or empty.
AddRange ==
    /\ HasDraft /\ Len(sf.draft.hours) < MaxRanges
    /\ PatchSettings([sf.draft EXCEPT !.hours = Append(@, "valid")])
UpdateRange(i, r) ==
    /\ HasDraft /\ i \in DOMAIN sf.draft.hours
    /\ PatchSettings([sf.draft EXCEPT !.hours[i] = r])
RemoveRange(i) ==
    /\ HasDraft /\ i \in DOMAIN sf.draft.hours
    /\ PatchSettings([sf.draft EXCEPT !.hours = RemoveAt(@, i)])

\* num(): anything that is not a number from 0 up counts as 0.
SetRule(n) == PatchSettings([sf.draft EXCEPT !.days = n])

GenerateWelcome ==
    /\ HasDraft /\ ~sf.generating /\ sf.edits < MaxEdits
    /\ sf' = [sf EXCEPT !.generating = TRUE, !.edits = @ + 1]
    /\ UNCHANGED <<sfrow, sfnet>>

WelcomeGenerated ==
    /\ sf.generating
    /\ \/ sf' = [sf EXCEPT !.generating = FALSE, !.draft.welcome = "ai", !.saved = FALSE]
       \/ sf' = [sf EXCEPT !.generating = FALSE]
    /\ UNCHANGED <<sfrow, sfnet>>

\* save(): an emptied welcome goes out as null, the default greeting.
SaveSettings ==
    /\ HasDraft /\ ~sf.saving /\ sf.edits < MaxEdits
    /\ sf' = [sf EXCEPT !.saving = TRUE, !.saved = FALSE, !.edits = @ + 1]
    /\ sfnet' = Sent([sf.draft EXCEPT !.welcome = IF @ = "emptied" THEN "null" ELSE @])
    /\ UNCHANGED sfrow

\* A reversed range, or no day ahead at all, is answered 422.
SettingsLand ==
    /\ sfnet.st = "sent" /\ "reversed" \notin ToSet(sfnet.v.hours) /\ sfnet.v.days > 0
    /\ sfrow' = sfnet.v
    /\ sfnet' = Done(sfrow')
    /\ UNCHANGED sf

\* Fault: the form says "saved" and keeps what was typed meanwhile.
SettingsAnsweredKeepsDraft ==
    /\ sfnet.st = "done"
    /\ sf' = [sf EXCEPT !.saving = FALSE, !.saved = TRUE]
    /\ sfnet' = Nothing
    /\ UNCHANGED sfrow

SettingsAnswered ==
    /\ sfnet.st = "done"
    /\ sf' = [sf EXCEPT !.saving = FALSE, !.saved = TRUE, !.draft = sfnet.v]
    /\ sfnet' = Nothing
    /\ UNCHANGED sfrow

SettingsFail ==
    /\ sfnet # Nothing
    /\ sf' = [sf EXCEPT !.saving = FALSE]
    /\ sfnet' = Nothing
    /\ UNCHANGED sfrow

SFNext ==
    \/ LoadSetup \/ AddRange \/ GenerateWelcome \/ WelcomeGenerated
    \/ HasDraft /\ \E w \in {"own", "emptied"} : TypeWelcome(w)
    \/ HasDraft /\ \E n \in 0 .. 1 : SetRule(n)
    \/ \E i \in 1 .. MaxRanges :
         RemoveRange(i) \/ \E r \in {"valid", "reversed"} : UpdateRange(i, r)
    \/ SaveSettings \/ SettingsLand \/ SettingsAnswered \/ SettingsFail

-----------------------------------------------------------------------------
(* Details card: a name that may not be empty, a link, and the logo *)

DCInit ==
    /\ dcrow \in FirstDetails
    /\ dcnet = [save |-> Nothing, logo |-> Nothing]
    /\ dc = [page |-> Nothing, draft |-> Nothing, loading |-> TRUE, saved |-> FALSE,
             edits |-> 0]

DraftFrom(page) == [name |-> page.name, link |-> page.link]
Saving == dcnet.save # Nothing
Locked == dcnet.logo # Nothing \/ Saving

LoadPage ==
    /\ dc.loading
    /\ \/ dc' = [dc EXCEPT !.page = dcrow, !.draft = DraftFrom(dcrow), !.loading = FALSE]
       \/ dc' = [dc EXCEPT !.loading = FALSE]
    /\ UNCHANGED <<dcrow, dcnet>>

\* set(): every field is disabled while a save is on its way.
SetField(f, v) ==
    /\ dc.page # Nothing /\ ~Saving /\ dc.edits < MaxEdits /\ dc.draft[f] # v
    /\ dc' = [dc EXCEPT !.draft[f] = v, !.saved = FALSE, !.edits = @ + 1]
    /\ UNCHANGED <<dcrow, dcnet>>

\* save() sends what differs from the page the server last told of; what it does
\* not send the server leaves alone.
Diff == {f \in DOMAIN dc.draft : dc.draft[f] # dc.page[f]}

SaveDetails ==
    /\ dc.page # Nothing /\ ~Saving /\ Diff # {} /\ dc.edits < MaxEdits
    /\ dc.draft.link # "not http" /\ dc.draft.name # ""
    /\ dc' = [dc EXCEPT !.saved = FALSE, !.edits = @ + 1]
    /\ dcnet' = [dcnet EXCEPT !.save = Sent([f \in Diff |-> dc.draft[f]])]
    /\ UNCHANGED dcrow

\* PUT /api/booking/page, and POST /api/booking/logo; both answer the whole page.
PutPage(call) ==
    /\ dcnet[call].st = "sent"
    /\ LET body == dcnet[call].v IN
       dcrow' = [f \in DOMAIN dcrow |-> IF f \in DOMAIN body THEN body[f] ELSE dcrow[f]]
    /\ dcnet' = [dcnet EXCEPT ![call] = Done(dcrow')]
    /\ UNCHANGED dc

DetailsAnswered ==
    /\ dcnet.save.st = "done"
    /\ dc' = [dc EXCEPT !.page = dcnet.save.v, !.draft = DraftFrom(dcnet.save.v),
                        !.saved = TRUE]
    /\ dcnet' = [dcnet EXCEPT !.save = Nothing]
    /\ UNCHANGED dcrow

\* LogoUploader: upload, or removal by an explicit null.
ChangeLogo(v) ==
    /\ dc.page # Nothing /\ ~Locked /\ dc.edits < MaxEdits
    /\ v = "none" => dc.page.logo # "none"
    /\ dc' = [dc EXCEPT !.edits = @ + 1]
    /\ dcnet' = [dcnet EXCEPT !.logo = Sent([logo |-> v])]
    /\ UNCHANGED dcrow

\* The page of the answer replaces the card's; the draft stays.
LogoAnswered ==
    /\ dcnet.logo.st = "done"
    /\ dc' = [dc EXCEPT !.page = dcnet.logo.v]
    /\ dcnet' = [dcnet EXCEPT !.logo = Nothing]
    /\ UNCHANGED dcrow

PageCallFails(call) ==
    /\ dcnet[call] # Nothing
    /\ dcnet' = [dcnet EXCEPT ![call] = Nothing]
    /\ UNCHANGED <<dc, dcrow>>

DCNext ==
    \/ LoadPage \/ SaveDetails \/ DetailsAnswered \/ LogoAnswered
    \/ \E v \in {"", "name"} : SetField("name", v)
    \/ \E v \in {"none", "http", "not http"} : SetField("link", v)
    \/ \E v \in {"none", "file"} : ChangeLogo(v)
    \/ \E call \in {"save", "logo"} : PutPage(call) \/ PageCallFails(call)

-----------------------------------------------------------------------------
(* Test numbers: up to MaxNumbers rows; a blank row is kept when there is none *)

Spelling == {"blank", "no digits", "a", "also a", "b"}
BlankRow == [phone |-> "blank", label |-> FALSE]
Rows(numbers) == IF numbers = <<>> THEN <<BlankRow>> ELSE numbers

TNInit ==
    /\ tnrow \in FirstNumbers
    /\ tnnet = Nothing
    /\ tn = [rows |-> <<>>, loading |-> TRUE, saved |-> FALSE, edits |-> 0]

LoadNumbers ==
    /\ tn.loading
    /\ \/ tn' = [tn EXCEPT !.rows = Rows(tnrow), !.loading = FALSE]
       \/ tn' = [tn EXCEPT !.loading = FALSE]
    /\ UNCHANGED <<tnrow, tnnet>>

\* A row changes, is added at the end, or goes; any of it takes the note away.
EditRows(rows) ==
    /\ tn.rows # <<>> /\ tn.edits < MaxEdits
    /\ tn' = [tn EXCEPT !.rows = rows, !.saved = FALSE, !.edits = @ + 1]
    /\ UNCHANGED <<tnrow, tnnet>>
PatchRow(i, row) == i \in DOMAIN tn.rows /\ EditRows([tn.rows EXCEPT ![i] = row])
AddRow == Len(tn.rows) < MaxNumbers /\ EditRows(Append(tn.rows, BlankRow))
RemoveRow(i) == i \in DOMAIN tn.rows /\ EditRows(Rows(RemoveAt(tn.rows, i)))

\* onSave(): blank rows are left out, and a row without a digit is refused here.
HasContent(row) == row # BlankRow
SaveNumbers ==
    /\ tn.rows # <<>> /\ tnnet = Nothing /\ tn.edits < MaxEdits
    /\ tn' = [tn EXCEPT !.saved = FALSE, !.edits = @ + 1]
    /\ LET filled == SelectSeq(tn.rows, HasContent) IN
       IF \E i \in DOMAIN filled : filled[i].phone \in {"blank", "no digits"}
       THEN UNCHANGED tnnet
       ELSE tnnet' = Sent(filled)
    /\ UNCHANGED tnrow

\* set_test_numbers: numbers in their normal form, each one once, the first wins.
Normal(row) == [row EXCEPT !.phone = IF @ = "also a" THEN "a" ELSE @]
Cleaned(items) ==
    FoldLeft(LAMBDA kept, row : IF \E i \in DOMAIN kept : kept[i].phone = Normal(row).phone
                                THEN kept ELSE Append(kept, Normal(row)), <<>>, items)

NumbersLand ==
    /\ tnnet.st = "sent"
    /\ tnrow' = Cleaned(tnnet.v)
    /\ tnnet' = Done(tnrow')
    /\ UNCHANGED tn

NumbersAnswered ==
    /\ tnnet.st = "done"
    /\ tn' = [tn EXCEPT !.rows = Rows(tnnet.v), !.saved = TRUE]
    /\ tnnet' = Nothing
    /\ UNCHANGED tnrow

NumbersFail ==
    /\ tnnet # Nothing
    /\ tnnet' = Nothing
    /\ UNCHANGED <<tn, tnrow>>

TNNext ==
    \/ LoadNumbers \/ AddRow \/ SaveNumbers \/ NumbersLand \/ NumbersAnswered \/ NumbersFail
    \/ \E i \in 1 .. MaxNumbers :
         RemoveRow(i) \/ \E p \in Spelling, l \in BOOLEAN : PatchRow(i, [phone |-> p, label |-> l])

-----------------------------------------------------------------------------
(* Services: each change is a call of its own, then the list is fetched again *)

SVInit ==
    /\ svrow \in FirstServices
    /\ svnet = {}
    /\ sv = [list |-> svrow, busy |-> 0, adding |-> FALSE, calls |-> 0, raced |-> FALSE,
             failed |-> FALSE]

Reloads == {c \in svnet : c.kind = "reload"}

\* A call goes out; busyId is a single field, so it frees the row of an earlier one.
Call(kind, id) == [kind |-> kind, id |-> id, st |-> "sent", v |-> {}, n |-> sv.calls]
Request(kind, id) ==
    /\ sv.calls < MaxSaves
    /\ svnet' = svnet \cup {Call(kind, id)}
    /\ sv' = [sv EXCEPT !.calls = @ + 1, !.busy = IF id = 0 THEN @ ELSE id,
                        !.adding = @ \/ id = 0]
    /\ UNCHANGED svrow

AddService == ~sv.adding /\ Request("add", 0)
PatchService(id) == id \in {s.id : s \in sv.list} /\ sv.busy # id /\ Request("patch", id)
RemoveService(id) == id \in {s.id : s \in sv.list} /\ sv.busy # id /\ Request("remove", id)

\* The call takes effect, or finds no such service any more (404).
ServiceLands(c) ==
    /\ c \in svnet /\ c.st = "sent" /\ c.kind # "reload"
    /\ LET mine == {s \in svrow : s.id = c.id} IN
       \/ /\ c.kind = "add" /\ Cardinality(svrow) < MaxServices
          /\ \E id \in 1 .. MaxServices :
               /\ id \notin {s.id : s \in svrow}
               /\ svrow' = svrow \cup {[id |-> id, active |-> TRUE]}
       \/ /\ c.kind = "patch" /\ mine # {}
          /\ svrow' = (svrow \ mine) \cup {[s EXCEPT !.active = ~@] : s \in mine}
       \/ c.kind = "remove" /\ mine # {} /\ svrow' = svrow \ mine
    /\ svnet' = (svnet \ {c}) \cup {[c EXCEPT !.st = "done"]}
    /\ UNCHANGED sv

\* Fault: the list is not fetched again.
ServiceAnsweredNoReload(c) ==
    /\ c \in svnet /\ c.st = "done" /\ c.kind # "reload"
    /\ sv' = [sv EXCEPT !.busy = IF c.kind = "add" THEN @ ELSE 0,
                        !.adding = @ /\ c.kind # "add"]
    /\ svnet' = svnet \ {c}
    /\ UNCHANGED svrow

\* onChanged(): the parent fetches the list, also while an earlier fetch is on its way.
ServiceAnswered(c) ==
    /\ c \in svnet /\ c.st = "done" /\ c.kind # "reload"
    /\ sv' = [sv EXCEPT !.busy = IF c.kind = "add" THEN @ ELSE 0,
                        !.adding = @ /\ c.kind # "add", !.raced = @ \/ Reloads # {}]
    /\ svnet' = (svnet \ {c}) \cup {[c EXCEPT !.kind = "reload", !.st = "sent"]}
    /\ UNCHANGED svrow

ReloadReads(c) ==
    /\ c \in Reloads /\ c.st = "sent"
    /\ svnet' = (svnet \ {c}) \cup {[c EXCEPT !.st = "done", !.v = svrow]}
    /\ UNCHANGED <<sv, svrow>>

ReloadAnswered(c) ==
    /\ c \in Reloads /\ c.st = "done"
    /\ sv' = [sv EXCEPT !.list = c.v]
    /\ svnet' = svnet \ {c}
    /\ UNCHANGED svrow

\* A failed change shows an error; a failed reload shows nothing and keeps the list.
ServiceFails(c) ==
    /\ c \in svnet
    /\ sv' = [sv EXCEPT !.failed = TRUE, !.busy = IF c.kind \in {"patch", "remove"} THEN 0 ELSE @,
                        !.adding = @ /\ c.kind # "add"]
    /\ svnet' = svnet \ {c}
    /\ UNCHANGED svrow

SVNext ==
    \/ AddService
    \/ \E id \in 1 .. MaxServices : PatchService(id) \/ RemoveService(id)
    \/ \E c \in svnet : ServiceLands(c) \/ ServiceAnswered(c) \/ ReloadReads(c)
                        \/ ReloadAnswered(c) \/ ServiceFails(c)

-----------------------------------------------------------------------------
(* Properties *)

Settings == INSTANCE SaveForm WITH shown <- sf.draft, stored <- sfrow, note <- sf.saved
Details == INSTANCE SaveForm WITH
             shown <- dc.draft, stored <- DraftFrom(dcrow), note <- dc.saved
Numbers == INSTANCE SaveForm WITH
             shown <- tn.rows, stored <- Rows(tnrow), note <- tn.saved

\* The three forms keep their word: while one says "saved" it shows what the server
\* keeps, whatever was typed, generated or uploaded while the save was on its way.
FormsKeepTheirWord == Settings!Spec /\ Details!Spec /\ Numbers!Spec

\* The list of services drifts from the server only when two reloads were on their
\* way at once, or a call failed: otherwise, once the calls are answered, it is the
\* server's list, however the changes themselves overlapped.
ServicesSettle == svnet = {} /\ ~sv.raced /\ ~sv.failed => sv.list = svrow
=============================================================================
