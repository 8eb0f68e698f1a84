------------------------------ MODULE ListPages ------------------------------
(***************************************************************************)
(* The owner's lists of leads and of bookings.  Both fetch the rows of the *)
(* chosen filter in an effect that cancels its own fetch, and both fetch   *)
(* again after a card has changed a row, by a fetch that nothing cancels   *)
(* and that is for the filter under which the card was drawn.              *)
(***************************************************************************)
EXTENDS Pages, FiniteSets

CONSTANTS FirstLeads,     \* sets of leads the page may find
          FirstBookings,  \* sets of bookings the panel may find
          MaxListSteps    \* bound: filters chosen and rows changed on one page

VARIABLES
  ld, ldrow, ldnet,  \* the leads page, the leads on the server, calls in flight
  bk, bkrow, bknet   \* the bookings panel, the bookings, calls in flight

ldvars == <<ld, ldrow, ldnet>>
bkvars == <<bk, bkrow, bknet>>

\* A fetch for one filter, or a change of one row.  own: an effect cancels it.
Pull(f, own, n) == [kind |-> "pull", f |-> f, own |-> own, id |-> 0, to |-> "",
                    st |-> "sent", v |-> {}, n |-> n]
Change(f, id, to, n) == [kind |-> "change", f |-> f, own |-> FALSE, id |-> id, to |-> to,
                         st |-> "sent", v |-> {}, n |-> n]

\* Fault: the effect leaves no cleanup behind.
DropOwnNever(net) == net

\* The cleanup of the effect.
DropOwn(net) == {c \in net : ~c.own}

Uncancelled(net) == \E c \in net : ~c.own

\* load(): a fetch starts.  raced: one that nothing cancels is under way as well.
Loading(l, net) == [l EXCEPT !.loading = TRUE, !.error = FALSE, !.raced = @ \/ Uncancelled(net)]

-----------------------------------------------------------------------------
(* Leads *)

LeadStatus == {"in_progress", "new", "abandoned", "deal", "closed"}

\* GET /api/leads?status=&flow=
LeadsOf(f) ==
    {r \in ldrow : f.status \in {"all", r.status} /\ f.flow \in {"all", r.flow}}

LDInit ==
    /\ ldrow \in FirstLeads
    /\ \E s \in {"in_progress", "all"} :
         LET f == [status |-> s, flow |-> "all"] IN
         /\ ld = [f |-> f, query |-> FALSE, list |-> {}, gone |-> {}, loading |-> TRUE,
                  error |-> FALSE, card |-> [id |-> 0, to |-> ""], saving |-> FALSE,
                  steps |-> 0, raced |-> FALSE, failed |-> FALSE]
         /\ ldnet = {Pull(f, TRUE, 0)}

\* The dialogs of a card are modal: no filter is within reach while one is open.
NoDialog == ld.card.id = 0

Refilter(f) ==
    /\ NoDialog /\ f # ld.f /\ ld.steps < MaxListSteps
    /\ ld' = [Loading(ld, ldnet) EXCEPT !.f = f, !.steps = @ + 1]
    /\ ldnet' = DropOwn(ldnet) \cup {Pull(f, TRUE, ld.steps + 1)}
    /\ UNCHANGED ldrow
SetLeadStatusFilter(s) == Refilter([ld.f EXCEPT !.status = s])

\* The flows to choose from are the ones of the leads at hand.
FlowOptions == {"all"} \cup {r.flow : r \in ld.list \cup ld.gone}
SetFlowFilter(x) == x \in FlowOptions /\ Refilter([ld.f EXCEPT !.flow = x])

\* Both lists are fetched at once: the filter's, and the abandoned ones of the flow.
LeadsRead(c) ==
    /\ c.kind = "pull" /\ c.st = "sent"
    /\ ldnet' = (ldnet \ {c}) \cup {[c EXCEPT !.st = "done", !.v = <<LeadsOf(c.f),
                                       LeadsOf([c.f EXCEPT !.status = "abandoned"])>>]}
    /\ UNCHANGED <<ld, ldrow>>

LeadsAnswered(c) ==
    /\ c.kind = "pull" /\ c.st = "done"
    /\ ld' = [ld EXCEPT !.list = c.v[1], !.gone = c.v[2], !.loading = FALSE]
    /\ ldnet' = ldnet \ {c}
    /\ UNCHANGED ldrow

LeadsFail(c) ==
    /\ c.kind = "pull"
    /\ ld' = [ld EXCEPT !.error = TRUE, !.loading = FALSE, !.failed = TRUE]
    /\ ldnet' = ldnet \ {c}
    /\ UNCHANGED ldrow

\* The search narrows what is shown and fetches nothing.
Search ==
    /\ NoDialog
    /\ ld' = [ld EXCEPT !.query = ~@]
    /\ UNCHANGED <<ldrow, ldnet>>
VisibleLeads == IF ld.query THEN {r \in ld.list : r.match} ELSE ld.list

\* A card asks for a note before "deal" and "closed", and again before deleting.
LeadsShown == ~ld.loading /\ ~ld.error
OpenLeadDialog(id, to) ==
    /\ LeadsShown /\ NoDialog
    /\ \E r \in VisibleLeads : r.id = id /\ r.status # to
    /\ ld' = [ld EXCEPT !.card = [id |-> id, to |-> to]]
    /\ UNCHANGED <<ldrow, ldnet>>
CloseLeadDialog ==
    /\ ~NoDialog /\ ~ld.saving
    /\ ld' = [ld EXCEPT !.card = [id |-> 0, to |-> ""]]
    /\ UNCHANGED <<ldrow, ldnet>>
ConfirmLeadDialog ==
    /\ ~NoDialog /\ ~ld.saving /\ ld.steps < MaxListSteps
    /\ ld' = [ld EXCEPT !.saving = TRUE, !.steps = @ + 1]
    /\ ldnet' = ldnet \cup {Change(ld.f, ld.card.id, ld.card.to, ld.steps + 1)}
    /\ UNCHANGED ldrow

LeadChangeLands(c) ==
    /\ c.kind = "change" /\ c.st = "sent"
    /\ ldrow' = IF c.to = "deleted" THEN {r \in ldrow : r.id # c.id}
                ELSE {IF r.id = c.id THEN [r EXCEPT !.status = c.to] ELSE r : r \in ldrow}
    /\ ldnet' = (ldnet \ {c}) \cup {[c EXCEPT !.st = "done"]}
    /\ UNCHANGED ld

LeadChangeAnswered(c) ==
    /\ c.kind = "change" /\ c.st = "done"
    /\ ld' = [Loading(ld, ldnet \ {c}) EXCEPT !.saving = FALSE, !.card = [id |-> 0, to |-> ""]]
    /\ ldnet' = (ldnet \ {c}) \cup {Pull(c.f, FALSE, c.n)}
    /\ UNCHANGED ldrow

LeadChangeFails(c) ==
    /\ c.kind = "change"
    /\ ld' = [ld EXCEPT !.saving = FALSE, !.failed = TRUE]
    /\ ldnet' = ldnet \ {c}
    /\ UNCHANGED ldrow

LDNext ==
    \/ Search \/ CloseLeadDialog \/ ConfirmLeadDialog
    \/ \E s \in LeadStatus \cup {"all"} : SetLeadStatusFilter(s)
    \/ \E x \in FlowOptions : SetFlowFilter(x)
    \/ \E r \in ld.list, to \in {"deal", "closed", "deleted"} : OpenLeadDialog(r.id, to)
    \/ \E c \in ldnet :
         \/ LeadsRead(c) \/ LeadsAnswered(c) \/ LeadsFail(c)
         \/ LeadChangeLands(c) \/ LeadChangeAnswered(c) \/ LeadChangeFails(c)

-----------------------------------------------------------------------------
(* Bookings *)

BookingStatus == {"pending", "confirmed", "completed", "cancelled"}
BookingsOf(f) == {r \in bkrow : f \in {"all", r.status}}

BKInit ==
    /\ bkrow \in FirstBookings
    /\ bk = [f |-> "all", list |-> {}, day |-> 1, loading |-> TRUE, error |-> FALSE,
             dialog |-> 0, steps |-> 0, raced |-> FALSE, failed |-> FALSE]
    /\ bknet = {Pull("all", TRUE, 0)}

SetBookingFilter(f) ==
    /\ bk.dialog = 0 /\ f # bk.f /\ bk.steps < MaxListSteps
    /\ bk' = [Loading(bk, bknet) EXCEPT !.f = f, !.steps = @ + 1]
    /\ bknet' = DropOwn(bknet) \cup {Pull(f, TRUE, bk.steps + 1)}
    /\ UNCHANGED bkrow

BookingsRead(c) ==
    /\ c.kind = "pull" /\ c.st = "sent"
    /\ bknet' = (bknet \ {c}) \cup {[c EXCEPT !.st = "done", !.v = BookingsOf(c.f)]}
    /\ UNCHANGED <<bk, bkrow>>

BookingsAnswered(c) ==
    /\ c.kind = "pull" /\ c.st = "done"
    /\ bk' = [bk EXCEPT !.list = c.v, !.loading = FALSE]
    /\ bknet' = bknet \ {c}
    /\ UNCHANGED bkrow

BookingsFail(c) ==
    /\ c.kind = "pull"
    /\ bk' = [bk EXCEPT !.error = TRUE, !.loading = FALSE, !.failed = TRUE]
    /\ bknet' = bknet \ {c}
    /\ UNCHANGED bkrow

\* The calendar selects a day; the cards below it are the day's.
SelectDay(d) ==
    /\ ~bk.loading /\ ~bk.error /\ bk.dialog = 0 /\ d # bk.day
    /\ bk' = [bk EXCEPT !.day = d]
    /\ UNCHANGED <<bkrow, bknet>>
DayBookings == IF bk.loading \/ bk.error THEN {} ELSE {r \in bk.list : r.day = bk.day}
Active(r) == r.status \in {"pending", "confirmed"}

\* A card: confirm, complete, cancel at once; moving asks for a day in a dialog.
CardBusy(id) == \E c \in bknet : c.kind = "change" /\ c.id = id
PatchBooking(r, to) ==
    /\ bk.steps < MaxListSteps
    /\ bk' = [bk EXCEPT !.steps = @ + 1, !.raced = @ \/ \E c \in bknet : c.kind = "pull"]
    /\ bknet' = bknet \cup {Change(bk.f, r.id, to, bk.steps + 1)}
    /\ UNCHANGED bkrow
SetBookingStatus(r, to) ==
    /\ r \in DayBookings /\ bk.dialog = 0 /\ ~CardBusy(r.id)
    /\ Active(r) /\ (to = "confirmed" => r.status = "pending")
    /\ PatchBooking(r, to)
OpenMoveDialog(r) ==
    /\ r \in DayBookings /\ bk.dialog = 0 /\ ~CardBusy(r.id) /\ Active(r)
    /\ bk' = [bk EXCEPT !.dialog = r.id]
    /\ UNCHANGED <<bkrow, bknet>>
CloseMoveDialog ==
    /\ bk.dialog # 0 /\ ~CardBusy(bk.dialog)
    /\ bk' = [bk EXCEPT !.dialog = 0]
    /\ UNCHANGED <<bkrow, bknet>>
MoveBooking(r) ==
    /\ r.id = bk.dialog /\ r \in DayBookings /\ ~CardBusy(r.id)
    /\ PatchBooking(r, "moved")

\* PATCH /api/bookings/{id}; a move may be refused for a slot that is taken.
BookingChangeLands(c) ==
    /\ c.kind = "change" /\ c.st = "sent"
    /\ bkrow' = {IF r.id # c.id THEN r
                 ELSE IF c.to = "moved" THEN [r EXCEPT !.day = 3 - @]
                 ELSE [r EXCEPT !.status = c.to] : r \in bkrow}
    /\ bknet' = (bknet \ {c}) \cup {[c EXCEPT !.st = "done"]}
    /\ UNCHANGED bk

BookingChangeAnswered(c) ==
    /\ c.kind = "change" /\ c.st = "done"
    /\ bk' = [Loading(bk, bknet \ {c}) EXCEPT !.dialog = IF @ = c.id THEN 0 ELSE @]
    /\ bknet' = (bknet \ {c}) \cup {Pull(c.f, FALSE, c.n)}
    /\ UNCHANGED bkrow

BookingChangeFails(c) ==
    /\ c.kind = "change"
    /\ bk' = [bk EXCEPT !.failed = TRUE]
    /\ bknet' = bknet \ {c}
    /\ UNCHANGED bkrow

BKNext ==
    \/ CloseMoveDialog
    \/ \E f \in BookingStatus \cup {"all"} : SetBookingFilter(f)
    \/ \E d \in 1 .. 2 : SelectDay(d)
    \/ \E r \in bk.list :
         \/ OpenMoveDialog(r) \/ MoveBooking(r)
         \/ \E to \in BookingStatus \ {"pending"} : SetBookingStatus(r, to)
    \/ \E c \in bknet :
         \/ BookingsRead(c) \/ BookingsAnswered(c) \/ BookingsFail(c)
         \/ BookingChangeLands(c) \/ BookingChangeAnswered(c) \/ BookingChangeFails(c)

-----------------------------------------------------------------------------
(* Properties *)

\* A list is the server's list for the filter above it, once nothing is on its way:
\* however filters were changed while lists were loading, and after any change made
\* from a card.  Exempt are the ways around it that the pages leave open: a failed
\* call, and a fetch after a change that is still on its way when another begins.
ListsFollow ==
    /\ ldnet = {} /\ ~ld.raced /\ ~ld.failed => ld.list = LeadsOf(ld.f)
    /\ bknet = {} /\ ~bk.raced /\ ~bk.failed => bk.list = BookingsOf(bk.f)
=============================================================================
