---------------------------- MODULE PublicBooking ----------------------------
(***************************************************************************)
(* What a customer does on the web: the public booking page, where a       *)
(* service, a day and a time are chosen one after the other while the      *)
(* lists they are chosen from are fetched, and the page behind the link of *)
(* a booking, where it is moved or cancelled.  The server is as much of    *)
(* module Booking as these pages can see: which times are still free.      *)
(* One day stands for the days of a month, so a day is its month.          *)
(***************************************************************************)
EXTENDS Pages, FiniteSets

CONSTANTS Offer,      \* [service][day]: the times the business offers
          MaxPicks,   \* bound: what the customer picks, and lists that fail
          MaxSubmits  \* bound: bookings and changes the customer submits

VARIABLES
  pb,     \* the booking page
  pbrow,  \* taken: slots that are gone; mine: the bookings of this customer
  pbnet,  \* calls of the booking page in flight
  pm,     \* the page behind the link of a booking
  pmrow,  \* that booking
  pmnet   \* its calls: cancel and move

pbvars == <<pb, pbrow, pbnet>>
pmvars == <<pm, pmrow, pmnet>>

Services == DOMAIN Offer
Days == DOMAIN Offer[CHOOSE s \in Services : TRUE]
Times == UNION {Offer[s][d] : s \in Services, d \in Days}
None == 0  \* nothing chosen

\* compute_slots and compute_availability, as far as the pages can tell.
FreeTimes(s, d) == {t \in Offer[s][d] : <<d, t>> \notin pbrow.taken}
FreeDays(s, m) == {d \in {m} : FreeTimes(s, d) # {}}

-----------------------------------------------------------------------------
(* The booking page *)

EmptyFlowState ==
    [svc |-> None, day |-> None, time |-> None, month |-> 1,
     days |-> {}, daysLoading |-> FALSE, daysError |-> FALSE,
     slots |-> {}, slotsLoading |-> FALSE, slotsError |-> FALSE,
     submitting |-> FALSE, result |-> Nothing]

PBInit ==
    /\ pbrow = [taken |-> {}, mine |-> {}]
    /\ pbnet = {}
    /\ pb = [flow |-> EmptyFlowState, services |-> "loading", design |-> "loading",
             picks |-> 0, submits |-> 0, stray |-> FALSE, lost |-> FALSE]

Flow == pb.flow
Choosing == pb.services = "ready" /\ Flow.result = Nothing

\* PublicBookingPage: the services decide whether there is a page at all.
ServicesLoaded(st) ==
    /\ pb.services = "loading"
    /\ pb' = [pb EXCEPT !.services = st]
    /\ UNCHANGED <<pbrow, pbnet>>

\* The design is decoration.  When it comes after the services the flow is mounted
\* anew inside it: the choices are gone, and so are a confirmation on screen and the
\* one who waits for an answer.
DesignLoaded ==
    /\ pb.design = "loading"
    /\ pb' = [pb EXCEPT !.design = "page", !.flow = EmptyFlowState,
                        !.lost = @ \/ Flow.submitting \/ Flow.result # Nothing]
    /\ pbnet' = {[c EXCEPT !.own = FALSE] : c \in {d \in pbnet : d.kind = "create"}}
    /\ UNCHANGED pbrow

DesignFails ==
    /\ pb.design = "loading"
    /\ pb' = [pb EXCEPT !.design = "plain"]
    /\ UNCHANGED <<pbrow, pbnet>>

\* A call for one choice.  own: whoever made it listens, and an effect may cancel it.
Fetch(kind, svc, day, own) ==
    [kind |-> kind, svc |-> svc, day |-> day, own |-> own, st |-> "sent", time |-> None]

\* Fault: an effect leaves no cleanup behind.
CancelledNone(net, kinds) == net

\* The cleanup of an effect: its own fetch is no longer listened to.
Cancelled(net, kinds) == {c \in net : ~(c.kind \in kinds /\ c.own)}

\* pickService: day, time and slots are cleared, the days of the visible month are
\* fetched.  A service that was chosen already fetches nothing.
PickService(s) ==
    /\ Choosing /\ pb.picks < MaxPicks
    /\ LET f == [Flow EXCEPT !.svc = s, !.day = None, !.time = None, !.slots = {}] IN
       IF s = Flow.svc
       THEN /\ pb' = [pb EXCEPT !.flow = f, !.picks = @ + 1]
            /\ pbnet' = Cancelled(pbnet, {"slots"})
       ELSE /\ pb' = [pb EXCEPT !.flow = [f EXCEPT !.daysLoading = TRUE, !.daysError = FALSE],
                                !.picks = @ + 1]
            /\ pbnet' = Cancelled(pbnet, {"slots", "days"})
                          \cup {Fetch("days", s, Flow.month, TRUE)}
    /\ UNCHANGED pbrow

\* The calendar: another month, unless its days are being fetched or have failed.
HasCalendar == Choosing /\ Flow.svc # None /\ ~Flow.daysError
ShiftMonth(m) ==
    /\ HasCalendar /\ ~Flow.daysLoading /\ m # Flow.month /\ pb.picks < MaxPicks
    /\ pb' = [pb EXCEPT !.flow.month = m, !.flow.daysLoading = TRUE, !.picks = @ + 1]
    /\ pbnet' = Cancelled(pbnet, {"days"}) \cup {Fetch("days", Flow.svc, m, TRUE)}
    /\ UNCHANGED pbrow

\* pickDate, on a day the calendar shows as free, be it for the service before.
PickDay(d) ==
    /\ HasCalendar /\ d = Flow.month /\ d \in Flow.days /\ pb.picks < MaxPicks
    /\ pb' = [pb EXCEPT !.flow.day = d, !.flow.time = None, !.picks = @ + 1,
                        !.flow.slotsLoading = @ \/ d # Flow.day,
                        !.flow.slotsError = @ /\ d = Flow.day]
    /\ pbnet' = IF d = Flow.day THEN pbnet
                ELSE Cancelled(pbnet, {"slots"}) \cup {Fetch("slots", Flow.svc, d, TRUE)}
    /\ UNCHANGED pbrow

\* The times are shown once they are there.
HasSlotGrid ==
    Choosing /\ Flow.svc # None /\ Flow.day # None /\ ~Flow.slotsLoading /\ ~Flow.slotsError
PickTime(t) ==
    /\ HasSlotGrid /\ t \in Flow.slots /\ t # Flow.time
    /\ pb' = [pb EXCEPT !.flow.time = t]
    /\ UNCHANGED <<pbrow, pbnet>>

\* The list of this moment: a list that is old when it arrives is one that somebody
\* books from right after it arrived.
DaysAnswered(c, ok) ==
    /\ c.kind = "days" /\ (ok \/ pb.picks < MaxPicks)
    /\ pb' = [pb EXCEPT !.picks = IF ok THEN @ ELSE @ + 1,
                        !.flow.days = IF ok THEN FreeDays(c.svc, c.day) ELSE {},
                        !.flow.daysLoading = FALSE, !.flow.daysError = ~ok]
    /\ pbnet' = pbnet \ {c}
    /\ UNCHANGED pbrow

SlotsAnswered(c, ok) ==
    /\ c.kind = "slots" /\ (ok \/ pb.picks < MaxPicks)
    /\ pb' = [pb EXCEPT !.picks = IF ok THEN @ ELSE @ + 1,
                        !.flow.slots = IF ok THEN FreeTimes(c.svc, c.day) ELSE {},
                        !.flow.slotsLoading = FALSE, !.flow.slotsError = @ \/ ~ok,
                        !.stray = @ \/ (~c.own /\ <<c.svc, c.day>> # <<Flow.svc, Flow.day>>)]
    /\ pbnet' = pbnet \ {c}
    /\ UNCHANGED pbrow

\* The summary and the form, whose fields are taken as valid.
ShowSummary == Choosing /\ None \notin {Flow.svc, Flow.day, Flow.time}

\* Fault: the button stays enabled while a booking is on its way.
SubmitTwice ==
    /\ ShowSummary /\ pb.submits < MaxSubmits
    /\ pb' = [pb EXCEPT !.flow.submitting = TRUE, !.submits = @ + 1]
    /\ pbnet' = pbnet \cup {[Fetch("create", Flow.svc, Flow.day, TRUE)
                              EXCEPT !.time = Flow.time]}
    /\ UNCHANGED pbrow

Submit ==
    /\ ShowSummary /\ ~Flow.submitting /\ pb.submits < MaxSubmits
    /\ pb' = [pb EXCEPT !.flow.submitting = TRUE, !.submits = @ + 1]
    /\ pbnet' = pbnet \cup {[Fetch("create", Flow.svc, Flow.day, TRUE)
                              EXCEPT !.time = Flow.time]}
    /\ UNCHANGED pbrow

\* POST /api/book/{slug}: the slot is offered and still free, or 409.
Slot(c) == <<c.day, c.time>>
CreateLands(c) ==
    /\ c.kind = "create" /\ c.st = "sent" /\ c.time \in FreeTimes(c.svc, c.day)
    /\ pbrow' = [taken |-> pbrow.taken \cup {Slot(c)}, mine |-> pbrow.mine \cup {Slot(c)}]
    /\ pbnet' = (pbnet \ {c}) \cup {[c EXCEPT !.st = "done"]}
    /\ UNCHANGED pb

CreateAnswered(c) ==
    /\ c.kind = "create" /\ c.st = "done"
    /\ pb' = IF ~c.own THEN pb
             ELSE [pb EXCEPT !.flow.result = Done(Slot(c)), !.flow.submitting = FALSE]
    /\ pbnet' = pbnet \ {c}
    /\ UNCHANGED pbrow

\* 409: the times of the choice that was submitted are fetched again, by a fetch
\* that no effect will cancel, and the chosen time is cleared.
CreateRefused(c) ==
    /\ c.kind = "create" /\ c.st = "sent" /\ c.time \notin FreeTimes(c.svc, c.day)
    /\ pb' = IF ~c.own THEN pb
             ELSE [pb EXCEPT !.flow.submitting = FALSE, !.flow.slotsLoading = TRUE,
                             !.flow.slotsError = FALSE, !.flow.time = None]
    /\ pbnet' = (pbnet \ {c}) \cup
                  (IF ~c.own THEN {} ELSE {Fetch("slots", c.svc, c.day, FALSE)})
    /\ UNCHANGED pbrow

\* 422, 429, an error or no answer in time, with or without a booking made.
CreateFails(c) ==
    /\ c.kind = "create"
    /\ pb' = [pb EXCEPT !.flow.submitting = @ /\ ~c.own, !.lost = @ \/ c.st = "done"]
    /\ pbnet' = pbnet \ {c}
    /\ UNCHANGED pbrow

\* Somebody else is faster; only the slot the customer has just asked for matters.
OthersBook(c) ==
    /\ c.kind = "create" /\ c.st = "sent" /\ Slot(c) \notin pbrow.taken
    /\ pbrow' = [pbrow EXCEPT !.taken = @ \cup {Slot(c)}]
    /\ UNCHANGED <<pb, pbnet>>

PBNext ==
    \/ \E st \in {"ready", "failed"} : ServicesLoaded(st)
    \/ DesignLoaded \/ DesignFails \/ Submit
    \/ \E s \in Services : PickService(s)
    \/ \E d \in Days : ShiftMonth(d) \/ PickDay(d)
    \/ \E t \in Times : PickTime(t)
    \/ \E c \in pbnet :
         \/ CreateLands(c) \/ CreateAnswered(c) \/ CreateRefused(c)
         \/ CreateFails(c) \/ OthersBook(c)
         \/ \E ok \in BOOLEAN : DaysAnswered(c, ok) \/ SlotsAnswered(c, ok)

-----------------------------------------------------------------------------
(* The page behind the link: move or cancel *)

PMInit ==
    /\ pmrow = [on |-> TRUE, slot |-> 1]
    /\ pmnet = [cancel |-> Nothing, move |-> Nothing]
    /\ pm = [dialog |-> FALSE, pick |-> 0, done |-> Nothing, calls |-> 0]

\* The dialog is modal: while it is open the page behind it is out of reach.
Behind == ~pm.dialog /\ pm.done = Nothing /\ pmnet.cancel = Nothing
Moving == pmnet.move # Nothing

OpenReschedule ==
    /\ Behind
    /\ pm' = [pm EXCEPT !.dialog = TRUE, !.pick = 0]
    /\ UNCHANGED <<pmrow, pmnet>>

CloseReschedule ==
    /\ pm.dialog /\ ~Moving
    /\ pm' = [pm EXCEPT !.dialog = FALSE]
    /\ UNCHANGED <<pmrow, pmnet>>

PickSlot(k) ==
    /\ pm.dialog /\ ~Moving /\ k # pm.pick
    /\ pm' = [pm EXCEPT !.pick = k]
    /\ UNCHANGED <<pmrow, pmnet>>

Ask(call, v) ==
    /\ pm.calls < MaxSubmits
    /\ pm' = [pm EXCEPT !.calls = @ + 1]
    /\ pmnet' = [pmnet EXCEPT ![call] = Sent(v)]
    /\ UNCHANGED pmrow
ConfirmReschedule == pm.dialog /\ ~Moving /\ pm.pick # 0 /\ Ask("move", pm.pick)
CancelBooking == Behind /\ Ask("cancel", 0)

\* A move also makes a cancelled booking pending again; a taken slot is a 409.
CancelLands ==
    /\ pmnet.cancel.st = "sent"
    /\ pmrow' = [pmrow EXCEPT !.on = FALSE]
    /\ pmnet' = [pmnet EXCEPT !.cancel.st = "done"]
    /\ UNCHANGED pm
MoveLands ==
    /\ pmnet.move.st = "sent"
    /\ pmrow' = [on |-> TRUE, slot |-> pmnet.move.v]
    /\ pmnet' = [pmnet EXCEPT !.move.st = "done"]
    /\ UNCHANGED pm

ChangeAnswered(call) ==
    /\ pmnet[call].st = "done"
    /\ pm' = [pm EXCEPT !.dialog = FALSE, !.done = Done(<<call, pmnet[call].v>>)]
    /\ pmnet' = [pmnet EXCEPT ![call] = Nothing]
    /\ UNCHANGED pmrow

ChangeFails(call) ==
    /\ pmnet[call] # Nothing
    /\ pmnet' = [pmnet EXCEPT ![call] = Nothing]
    /\ UNCHANGED <<pm, pmrow>>

PMNext ==
    \/ OpenReschedule \/ CloseReschedule \/ ConfirmReschedule \/ CancelBooking
    \/ CancelLands \/ MoveLands
    \/ \E k \in 1 .. 2 : PickSlot(k)
    \/ \E call \in {"cancel", "move"} : ChangeAnswered(call) \/ ChangeFails(call)

-----------------------------------------------------------------------------
(* Properties *)

\* The time in the summary is one the business offers for the service and the day
\* above it, however the customer went back and forth while lists were on their way.
\* The one way around it is the refetch after a 409: it is for the choice that was
\* submitted, and nothing cancels it when the customer has moved on meanwhile.
TimeBelongsToChoice ==
    Flow.time # None /\ ~pb.stray => Flow.time \in Offer[Flow.svc][Flow.day]

\* A customer is told what happened to the booking: one visit makes at most one
\* booking, the confirmation is on screen as soon as nothing is on its way, and the
\* page behind the link shows the change the server made.  Exempt is the visit whose
\* answer was lost on the way or to the late design that mounts the flow anew.
CustomerIsTold ==
    /\ ~pb.lost =>
         /\ Cardinality(pbrow.mine) <= 1
         /\ {c \in pbnet : c.kind = "create"} = {} =>
              pbrow.mine = IF Flow.result = Nothing THEN {} ELSE {Flow.result.v}
    /\ pm.done # Nothing =>
         pmrow.on = (pm.done.v[1] = "move")
           /\ (pm.done.v[1] = "move" => pmrow.slot = pm.done.v[2])
=============================================================================
