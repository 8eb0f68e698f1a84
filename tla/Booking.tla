------------------------------- MODULE Booking -------------------------------
(***************************************************************************)
(* Appointments of one business: the public page and the owner's calendar  *)
(* (services/booking/, api/public_booking.py, api/booking.py) with the     *)
(* Google Calendar hook that runs after a commit (google_calendar.py), the *)
(* owner's alerts and the outbox of messages to customers.                 *)
(*                                                                         *)
(* A request is one action per Postgres statement that can see or change   *)
(* what another request does, per Google call and per Redis write.  Every  *)
(* statement of a transaction reads what is committed when it runs (READ   *)
(* COMMITTED); the reads inside compute_slots are taken together.          *)
(*                                                                         *)
(* Time is counted in units of the instance's choice; local time is UTC.   *)
(*                                                                         *)
(* A definition whose comment begins with "Fault" is a plausible mistake   *)
(* in the definition after it.  No action uses it: it is there to show     *)
(* that a property notices the mistake.                                    *)
(***************************************************************************)
EXTENDS Integers, Sequences

CONSTANTS
  Appt,          \* ids of the bookings that can be created
  Service,       \* ids of the services
  NoService,     \* service_id is null
  Request,       \* concurrent API requests
  Event,         \* ids Google gives to calendar events
  NoEvent,       \* google_event_id is null
  DayLen,        \* the length of a day
  DayPad,        \* _bookings_on_local_day reads this much around a day
  WeekLen,       \* days after which the working hours repeat
  Durations,     \* the lengths of a service
  Settings,      \* the booking settings the owner saves
  Starts,        \* the times customers and the owner ask for
  MarkerTTL,     \* _MARKER_TTL_SECONDS
  AlertsMax,     \* ALERTS_MAX
  OwnerOps,      \* what the owner does
  MaxTime,       \* bound: the clock
  MaxReq,        \* bound: API requests about bookings
  MaxEdit,       \* bound: owner edits of services, settings, Google
  MaxFail        \* bound: crashes, failed Google calls and statements

ASSUME TimeAssumption ==
  /\ DayLen \in Nat \ {0} /\ WeekLen \in Nat \ {0}
  /\ DayPad \in Nat /\ MarkerTTL \in Nat /\ AlertsMax \in Nat \ {0}
  /\ Starts \subseteq Nat /\ Durations \subseteq Nat \ {0}
ASSUME SettingsAssumption ==
  /\ Settings # {}
  /\ \A s \in Settings :
       /\ DOMAIN s = {"buffer", "notice", "ahead", "hours"}
       /\ s.buffer \in Nat /\ s.notice \in Nat /\ s.ahead \in Nat \ {0}
       /\ DOMAIN s.hours = 0 .. WeekLen - 1
       /\ \A d \in 0 .. WeekLen - 1 : \A r \in s.hours[d] :
            /\ DOMAIN r = {"s", "e"}
            /\ r.s \in Nat /\ r.e \in Nat /\ r.s < r.e /\ r.e <= DayLen
ASSUME NullAssumption ==
  /\ NoService \notin Service /\ NoEvent \notin Event
  /\ Appt # {} /\ Service # {} /\ Durations # {}
ASSUME BookingOpsAssumption ==
  OwnerOps \subseteq {"status", "revive", "move", "move_cancelled", "service",
                 "settings", "google"}
ASSUME BookingBoundsAssumption ==
  MaxTime \in Nat /\ MaxReq \in Nat /\ MaxEdit \in Nat /\ MaxFail \in Nat

VARIABLES
  now,        \* the clock
  services,   \* Postgres: the services
  settings,   \* Postgres: booking_settings
  connected,  \* Postgres: a Google refresh token is stored
  bookings,   \* Postgres: the bookings
  reqs,       \* the API requests in flight
  calendar,   \* the owner's Google Calendar
  alerts,     \* Redis: booking:alerts
  markers,    \* Redis: when the marker of a touch expires, 0 when unset
  outbox,     \* Redis: booking:outbox
  acked,      \* observer: the bookings a customer holds a cancel token of
  used        \* how much of each bound is used

shop == <<services, settings, connected>>
redis == <<alerts, markers, outbox>>
vars == <<now, shop, bookings, reqs, calendar, redis, acked, used>>

-----------------------------------------------------------------------------
(* Types *)

BookingStatus == {"pending", "confirmed", "cancelled", "completed"}
ActiveStatuses == {"pending", "confirmed", "completed"}
TouchKind == {"confirmation", "reminder", "approved"}

ServiceRow == [status : {"none", "active", "inactive", "deleted"}, dur : Durations]

\* "lost": the insert was rolled back after the id had been handed out.
BookingRow == [status : BookingStatus \cup {"unused", "lost"},
               service : Service \cup {NoService}, start : Nat, dur : Durations,
               event : Event \cup {NoEvent}]

ReqKind == {"create", "cancel", "move", "update"}
ReqPC == {"idle", "check", "write", "hook", "google", "record", "notify", "push"}

\* timed: the body names a new time.  start: that time, then the one the write
\* returned.  event and seen: the event id and the time the hook read.
ReqRow == [pc : ReqPC, kind : ReqKind, booking : Appt, service : Service \cup {NoService},
           timed : BOOLEAN, start : Nat, dur : Durations,
           status : BookingStatus \cup {"keep"}, event : Event \cup {NoEvent},
           seen : Nat]

CalendarRow == [status : {"unused", "on", "deleted"}, booking : Appt, start : Nat]
Alert == [booking : Appt, kind : {"cancelled", "rescheduled"}]
Touch == [booking : Appt, kind : TouchKind, start : Nat]

TypeOK ==
  /\ now \in Nat
  /\ services \in [Service -> ServiceRow]
  /\ settings \in Settings
  /\ connected \in BOOLEAN
  /\ bookings \in [Appt -> BookingRow]
  /\ reqs \in [Request -> ReqRow]
  /\ calendar \in [Event -> CalendarRow]
  /\ alerts \in Seq(Alert)
  /\ markers \in [Appt \X TouchKind -> Nat]
  /\ outbox \in Seq(Touch)
  /\ acked \subseteq Appt
  /\ used \in [req : Nat, edit : Nat, fail : Nat]

-----------------------------------------------------------------------------
(* Initial state: a business that has just been set up *)

AnyAppt == CHOOSE b \in Appt : TRUE
AnyDuration == CHOOSE d \in Durations : TRUE

NoBooking == [status |-> "unused", service |-> NoService, start |-> 0,
              dur |-> AnyDuration, event |-> NoEvent]
IdleReq == [pc |-> "idle", kind |-> "create", booking |-> AnyAppt,
            service |-> NoService, timed |-> FALSE, start |-> 0,
            dur |-> AnyDuration, status |-> "keep", event |-> NoEvent, seen |-> 0]

Init ==
  /\ now = 0
  /\ services \in [Service -> {row \in ServiceRow : row.status \in {"none", "active"}}]
  /\ settings \in Settings
  /\ connected \in BOOLEAN
  /\ bookings = [b \in Appt |-> NoBooking]
  /\ reqs = [r \in Request |-> IdleReq]
  /\ calendar = [e \in Event |->
                   [status |-> "unused", booking |-> AnyAppt, start |-> 0]]
  /\ alerts = <<>>
  /\ markers = [m \in Appt \X TouchKind |-> 0]
  /\ outbox = <<>>
  /\ acked = {}
  /\ used = [req |-> 0, edit |-> 0, fail |-> 0]

-----------------------------------------------------------------------------
(* slots.py: the start times a service can be booked at *)

Day(t) == t \div DayLen
Exists(b) == bookings[b].status \in BookingStatus
Active(b) == bookings[b].status \in ActiveStatuses
End(b) == bookings[b].start + bookings[b].dur

\* _bookings_on_local_day: the live bookings that start on day d or near it.
BookingsOnDay(d) ==
  {b \in Appt : /\ Active(b)
                /\ d * DayLen - DayPad <= bookings[b].start
                /\ bookings[b].start < (d + 1) * DayLen + DayPad}

\* Fault: a candidate is compared with the start of the bookings only.
OverlapsAnyStart(t, dur, taken) ==
  \E b \in taken : t <= bookings[b].start /\ bookings[b].start < t + dur

\* Fault: the break between two bookings is forgotten.
OverlapsWithoutBuffer(t, dur, taken) ==
  \E b \in taken : t < End(b) /\ bookings[b].start < t + dur

OverlapsAny(t, dur, taken) ==
  \E b \in taken : /\ t - settings.buffer < End(b)
                   /\ bookings[b].start < t + dur + settings.buffer

\* The candidates stride through each range of the weekday.
OnGrid(t, dur) ==
  \E rng \in settings.hours[Day(t) % WeekLen] :
    LET from == Day(t) * DayLen + rng.s IN
    /\ from <= t
    /\ (t - from) % (dur + settings.buffer) = 0
    /\ t + dur <= Day(t) * DayLen + rng.e

\* Time t is among compute_slots(service, day of t), the bookings of `taken`
\* standing for what the day already holds.
Offered(sv, t, taken) ==
  /\ sv \in Service
  /\ services[sv].status = "active"
  /\ OnGrid(t, services[sv].dur)
  /\ now + settings.notice <= t
  /\ t <= now + settings.ahead * DayLen
  /\ ~OverlapsAny(t, services[sv].dur, taken)

-----------------------------------------------------------------------------
(* Requests about bookings: the part inside the transaction *)

Goto(r, pc) == reqs' = [reqs EXCEPT ![r].pc = pc]
Finish(r) == reqs' = [reqs EXCEPT ![r] = IdleReq]
Begin(r, req) ==
  /\ reqs[r].pc = "idle"
  /\ used.req < MaxReq
  /\ reqs' = [reqs EXCEPT ![r] = req]
  /\ used' = [used EXCEPT !.req = @ + 1]

\* The ids the next booking may get.
FreeIds == {b \in Appt : /\ bookings[b].status = "unused"
                         /\ \A r \in Request : reqs[r].pc # "idle" => reqs[r].booking # b}

\* create_public_booking reads the service and takes its duration along.
\* The page's rate limiter, which only refuses requests, is left out.
StartCreate(r, sv, t) ==
  /\ services[sv].status = "active"
  /\ \E b \in FreeIds :
       Begin(r, [IdleReq EXCEPT !.pc = "check", !.kind = "create", !.booking = b,
                   !.service = sv, !.timed = TRUE, !.start = t,
                   !.dur = services[sv].dur])
  /\ UNCHANGED <<now, shop, bookings, calendar, redis, acked>>

\* The customer needs the token that came with the answer to the creation.
StartCancel(r, b) ==
  /\ b \in acked /\ Exists(b)
  /\ Begin(r, [IdleReq EXCEPT !.pc = "write", !.kind = "cancel", !.booking = b])
  /\ UNCHANGED <<now, shop, bookings, calendar, redis, acked>>

StartMove(r, b, t) ==
  /\ b \in acked /\ Exists(b)
  /\ Begin(r, [IdleReq EXCEPT !.pc = "check", !.kind = "move", !.booking = b,
                 !.service = bookings[b].service, !.timed = TRUE, !.start = t])
  /\ UNCHANGED <<now, shop, bookings, calendar, redis, acked>>

\* admin_update_booking: a status, a time, or both.  Giving a cancelled booking
\* an active status again is an operation of its own here, and so is moving one
\* that stays cancelled, which the API allows and the owner's page does not offer.
StartUpdate(r, b, s, timed, t) ==
  /\ Exists(b)
  /\ s # "keep" \/ timed
  /\ s # "keep" => IF bookings[b].status = "cancelled" /\ s # "cancelled"
                   THEN "revive" \in OwnerOps ELSE "status" \in OwnerOps
  /\ timed => IF bookings[b].status = "cancelled" /\ s = "keep"
              THEN "move_cancelled" \in OwnerOps ELSE "move" \in OwnerOps
  /\ Begin(r, [IdleReq EXCEPT !.pc = IF timed THEN "check" ELSE "write",
                 !.kind = "update", !.booking = b, !.status = s,
                 !.service = bookings[b].service, !.timed = timed,
                 !.start = IF timed THEN t ELSE 0])
  /\ UNCHANGED <<now, shop, bookings, calendar, redis, acked>>

\* The chosen time must be offered; otherwise the request ends in an error.
CheckSlot(r) ==
  /\ reqs[r].pc = "check"
  /\ IF Offered(reqs[r].service, reqs[r].start, BookingsOnDay(Day(reqs[r].start)))
     THEN Goto(r, "write") ELSE Finish(r)
  /\ UNCHANGED <<now, shop, bookings, calendar, redis, acked, used>>

Committed(r, t) == reqs' = [reqs EXCEPT ![r] = [@ EXCEPT !.pc = "hook", !.start = t]]

\* The lead and the booking are inserted and committed together.
InsertBooking(r) ==
  /\ reqs[r].pc = "write" /\ reqs[r].kind = "create"
  /\ services[reqs[r].service].status # "deleted"
  /\ bookings' = [bookings EXCEPT ![reqs[r].booking] =
                    [status |-> "pending", service |-> reqs[r].service,
                     start |-> reqs[r].start, dur |-> reqs[r].dur, event |-> NoEvent]]
  /\ Committed(r, reqs[r].start)
  /\ UNCHANGED <<now, shop, calendar, redis, acked, used>>

\* The service was deleted after the check: the foreign key refuses the row.
RejectInsert(r) ==
  /\ reqs[r].pc = "write" /\ reqs[r].kind = "create"
  /\ services[reqs[r].service].status = "deleted"
  /\ Finish(r)
  /\ UNCHANGED <<now, shop, bookings, calendar, redis, acked, used>>

\* The usage counter, the last statement, fails: bump_safe swallows the error,
\* the aborted transaction rolls back at its COMMIT and the handler goes on.
LoseBooking(r) ==
  /\ reqs[r].pc = "write" /\ reqs[r].kind = "create"
  /\ used.fail < MaxFail
  /\ bookings' = [bookings EXCEPT ![reqs[r].booking].status = "lost"]
  /\ Committed(r, reqs[r].start)
  /\ used' = [used EXCEPT !.fail = @ + 1]
  /\ UNCHANGED <<now, shop, calendar, redis, acked>>

MoveBooking(r) ==
  /\ reqs[r].pc = "write" /\ reqs[r].kind = "move"
  /\ bookings' = [bookings EXCEPT ![reqs[r].booking] =
                    [@ EXCEPT !.start = reqs[r].start, !.status = "pending"]]
  /\ Committed(r, reqs[r].start)
  /\ UNCHANGED <<now, shop, calendar, redis, acked, used>>

CancelBooking(r) ==
  /\ reqs[r].pc = "write" /\ reqs[r].kind = "cancel"
  /\ bookings' = [bookings EXCEPT ![reqs[r].booking].status = "cancelled"]
  /\ Committed(r, bookings[reqs[r].booking].start)
  /\ UNCHANGED <<now, shop, calendar, redis, acked, used>>

\* Fault: an omitted status is written like a given one.
UpdateOmitted(r) ==
  LET req == reqs[r]
      start == IF req.timed THEN req.start ELSE bookings[req.booking].start
  IN
  /\ req.pc = "write" /\ req.kind = "update"
  /\ bookings' = [bookings EXCEPT ![req.booking] =
                    [@ EXCEPT !.status = req.status, !.start = start]]
  /\ Committed(r, start)
  /\ UNCHANGED <<now, shop, calendar, redis, acked, used>>

UpdateBooking(r) ==
  LET req == reqs[r]
      row == bookings[req.booking]
      start == IF req.timed THEN req.start ELSE row.start
      status == IF req.status = "keep" THEN row.status ELSE req.status
  IN
  /\ req.pc = "write" /\ req.kind = "update"
  /\ bookings' = [bookings EXCEPT ![req.booking] =
                    [@ EXCEPT !.status = status, !.start = start]]
  /\ Committed(r, start)
  /\ UNCHANGED <<now, shop, calendar, redis, acked, used>>

-----------------------------------------------------------------------------
(* google_calendar.py: the hook that follows a commit *)

\* The action a request asks of the hook.
HookAction(req) ==
  CASE req.kind = "create" -> "created"
    [] req.kind = "cancel" \/ (req.kind = "update" /\ req.status = "cancelled") ->
         "cancelled"
    [] OTHER -> "rescheduled"

\* Fault: a rescheduled booking gets a new event.
GoogleCallAnew(req) ==
  CASE HookAction(req) = "cancelled" ->
         IF req.event = NoEvent THEN "nothing" ELSE "delete"
    [] OTHER -> "create"

\* What the hook will ask of Google, from the row it read: an event is patched
\* or deleted by the id on the row, and a missing one is created.
GoogleCall(req) ==
  CASE HookAction(req) = "created" -> "create"
    [] HookAction(req) = "cancelled" ->
         IF req.event = NoEvent THEN "nothing" ELSE "delete"
    [] OTHER -> IF req.event = NoEvent THEN "create" ELSE "patch"

\* sync_booking reads the row; without a token or a row it is done.
HookRead(r) ==
  LET row == bookings[reqs[r].booking] IN
  /\ reqs[r].pc = "hook"
  /\ IF connected /\ Exists(reqs[r].booking)
     THEN reqs' = [reqs EXCEPT ![r] = [@ EXCEPT !.pc = "google", !.event = row.event,
                                                !.seen = row.start]]
     ELSE Goto(r, "notify")
  /\ UNCHANGED <<now, shop, bookings, calendar, redis, acked, used>>

NoGoogleCall(r) ==
  /\ reqs[r].pc = "google" /\ GoogleCall(reqs[r]) = "nothing"
  /\ Goto(r, "notify")
  /\ UNCHANGED <<now, shop, bookings, calendar, redis, acked, used>>

CreateEvent(r) ==
  /\ reqs[r].pc = "google" /\ GoogleCall(reqs[r]) = "create"
  /\ \E e \in Event :
       /\ calendar[e].status = "unused"
       /\ calendar' = [calendar EXCEPT ![e] =
                         [status |-> "on", booking |-> reqs[r].booking,
                          start |-> reqs[r].seen]]
       /\ reqs' = [reqs EXCEPT ![r] = [@ EXCEPT !.pc = "record", !.event = e]]
  /\ UNCHANGED <<now, shop, bookings, redis, acked, used>>

\* Google refuses to patch an event that was deleted; the hook swallows it.
PatchEvent(r) ==
  LET e == reqs[r].event IN
  /\ reqs[r].pc = "google" /\ GoogleCall(reqs[r]) = "patch"
  /\ calendar' = IF calendar[e].status = "on"
                 THEN [calendar EXCEPT ![e].start = reqs[r].seen] ELSE calendar
  /\ Goto(r, "notify")
  /\ UNCHANGED <<now, shop, bookings, redis, acked, used>>

\* Deleting an event that is gone already succeeds.
DeleteEvent(r) ==
  /\ reqs[r].pc = "google" /\ GoogleCall(reqs[r]) = "delete"
  /\ calendar' = [calendar EXCEPT ![reqs[r].event].status = "deleted"]
  /\ reqs' = [reqs EXCEPT ![r] = [@ EXCEPT !.pc = "record", !.event = NoEvent]]
  /\ UNCHANGED <<now, shop, bookings, redis, acked, used>>

\* Fault: the row keeps the id of the event that was deleted.
RecordCreatedOnly(r) ==
  LET req == reqs[r] IN
  /\ req.pc = "record"
  /\ bookings' = IF req.event = NoEvent THEN bookings
                 ELSE [bookings EXCEPT ![req.booking].event = req.event]
  /\ Goto(r, "notify")
  /\ UNCHANGED <<now, shop, calendar, redis, acked, used>>

\* Fault: the update that stores the event id lacks the booking's id.
RecordEverywhere(r) ==
  /\ reqs[r].pc = "record"
  /\ bookings' = [b \in Appt |-> [bookings[b] EXCEPT !.event = reqs[r].event]]
  /\ Goto(r, "notify")
  /\ UNCHANGED <<now, shop, calendar, redis, acked, used>>

\* The id of the created event, or null for the deleted one, goes to the row.
RecordEvent(r) ==
  /\ reqs[r].pc = "record"
  /\ bookings' = [bookings EXCEPT ![reqs[r].booking].event = reqs[r].event]
  /\ Goto(r, "notify")
  /\ UNCHANGED <<now, shop, calendar, redis, acked, used>>

\* A Google call or the statement after it raises; the hook swallows it.
HookFails(r) ==
  /\ reqs[r].pc \in {"google", "record"}
  /\ used.fail < MaxFail
  /\ Goto(r, "notify")
  /\ used' = [used EXCEPT !.fail = @ + 1]
  /\ UNCHANGED <<now, shop, bookings, calendar, redis, acked>>

-----------------------------------------------------------------------------
(* After the hook: the owner's alert, the customer's message, the answer *)

MarkerSet(b, k) == markers[<<b, k>>] > now
SetMarker(b, k) == markers' = [markers EXCEPT ![<<b, k>>] = now + MarkerTTL]
Queue(b, k, t) == outbox' = Append(outbox, [booking |-> b, kind |-> k, start |-> t])

\* push_alert keeps the newest AlertsMax entries.
Push(list, a) ==
  LET all == Append(list, a) IN
  IF Len(all) > AlertsMax THEN SubSeq(all, Len(all) - AlertsMax + 1, Len(all)) ELSE all

Answer(r) ==
  /\ reqs[r].pc = "notify" /\ reqs[r].kind = "create"
  /\ acked' = acked \cup {reqs[r].booking}
  /\ Finish(r)
  /\ UNCHANGED <<now, shop, bookings, calendar, redis, used>>

AlertOwner(r) ==
  /\ reqs[r].pc = "notify" /\ reqs[r].kind \in {"cancel", "move"}
  /\ alerts' = Push(alerts, [booking |-> reqs[r].booking, kind |-> HookAction(reqs[r])])
  /\ Finish(r)
  /\ UNCHANGED <<now, shop, bookings, calendar, markers, outbox, acked, used>>

\* Fault: the message is queued at every confirmation.
MarkAgain(r) ==
  LET b == reqs[r].booking IN
  /\ reqs[r].pc = "notify" /\ reqs[r].kind = "update"
  /\ IF reqs[r].status = "confirmed"
     THEN SetMarker(b, "approved") /\ Goto(r, "push")
     ELSE UNCHANGED markers /\ Finish(r)
  /\ UNCHANGED <<now, shop, bookings, calendar, alerts, outbox, acked, used>>

\* queue_booking_message: the marker first, the entry in a second round trip.
MarkApproved(r) ==
  LET b == reqs[r].booking IN
  /\ reqs[r].pc = "notify" /\ reqs[r].kind = "update"
  /\ IF reqs[r].status = "confirmed" /\ ~MarkerSet(b, "approved")
     THEN SetMarker(b, "approved") /\ Goto(r, "push")
     ELSE UNCHANGED markers /\ Finish(r)
  /\ UNCHANGED <<now, shop, bookings, calendar, alerts, outbox, acked, used>>

PushApproved(r) ==
  /\ reqs[r].pc = "push"
  /\ Queue(reqs[r].booking, "approved", reqs[r].start)
  /\ Finish(r)
  /\ UNCHANGED <<now, shop, bookings, calendar, alerts, markers, acked, used>>

\* A crash, a Redis error or a failed statement ends the request where it is.
RequestFails(r) ==
  /\ reqs[r].pc # "idle"
  /\ used.fail < MaxFail
  /\ Finish(r)
  /\ used' = [used EXCEPT !.fail = @ + 1]
  /\ UNCHANGED <<now, shop, bookings, calendar, redis, acked>>

StartRequest(r) ==
  \/ \E sv \in Service, t \in Starts : StartCreate(r, sv, t)
  \/ \E b \in Appt : \/ StartCancel(r, b)
                     \/ \E t \in Starts : StartMove(r, b, t)
                     \/ \E s \in BookingStatus \cup {"keep"}, t \in Starts :
                          StartUpdate(r, b, s, TRUE, t)
                     \/ \E s \in BookingStatus : StartUpdate(r, b, s, FALSE, 0)

RequestStep(r) ==
  \/ CheckSlot(r) \/ InsertBooking(r) \/ RejectInsert(r)
  \/ MoveBooking(r) \/ CancelBooking(r) \/ UpdateBooking(r)
  \/ HookRead(r) \/ NoGoogleCall(r) \/ CreateEvent(r) \/ PatchEvent(r)
  \/ DeleteEvent(r) \/ RecordEvent(r)
  \/ Answer(r) \/ AlertOwner(r) \/ MarkApproved(r) \/ PushApproved(r)

RequestFault(r) == LoseBooking(r) \/ HookFails(r) \/ RequestFails(r)

-----------------------------------------------------------------------------
(* The owner's services, settings and Google connection *)

OwnerEdits(op) ==
  /\ op \in OwnerOps
  /\ used.edit < MaxEdit
  /\ used' = [used EXCEPT !.edit = @ + 1]

CreateService(sv, d) ==
  /\ OwnerEdits("service")
  /\ services[sv].status = "none"
  /\ services' = [services EXCEPT ![sv] = [status |-> "active", dur |-> d]]
  /\ UNCHANGED <<now, settings, connected, bookings, reqs, calendar, redis, acked>>

UpdateService(sv, s, d) ==
  /\ OwnerEdits("service")
  /\ services[sv].status \in {"active", "inactive"}
  /\ services' = [services EXCEPT ![sv] = [status |-> s, dur |-> d]]
  /\ UNCHANGED <<now, settings, connected, bookings, reqs, calendar, redis, acked>>

\* ON DELETE SET NULL: the bookings stay.
DeleteService(sv) ==
  /\ OwnerEdits("service")
  /\ services[sv].status \in {"active", "inactive"}
  /\ services' = [services EXCEPT ![sv].status = "deleted"]
  /\ bookings' = [b \in Appt |-> IF bookings[b].service = sv
                                 THEN [bookings[b] EXCEPT !.service = NoService]
                                 ELSE bookings[b]]
  /\ UNCHANGED <<now, settings, connected, reqs, calendar, redis, acked>>

UpdateSettings(new) ==
  /\ OwnerEdits("settings")
  /\ settings' = new
  /\ UNCHANGED <<now, services, connected, bookings, reqs, calendar, redis, acked>>

\* store_credentials and disconnect.
ConnectGoogle(on) ==
  /\ OwnerEdits("google")
  /\ connected' = on
  /\ UNCHANGED <<now, services, settings, bookings, reqs, calendar, redis, acked>>

OwnerEdit ==
  \/ \E sv \in Service : \/ \E d \in Durations : CreateService(sv, d)
                         \/ \E s \in {"active", "inactive"}, d \in Durations :
                              UpdateService(sv, s, d)
                         \/ DeleteService(sv)
  \/ \E new \in Settings : UpdateSettings(new)
  \/ \E on \in BOOLEAN : ConnectGoogle(on)

\* A request takes seconds: time does not pass while one is running.
Tick ==
  /\ \A r \in Request : reqs[r].pc = "idle"
  /\ now' = IF now < MaxTime THEN now + 1 ELSE now
  /\ UNCHANGED <<shop, bookings, reqs, calendar, redis, acked, used>>

Next ==
  \/ \E r \in Request : StartRequest(r) \/ RequestStep(r) \/ RequestFault(r)
  \/ OwnerEdit
  \/ Tick

Spec == Init /\ [][Next]_vars

-----------------------------------------------------------------------------
(* Properties *)

Disjoint(a, b) == End(a) <= bookings[b].start \/ End(b) <= bookings[a].start

\* The double-booking guard (SlotTakenError): two live bookings never overlap.
NoOverlap ==
  \A a, b \in Appt : a # b /\ Active(a) /\ Active(b) => Disjoint(a, b)

Gap(a, b) ==
  \/ End(a) + settings.buffer <= bookings[b].start
  \/ End(b) + settings.buffer <= bookings[a].start

\* "so back-to-back bookings keep their gap": between two live bookings there
\* is at least the buffer the owner set, for bookings of any two services.
GapKept == \A a, b \in Appt : a # b /\ Active(a) /\ Active(b) => Gap(a, b)

Quiet == \A r \in Request : reqs[r].pc = "idle"

\* The owner's calendar follows the bookings (created, rescheduled, cancelled):
\* while the connection is the one the owner started with, between requests a
\* live booking has one event, at its time, named on its row, and a cancelled
\* booking has none.
CalendarFollows ==
  connected /\ used.edit = 0 /\ Quiet => \A b \in Appt : Exists(b) =>
    LET events == {e \in Event : calendar[e].status = "on" /\ calendar[e].booking = b} IN
    IF Active(b)
    THEN /\ events = {bookings[b].event}
         /\ calendar[bookings[b].event].start = bookings[b].start
    ELSE events = {} /\ bookings[b].event = NoEvent

\* The event id on a row is one Google gave for this very booking: the hook never
\* moves or deletes another customer's event, however requests interleave.
EventPointerSound ==
  \A b \in Appt : bookings[b].event # NoEvent =>
    /\ calendar[bookings[b].event].status # "unused"
    /\ calendar[bookings[b].event].booking = b

\* No event is left on the calendar that the service cannot find again: between
\* requests every event is named on the row of its booking, whoever connects,
\* disconnects or edits in the meantime.
NoOrphanEvent ==
  Quiet => \A e \in Event :
    calendar[e].status = "on" => bookings[calendar[e].booking].event = e

\* "a counter failure must never break booking creation": a customer who was
\* told the booking exists has one.  LoseBooking breaks it, so no run lists it.
AckedBookingExists == \A b \in acked : Exists(b)

\* "re-confirming won't double-send": while the marker lives, the customer gets
\* one message of a kind for a booking.
TouchOnce ==
  \A i, j \in DOMAIN outbox :
    outbox[i].booking = outbox[j].booking /\ outbox[i].kind = outbox[j].kind => i = j

=============================================================================
