--------------------------- MODULE BookingProofs ---------------------------
(***************************************************************************)
(* Theorems about Booking, for any number of bookings, services, requests  *)
(* and events and any opening hours: type correctness, the ownership of    *)
(* calendar events under every interleaving and failure, and the absence   *)
(* of overlaps between bookings that are made one after another.           *)
(***************************************************************************)
EXTENDS Booking, TLAPS

-----------------------------------------------------------------------------
(* Type correctness *)

\* The values CHOOSE picks exist.
LEMMA ChosenValues == AnyAppt \in Appt /\ AnyDuration \in Durations
  BY NullAssumption DEF AnyAppt, AnyDuration

\* The blank rows are well formed.
LEMMA BlankRows == NoBooking \in BookingRow /\ IdleReq \in ReqRow
<1>1. NoBooking \in BookingRow
  BY ChosenValues DEF NoBooking, BookingRow
<1>2. IdleReq \in ReqRow
  BY ChosenValues DEF IdleReq, ReqRow, ReqPC, ReqKind, BookingStatus
<1> QED BY <1>1, <1>2

\* A business that has just been set up is well formed.
LEMMA InitType == Init => TypeOK
<1> SUFFICES ASSUME Init PROVE TypeOK
  OBVIOUS
<1>1. services \in [Service -> ServiceRow]
  BY DEF Init
<1>2. bookings \in [Appt -> BookingRow] /\ reqs \in [Request -> ReqRow]
  BY BlankRows DEF Init
<1>3. calendar \in [Event -> CalendarRow]
  BY ChosenValues DEF Init, CalendarRow
<1>4. markers \in [Appt \X TouchKind -> Nat]
  BY DEF Init
<1>5. alerts \in Seq(Alert) /\ outbox \in Seq(Touch)
  BY DEF Init
<1> QED BY <1>1, <1>2, <1>3, <1>4, <1>5 DEF Init, TypeOK

\* The fields of a request may be set one by one.
LEMMA ReqUpdates ==
  ASSUME NEW q \in ReqRow
  PROVE  /\ \A pc \in ReqPC : [q EXCEPT !.pc = pc] \in ReqRow
         /\ \A t \in Nat : [q EXCEPT !.pc = "hook", !.start = t] \in ReqRow
         /\ \A e \in Event \cup {NoEvent} :
              [q EXCEPT !.pc = "record", !.event = e] \in ReqRow
         /\ \A e \in Event \cup {NoEvent}, t \in Nat :
              [q EXCEPT !.pc = "google", !.event = e, !.seen = t] \in ReqRow
  BY DEF ReqRow, ReqPC

\* So may the fields of a booking.
LEMMA RowUpdates ==
  ASSUME NEW row \in BookingRow
  PROVE  /\ \A s \in BookingStatus \cup {"lost"} : [row EXCEPT !.status = s] \in BookingRow
         /\ \A e \in Event \cup {NoEvent} : [row EXCEPT !.event = e] \in BookingRow
         /\ \A s \in BookingStatus, t \in Nat :
              [row EXCEPT !.status = s, !.start = t] \in BookingRow
         /\ [row EXCEPT !.service = NoService] \in BookingRow
  BY DEF BookingRow

\* Moving a request on keeps the requests well formed.
LEMMA ReqsType ==
  ASSUME TypeOK, NEW r \in Request
  PROVE  /\ \A pc \in ReqPC : Goto(r, pc) => reqs' \in [Request -> ReqRow]
         /\ Finish(r) => reqs' \in [Request -> ReqRow]
         /\ \A t \in Nat : Committed(r, t) => reqs' \in [Request -> ReqRow]
         /\ \A q \in ReqRow : Begin(r, q) => reqs' \in [Request -> ReqRow]
<1>1. reqs \in [Request -> ReqRow] /\ reqs[r] \in ReqRow
  BY DEF TypeOK
<1>2. ASSUME NEW pc \in ReqPC, Goto(r, pc) PROVE reqs' \in [Request -> ReqRow]
  <2>1. [reqs[r] EXCEPT !.pc = pc] \in ReqRow
    BY <1>1, ReqUpdates
  <2> QED BY <1>1, <1>2, <2>1 DEF Goto
<1>3. ASSUME Finish(r) PROVE reqs' \in [Request -> ReqRow]
  BY <1>1, <1>3, BlankRows DEF Finish
<1>4. ASSUME NEW t \in Nat, Committed(r, t) PROVE reqs' \in [Request -> ReqRow]
  <2>1. [reqs[r] EXCEPT !.pc = "hook", !.start = t] \in ReqRow
    BY <1>1, ReqUpdates
  <2> QED BY <1>1, <1>4, <2>1 DEF Committed
<1>5. ASSUME NEW q \in ReqRow, Begin(r, q) PROVE reqs' \in [Request -> ReqRow]
  BY <1>1, <1>5 DEF Begin
<1> QED BY <1>2, <1>3, <1>4, <1>5

\* Counting what a bound allows.
LEMMA UsedType ==
  ASSUME TypeOK
  PROVE  /\ [used EXCEPT !.req = @ + 1] \in [req : Nat, edit : Nat, fail : Nat]
         /\ [used EXCEPT !.edit = @ + 1] \in [req : Nat, edit : Nat, fail : Nat]
         /\ [used EXCEPT !.fail = @ + 1] \in [req : Nat, edit : Nat, fail : Nat]
  BY DEF TypeOK

\* Starting a request keeps every row well formed.
LEMMA StartType ==
  ASSUME TypeOK, NEW r \in Request, StartRequest(r)
  PROVE  TypeOK'
<1>a. \A b \in Appt : bookings[b] \in BookingRow
  BY DEF TypeOK
<1>b. \A sv \in Service : services[sv] \in ServiceRow
  BY DEF TypeOK
<1>c. ASSUME NEW q \in ReqRow, Begin(r, q),
             UNCHANGED <<now, shop, bookings, calendar, redis, acked>>
      PROVE  TypeOK'
  BY <1>c, ReqsType, UsedType DEF Begin, TypeOK, shop, redis
<1>1. ASSUME NEW sv \in Service, NEW t \in Starts, StartCreate(r, sv, t)
      PROVE  TypeOK'
  <2>1. PICK b \in FreeIds :
          Begin(r, [IdleReq EXCEPT !.pc = "check", !.kind = "create", !.booking = b,
                      !.service = sv, !.timed = TRUE, !.start = t,
                      !.dur = services[sv].dur])
    BY <1>1 DEF StartCreate
  <2>2. b \in Appt /\ t \in Nat /\ services[sv].dur \in Durations
    BY <1>b, TimeAssumption DEF FreeIds, ServiceRow
  <2>3. [IdleReq EXCEPT !.pc = "check", !.kind = "create", !.booking = b,
           !.service = sv, !.timed = TRUE, !.start = t,
           !.dur = services[sv].dur] \in ReqRow
    BY <2>2, BlankRows DEF ReqRow, ReqPC, ReqKind
  <2> QED BY <1>1, <1>c, <2>1, <2>3 DEF StartCreate
<1>2. ASSUME NEW b \in Appt, StartCancel(r, b)
      PROVE  TypeOK'
  <2>1. [IdleReq EXCEPT !.pc = "write", !.kind = "cancel", !.booking = b] \in ReqRow
    BY BlankRows DEF ReqRow, ReqPC, ReqKind
  <2> QED BY <1>2, <1>c, <2>1 DEF StartCancel
<1>3. ASSUME NEW b \in Appt, NEW t \in Starts, StartMove(r, b, t)
      PROVE  TypeOK'
  <2>1. t \in Nat /\ bookings[b].service \in Service \cup {NoService}
    BY <1>a, TimeAssumption DEF BookingRow
  <2>2. [IdleReq EXCEPT !.pc = "check", !.kind = "move", !.booking = b,
           !.service = bookings[b].service, !.timed = TRUE, !.start = t] \in ReqRow
    BY <2>1, BlankRows DEF ReqRow, ReqPC, ReqKind
  <2> QED BY <1>3, <1>c, <2>2 DEF StartMove
<1>4. ASSUME NEW b \in Appt, NEW s \in BookingStatus \cup {"keep"},
             NEW timed \in BOOLEAN, NEW t \in Nat, StartUpdate(r, b, s, timed, t)
      PROVE  TypeOK'
  <2>1. bookings[b].service \in Service \cup {NoService}
    BY <1>a DEF BookingRow
  <2>2. [IdleReq EXCEPT !.pc = IF timed THEN "check" ELSE "write",
           !.kind = "update", !.booking = b, !.status = s,
           !.service = bookings[b].service, !.timed = timed,
           !.start = IF timed THEN t ELSE 0] \in ReqRow
    BY <2>1, BlankRows DEF ReqRow, ReqPC, ReqKind
  <2> QED BY <1>4, <1>c, <2>2 DEF StartUpdate
<1> QED BY <1>1, <1>2, <1>3, <1>4, TimeAssumption DEF StartRequest

\* The part of a request inside the transaction does.
LEMMA WriteType ==
  ASSUME TypeOK, NEW r \in Request,
         \/ CheckSlot(r) \/ InsertBooking(r) \/ RejectInsert(r) \/ LoseBooking(r)
         \/ MoveBooking(r) \/ CancelBooking(r) \/ UpdateBooking(r)
  PROVE  TypeOK'
<1> DEFINE q == reqs[r]
           row == bookings[q.booking]
<1>a. q \in ReqRow /\ q.booking \in Appt /\ q.start \in Nat
      /\ q.service \in Service \cup {NoService} /\ q.dur \in Durations
      /\ q.status \in BookingStatus \cup {"keep"}
  BY DEF TypeOK, ReqRow
<1>b. row \in BookingRow /\ row.start \in Nat
  BY <1>a DEF TypeOK, BookingRow
<1>c. {"hook", "write"} \subseteq ReqPC
  BY DEF ReqPC
<1>d. bookings \in [Appt -> BookingRow]
  BY DEF TypeOK
<1>1. CASE CheckSlot(r)
  BY <1>1, <1>c, ReqsType DEF CheckSlot, TypeOK, shop, redis
<1>2. CASE RejectInsert(r)
  BY <1>2, ReqsType DEF RejectInsert, TypeOK, shop, redis
<1>3. CASE InsertBooking(r)
  <2>1. [status |-> "pending", service |-> q.service, start |-> q.start,
         dur |-> q.dur, event |-> NoEvent] \in BookingRow
    BY <1>a DEF BookingRow, BookingStatus
  <2>2. bookings' \in [Appt -> BookingRow]
    BY <1>3, <1>d, <2>1 DEF InsertBooking
  <2> QED BY <1>3, <1>a, <2>2, ReqsType DEF InsertBooking, TypeOK, shop, redis
<1>4. CASE LoseBooking(r)
  <2>1. [row EXCEPT !.status = "lost"] \in BookingRow
    BY <1>b, RowUpdates
  <2>2. bookings' \in [Appt -> BookingRow]
    BY <1>4, <1>d, <2>1 DEF LoseBooking
  <2> QED BY <1>4, <1>a, <2>2, ReqsType, UsedType DEF LoseBooking, TypeOK, shop, redis
<1>5. CASE MoveBooking(r)
  <2>1. [row EXCEPT !.start = q.start, !.status = "pending"] \in BookingRow
    BY <1>a, <1>b DEF BookingRow, BookingStatus
  <2>2. bookings' \in [Appt -> BookingRow]
    BY <1>5, <1>d, <2>1 DEF MoveBooking
  <2> QED BY <1>5, <1>a, <2>2, ReqsType DEF MoveBooking, TypeOK, shop, redis
<1>6. CASE CancelBooking(r)
  <2>1. [row EXCEPT !.status = "cancelled"] \in BookingRow
    BY <1>b, RowUpdates DEF BookingStatus
  <2>2. bookings' \in [Appt -> BookingRow]
    BY <1>6, <1>d, <2>1 DEF CancelBooking
  <2> QED BY <1>6, <1>b, <2>2, ReqsType DEF CancelBooking, TypeOK, shop, redis
<1>7. CASE UpdateBooking(r)
  <2> DEFINE start == IF q.timed THEN q.start ELSE row.start
             status == IF q.status = "keep" THEN row.status ELSE q.status
  <2>1. start \in Nat /\ [row EXCEPT !.status = status, !.start = start] \in BookingRow
    BY <1>a, <1>b DEF BookingRow
  <2>2. bookings' \in [Appt -> BookingRow]
    BY <1>7, <1>d, <2>1 DEF UpdateBooking
  <2>3. reqs' \in [Request -> ReqRow]
    BY <1>7, <2>1, ReqsType DEF UpdateBooking
  <2> QED BY <1>7, <2>2, <2>3 DEF UpdateBooking, TypeOK, shop, redis
<1> QED BY <1>1, <1>2, <1>3, <1>4, <1>5, <1>6, <1>7

\* So does the calendar hook.
LEMMA HookType ==
  ASSUME TypeOK, NEW r \in Request,
         \/ HookRead(r) \/ NoGoogleCall(r) \/ CreateEvent(r) \/ PatchEvent(r)
         \/ DeleteEvent(r) \/ RecordEvent(r) \/ HookFails(r)
  PROVE  TypeOK'
<1> DEFINE q == reqs[r]
<1>a. q \in ReqRow /\ q.booking \in Appt /\ q.seen \in Nat
      /\ q.event \in Event \cup {NoEvent}
  BY DEF TypeOK, ReqRow
<1>b. bookings \in [Appt -> BookingRow] /\ bookings[q.booking] \in BookingRow
  BY <1>a DEF TypeOK
<1>c. "notify" \in ReqPC
  BY DEF ReqPC
<1>d. calendar \in [Event -> CalendarRow] /\ reqs \in [Request -> ReqRow]
  BY DEF TypeOK
<1>1. CASE HookRead(r)
  <2>1. [q EXCEPT !.pc = "google", !.event = bookings[q.booking].event,
                  !.seen = bookings[q.booking].start] \in ReqRow
    BY <1>a, <1>b DEF ReqRow, ReqPC, BookingRow
  <2>2. reqs' \in [Request -> ReqRow]
    BY <1>1, <1>c, <1>d, <2>1, ReqsType DEF HookRead
  <2> QED BY <1>1, <2>2 DEF HookRead, TypeOK, shop, redis
<1>2. CASE NoGoogleCall(r)
  BY <1>2, <1>c, ReqsType DEF NoGoogleCall, TypeOK, shop, redis
<1>3. CASE CreateEvent(r)
  <2>1. PICK e \in Event :
          /\ calendar' = [calendar EXCEPT ![e] =
                           [status |-> "on", booking |-> q.booking, start |-> q.seen]]
          /\ reqs' = [reqs EXCEPT ![r] = [@ EXCEPT !.pc = "record", !.event = e]]
    BY <1>3 DEF CreateEvent
  <2>2. [status |-> "on", booking |-> q.booking, start |-> q.seen] \in CalendarRow
    BY <1>a DEF CalendarRow
  <2>3. calendar' \in [Event -> CalendarRow]
    BY <1>d, <2>1, <2>2
  <2>4. [q EXCEPT !.pc = "record", !.event = e] \in ReqRow
    BY <1>a, ReqUpdates
  <2>5. reqs' \in [Request -> ReqRow]
    BY <1>d, <2>1, <2>4
  <2> QED BY <1>3, <2>3, <2>5 DEF CreateEvent, TypeOK, shop, redis
<1>4. CASE PatchEvent(r)
  <2>1. \A e \in Event : [calendar[e] EXCEPT !.start = q.seen] \in CalendarRow
    BY <1>a, <1>d DEF CalendarRow
  <2>2. [calendar EXCEPT ![q.event].start = q.seen] \in [Event -> CalendarRow]
    BY <1>d, <2>1
  <2>3. calendar' \in [Event -> CalendarRow]
    BY <1>4, <1>d, <2>2 DEF PatchEvent
  <2> QED BY <1>4, <1>c, <2>3, ReqsType DEF PatchEvent, TypeOK, shop, redis
<1>5. CASE DeleteEvent(r)
  <2>1. \A e \in Event : [calendar[e] EXCEPT !.status = "deleted"] \in CalendarRow
    BY <1>d DEF CalendarRow
  <2>2. calendar' \in [Event -> CalendarRow]
    BY <1>5, <1>d, <2>1 DEF DeleteEvent
  <2>3. [q EXCEPT !.pc = "record", !.event = NoEvent] \in ReqRow
    BY <1>a, ReqUpdates
  <2>4. reqs' \in [Request -> ReqRow]
    BY <1>5, <1>d, <2>3 DEF DeleteEvent
  <2> QED BY <1>5, <2>2, <2>4 DEF DeleteEvent, TypeOK, shop, redis
<1>6. CASE RecordEvent(r)
  <2>1. [bookings[q.booking] EXCEPT !.event = q.event] \in BookingRow
    BY <1>a, <1>b, RowUpdates
  <2>2. bookings' \in [Appt -> BookingRow]
    BY <1>6, <1>b, <2>1 DEF RecordEvent
  <2> QED BY <1>6, <1>c, <2>2, ReqsType DEF RecordEvent, TypeOK, shop, redis
<1>7. CASE HookFails(r)
  BY <1>7, <1>c, ReqsType, UsedType DEF HookFails, TypeOK, shop, redis
<1> QED BY <1>1, <1>2, <1>3, <1>4, <1>5, <1>6, <1>7

\* push_alert keeps a list of alerts.
LEMMA PushType ==
  ASSUME NEW list \in Seq(Alert), NEW a \in Alert
  PROVE  Push(list, a) \in Seq(Alert)
<1> DEFINE all == Append(list, a)
           n == Len(all)
<1>1. all \in Seq(Alert) /\ n \in Nat
  OBVIOUS
<1>2. CASE n > AlertsMax
  <2>1. n - AlertsMax + 1 \in 1 .. n
    BY <1>1, <1>2, TimeAssumption
  <2>2. SubSeq(all, n - AlertsMax + 1, n) \in Seq(Alert)
    BY <1>1, <2>1
  <2> QED BY <1>2, <2>2 DEF Push
<1>3. CASE ~(n > AlertsMax)
  BY <1>1, <1>3 DEF Push
<1> QED BY <1>2, <1>3

\* So do the alert, the message, the answer and a crash.
LEMMA NotifyType ==
  ASSUME TypeOK, NEW r \in Request,
         \/ Answer(r) \/ AlertOwner(r) \/ MarkApproved(r) \/ PushApproved(r)
         \/ RequestFails(r)
  PROVE  TypeOK'
<1> DEFINE q == reqs[r]
<1>a. q \in ReqRow /\ q.booking \in Appt /\ q.start \in Nat
  BY DEF TypeOK, ReqRow
<1>b. "push" \in ReqPC
  BY DEF ReqPC
<1>1. CASE Answer(r)
  BY <1>1, <1>a, ReqsType DEF Answer, TypeOK, shop, redis
<1>2. CASE AlertOwner(r)
  <2>1. HookAction(q) \in {"cancelled", "rescheduled"}
    BY <1>2 DEF AlertOwner, HookAction
  <2>2. [booking |-> q.booking, kind |-> HookAction(q)] \in Alert
    BY <1>a, <2>1 DEF Alert
  <2>3. alerts' \in Seq(Alert)
    BY <1>2, <2>2, PushType DEF AlertOwner, TypeOK
  <2> QED BY <1>2, <2>3, ReqsType DEF AlertOwner, TypeOK, shop
<1>3. CASE MarkApproved(r)
  <2>1. now + MarkerTTL \in Nat
    BY TimeAssumption DEF TypeOK
  <2>2. SetMarker(q.booking, "approved") => markers' \in [Appt \X TouchKind -> Nat]
    BY <2>1 DEF SetMarker, TypeOK
  <2>3. markers' \in [Appt \X TouchKind -> Nat]
    BY <1>3, <2>2 DEF MarkApproved, TypeOK
  <2>4. reqs' \in [Request -> ReqRow]
    BY <1>3, <1>b, ReqsType DEF MarkApproved
  <2> QED BY <1>3, <2>3, <2>4 DEF MarkApproved, TypeOK, shop
<1>4. CASE PushApproved(r)
  <2>1. [booking |-> q.booking, kind |-> "approved", start |-> q.start] \in Touch
    BY <1>a DEF Touch, TouchKind
  <2>2. outbox' \in Seq(Touch)
    BY <1>4, <2>1 DEF PushApproved, Queue, TypeOK
  <2> QED BY <1>4, <2>2, ReqsType DEF PushApproved, TypeOK, shop
<1>5. CASE RequestFails(r)
  BY <1>5, ReqsType, UsedType DEF RequestFails, TypeOK, shop, redis
<1> QED BY <1>1, <1>2, <1>3, <1>4, <1>5

\* So do the owner's edits and the clock.
LEMMA EditType ==
  ASSUME TypeOK, OwnerEdit \/ Tick
  PROVE  TypeOK'
<1>a. /\ services \in [Service -> ServiceRow] /\ bookings \in [Appt -> BookingRow]
      /\ now \in Nat
  BY DEF TypeOK
<1>1. ASSUME NEW sv \in Service, NEW d \in Durations, NEW s \in {"active", "inactive"},
             CreateService(sv, d) \/ UpdateService(sv, s, d)
      PROVE  TypeOK'
  <2>1. \A st \in {"active", "inactive"} : [status |-> st, dur |-> d] \in ServiceRow
    BY DEF ServiceRow
  <2>2. services' \in [Service -> ServiceRow]
    BY <1>1, <1>a, <2>1 DEF CreateService, UpdateService
  <2> QED BY <1>1, <2>2, UsedType
          DEF CreateService, UpdateService, OwnerEdits, TypeOK, redis
<1>2. ASSUME NEW sv \in Service, DeleteService(sv) PROVE TypeOK'
  <2>1. [services[sv] EXCEPT !.status = "deleted"] \in ServiceRow
    BY <1>a DEF ServiceRow
  <2>2. services' \in [Service -> ServiceRow]
    BY <1>2, <1>a, <2>1 DEF DeleteService
  <2>3. bookings' \in [Appt -> BookingRow]
    BY <1>2, <1>a, RowUpdates DEF DeleteService
  <2> QED BY <1>2, <2>2, <2>3, UsedType DEF DeleteService, OwnerEdits, TypeOK, redis
<1>3. ASSUME NEW new \in Settings, UpdateSettings(new) PROVE TypeOK'
  BY <1>3, UsedType DEF UpdateSettings, OwnerEdits, TypeOK, redis
<1>4. ASSUME NEW on \in BOOLEAN, ConnectGoogle(on) PROVE TypeOK'
  BY <1>4, UsedType DEF ConnectGoogle, OwnerEdits, TypeOK, redis
<1>5. ASSUME Tick PROVE TypeOK'
  BY <1>5, <1>a DEF Tick, TypeOK, shop, redis
<1> QED BY <1>1, <1>2, <1>3, <1>4, <1>5 DEF OwnerEdit

\* Every step keeps every row well formed.
LEMMA NextType == TypeOK /\ [Next]_vars => TypeOK'
<1> SUFFICES ASSUME TypeOK, [Next]_vars PROVE TypeOK'
  OBVIOUS
<1>1. CASE UNCHANGED vars
  BY <1>1 DEF vars, shop, redis, TypeOK
<1>2. ASSUME NEW r \in Request, StartRequest(r) PROVE TypeOK'
  BY <1>2, StartType
<1>3. ASSUME NEW r \in Request, RequestStep(r) \/ RequestFault(r) PROVE TypeOK'
  BY <1>3, WriteType, HookType, NotifyType DEF RequestStep, RequestFault
<1>4. CASE OwnerEdit \/ Tick
  BY <1>4, EditType
<1> QED BY <1>1, <1>2, <1>3, <1>4 DEF Next

\* Postgres, Redis, the calendar and every request in flight hold well-formed
\* data in every reachable state.
THEOREM TypeCorrect == Spec => []TypeOK
<1>1. Init => TypeOK
  BY InitType
<1>2. TypeOK /\ [Next]_vars => TypeOK'
  BY NextType
<1> QED BY <1>1, <1>2, PTL DEF Spec

-----------------------------------------------------------------------------
(* Calendar events, under every interleaving, crash and failed call *)

\* Google gave event e for booking b.
Owns(b, e) == calendar[e].status # "unused" /\ calendar[e].booking = b

\* A hook that has read the row, or has created an event, holds an id of its own
\* booking.  EventPointerSound is not inductive without it: RecordEvent copies
\* what the request holds to the row.
HookHoldsOwn ==
  \A r \in Request :
    reqs[r].pc \in {"google", "record"} /\ reqs[r].event # NoEvent =>
      Owns(reqs[r].booking, reqs[r].event)

PointerInv == TypeOK /\ EventPointerSound /\ HookHoldsOwn

\* At the start nothing names an event.
LEMMA InitPointer == Init => PointerInv
<1> SUFFICES ASSUME Init PROVE PointerInv
  OBVIOUS
<1>1. EventPointerSound
  BY DEF Init, EventPointerSound, NoBooking
<1>2. HookHoldsOwn
  BY DEF Init, HookHoldsOwn, IdleReq
<1> QED BY <1>1, <1>2, InitType DEF PointerInv

\* A step that neither touches the calendar nor gives a row or a hook an event it
\* did not have keeps the pointers sound.
LEMMA PointerKept ==
  ASSUME PointerInv, TypeOK', calendar' = calendar,
         \A b \in Appt : bookings'[b].event \in {bookings[b].event, NoEvent},
         \A r \in Request :
           reqs'[r].pc \in {"google", "record"} => reqs'[r] = reqs[r]
  PROVE  PointerInv'
<1>1. EventPointerSound'
  BY DEF PointerInv, EventPointerSound
<1>2. HookHoldsOwn'
  BY DEF PointerInv, HookHoldsOwn, Owns
<1> QED BY <1>1, <1>2 DEF PointerInv

\* What every step outside the hook does to bookings and requests.
LEMMA OutsideHook ==
  ASSUME TypeOK, NEW r \in Request,
         \/ StartRequest(r) \/ CheckSlot(r) \/ InsertBooking(r) \/ RejectInsert(r)
         \/ LoseBooking(r) \/ MoveBooking(r) \/ CancelBooking(r) \/ UpdateBooking(r)
         \/ NoGoogleCall(r) \/ HookFails(r)
         \/ Answer(r) \/ AlertOwner(r) \/ MarkApproved(r) \/ PushApproved(r)
         \/ RequestFails(r)
  PROVE  /\ calendar' = calendar
         /\ \A b \in Appt : bookings'[b].event \in {bookings[b].event, NoEvent}
         /\ \A p \in Request :
              reqs'[p].pc \in {"google", "record"} => reqs'[p] = reqs[p]
<1>a. reqs \in [Request -> ReqRow] /\ bookings \in [Appt -> BookingRow]
  BY DEF TypeOK
<1>b. reqs[r] \in ReqRow /\ \A b \in Appt : bookings[b] \in BookingRow
  BY <1>a
<1>1. ASSUME NEW pc \in ReqPC \ {"google", "record"}, Goto(r, pc)
      PROVE  \A p \in Request :
               reqs'[p].pc \in {"google", "record"} => reqs'[p] = reqs[p]
  BY <1>a, <1>b, <1>1 DEF Goto, ReqRow
<1>2. ASSUME NEW q, q.pc \notin {"google", "record"}, reqs' = [reqs EXCEPT ![r] = q]
      PROVE  \A p \in Request :
               reqs'[p].pc \in {"google", "record"} => reqs'[p] = reqs[p]
  BY <1>a, <1>2
<1>3. IdleReq.pc \notin {"google", "record"}
  BY DEF IdleReq
<1>4. ASSUME NEW t, Committed(r, t)
      PROVE  \A p \in Request :
               reqs'[p].pc \in {"google", "record"} => reqs'[p] = reqs[p]
  BY <1>a, <1>b, <1>4 DEF Committed, ReqRow
<1>5. {"write", "notify", "push"} \subseteq ReqPC \ {"google", "record"}
  BY DEF ReqPC
<1>6. CASE StartRequest(r)
  <2>1. /\ reqs'[r].pc \in {"check", "write"}
        /\ \A p \in Request \ {r} : reqs'[p] = reqs[p]
    <3> DEFINE Opened == /\ reqs'[r].pc \in {"check", "write"}
                         /\ \A p \in Request \ {r} : reqs'[p] = reqs[p]
    <3>1. ASSUME NEW sv \in Service, NEW t \in Starts, StartCreate(r, sv, t)
          PROVE  Opened
      BY <3>1, <1>a DEF StartCreate, Begin, IdleReq
    <3>2. ASSUME NEW b \in Appt, StartCancel(r, b)
          PROVE  Opened
      BY <3>2, <1>a DEF StartCancel, Begin, IdleReq
    <3>3. ASSUME NEW b \in Appt, NEW t \in Starts, StartMove(r, b, t)
          PROVE  Opened
      BY <3>3, <1>a DEF StartMove, Begin, IdleReq
    <3>4. ASSUME NEW b \in Appt, NEW s, NEW timed \in BOOLEAN, NEW t,
                 StartUpdate(r, b, s, timed, t)
          PROVE  Opened
      BY <3>4, <1>a DEF StartUpdate, Begin, IdleReq
    <3> HIDE DEF Opened
    <3>5. Opened
      BY <1>6, <3>1, <3>2, <3>3, <3>4 DEF StartRequest
    <3> QED BY <3>5 DEF Opened
  <2> QED BY <1>6, <2>1
          DEF StartRequest, StartCreate, StartCancel, StartMove, StartUpdate
<1>7. CASE CheckSlot(r) \/ RejectInsert(r) \/ NoGoogleCall(r) \/ HookFails(r)
           \/ Answer(r) \/ AlertOwner(r) \/ MarkApproved(r) \/ PushApproved(r)
           \/ RequestFails(r)
  <2>1. UNCHANGED <<calendar, bookings>>
    BY <1>7 DEF CheckSlot, RejectInsert, NoGoogleCall, HookFails, Answer, AlertOwner,
                MarkApproved, PushApproved, RequestFails
  <2>2. Finish(r) \/ \E pc \in {"write", "notify", "push"} : Goto(r, pc)
    BY <1>7 DEF CheckSlot, RejectInsert, NoGoogleCall, HookFails, Answer, AlertOwner,
                MarkApproved, PushApproved, RequestFails
  <2> QED BY <1>1, <1>2, <1>3, <1>5, <2>1, <2>2 DEF Finish
<1>8. CASE InsertBooking(r) \/ LoseBooking(r) \/ MoveBooking(r) \/ CancelBooking(r)
           \/ UpdateBooking(r)
  <2>1. calendar' = calendar /\ \E t : Committed(r, t)
    BY <1>8 DEF InsertBooking, LoseBooking, MoveBooking, CancelBooking, UpdateBooking
  <2>2. InsertBooking(r) =>
          \A b \in Appt : bookings'[b].event \in {bookings[b].event, NoEvent}
    BY <1>a DEF InsertBooking
  <2>3. LoseBooking(r) \/ CancelBooking(r) =>
          \A b \in Appt : bookings'[b].event = bookings[b].event
    BY <1>a, <1>b DEF LoseBooking, CancelBooking, BookingRow
  <2>4. MoveBooking(r) => \A b \in Appt : bookings'[b].event = bookings[b].event
    BY <1>a, <1>b DEF MoveBooking, BookingRow
  <2>5. UpdateBooking(r) => \A b \in Appt : bookings'[b].event = bookings[b].event
    BY <1>a, <1>b DEF UpdateBooking, BookingRow
  <2> QED BY <1>8, <1>4, <2>1, <2>2, <2>3, <2>4, <2>5
<1> QED BY <1>6, <1>7, <1>8

\* What a hook holds once it has read the row.
LEMMA HookReads ==
  ASSUME TypeOK, NEW r \in Request, HookRead(r)
  PROVE  \/ reqs'[r].pc = "notify"
         \/ /\ reqs'[r].pc = "google"
            /\ reqs'[r].event = bookings[reqs[r].booking].event
            /\ reqs'[r].booking = reqs[r].booking
<1>1. reqs \in [Request -> ReqRow] /\ reqs[r] \in ReqRow
  BY DEF TypeOK
<1>2. CASE connected /\ Exists(reqs[r].booking)
  <2>1. reqs'[r] = [reqs[r] EXCEPT !.pc = "google",
                      !.event = bookings[reqs[r].booking].event,
                      !.seen = bookings[reqs[r].booking].start]
    BY <1>1, <1>2 DEF HookRead
  <2> QED BY <1>1, <2>1 DEF ReqRow
<1>3. CASE ~(connected /\ Exists(reqs[r].booking))
  <2>1. reqs'[r] = [reqs[r] EXCEPT !.pc = "notify"]
    BY <1>1, <1>3 DEF HookRead, Goto
  <2> QED BY <1>1, <2>1 DEF ReqRow
<1> QED BY <1>2, <1>3

\* Where the hook takes a request.
LEMMA HookMoves ==
  ASSUME TypeOK, NEW r \in Request, HookRead(r) \/ CreateEvent(r) \/ DeleteEvent(r)
  PROVE  reqs'[r].pc \in {"google", "notify", "record"}
<1>1. reqs \in [Request -> ReqRow] /\ reqs[r] \in ReqRow
  BY DEF TypeOK
<1>2. CASE HookRead(r)
  BY <1>2, HookReads
<1>3. CASE CreateEvent(r)
  <2>1. \E e \in Event : reqs'[r] = [reqs[r] EXCEPT !.pc = "record", !.event = e]
    BY <1>1, <1>3 DEF CreateEvent
  <2> QED BY <1>1, <2>1 DEF ReqRow
<1>4. CASE DeleteEvent(r)
  <2>1. reqs'[r] = [reqs[r] EXCEPT !.pc = "record", !.event = NoEvent]
    BY <1>1, <1>4 DEF DeleteEvent
  <2> QED BY <1>1, <2>1 DEF ReqRow
<1> QED BY <1>2, <1>3, <1>4

\* The hook keeps the pointers sound: an event it creates was nobody's before.
LEMMA HookPointer ==
  ASSUME PointerInv, TypeOK', NEW r \in Request,
         \/ HookRead(r) \/ CreateEvent(r) \/ PatchEvent(r) \/ DeleteEvent(r)
         \/ RecordEvent(r)
  PROVE  PointerInv'
<1> DEFINE q == reqs[r]
<1>a. /\ reqs \in [Request -> ReqRow] /\ bookings \in [Appt -> BookingRow]
      /\ calendar \in [Event -> CalendarRow]
  BY DEF PointerInv, TypeOK
<1>b. /\ q \in ReqRow /\ q.booking \in Appt /\ q.event \in Event \cup {NoEvent}
      /\ \A p \in Request : reqs[p].event \in Event \cup {NoEvent}
      /\ \A b \in Appt : bookings[b].event \in Event \cup {NoEvent}
  BY <1>a DEF ReqRow, BookingRow
<1>c. EventPointerSound /\ HookHoldsOwn
  BY DEF PointerInv
<1>1. CASE HookRead(r)
  <2>1. UNCHANGED <<calendar, bookings>>
    BY <1>1 DEF HookRead
  <2>2. \A p \in Request \ {r} : reqs'[p] = reqs[p]
    BY <1>1, <1>a DEF HookRead, Goto
  <2>3. TypeOK
    BY DEF PointerInv
  <2>4. \/ reqs'[r].pc = "notify"
        \/ /\ reqs'[r].event = bookings[q.booking].event
           /\ reqs'[r].booking = q.booking
    BY <1>1, <2>3, HookReads
  <2>5. EventPointerSound'
    BY <1>c, <2>1 DEF EventPointerSound
  <2>6. HookHoldsOwn'
    BY <1>b, <1>c, <2>1, <2>2, <2>4 DEF HookHoldsOwn, EventPointerSound, Owns
  <2> QED BY <2>5, <2>6 DEF PointerInv
<1>2. CASE CreateEvent(r)
  <2>1. PICK e \in Event :
          /\ calendar[e].status = "unused"
          /\ calendar' = [calendar EXCEPT ![e] =
                           [status |-> "on", booking |-> q.booking, start |-> q.seen]]
          /\ reqs' = [reqs EXCEPT ![r] = [@ EXCEPT !.pc = "record", !.event = e]]
    BY <1>2 DEF CreateEvent
  <2>2. bookings' = bookings
    BY <1>2 DEF CreateEvent
  <2>3. \A x \in Event \ {e} : calendar'[x] = calendar[x]
    BY <1>a, <2>1
  <2>4. calendar'[e].status = "on" /\ calendar'[e].booking = q.booking
    BY <1>a, <2>1
  <2>5. \A p \in Request \ {r} : reqs'[p] = reqs[p]
    BY <1>a, <2>1
  <2>6. reqs'[r].event = e /\ reqs'[r].booking = q.booking
    BY <1>a, <1>b, <2>1 DEF ReqRow
  <2>7. EventPointerSound'
    BY <1>b, <1>c, <2>1, <2>2, <2>3 DEF EventPointerSound
  <2>8. HookHoldsOwn'
    BY <1>b, <1>c, <2>1, <2>3, <2>4, <2>5, <2>6 DEF HookHoldsOwn, Owns
  <2> QED BY <2>7, <2>8 DEF PointerInv
<1>3. CASE PatchEvent(r) \/ DeleteEvent(r)
  <2>1. bookings' = bookings
    BY <1>3 DEF PatchEvent, DeleteEvent
  <2>2. PatchEvent(r) => \A x \in Event : /\ calendar'[x].status = calendar[x].status
                                         /\ calendar'[x].booking = calendar[x].booking
    BY <1>a DEF PatchEvent, CalendarRow
  <2>3. DeleteEvent(r) =>
          \A x \in Event : /\ calendar'[x].status \in {calendar[x].status, "deleted"}
                           /\ calendar'[x].booking = calendar[x].booking
    BY <1>a DEF DeleteEvent, CalendarRow
  <2>4. \A p \in Request \ {r} : reqs'[p] = reqs[p]
    BY <1>3, <1>a DEF PatchEvent, DeleteEvent, Goto
  <2>5. reqs'[r].pc = "notify" \/ reqs'[r].event = NoEvent
    BY <1>3, <1>a, <1>b DEF PatchEvent, DeleteEvent, Goto, ReqRow
  <2>6. \A b \in Appt, x \in Event : Owns(b, x) => Owns(b, x)'
    BY <1>3, <2>2, <2>3 DEF Owns
  <2>7. EventPointerSound'
    BY <1>b, <1>c, <2>1, <2>6 DEF EventPointerSound, Owns
  <2>8. HookHoldsOwn'
    <3> SUFFICES ASSUME NEW p \in Request, reqs'[p].pc \in {"google", "record"},
                        reqs'[p].event # NoEvent
                 PROVE  Owns(reqs[p].booking, reqs[p].event)'
      BY DEF HookHoldsOwn
    <3>1. reqs'[p] = reqs[p]
      BY <2>4, <2>5
    <3>2. Owns(reqs[p].booking, reqs[p].event)
      BY <1>c, <3>1 DEF HookHoldsOwn
    <3>3. reqs[p].booking \in Appt /\ reqs[p].event \in Event
      BY <1>a, <1>b, <3>1 DEF ReqRow
    <3> QED BY <2>6, <3>1, <3>2, <3>3 DEF Owns
  <2> QED BY <2>7, <2>8 DEF PointerInv
<1>4. CASE RecordEvent(r)
  <2>1. calendar' = calendar
    BY <1>4 DEF RecordEvent
  <2>2. q.event # NoEvent => Owns(q.booking, q.event)
    BY <1>4, <1>c DEF RecordEvent, HookHoldsOwn
  <2>3. \A b \in Appt : bookings'[b].event =
                          IF b = q.booking THEN q.event ELSE bookings[b].event
    BY <1>4, <1>a, <1>b DEF RecordEvent, BookingRow
  <2>4. \A p \in Request \ {r} : reqs'[p] = reqs[p]
    BY <1>4, <1>a DEF RecordEvent, Goto
  <2>5. reqs'[r].pc = "notify"
    BY <1>4, <1>a, <1>b DEF RecordEvent, Goto, ReqRow
  <2>6. EventPointerSound'
    BY <1>c, <2>1, <2>2, <2>3 DEF EventPointerSound, Owns
  <2>7. HookHoldsOwn'
    BY <1>c, <2>1, <2>4, <2>5 DEF HookHoldsOwn, Owns
  <2> QED BY <2>6, <2>7 DEF PointerInv
<1> QED BY <1>1, <1>2, <1>3, <1>4

\* Every step keeps the pointers sound.
LEMMA NextPointer == PointerInv /\ [Next]_vars => PointerInv'
<1> SUFFICES ASSUME PointerInv, [Next]_vars PROVE PointerInv'
  OBVIOUS
<1>a. TypeOK /\ TypeOK'
  BY NextType DEF PointerInv
<1>1. CASE UNCHANGED vars
  BY <1>1, <1>a, PointerKept DEF vars
<1>2. ASSUME NEW r \in Request, StartRequest(r) \/ RequestStep(r) \/ RequestFault(r)
      PROVE  PointerInv'
  <2>1. CASE HookRead(r) \/ CreateEvent(r) \/ PatchEvent(r) \/ DeleteEvent(r)
             \/ RecordEvent(r)
    BY <2>1, <1>a, HookPointer
  <2>2. CASE ~(HookRead(r) \/ CreateEvent(r) \/ PatchEvent(r) \/ DeleteEvent(r)
               \/ RecordEvent(r))
    BY <1>2, <2>2, <1>a, OutsideHook, PointerKept DEF RequestStep, RequestFault
  <2> QED BY <2>1, <2>2
<1>3. CASE OwnerEdit
  <2>1. calendar' = calendar /\ reqs' = reqs
    BY <1>3 DEF OwnerEdit, CreateService, UpdateService, DeleteService, UpdateSettings,
                ConnectGoogle
  <2>2. \A b \in Appt : bookings'[b].event = bookings[b].event
    <3>1. ASSUME NEW sv \in Service, DeleteService(sv)
          PROVE  \A b \in Appt : bookings'[b].event = bookings[b].event
      BY <1>a, <3>1 DEF DeleteService, TypeOK, BookingRow
    <3>2. CASE bookings' = bookings
      BY <3>2
    <3> QED BY <1>3, <3>1, <3>2
            DEF OwnerEdit, CreateService, UpdateService, UpdateSettings, ConnectGoogle
  <2> QED BY <1>a, <2>1, <2>2, PointerKept
<1>4. CASE Tick
  BY <1>4, <1>a, PointerKept DEF Tick
<1> QED BY <1>1, <1>2, <1>3, <1>4 DEF Next

\* However requests interleave, crash or lose Google calls, the event id on a row
\* is one that Google gave for this booking.
THEOREM EventPointerAlwaysSound == Spec => []EventPointerSound
<1>1. Init => PointerInv
  BY InitPointer
<1>2. PointerInv /\ [Next]_vars => PointerInv'
  BY NextPointer
<1>3. PointerInv => EventPointerSound
  BY DEF PointerInv
<1> QED BY <1>1, <1>2, <1>3, PTL DEF Spec

-----------------------------------------------------------------------------
(* Bookings made one after another *)

\* What double_booking and the README's other cases show to be necessary: no two
\* requests overlap, the owner does not edit the services and does not revive a
\* cancelled booking.
Serial ==
  /\ \A r, p \in Request : r = p
  /\ OwnerOps \cap {"revive", "service"} = {}

\* The break, while the owner leaves it alone, and the pad that would cover it.
Buffer == (CHOOSE s \in Settings : TRUE).buffer
OneBuffer == \A s \in Settings : s.buffer = Buffer
PadCovers == \A d \in Durations : d + Buffer <= DayPad

\* The time from t on, for d, is at least g away from booking b.
Apart(t, d, b, g) == t + d + g <= bookings[b].start \/ End(b) + g <= t

Spacing(g) ==
  \A a, b \in Appt : a # b /\ Active(a) /\ Active(b) =>
    Apart(bookings[a].start, bookings[a].dur, b, g)

\* A booking has the duration of its service and ends on the day it starts.
RowsInOrder ==
  \A b \in Appt :
    /\ Exists(b) => /\ bookings[b].service \in Service
                    /\ bookings[b].dur = services[bookings[b].service].dur
    /\ Active(b) => End(b) <= (Day(bookings[b].start) + 1) * DayLen

\* What a request that passed the check knows when it writes.
SlotFree(q, g) ==
  LET d == services[q.service].dur IN
  /\ q.service \in Service
  /\ q.start + d <= (Day(q.start) + 1) * DayLen
  /\ \A b \in Appt : Active(b) => Apart(q.start, d, b, g)

ReqInOrder(q, g) ==
  q.pc \in {"check", "write"} =>
    /\ q.kind = "create" => q.timed /\ q.dur = services[q.service].dur
    /\ q.kind = "move" => q.timed
    /\ q.kind # "create" => Exists(q.booking)
    /\ q.kind \in {"move", "update"} => q.service = bookings[q.booking].service
    /\ q.kind = "update" /\ q.status \in ActiveStatuses => Active(q.booking)
    /\ q.pc = "write" /\ q.timed => SlotFree(q, g)

SpacedInv(g) ==
  /\ Serial /\ TypeOK /\ Spacing(g) /\ RowsInOrder
  /\ \A r \in Request : ReqInOrder(reqs[r], g)

\* A day is where its times are.
LEMMA DayBounds ==
  ASSUME NEW t \in Nat
  PROVE  /\ Day(t) \in Nat
         /\ Day(t) * DayLen <= t /\ t < (Day(t) + 1) * DayLen
  BY TimeAssumption DEF Day

\* An earlier day ends before a later one begins.
LEMMA DayOrder ==
  ASSUME NEW a \in Nat, NEW b \in Nat, a < b
  PROVE  (a + 1) * DayLen <= b * DayLen
  BY TimeAssumption

\* A slot on offer ends on its day and keeps the buffer from what was read.
LEMMA OfferedFacts ==
  ASSUME TypeOK, NEW sv, NEW t \in Nat,
         Offered(sv, t, BookingsOnDay(Day(t)))
  PROVE  /\ sv \in Service /\ services[sv].dur \in Nat
         /\ t + services[sv].dur <= (Day(t) + 1) * DayLen
         /\ \A b \in BookingsOnDay(Day(t)) :
              Apart(t, services[sv].dur, b, settings.buffer)
<1> DEFINE d == services[sv].dur
           n == Day(t)
<1>1. sv \in Service
  BY DEF Offered
<1>2. d \in Durations /\ d \in Nat
  BY <1>1, TimeAssumption DEF TypeOK, ServiceRow
<1>3. n \in Nat /\ n % WeekLen \in 0 .. WeekLen - 1
  BY DayBounds, TimeAssumption
<1>4. PICK rng \in settings.hours[n % WeekLen] : t + d <= n * DayLen + rng.e
  BY DEF Offered, OnGrid
<1>5. settings \in Settings /\ settings.buffer \in Nat
  BY SettingsAssumption DEF TypeOK
<1>6. rng.e \in Nat /\ rng.e <= DayLen
  BY <1>3, <1>4, <1>5, SettingsAssumption
<1>7. t + d <= (n + 1) * DayLen
  <2>1. n * DayLen \in Nat /\ (n + 1) * DayLen = n * DayLen + DayLen
    BY <1>3, TimeAssumption
  <2> QED BY <1>2, <1>4, <1>6, <2>1, TimeAssumption
<1>8. ASSUME NEW b \in BookingsOnDay(n) PROVE Apart(t, d, b, settings.buffer)
  <2>1. b \in Appt /\ bookings[b].start \in Nat /\ bookings[b].dur \in Nat
    BY TimeAssumption DEF BookingsOnDay, TypeOK, BookingRow
  <2>2. ~ (/\ t - settings.buffer < End(b)
           /\ bookings[b].start < t + d + settings.buffer)
    BY DEF Offered, OverlapsAny
  <2> QED BY <1>2, <1>5, <2>1, <2>2 DEF Apart, End
<1> QED BY <1>1, <1>2, <1>7, <1>8

\* It overlaps no live booking at all: what was not read ends before the day
\* begins or starts after it is over.
LEMMA OfferedDisjoint ==
  ASSUME TypeOK, RowsInOrder, NEW sv, NEW t \in Nat,
         Offered(sv, t, BookingsOnDay(Day(t))),
         NEW b \in Appt, Active(b)
  PROVE  Apart(t, services[sv].dur, b, 0)
<1> DEFINE d == services[sv].dur
           n == Day(t)
           s == bookings[b].start
<1>1. /\ d \in Nat /\ t + d <= (n + 1) * DayLen
      /\ b \in BookingsOnDay(n) => Apart(t, d, b, settings.buffer)
  BY OfferedFacts
<1>2. s \in Nat /\ bookings[b].dur \in Nat /\ settings.buffer \in Nat
  BY TimeAssumption, SettingsAssumption DEF TypeOK, BookingRow
<1>3. n \in Nat /\ n * DayLen <= t /\ n * DayLen \in Nat /\ (n + 1) * DayLen \in Nat
  BY DayBounds, TimeAssumption
<1>4. CASE b \in BookingsOnDay(n)
  BY <1>1, <1>2, <1>4 DEF Apart, End
<1>5. CASE s < n * DayLen
  <2>1. Day(s) \in Nat /\ Day(s) * DayLen <= s
    BY <1>2, DayBounds
  <2>2. Day(s) < n
    <3> SUFFICES ASSUME n <= Day(s) PROVE FALSE
      BY <1>3, <2>1
    <3>1. n * DayLen <= Day(s) * DayLen
      BY <1>3, <2>1, TimeAssumption
    <3>2. Day(s) * DayLen \in Nat
      BY <2>1, TimeAssumption
    <3> QED BY <1>2, <1>3, <1>5, <2>1, <3>1, <3>2
  <2>3. (Day(s) + 1) * DayLen <= n * DayLen
    BY <1>3, <2>1, <2>2, DayOrder
  <2>4. End(b) <= (Day(s) + 1) * DayLen
    BY DEF RowsInOrder
  <2>5. (Day(s) + 1) * DayLen \in Nat
    BY <2>1, TimeAssumption
  <2> QED BY <1>1, <1>2, <1>3, <2>3, <2>4, <2>5 DEF Apart, End
<1>6. CASE s >= (n + 1) * DayLen
  BY <1>1, <1>2, <1>3, <1>6 DEF Apart, End
<1>7. b \in BookingsOnDay(n) \/ s < n * DayLen \/ s >= (n + 1) * DayLen
  BY <1>2, <1>3, TimeAssumption DEF BookingsOnDay
<1> QED BY <1>4, <1>5, <1>6, <1>7

\* When the pad covers an appointment and a break, it keeps the break too.
LEMMA OfferedSpaced ==
  ASSUME TypeOK, OneBuffer, PadCovers, NEW sv, NEW t \in Nat,
         Offered(sv, t, BookingsOnDay(Day(t))),
         NEW b \in Appt, Active(b)
  PROVE  Apart(t, services[sv].dur, b, Buffer)
<1> DEFINE d == services[sv].dur
           n == Day(t)
           s == bookings[b].start
<1>1. /\ d \in Nat /\ t + d <= (n + 1) * DayLen
      /\ b \in BookingsOnDay(n) => Apart(t, d, b, settings.buffer)
  BY OfferedFacts
<1>2. s \in Nat /\ bookings[b].dur \in Durations /\ bookings[b].dur \in Nat
  BY TimeAssumption DEF TypeOK, BookingRow
<1>3. settings.buffer = Buffer /\ Buffer \in Nat
  BY SettingsAssumption DEF TypeOK, OneBuffer
<1>4. n * DayLen <= t /\ n * DayLen \in Nat /\ (n + 1) * DayLen \in Nat
  BY DayBounds, TimeAssumption
<1>5. bookings[b].dur + Buffer <= DayPad
  BY <1>2 DEF PadCovers
<1>6. CASE b \in BookingsOnDay(n)
  BY <1>1, <1>3, <1>6
<1>7. CASE b \notin BookingsOnDay(n)
  <2>1. s < n * DayLen - DayPad \/ (n + 1) * DayLen + DayPad <= s
    BY <1>2, <1>4, <1>7, TimeAssumption DEF BookingsOnDay
  <2> QED BY <1>1, <1>2, <1>3, <1>4, <1>5, <2>1, TimeAssumption DEF Apart, End
<1> QED BY <1>6, <1>7

\* At the start there is nothing to overlap.
LEMMA InitSpaced ==
  ASSUME Init, Serial, NEW g \in Nat
  PROVE  SpacedInv(g)
<1>1. \A b \in Appt : ~Exists(b) /\ ~Active(b)
  BY DEF Init, NoBooking, Exists, Active, BookingStatus, ActiveStatuses
<1>2. \A r \in Request : ReqInOrder(reqs[r], g)
  BY DEF Init, IdleReq, ReqInOrder
<1> QED BY <1>1, <1>2, InitType DEF SpacedInv, Spacing, RowsInOrder

\* The rows look the same to the invariant.
SameRows ==
  /\ services' = services
  /\ \A b \in Appt : /\ bookings'[b].status = bookings[b].status
                      /\ bookings'[b].service = bookings[b].service
                      /\ bookings'[b].start = bookings[b].start
                      /\ bookings'[b].dur = bookings[b].dur

\* What depends on the rows alone is kept with them.
LEMMA RowsKept ==
  ASSUME NEW g \in Nat, SpacedInv(g), SameRows
  PROVE  /\ Spacing(g)' /\ RowsInOrder'
         /\ \A b \in Appt : (Active(b)' <=> Active(b)) /\ (Exists(b)' <=> Exists(b))
         /\ \A t, d : \A b \in Appt : Apart(t, d, b, g)' <=> Apart(t, d, b, g)
<1>1. \A b \in Appt : (Active(b)' <=> Active(b)) /\ (Exists(b)' <=> Exists(b))
  BY DEF SameRows, Active, Exists
<1>2. \A b \in Appt : End(b)' = End(b)
  BY DEF SameRows, End
<1>3. \A t, d : \A b \in Appt : Apart(t, d, b, g)' <=> Apart(t, d, b, g)
  BY <1>2 DEF SameRows, Apart
<1>4. Spacing(g)'
  BY <1>1, <1>3 DEF SpacedInv, Spacing, SameRows
<1>5. RowsInOrder'
  BY <1>1, <1>2 DEF SpacedInv, RowsInOrder, SameRows
<1> QED BY <1>1, <1>3, <1>4, <1>5

\* A request that is where it was knows what it knew.
LEMMA ReqKept ==
  ASSUME NEW g \in Nat, SpacedInv(g), SameRows, NEW r \in Request, reqs'[r] = reqs[r]
  PROVE  ReqInOrder(reqs[r], g)'
<1> DEFINE q == reqs[r]
<1>1. ReqInOrder(q, g)
  BY DEF SpacedInv
<1>2. q.booking \in Appt
  BY DEF SpacedInv, TypeOK, ReqRow
<1>3. SlotFree(q, g) => SlotFree(q, g)'
  BY RowsKept DEF SlotFree, SameRows
<1> QED BY <1>1, <1>2, <1>3, RowsKept DEF ReqInOrder, SameRows

\* A step that leaves the rows alone and takes no request to the check or the
\* write.
LEMMA OtherStep ==
  ASSUME NEW g \in Nat, SpacedInv(g), TypeOK', SameRows,
         \A r \in Request : reqs'[r].pc \in {"check", "write"} => reqs'[r] = reqs[r]
  PROVE  SpacedInv(g)'
<1>1. \A r \in Request : ReqInOrder(reqs[r], g)'
  BY ReqKept DEF ReqInOrder
<1> QED BY <1>1, RowsKept DEF SpacedInv, Serial

\* The starts of the four requests.
LEMMA StartSpaced ==
  ASSUME NEW g \in Nat, SpacedInv(g), TypeOK', NEW r \in Request, StartRequest(r)
  PROVE  SpacedInv(g)'
<1>a. Serial /\ TypeOK /\ reqs \in [Request -> ReqRow]
  BY DEF SpacedInv, TypeOK
<1>b. SameRows
  BY DEF SameRows, StartRequest, StartCreate, StartCancel, StartMove, StartUpdate, shop
<1>c. UNCHANGED <<bookings, services>>
  BY DEF StartRequest, StartCreate, StartCancel, StartMove, StartUpdate, shop
<1>d. \A b \in Appt : Exists(b) /\ bookings[b].status # "cancelled" => Active(b)
  BY DEF Exists, Active, BookingStatus, ActiveStatuses
<1> DEFINE Opened == ReqInOrder(reqs'[r], g)
<1>1. ASSUME NEW sv \in Service, NEW t \in Starts, StartCreate(r, sv, t) PROVE Opened
  BY <1>1, <1>a DEF StartCreate, Begin, IdleReq, ReqInOrder
<1>2. ASSUME NEW b \in Appt, StartCancel(r, b) PROVE Opened
  BY <1>2, <1>a DEF StartCancel, Begin, IdleReq, ReqInOrder
<1>3. ASSUME NEW b \in Appt, NEW t \in Starts, StartMove(r, b, t) PROVE Opened
  BY <1>3, <1>a DEF StartMove, Begin, IdleReq, ReqInOrder
<1>4. ASSUME NEW b \in Appt, NEW s \in BookingStatus \cup {"keep"},
             NEW timed \in BOOLEAN, NEW t, StartUpdate(r, b, s, timed, t)
      PROVE  Opened
  <2>1. s \in ActiveStatuses => Active(b)
    BY <1>4, <1>a, <1>d DEF StartUpdate, Serial, ActiveStatuses
  <2>2. reqs'[r] = [IdleReq EXCEPT !.pc = IF timed THEN "check" ELSE "write",
                      !.kind = "update", !.booking = b, !.status = s,
                      !.service = bookings[b].service, !.timed = timed,
                      !.start = IF timed THEN t ELSE 0]
    BY <1>4, <1>a DEF StartUpdate, Begin
  <2>3. Exists(b)
    BY <1>4 DEF StartUpdate
  <2> QED BY <2>1, <2>2, <2>3 DEF IdleReq, ReqInOrder
<1> HIDE DEF Opened
<1>5. Opened
  BY <1>1, <1>2, <1>3, <1>4 DEF StartRequest
<1>6. ReqInOrder(reqs[r], g)'
  BY <1>5, <1>c DEF Opened, ReqInOrder, SlotFree, Exists, Active, Apart, End
<1>7. \A p \in Request : ReqInOrder(reqs[p], g)'
  BY <1>6, <1>a DEF Serial
<1> QED BY <1>7, <1>a, <1>b, RowsKept DEF SpacedInv, Serial

\* The check lets a request write only to a time that is free.
LEMMA CheckSpaced ==
  ASSUME NEW g \in Nat, SpacedInv(g), TypeOK', NEW r \in Request, CheckSlot(r),
         \A sv, t : t \in Nat /\ Offered(sv, t, BookingsOnDay(Day(t))) =>
           \A b \in Appt : Active(b) => Apart(t, services[sv].dur, b, g)
  PROVE  SpacedInv(g)'
<1> DEFINE q == reqs[r]
<1>a. /\ Serial /\ TypeOK /\ reqs \in [Request -> ReqRow] /\ q \in ReqRow
      /\ q.start \in Nat /\ q.pc = "check" /\ ReqInOrder(q, g)
  BY DEF SpacedInv, TypeOK, CheckSlot, ReqRow
<1>b. UNCHANGED <<bookings, services>>
  BY DEF CheckSlot, shop
<1>c. SameRows
  BY <1>b DEF SameRows
<1>1. CASE Offered(q.service, q.start, BookingsOnDay(Day(q.start)))
  <2>1. reqs'[r] = [q EXCEPT !.pc = "write"]
    BY <1>1, <1>a DEF CheckSlot, Goto
  <2>2. SlotFree(q, g)
    BY <1>1, <1>a, OfferedFacts DEF SlotFree
  <2>3. /\ reqs'[r].pc = "write" /\ reqs'[r].kind = q.kind
        /\ reqs'[r].timed = q.timed /\ reqs'[r].service = q.service
        /\ reqs'[r].start = q.start /\ reqs'[r].booking = q.booking
        /\ reqs'[r].dur = q.dur /\ reqs'[r].status = q.status
    BY <2>1, <1>a DEF ReqRow
  <2>4. ReqInOrder(reqs'[r], g)
    BY <1>a, <2>2, <2>3 DEF ReqInOrder, SlotFree
  <2>5. ReqInOrder(reqs[r], g)'
    BY <2>4, <1>b DEF ReqInOrder, SlotFree, Exists, Active, Apart, End
  <2>6. \A p \in Request : ReqInOrder(reqs[p], g)'
    BY <2>5, <1>a DEF Serial
  <2> QED BY <2>6, <1>a, <1>c, RowsKept DEF SpacedInv, Serial
<1>2. CASE ~Offered(q.service, q.start, BookingsOnDay(Day(q.start)))
  <2>1. reqs' = [reqs EXCEPT ![r] = IdleReq]
    BY <1>2 DEF CheckSlot, Finish
  <2>2. \A p \in Request : reqs'[p].pc \in {"check", "write"} => reqs'[p] = reqs[p]
    BY <2>1, <1>a DEF IdleReq
  <2> QED BY <2>2, <1>c, OtherStep
<1> QED BY <1>1, <1>2

\* A write to one row that keeps it in order and away from the other rows.
LEMMA PlacedSpaced ==
  ASSUME NEW g \in Nat, SpacedInv(g), TypeOK', services' = services,
         NEW r \in Request, reqs'[r].pc \notin {"check", "write"},
         NEW b \in Appt, \A a \in Appt \ {b} : bookings'[a] = bookings[a],
         Exists(b)' => /\ bookings'[b].service \in Service
                       /\ bookings'[b].dur = services[bookings'[b].service].dur,
         Active(b)' =>
           /\ End(b)' <= (Day(bookings'[b].start) + 1) * DayLen
           /\ \A a \in Appt \ {b} : Active(a) =>
                Apart(bookings'[b].start, bookings'[b].dur, a, g)
  PROVE  SpacedInv(g)'
<1>a. Serial /\ Spacing(g) /\ RowsInOrder
  BY DEF SpacedInv
<1>b. \A a \in Appt : /\ bookings'[a].start \in Nat /\ bookings'[a].dur \in Nat
                      /\ bookings[a].start \in Nat /\ bookings[a].dur \in Nat
  BY TimeAssumption DEF SpacedInv, TypeOK, BookingRow
<1>c. \A a \in Appt \ {b} :
        /\ Active(a)' <=> Active(a)
        /\ Exists(a)' <=> Exists(a)
        /\ End(a)' = End(a)
  BY DEF Active, Exists, End
<1>1. Spacing(g)'
  <2> SUFFICES ASSUME NEW a \in Appt, NEW c \in Appt, a # c, Active(a)', Active(c)'
               PROVE  Apart(bookings[a].start, bookings[a].dur, c, g)'
    BY DEF Spacing
  <2>1. CASE a # b /\ c # b
    BY <2>1, <1>a, <1>c DEF Spacing, Apart
  <2>2. CASE a = b
    BY <2>2, <1>c DEF Apart
  <2>3. CASE c = b
    <3>1. Apart(bookings'[b].start, bookings'[b].dur, a, g)
      BY <2>3, <1>c
    <3> QED BY <2>3, <3>1, <1>b, <1>c DEF Apart, End
  <2> QED BY <2>1, <2>2, <2>3
<1>2. RowsInOrder'
  BY <1>a, <1>c DEF RowsInOrder
<1>3. \A p \in Request : ReqInOrder(reqs[p], g)'
  BY <1>a DEF Serial, ReqInOrder
<1> QED BY <1>a, <1>1, <1>2, <1>3 DEF SpacedInv, Serial

\* The five writes.
LEMMA WriteSpaced ==
  ASSUME NEW g \in Nat, SpacedInv(g), TypeOK', NEW r \in Request,
         \/ InsertBooking(r) \/ LoseBooking(r) \/ MoveBooking(r) \/ CancelBooking(r)
         \/ UpdateBooking(r)
  PROVE  SpacedInv(g)'
<1> DEFINE q == reqs[r]
<1>p. PICK b \in Appt : b = q.booking
  BY DEF SpacedInv, TypeOK, ReqRow
<1> DEFINE row == bookings[b]
<1>a. /\ TypeOK /\ Spacing(g) /\ RowsInOrder /\ q.pc = "write" /\ ReqInOrder(q, g)
      /\ reqs \in [Request -> ReqRow] /\ q \in ReqRow /\ b = q.booking
      /\ bookings \in [Appt -> BookingRow] /\ row \in BookingRow
  BY <1>p DEF SpacedInv, TypeOK, ReqRow, InsertBooking, LoseBooking, MoveBooking,
              CancelBooking, UpdateBooking
<1>b. services' = services
  BY DEF InsertBooking, LoseBooking, MoveBooking, CancelBooking, UpdateBooking, shop
<1>c. reqs'[r].pc \notin {"check", "write"}
  <2>1. \E t : Committed(r, t)
    BY DEF InsertBooking, LoseBooking, MoveBooking, CancelBooking, UpdateBooking
  <2> QED BY <1>a, <2>1 DEF Committed, ReqRow
<1>d. ASSUME NEW a \in Appt \ {b} PROVE bookings'[a] = bookings[a]
  BY <1>a DEF InsertBooking, LoseBooking, MoveBooking, CancelBooking, UpdateBooking
<1>e. q.timed => SlotFree(q, g)
  BY <1>a DEF ReqInOrder
<1>1. CASE InsertBooking(r)
  <2>1. /\ bookings'[b].service = q.service /\ bookings'[b].start = q.start
        /\ bookings'[b].dur = services[q.service].dur
    BY <1>1, <1>a DEF InsertBooking, ReqInOrder
  <2>2. SlotFree(q, g)
    BY <1>1, <1>a, <1>e DEF InsertBooking, ReqInOrder
  <2> QED BY <1>a, <1>b, <1>c, <1>d, <2>1, <2>2, PlacedSpaced DEF SlotFree, End
<1>2. CASE LoseBooking(r)
  <2>1. bookings'[b].status = "lost"
    BY <1>2, <1>a DEF LoseBooking, BookingRow
  <2>2. ~Exists(b)' /\ ~Active(b)'
    BY <2>1 DEF Exists, Active, BookingStatus, ActiveStatuses
  <2> QED BY <1>a, <1>b, <1>c, <1>d, <2>2, PlacedSpaced
<1>3. CASE MoveBooking(r)
  <2>1. q.kind = "move" /\ q.timed /\ Exists(b) /\ q.service = row.service
    BY <1>3, <1>a DEF MoveBooking, ReqInOrder
  <2>2. /\ bookings'[b].service = q.service /\ bookings'[b].start = q.start
        /\ bookings'[b].dur = services[q.service].dur
    BY <1>3, <1>a, <2>1 DEF MoveBooking, BookingRow, RowsInOrder
  <2>3. SlotFree(q, g)
    BY <1>e, <2>1
  <2> QED BY <1>a, <1>b, <1>c, <1>d, <2>2, <2>3, PlacedSpaced DEF SlotFree, End
<1>4. CASE CancelBooking(r)
  <2>1. Exists(b)
    BY <1>4, <1>a DEF CancelBooking, ReqInOrder
  <2>2. /\ bookings'[b].status = "cancelled" /\ bookings'[b].service = row.service
        /\ bookings'[b].dur = row.dur
    BY <1>4, <1>a DEF CancelBooking, BookingRow
  <2>3. ~Active(b)'
    BY <2>2 DEF Active, ActiveStatuses
  <2>4. /\ bookings'[b].service \in Service
        /\ bookings'[b].dur = services[bookings'[b].service].dur
    BY <1>a, <2>1, <2>2 DEF RowsInOrder
  <2> QED BY <1>a, <1>b, <1>c, <1>d, <2>3, <2>4, PlacedSpaced
<1>5. CASE UpdateBooking(r)
  <2>1. Exists(b) /\ q.service = row.service
        /\ (q.status \in ActiveStatuses => Active(b))
    BY <1>5, <1>a DEF UpdateBooking, ReqInOrder
  <2>2. /\ bookings'[b].service = row.service /\ bookings'[b].dur = row.dur
        /\ bookings'[b].start = IF q.timed THEN q.start ELSE row.start
        /\ bookings'[b].status = IF q.status = "keep" THEN row.status ELSE q.status
    BY <1>5, <1>a DEF UpdateBooking, BookingRow
  <2>3. /\ bookings'[b].service \in Service
        /\ bookings'[b].dur = services[bookings'[b].service].dur
    BY <1>a, <2>1, <2>2 DEF RowsInOrder
  <2>4. CASE q.timed
    BY <1>a, <1>b, <1>c, <1>d, <1>e, <2>1, <2>2, <2>3, <2>4, PlacedSpaced
       DEF SlotFree, End
  <2>5. CASE ~q.timed
    <3>1. Active(b)' => Active(b)
      BY <2>1, <2>2 DEF Active
    <3>2. bookings'[b].start = row.start /\ End(b)' = End(b)
      BY <2>2, <2>5 DEF End
    <3>3. Active(b) => /\ End(b) <= (Day(row.start) + 1) * DayLen
                       /\ \A a \in Appt \ {b} : Active(a) =>
                            Apart(row.start, row.dur, a, g)
      BY <1>a DEF RowsInOrder, Spacing
    <3> QED BY <1>a, <1>b, <1>c, <1>d, <2>2, <2>3, <3>1, <3>2, <3>3, PlacedSpaced
  <2> QED BY <2>4, <2>5
<1> QED BY <1>1, <1>2, <1>3, <1>4, <1>5

\* The hook, the notices, a refusal, a crash, the owner and the clock.
LEMMA AfterSpaced ==
  ASSUME NEW g \in Nat, SpacedInv(g), TypeOK',
         \/ UNCHANGED vars \/ OwnerEdit \/ Tick
         \/ \E r \in Request :
              \/ RejectInsert(r) \/ HookRead(r) \/ NoGoogleCall(r) \/ CreateEvent(r)
              \/ PatchEvent(r) \/ DeleteEvent(r) \/ RecordEvent(r) \/ HookFails(r)
              \/ Answer(r) \/ AlertOwner(r) \/ MarkApproved(r) \/ PushApproved(r)
              \/ RequestFails(r)
  PROVE  SpacedInv(g)'
<1>a. /\ Serial /\ TypeOK /\ reqs \in [Request -> ReqRow]
      /\ bookings \in [Appt -> BookingRow]
  BY DEF SpacedInv, TypeOK
<1>1. CASE UNCHANGED vars
  BY <1>1, OtherStep DEF vars, shop, SameRows
<1>2. CASE OwnerEdit
  <2>1. \A op \in {"revive", "service"} : ~OwnerEdits(op)
    BY <1>a DEF Serial, OwnerEdits
  <2>2. UNCHANGED <<services, bookings, reqs>>
    BY <1>2, <2>1 DEF OwnerEdit, CreateService, UpdateService, DeleteService,
                      UpdateSettings, ConnectGoogle
  <2> QED BY <2>2, OtherStep DEF SameRows
<1>3. CASE Tick
  BY <1>3, OtherStep DEF Tick, shop, SameRows
<1>4. ASSUME NEW r \in Request,
             \/ RejectInsert(r) \/ HookRead(r) \/ NoGoogleCall(r) \/ CreateEvent(r)
             \/ PatchEvent(r) \/ DeleteEvent(r) \/ HookFails(r)
             \/ Answer(r) \/ AlertOwner(r) \/ MarkApproved(r) \/ PushApproved(r)
             \/ RequestFails(r)
      PROVE  SpacedInv(g)'
  <2>1. SameRows
    BY <1>4 DEF SameRows, RejectInsert, HookRead, NoGoogleCall, CreateEvent, PatchEvent,
                DeleteEvent, HookFails, Answer, AlertOwner, MarkApproved, PushApproved,
                RequestFails, shop
  <2>2. reqs'[r].pc \notin {"check", "write"}
    <3>1. reqs[r] \in ReqRow
      BY <1>a
    <3>2. CASE HookRead(r) \/ CreateEvent(r) \/ DeleteEvent(r)
      <4>1. reqs'[r].pc \in {"google", "notify", "record"}
        BY <3>2, <1>a, HookMoves
      <4> QED BY <4>1
    <3>3. CASE Finish(r) \/ Goto(r, "notify") \/ Goto(r, "push")
      BY <3>1, <3>3, <1>a DEF Finish, IdleReq, Goto, ReqRow
    <3> QED BY <1>4, <3>2, <3>3
            DEF RejectInsert, NoGoogleCall, PatchEvent, HookFails, Answer, AlertOwner,
                MarkApproved, PushApproved, RequestFails
  <2> QED BY <1>a, <2>1, <2>2, OtherStep DEF Serial
<1>5. ASSUME NEW r \in Request, RecordEvent(r) PROVE SpacedInv(g)'
  <2>1. reqs[r] \in ReqRow /\ \A b \in Appt : bookings[b] \in BookingRow
    BY <1>a
  <2>2. SameRows
    BY <1>5, <1>a, <2>1 DEF SameRows, RecordEvent, BookingRow, shop
  <2>3. reqs'[r].pc = "notify"
    BY <1>5, <1>a, <2>1 DEF RecordEvent, Goto, ReqRow
  <2> QED BY <1>a, <2>2, <2>3, OtherStep DEF Serial
<1> QED BY <1>1, <1>2, <1>3, <1>4, <1>5

\* Every step, given what the check guarantees.
LEMMA NextSpaced ==
  ASSUME NEW g \in Nat, SpacedInv(g), [Next]_vars,
         \A sv, t : t \in Nat /\ Offered(sv, t, BookingsOnDay(Day(t))) =>
           \A b \in Appt : Active(b) => Apart(t, services[sv].dur, b, g)
  PROVE  SpacedInv(g)'
<1>a. TypeOK'
  BY NextType DEF SpacedInv
<1>1. ASSUME NEW r \in Request, StartRequest(r) PROVE SpacedInv(g)'
  BY <1>1, <1>a, StartSpaced
<1>2. ASSUME NEW r \in Request, CheckSlot(r) PROVE SpacedInv(g)'
  BY <1>2, <1>a, CheckSpaced
<1>3. ASSUME NEW r \in Request,
             \/ InsertBooking(r) \/ LoseBooking(r) \/ MoveBooking(r) \/ CancelBooking(r)
             \/ UpdateBooking(r)
      PROVE  SpacedInv(g)'
  BY <1>3, <1>a, WriteSpaced
<1> QED BY <1>1, <1>2, <1>3, <1>a, AfterSpaced DEF Next, RequestStep, RequestFault

\* The double-booking guard works for requests that do not overlap in time: two
\* live bookings never overlap, for any opening hours, buffers, durations, owner
\* moves and changes of the settings.
THEOREM SerialBookingsDisjoint == Serial /\ Spec => []NoOverlap
<1>1. Serial /\ Init => SpacedInv(0)
  BY InitSpaced
<1>2. SpacedInv(0) /\ [Next]_vars => SpacedInv(0)'
  <2> SUFFICES ASSUME SpacedInv(0), [Next]_vars PROVE SpacedInv(0)'
    OBVIOUS
  <2>1. TypeOK /\ RowsInOrder
    BY DEF SpacedInv
  <2> QED BY <2>1, OfferedDisjoint, NextSpaced
<1>3. SpacedInv(0) => NoOverlap
  <2> SUFFICES ASSUME SpacedInv(0), NEW a \in Appt, NEW b \in Appt, a # b,
                      Active(a), Active(b)
               PROVE  Disjoint(a, b)
    BY DEF NoOverlap
  <2>1. /\ bookings[a].start \in Nat /\ bookings[a].dur \in Nat
        /\ bookings[b].start \in Nat /\ bookings[b].dur \in Nat
    BY TimeAssumption DEF SpacedInv, TypeOK, BookingRow
  <2>2. Apart(bookings[a].start, bookings[a].dur, b, 0)
    BY DEF SpacedInv, Spacing
  <2> QED BY <2>1, <2>2 DEF Apart, Disjoint, End
<1> QED BY <1>1, <1>2, <1>3, PTL DEF Spec

Kept == SpacedInv(Buffer) /\ OneBuffer /\ PadCovers

\* They also keep the break, when it is one and the same and the six hours that
\* _bookings_on_local_day pads a day with cover an appointment and the break.
THEOREM SerialGapKept == Serial /\ OneBuffer /\ PadCovers /\ Spec => []GapKept
<1>a. Buffer \in Nat
  BY SettingsAssumption DEF Buffer
<1>1. Serial /\ OneBuffer /\ PadCovers /\ Init => Kept
  BY <1>a, InitSpaced DEF Kept
<1>2. Kept /\ [Next]_vars => Kept'
  <2> SUFFICES ASSUME Kept, [Next]_vars PROVE Kept'
    OBVIOUS
  <2>1. TypeOK /\ OneBuffer /\ PadCovers /\ SpacedInv(Buffer)
    BY DEF Kept, SpacedInv
  <2>2. SpacedInv(Buffer)'
    BY <1>a, <2>1, OfferedSpaced, NextSpaced
  <2>3. OneBuffer' /\ PadCovers'
    BY <2>1 DEF OneBuffer, PadCovers, Buffer
  <2> QED BY <2>2, <2>3 DEF Kept
<1>3. Kept => GapKept
  <2> SUFFICES ASSUME Kept, NEW a \in Appt, NEW b \in Appt, a # b,
                      Active(a), Active(b)
               PROVE  Gap(a, b)
    BY DEF GapKept
  <2>1. settings.buffer = Buffer
    BY DEF Kept, SpacedInv, TypeOK, OneBuffer
  <2>2. Apart(bookings[a].start, bookings[a].dur, b, Buffer)
    BY DEF Kept, SpacedInv, Spacing
  <2> QED BY <2>1, <2>2 DEF Apart, Gap, End
<1> QED BY <1>1, <1>2, <1>3, PTL DEF Spec

=============================================================================
