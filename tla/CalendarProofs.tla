--------------------------- MODULE CalendarProofs ---------------------------
(***************************************************************************)
(* More theorems about Booking, for any number of bookings, services,       *)
(* requests and events: the owner's Google Calendar follows the bookings    *)
(* while no two requests about one booking overlap and no call fails, and   *)
(* the customer is not messaged twice about an approval.                    *)
(***************************************************************************)
EXTENDS BookingProofs

-----------------------------------------------------------------------------
(* The records a step writes *)

\* Goto, Finish and Committed.
LEMMA ReqWrites ==
  ASSUME TypeOK, NEW r \in Request
  PROVE  /\ \A pc : Goto(r, pc) =>
              /\ reqs'[r].pc = pc /\ reqs'[r].kind = reqs[r].kind
              /\ reqs'[r].booking = reqs[r].booking /\ reqs'[r].status = reqs[r].status
              /\ reqs'[r].event = reqs[r].event /\ reqs'[r].seen = reqs[r].seen
              /\ \A p \in Request \ {r} : reqs'[p] = reqs[p]
         /\ Finish(r) => reqs'[r].pc = "idle" /\ \A p \in Request \ {r} : reqs'[p] = reqs[p]
         /\ \A t : Committed(r, t) =>
              /\ reqs'[r].pc = "hook" /\ reqs'[r].kind = reqs[r].kind
              /\ reqs'[r].booking = reqs[r].booking /\ reqs'[r].status = reqs[r].status
              /\ \A p \in Request \ {r} : reqs'[p] = reqs[p]
<1>1. reqs \in [Request -> ReqRow] /\ reqs[r] \in ReqRow
  BY DEF TypeOK
<1>2. ASSUME NEW pc, Goto(r, pc)
      PROVE  /\ reqs'[r].pc = pc /\ reqs'[r].kind = reqs[r].kind
             /\ reqs'[r].booking = reqs[r].booking /\ reqs'[r].status = reqs[r].status
             /\ reqs'[r].event = reqs[r].event /\ reqs'[r].seen = reqs[r].seen
             /\ \A p \in Request \ {r} : reqs'[p] = reqs[p]
  <2>1. reqs'[r] = [reqs[r] EXCEPT !.pc = pc] /\ \A p \in Request \ {r} : reqs'[p] = reqs[p]
    BY <1>1, <1>2 DEF Goto
  <2> QED BY <1>1, <2>1 DEF ReqRow
<1>3. ASSUME NEW t, Committed(r, t)
      PROVE  /\ reqs'[r].pc = "hook" /\ reqs'[r].kind = reqs[r].kind
             /\ reqs'[r].booking = reqs[r].booking /\ reqs'[r].status = reqs[r].status
             /\ \A p \in Request \ {r} : reqs'[p] = reqs[p]
  <2>1. /\ reqs'[r] = [reqs[r] EXCEPT !.pc = "hook", !.start = t]
        /\ \A p \in Request \ {r} : reqs'[p] = reqs[p]
    BY <1>1, <1>3 DEF Committed
  <2> QED BY <1>1, <2>1 DEF ReqRow
<1>4. ASSUME Finish(r)
      PROVE  reqs'[r].pc = "idle" /\ \A p \in Request \ {r} : reqs'[p] = reqs[p]
  <2>1. reqs'[r] = IdleReq /\ \A p \in Request \ {r} : reqs'[p] = reqs[p]
    BY <1>1, <1>4 DEF Finish
  <2> QED BY <2>1 DEF IdleReq
<1> QED BY <1>2, <1>3, <1>4

\* The request a handler opens.
LEMMA Opens ==
  ASSUME TypeOK, NEW r \in Request, StartRequest(r)
  PROVE  /\ reqs[r].pc = "idle" /\ reqs'[r].pc \in {"check", "write"}
         /\ \A p \in Request \ {r} : reqs'[p] = reqs[p]
         /\ UNCHANGED <<now, bookings, calendar, connected, markers, outbox>>
         /\ reqs'[r].booking \in Appt
         /\ reqs'[r].kind = "create" => reqs'[r].booking \in FreeIds
         /\ reqs'[r].kind # "create" => Exists(reqs'[r].booking)
         /\ reqs'[r].kind = "update" /\ reqs'[r].status = "keep"
              /\ bookings[reqs'[r].booking].status = "cancelled" => "move_cancelled" \in OwnerOps
<1> DEFINE Opened ==
      /\ reqs[r].pc = "idle" /\ reqs'[r].pc \in {"check", "write"}
      /\ \A p \in Request \ {r} : reqs'[p] = reqs[p]
      /\ UNCHANGED <<now, bookings, calendar, connected, markers, outbox>>
      /\ reqs'[r].booking \in Appt
      /\ reqs'[r].kind = "create" => reqs'[r].booking \in FreeIds
      /\ reqs'[r].kind # "create" => Exists(reqs'[r].booking)
      /\ reqs'[r].kind = "update" /\ reqs'[r].status = "keep"
           /\ bookings[reqs'[r].booking].status = "cancelled" => "move_cancelled" \in OwnerOps
<1>a. reqs \in [Request -> ReqRow]
  BY DEF TypeOK
<1>1. ASSUME NEW sv \in Service, NEW t \in Starts, StartCreate(r, sv, t)
      PROVE  Opened
  <2>1. PICK b, d : b \in FreeIds /\
          Begin(r, [IdleReq EXCEPT !.pc = "check", !.kind = "create", !.booking = b,
                      !.service = sv, !.timed = TRUE, !.start = t, !.dur = d])
    BY <1>1 DEF StartCreate
  <2>2. b \in Appt /\ b \in FreeIds
    BY <2>1 DEF FreeIds
  <2>3. /\ reqs'[r].pc = "check" /\ reqs'[r].kind = "create" /\ reqs'[r].booking = b
        /\ reqs[r].pc = "idle" /\ \A p \in Request \ {r} : reqs'[p] = reqs[p]
    BY <1>a, <2>1 DEF Begin, IdleReq
  <2> QED BY <1>1, <2>2, <2>3 DEF StartCreate, shop, redis
<1>2. ASSUME NEW b \in Appt, StartCancel(r, b)
      PROVE  Opened
  <2>1. /\ reqs'[r].pc = "write" /\ reqs'[r].kind = "cancel" /\ reqs'[r].booking = b
        /\ reqs[r].pc = "idle" /\ \A p \in Request \ {r} : reqs'[p] = reqs[p]
    BY <1>2, <1>a DEF StartCancel, Begin, IdleReq
  <2> QED BY <1>2, <2>1 DEF StartCancel, shop, redis
<1>3. ASSUME NEW b \in Appt, NEW t \in Starts, StartMove(r, b, t)
      PROVE  Opened
  <2>1. /\ reqs'[r].pc = "check" /\ reqs'[r].kind = "move" /\ reqs'[r].booking = b
        /\ reqs[r].pc = "idle" /\ \A p \in Request \ {r} : reqs'[p] = reqs[p]
    BY <1>3, <1>a DEF StartMove, Begin, IdleReq
  <2> QED BY <1>3, <2>1 DEF StartMove, shop, redis
<1>4. ASSUME NEW b \in Appt, NEW s \in BookingStatus \cup {"keep"},
             NEW timed \in BOOLEAN, NEW t, StartUpdate(r, b, s, timed, t)
      PROVE  Opened
  <2>1. PICK x, y, sv : /\ x = IF timed THEN "check" ELSE "write"
                        /\ y = IF timed THEN t ELSE 0
                        /\ sv = bookings[b].service
    OBVIOUS
  <2>2. Begin(r, [IdleReq EXCEPT !.pc = x, !.kind = "update", !.booking = b, !.status = s,
                    !.service = sv, !.timed = timed, !.start = y])
    BY <1>4, <2>1 DEF StartUpdate
  <2>3. /\ reqs'[r].pc = x /\ reqs'[r].kind = "update" /\ reqs'[r].booking = b
        /\ reqs'[r].status = s
        /\ reqs[r].pc = "idle" /\ \A p \in Request \ {r} : reqs'[p] = reqs[p]
    BY <2>2, <1>a DEF Begin, IdleReq
  <2> QED BY <1>4, <2>1, <2>3 DEF StartUpdate, shop, redis
<1> HIDE DEF Opened
<1>5. Opened
  BY <1>1, <1>2, <1>3, <1>4 DEF StartRequest
<1> QED BY <1>5 DEF Opened

\* The rows the writes leave, for a write that is not lost.
LEMMA Writes ==
  ASSUME TypeOK, NEW r \in Request,
         InsertBooking(r) \/ MoveBooking(r) \/ CancelBooking(r) \/ UpdateBooking(r)
  PROVE  /\ reqs[r].pc = "write" /\ calendar' = calendar
         /\ \A b \in Appt \ {reqs[r].booking} : bookings'[b] = bookings[b]
         /\ \E t : Committed(r, t)
         /\ LET q == reqs[r]
                row == bookings[q.booking]
                new == bookings'[q.booking]
            IN \/ q.kind = "create" /\ new.status = "pending" /\ new.event = NoEvent
               \/ q.kind = "move" /\ new.status = "pending" /\ new.event = row.event
               \/ q.kind = "cancel" /\ new.status = "cancelled" /\ new.event = row.event
               \/ /\ q.kind = "update" /\ new.event = row.event
                  /\ new.status = IF q.status = "keep" THEN row.status ELSE q.status
<1> DEFINE q == reqs[r]
           row == bookings[q.booking]
           new == bookings'[q.booking]
<1>a. q.booking \in Appt /\ bookings \in [Appt -> BookingRow] /\ row \in BookingRow
  BY DEF TypeOK, ReqRow
<1>b. /\ q.pc = "write" /\ calendar' = calendar /\ \E t : Committed(r, t)
      /\ \A b \in Appt \ {q.booking} : bookings'[b] = bookings[b]
  BY <1>a DEF InsertBooking, MoveBooking, CancelBooking, UpdateBooking
<1>1. CASE InsertBooking(r)
  <2>1. q.kind = "create" /\ new.status = "pending" /\ new.event = NoEvent
    BY <1>1, <1>a DEF InsertBooking
  <2> QED BY <1>b, <2>1
<1>2. CASE MoveBooking(r)
  <2>1. q.kind = "move" /\ new = [row EXCEPT !.start = q.start, !.status = "pending"]
    BY <1>2, <1>a DEF MoveBooking
  <2>2. new.status = "pending" /\ new.event = row.event
    BY <2>1, <1>a DEF BookingRow
  <2> QED BY <1>b, <2>1, <2>2
<1>3. CASE CancelBooking(r)
  <2>1. q.kind = "cancel" /\ new = [row EXCEPT !.status = "cancelled"]
    BY <1>3, <1>a DEF CancelBooking
  <2>2. new.status = "cancelled" /\ new.event = row.event
    BY <2>1, <1>a DEF BookingRow
  <2> QED BY <1>b, <2>1, <2>2
<1>4. CASE UpdateBooking(r)
  <2>1. PICK s, t : /\ s = IF q.status = "keep" THEN row.status ELSE q.status
                    /\ t = IF q.timed THEN q.start ELSE row.start
    OBVIOUS
  <2>2. q.kind = "update" /\ new = [row EXCEPT !.status = s, !.start = t]
    BY <1>4, <1>a, <2>1 DEF UpdateBooking
  <2>3. new.status = s /\ new.event = row.event
    BY <2>2, <1>a DEF BookingRow
  <2> QED BY <1>b, <2>1, <2>2, <2>3
<1> QED BY <1>1, <1>2, <1>3, <1>4

\* The hook: what it reads, asks of Google and records.
LEMMA HookSteps ==
  ASSUME TypeOK, NEW r \in Request
  PROVE  LET q == reqs[r]
             row == bookings[q.booking]
             Same == /\ reqs'[r].kind = q.kind /\ reqs'[r].booking = q.booking
                     /\ reqs'[r].status = q.status
                     /\ \A p \in Request \ {r} : reqs'[p] = reqs[p]
         IN /\ HookRead(r) /\ connected /\ Exists(q.booking) =>
                 Same /\ reqs'[r].pc = "google" /\ reqs'[r].event = row.event
                 /\ reqs'[r].seen = row.start
            /\ CreateEvent(r) => \E e \in Event :
                 /\ calendar[e].status = "unused"
                 /\ calendar'[e].status = "on" /\ calendar'[e].booking = q.booking
                 /\ calendar'[e].start = q.seen
                 /\ \A x \in Event \ {e} : calendar'[x] = calendar[x]
                 /\ Same /\ reqs'[r].pc = "record" /\ reqs'[r].event = e
            /\ DeleteEvent(r) =>
                 /\ \A x \in Event \ {q.event} : calendar'[x] = calendar[x]
                 /\ q.event \in Event => calendar'[q.event].status = "deleted"
                 /\ Same /\ reqs'[r].pc = "record" /\ reqs'[r].event = NoEvent
            /\ PatchEvent(r) =>
                 /\ \A x \in Event : /\ calendar'[x].status = calendar[x].status
                                     /\ calendar'[x].booking = calendar[x].booking
                 /\ \A x \in Event \ {q.event} : calendar'[x] = calendar[x]
                 /\ q.event \in Event /\ calendar[q.event].status = "on" =>
                      calendar'[q.event].start = q.seen
            /\ RecordEvent(r) =>
                 /\ bookings'[q.booking].event = q.event
                 /\ bookings'[q.booking].status = row.status
                 /\ bookings'[q.booking].start = row.start
                 /\ \A b \in Appt \ {q.booking} : bookings'[b] = bookings[b]
<1> DEFINE q == reqs[r]
           row == bookings[q.booking]
           Same == /\ reqs'[r].kind = q.kind /\ reqs'[r].booking = q.booking
                   /\ reqs'[r].status = q.status
                   /\ \A p \in Request \ {r} : reqs'[p] = reqs[p]
<1>a. /\ reqs \in [Request -> ReqRow] /\ q \in ReqRow /\ calendar \in [Event -> CalendarRow]
      /\ bookings \in [Appt -> BookingRow] /\ q.booking \in Appt /\ row \in BookingRow
      /\ \A x \in Event : calendar[x] \in CalendarRow
  BY DEF TypeOK, ReqRow
<1>1. ASSUME HookRead(r), connected, Exists(q.booking)
      PROVE  Same /\ reqs'[r].pc = "google" /\ reqs'[r].event = row.event
             /\ reqs'[r].seen = row.start
  <2>1. PICK e, t : e = row.event /\ t = row.start
    OBVIOUS
  <2>2. reqs' = [reqs EXCEPT ![r] = [@ EXCEPT !.pc = "google", !.event = e, !.seen = t]]
    BY <1>1, <2>1 DEF HookRead
  <2>3. /\ reqs'[r] = [q EXCEPT !.pc = "google", !.event = e, !.seen = t]
        /\ \A p \in Request \ {r} : reqs'[p] = reqs[p]
    BY <1>a, <2>2
  <2>4. /\ reqs'[r].kind = q.kind /\ reqs'[r].booking = q.booking
        /\ reqs'[r].status = q.status /\ reqs'[r].pc = "google" /\ reqs'[r].event = e
        /\ reqs'[r].seen = t
    BY <1>a, <2>3 DEF ReqRow
  <2> QED BY <2>1, <2>3, <2>4
<1>2. ASSUME CreateEvent(r)
      PROVE  \E e \in Event :
                 /\ calendar[e].status = "unused"
                 /\ calendar'[e].status = "on" /\ calendar'[e].booking = q.booking
                 /\ calendar'[e].start = q.seen
                 /\ \A x \in Event \ {e} : calendar'[x] = calendar[x]
                 /\ Same /\ reqs'[r].pc = "record" /\ reqs'[r].event = e
  <2>1. PICK e \in Event :
          /\ calendar[e].status = "unused"
          /\ calendar' = [calendar EXCEPT ![e] =
                           [status |-> "on", booking |-> q.booking, start |-> q.seen]]
          /\ reqs' = [reqs EXCEPT ![r] = [@ EXCEPT !.pc = "record", !.event = e]]
    BY <1>2 DEF CreateEvent
  <2>2. /\ reqs'[r] = [q EXCEPT !.pc = "record", !.event = e]
        /\ \A p \in Request \ {r} : reqs'[p] = reqs[p]
    BY <1>a, <2>1
  <2>3. /\ reqs'[r].kind = q.kind /\ reqs'[r].booking = q.booking
        /\ reqs'[r].status = q.status /\ reqs'[r].pc = "record" /\ reqs'[r].event = e
    BY <1>a, <2>2 DEF ReqRow
  <2>4. /\ calendar'[e].status = "on" /\ calendar'[e].booking = q.booking
        /\ calendar'[e].start = q.seen
        /\ \A x \in Event \ {e} : calendar'[x] = calendar[x]
    BY <1>a, <2>1
  <2> QED BY <2>1, <2>2, <2>3, <2>4
<1>3. ASSUME DeleteEvent(r)
      PROVE  /\ \A x \in Event \ {q.event} : calendar'[x] = calendar[x]
             /\ q.event \in Event => calendar'[q.event].status = "deleted"
             /\ Same /\ reqs'[r].pc = "record" /\ reqs'[r].event = NoEvent
  <2>1. /\ reqs'[r] = [q EXCEPT !.pc = "record", !.event = NoEvent]
        /\ \A p \in Request \ {r} : reqs'[p] = reqs[p]
    BY <1>a, <1>3 DEF DeleteEvent
  <2>2. /\ reqs'[r].kind = q.kind /\ reqs'[r].booking = q.booking
        /\ reqs'[r].status = q.status /\ reqs'[r].pc = "record" /\ reqs'[r].event = NoEvent
    BY <1>a, <2>1 DEF ReqRow
  <2>3. /\ \A x \in Event \ {q.event} : calendar'[x] = calendar[x]
        /\ q.event \in Event => calendar'[q.event].status = "deleted"
    BY <1>a, <1>3 DEF DeleteEvent, CalendarRow
  <2> QED BY <2>1, <2>2, <2>3
<1>4. ASSUME PatchEvent(r)
      PROVE  /\ \A x \in Event : /\ calendar'[x].status = calendar[x].status
                                 /\ calendar'[x].booking = calendar[x].booking
             /\ \A x \in Event \ {q.event} : calendar'[x] = calendar[x]
             /\ q.event \in Event /\ calendar[q.event].status = "on" =>
                  calendar'[q.event].start = q.seen
  BY <1>a, <1>4 DEF PatchEvent, CalendarRow
<1>5. ASSUME RecordEvent(r)
      PROVE  /\ bookings'[q.booking].event = q.event
             /\ bookings'[q.booking].status = row.status
             /\ bookings'[q.booking].start = row.start
             /\ \A b \in Appt \ {q.booking} : bookings'[b] = bookings[b]
  <2>1. /\ bookings'[q.booking] = [row EXCEPT !.event = q.event]
        /\ \A b \in Appt \ {q.booking} : bookings'[b] = bookings[b]
    BY <1>a, <1>5 DEF RecordEvent
  <2> QED BY <1>a, <2>1 DEF BookingRow
<1> QED BY <1>1, <1>2, <1>3, <1>4, <1>5

-----------------------------------------------------------------------------
(* One message per approval *)

\* The marker was set, and outlives the clock.
Marked(b) == markers[<<b, "approved">>] >= MarkerTTL

\* Whoever is queued, or about to be, has a marker; two requests never race to
\* queue for one booking, because the marker is taken in one round trip.
TouchInv ==
  /\ TypeOK
  /\ now <= MaxTime
  /\ \A i \in DOMAIN outbox : outbox[i].kind = "approved" /\ Marked(outbox[i].booking)
  /\ \A r \in Request : reqs[r].pc = "push" =>
       /\ Marked(reqs[r].booking)
       /\ \A i \in DOMAIN outbox : outbox[i].booking # reqs[r].booking
  /\ \A r, p \in Request : r # p /\ reqs[r].pc = "push" /\ reqs[p].pc = "push" =>
       reqs[r].booking # reqs[p].booking
  /\ TouchOnce

\* The steps that neither mark nor queue.
LEMMA OtherTouch ==
  ASSUME TouchInv, TypeOK', now' <= MaxTime, UNCHANGED <<markers, outbox>>,
         \A p \in Request : reqs'[p].pc = "push" => reqs'[p] = reqs[p]
  PROVE  TouchInv'
BY DEF TouchInv, Marked, TouchOnce

\* Taking the marker: it was not there, so nothing is queued for the booking.
LEMMA MarkTouch ==
  ASSUME MaxTime < MarkerTTL, TouchInv, TypeOK', NEW r \in Request, MarkApproved(r)
  PROVE  TouchInv'
<1>b. PICK b \in Appt : b = reqs[r].booking
  BY DEF TouchInv, TypeOK, ReqRow
<1>a. /\ TypeOK /\ now \in Nat /\ now <= MaxTime /\ MaxTime \in Nat /\ MarkerTTL \in Nat
      /\ markers \in [Appt \X TouchKind -> Nat] /\ now' = now
      /\ outbox' = outbox
  BY TimeAssumption, BookingBoundsAssumption DEF TouchInv, TypeOK, ReqRow, MarkApproved
<1>1. CASE Finish(r) /\ markers' = markers
  <2>1. \A p \in Request : reqs'[p].pc = "push" => reqs'[p] = reqs[p]
    BY <1>a, <1>1, ReqWrites
  <2> QED BY <1>1, <1>a, <2>1, OtherTouch
<1>2. CASE ~MarkerSet(b, "approved") /\ SetMarker(b, "approved") /\ Goto(r, "push")
  <2>1. ~Marked(b)
    <3>1. markers[<<b, "approved">>] \in Nat
      BY <1>a DEF TouchKind
    <3> QED BY <1>2, <1>a, <3>1 DEF MarkerSet, Marked
  <2>2. \A a \in Appt : a # b => markers'[<<a, "approved">>] = markers[<<a, "approved">>]
    BY <1>2, <1>a DEF SetMarker, TouchKind
  <2>3. markers'[<<b, "approved">>] = now + MarkerTTL
    BY <1>2, <1>a DEF SetMarker, TouchKind
  <2>4. Marked(b)' /\ \A a \in Appt : Marked(a) => Marked(a)'
    BY <1>a, <2>1, <2>2, <2>3 DEF Marked
  <2>5. /\ reqs'[r].pc = "push" /\ reqs'[r].booking = b
        /\ \A p \in Request \ {r} : reqs'[p] = reqs[p]
    BY <1>2, <1>a, <1>b, ReqWrites
  <2>6. \A i \in DOMAIN outbox : outbox[i].booking \in Appt
    <3>1. \A i \in DOMAIN outbox : outbox[i] \in Touch
      BY <1>a DEF TypeOK
    <3> QED BY <3>1 DEF Touch
  <2>7. \A p \in Request : reqs[p].booking \in Appt
    BY <1>a DEF TypeOK, ReqRow
  <2>8. \A i \in DOMAIN outbox : outbox[i].booking # b
    BY <2>1 DEF TouchInv
  <2>9. \A p \in Request \ {r} : reqs[p].pc = "push" => reqs[p].booking # b
    BY <2>1 DEF TouchInv
  <2>10. \A i \in DOMAIN outbox : outbox[i].kind = "approved" /\ Marked(outbox[i].booking)'
    BY <1>a, <2>4, <2>6 DEF TouchInv, Marked
  <2>11. \A p \in Request : reqs'[p].pc = "push" =>
           /\ Marked(reqs[p].booking)'
           /\ \A i \in DOMAIN outbox : outbox[i].booking # reqs'[p].booking
    <3> SUFFICES ASSUME NEW p \in Request, reqs'[p].pc = "push"
                 PROVE  /\ Marked(reqs[p].booking)'
                        /\ \A i \in DOMAIN outbox : outbox[i].booking # reqs'[p].booking
      OBVIOUS
    <3>1. CASE p = r
      BY <2>4, <2>5, <2>8, <3>1 DEF Marked
    <3>2. CASE p # r
      <4>1. reqs'[p] = reqs[p] /\ Marked(reqs[p].booking)
            /\ \A i \in DOMAIN outbox : outbox[i].booking # reqs[p].booking
        BY <2>5, <3>2 DEF TouchInv
      <4> QED BY <2>4, <2>7, <4>1 DEF Marked
    <3> QED BY <3>1, <3>2
  <2>12. \A s, p \in Request : s # p /\ reqs'[s].pc = "push" /\ reqs'[p].pc = "push" =>
           reqs'[s].booking # reqs'[p].booking
    BY <2>5, <2>9 DEF TouchInv
  <2> QED BY <1>a, <2>10, <2>11, <2>12 DEF TouchInv, TouchOnce
<1> QED BY <1>1, <1>2, <1>b DEF MarkApproved

\* Queuing: the request holds the marker and nobody queued before it.
LEMMA PushTouch ==
  ASSUME TouchInv, TypeOK', NEW r \in Request, PushApproved(r)
  PROVE  TouchInv'
<1> DEFINE m == [booking |-> reqs[r].booking, kind |-> "approved", start |-> reqs[r].start]
<1>a. /\ TypeOK /\ outbox \in Seq(Touch) /\ outbox' = Append(outbox, m) /\ now' = now
      /\ markers' = markers /\ reqs[r].pc = "push" /\ Finish(r) /\ m \in Touch
      /\ Len(outbox) \in Nat
  BY DEF TouchInv, TypeOK, PushApproved, Queue, ReqRow, Touch, TouchKind
<1>b. m.booking = reqs[r].booking /\ m.kind = "approved"
  OBVIOUS
<1> HIDE DEF m
<1>c. /\ reqs'[r].pc = "idle" /\ \A p \in Request \ {r} : reqs'[p] = reqs[p]
  BY <1>a, ReqWrites
<1>d. /\ DOMAIN outbox = 1 .. Len(outbox) /\ DOMAIN outbox' = 1 .. Len(outbox) + 1
      /\ \A i \in DOMAIN outbox : outbox'[i] = outbox[i]
      /\ outbox'[Len(outbox) + 1] = m
  BY <1>a
<1>1. \A i \in DOMAIN outbox' : i \in DOMAIN outbox \/ i = Len(outbox) + 1
  BY <1>a, <1>d
<1>2. \A i \in DOMAIN outbox' : outbox'[i].kind = "approved" /\ Marked(outbox'[i].booking)
  BY <1>a, <1>b, <1>d, <1>1 DEF TouchInv
<1>3. \A p \in Request : reqs'[p].pc = "push" =>
        \A i \in DOMAIN outbox' : outbox'[i].booking # reqs'[p].booking
  BY <1>a, <1>b, <1>c, <1>d, <1>1 DEF TouchInv
<1>4. TouchOnce'
  <2>1. \A i \in DOMAIN outbox : outbox[i].booking # m.booking
    BY <1>a, <1>b DEF TouchInv
  <2> QED BY <1>d, <1>1, <2>1 DEF TouchInv, TouchOnce
<1>5. \A b : Marked(b)' <=> Marked(b)
  BY <1>a DEF Marked
<1> QED BY <1>a, <1>c, <1>2, <1>3, <1>4, <1>5 DEF TouchInv, Marked

\* Every step.
LEMMA NextTouch ==
  ASSUME MaxTime < MarkerTTL, TouchInv, [Next]_vars
  PROVE  TouchInv'
<1>a. TypeOK /\ TypeOK' /\ now <= MaxTime /\ now \in Nat /\ MaxTime \in Nat
  BY NextType, BookingBoundsAssumption DEF TouchInv, TypeOK
<1>1. CASE UNCHANGED vars
  BY <1>1, <1>a, OtherTouch DEF vars, redis
<1>2. CASE OwnerEdit
  <2>1. UNCHANGED <<reqs, now, markers, outbox>>
    BY <1>2 DEF OwnerEdit, CreateService, UpdateService, DeleteService, UpdateSettings,
       ConnectGoogle, redis
  <2> QED BY <1>a, <2>1, OtherTouch
<1>3. CASE Tick
  <2>1. now' <= MaxTime
    BY <1>3, <1>a DEF Tick
  <2> QED BY <1>3, <1>a, <2>1, OtherTouch DEF Tick, redis
<1>4. ASSUME NEW r \in Request, StartRequest(r) PROVE TouchInv'
  <2>1. \A p \in Request : reqs'[p].pc = "push" => reqs'[p] = reqs[p]
    BY <1>4, <1>a, Opens
  <2> QED BY <1>4, <1>a, <2>1, Opens, OtherTouch
<1>5. ASSUME NEW r \in Request,
             \/ CheckSlot(r) \/ InsertBooking(r) \/ RejectInsert(r) \/ MoveBooking(r)
             \/ CancelBooking(r) \/ UpdateBooking(r) \/ HookRead(r) \/ NoGoogleCall(r)
             \/ CreateEvent(r) \/ PatchEvent(r) \/ DeleteEvent(r) \/ RecordEvent(r)
             \/ Answer(r) \/ AlertOwner(r) \/ LoseBooking(r) \/ HookFails(r)
             \/ RequestFails(r)
      PROVE  TouchInv'
  <2>1. UNCHANGED <<now, markers, outbox>>
    BY <1>5 DEF CheckSlot, InsertBooking, RejectInsert, MoveBooking, CancelBooking,
       UpdateBooking, HookRead, NoGoogleCall, CreateEvent, PatchEvent, DeleteEvent,
       RecordEvent, Answer, AlertOwner, LoseBooking, HookFails, RequestFails, redis
  <2>2. \A p \in Request : reqs'[p].pc = "push" => reqs'[p] = reqs[p]
    <3>1. CASE CreateEvent(r) \/ DeleteEvent(r)
      BY <1>a, <3>1, HookSteps
    <3>2. CASE HookRead(r)
      <4>1. CASE connected /\ Exists(reqs[r].booking)
        BY <1>a, <3>2, <4>1, HookSteps
      <4>2. CASE Goto(r, "notify")
        BY <1>a, <4>2, ReqWrites
      <4> QED BY <3>2, <4>1, <4>2 DEF HookRead
    <3>3. CASE Finish(r) \/ Goto(r, "write") \/ Goto(r, "notify") \/ \E t : Committed(r, t)
      BY <1>a, <3>3, ReqWrites
    <3> QED BY <1>5, <3>1, <3>2, <3>3 DEF CheckSlot, InsertBooking, RejectInsert,
            MoveBooking, CancelBooking, UpdateBooking, NoGoogleCall, PatchEvent,
            RecordEvent, Answer, AlertOwner, LoseBooking, HookFails, RequestFails
  <2> QED BY <1>a, <2>1, <2>2, OtherTouch
<1>6. ASSUME NEW r \in Request, MarkApproved(r) PROVE TouchInv'
  BY <1>6, <1>a, MarkTouch
<1>7. ASSUME NEW r \in Request, PushApproved(r) PROVE TouchInv'
  BY <1>7, <1>a, PushTouch
<1> QED BY <1>1, <1>2, <1>3, <1>4, <1>5, <1>6, <1>7 DEF Next, RequestStep, RequestFault

\* "re-confirming won't double-send": however many approvals of a booking race or
\* crash, the outbox holds one message of a kind for it as long as the clock has
\* not outlived a marker.
THEOREM ApprovalsQueuedOnce == MaxTime < MarkerTTL /\ Spec => []TouchOnce
<1>1. Init => TouchInv
  <2> SUFFICES ASSUME Init PROVE TouchInv
    OBVIOUS
  <2>1. outbox = <<>> /\ DOMAIN outbox = {} /\ now = 0
    BY DEF Init
  <2>2. \A r \in Request : reqs[r].pc = "idle"
    BY DEF Init, IdleReq
  <2> QED BY <2>1, <2>2, InitType, BookingBoundsAssumption DEF TouchInv, TouchOnce
<1>2. MaxTime < MarkerTTL /\ TouchInv /\ [Next]_vars => (MaxTime < MarkerTTL /\ TouchInv)'
  BY NextTouch
<1>3. TouchInv => TouchOnce
  BY DEF TouchInv
<1> QED BY <1>1, <1>2, <1>3, PTL DEF Spec

-----------------------------------------------------------------------------
(* The calendar, while no two requests about one booking overlap *)

\* Requests about different bookings, and the owner's edits, interleave freely.
OneRequestPerBooking ==
  \A p, r \in Request : p # r /\ reqs[p].pc # "idle" /\ reqs[r].pc # "idle" =>
    reqs[p].booking # reqs[r].booking

On(e, b) == calendar[e].status = "on" /\ calendar[e].booking = b

\* Every event of a booking is named on its row or is about to be.
RowNamed(b) ==
  /\ bookings[b].status = "unused" => bookings[b].event = NoEvent
  /\ \A e \in Event : On(e, b) =>
       \/ bookings[b].event = e
       \/ \E r \in Request : reqs[r].pc = "record" /\ reqs[r].booking = b /\ reqs[r].event = e

\* A hook overwrites the event id of a row only when that event is gone or there
\* was none.
ReqNamed(r) ==
  LET q == reqs[r]
      row == bookings[q.booking]
  IN /\ q.pc \in {"check", "write"} =>
          IF q.kind = "create" THEN row.status = "unused" ELSE Exists(q.booking)
     /\ q.pc \in {"hook", "google", "record"} => Exists(q.booking)
     /\ q.pc \in {"hook", "google"} /\ q.kind = "create" => row.event = NoEvent
     /\ q.pc = "google" => q.event = row.event
     /\ q.pc = "record" => IF q.event = NoEvent
                           THEN \A e \in Event : On(e, q.booking) => row.event # e
                           ELSE row.event = NoEvent

Named == (\A b \in Appt : RowNamed(b)) /\ \A r \in Request : ReqNamed(r)

\* What CalendarFollows says of one booking.
Follows(b) ==
  IF Active(b)
  THEN /\ bookings[b].event \in Event /\ On(bookings[b].event, b)
       /\ \A e \in Event : On(e, b) => e = bookings[b].event
       /\ calendar[bookings[b].event].start = bookings[b].start
  ELSE bookings[b].event = NoEvent /\ \A e \in Event : ~On(e, b)

\* The calendar follows a booking unless its hook is still at work.
RowFollows(b) ==
  Exists(b) => \/ Follows(b)
               \/ \E r \in Request : /\ reqs[r].pc \in {"hook", "google", "record"}
                                     /\ reqs[r].booking = b

\* What a hook is about to do fits the row.
ReqFollows(r) ==
  LET q == reqs[r]
      b == q.booking
      row == bookings[b]
  IN /\ q.pc \in {"check", "write"} /\ q.kind = "update" /\ q.status = "keep" => Active(b)
     /\ q.pc \in {"hook", "google"} => /\ HookAction(q) = "cancelled" <=> ~Active(b)
                                       /\ row.event # NoEvent => On(row.event, b)
     /\ q.pc = "google" => q.seen = row.start
     /\ q.pc = "record" => IF q.event = NoEvent THEN ~Active(b)
                           ELSE /\ Active(b) /\ On(q.event, b)
                                /\ calendar[q.event].start = row.start

Followed == (\A b \in Appt : RowFollows(b)) /\ \A r \in Request : ReqFollows(r)

\* A step of request r about booking b leaves the other requests, rows and events.
Frame(r, b) ==
  /\ \A p \in Request \ {r} : reqs'[p] = reqs[p]
  /\ reqs'[r].pc = "idle" \/ reqs'[r].booking = b
  /\ \A a \in Appt \ {b} : bookings'[a] = bookings[a]
  /\ \A e \in Event, a \in Appt \ {b} :
       /\ On(e, a)' <=> On(e, a)
       /\ On(e, a) => calendar'[e].start = calendar[e].start

\* The other bookings and requests do not notice.
LEMMA Elsewhere ==
  ASSUME TypeOK, OneRequestPerBooking, NEW r \in Request, NEW b \in Appt,
         reqs[r].pc # "idle", reqs[r].booking = b, Frame(r, b)
  PROVE  /\ \A a \in Appt \ {b} : RowNamed(a) => RowNamed(a)'
         /\ \A p \in Request \ {r} : ReqNamed(p) => ReqNamed(p)'
         /\ \A a \in Appt \ {b} : RowFollows(a) => RowFollows(a)'
         /\ \A p \in Request \ {r} : ReqFollows(p) => ReqFollows(p)'
<1>a. /\ \A p \in Request : reqs[p].booking \in Appt /\ reqs[p].event \in Event \cup {NoEvent}
      /\ \A a \in Appt : bookings[a].event \in Event \cup {NoEvent}
  BY DEF TypeOK, ReqRow, BookingRow
<1>b. \A p \in Request \ {r} : reqs'[p] = reqs[p] /\ (reqs[p].pc # "idle" => reqs[p].booking # b)
  BY DEF Frame, OneRequestPerBooking
<1>c. ASSUME NEW a \in Appt \ {b}
      PROVE  /\ bookings'[a] = bookings[a] /\ Active(a)' = Active(a) /\ Exists(a)' = Exists(a)
             /\ \A e \in Event : /\ On(e, a)' <=> On(e, a)
                                 /\ On(e, a) => calendar'[e].start = calendar[e].start
  BY DEF Frame, Active, Exists
<1>1. ASSUME NEW a \in Appt \ {b}, RowNamed(a) PROVE RowNamed(a)'
  <2>1. \A p \in Request : reqs[p].pc = "record" /\ reqs[p].booking = a => reqs'[p] = reqs[p]
    BY <1>b
  <2> QED BY <1>1, <1>c, <2>1 DEF RowNamed
<1>2. ASSUME NEW p \in Request \ {r}, ReqNamed(p) PROVE ReqNamed(p)'
  <2>1. CASE reqs[p].pc = "idle"
    BY <1>b, <2>1 DEF ReqNamed
  <2>2. CASE reqs[p].pc # "idle"
    <3>1. PICK a \in Appt \ {b} : a = reqs[p].booking
      BY <1>a, <1>b, <2>2
    <3> QED BY <1>2, <1>b, <1>c, <3>1 DEF ReqNamed, Exists, On
  <2> QED BY <2>1, <2>2
<1>3. ASSUME NEW a \in Appt \ {b}, RowFollows(a) PROVE RowFollows(a)'
  <2>1. \A p \in Request : reqs[p].pc \in {"hook", "google", "record"} /\ reqs[p].booking = a =>
          reqs'[p] = reqs[p]
    BY <1>b
  <2>2. Follows(a) => Follows(a)'
    BY <1>a, <1>c DEF Follows, On
  <2> QED BY <1>3, <1>c, <2>1, <2>2 DEF RowFollows
<1>4. ASSUME NEW p \in Request \ {r}, ReqFollows(p) PROVE ReqFollows(p)'
  <2>1. CASE reqs[p].pc = "idle"
    BY <1>b, <2>1 DEF ReqFollows
  <2>2. CASE reqs[p].pc # "idle"
    <3>1. PICK a \in Appt \ {b} : a = reqs[p].booking
      BY <1>a, <1>b, <2>2
    <3>2. reqs'[p] = reqs[p] /\ HookAction(reqs[p])' = HookAction(reqs[p])
      BY <1>b DEF HookAction
    <3>3. bookings'[a] = bookings[a] /\ Active(a)' = Active(a)
      BY <1>c
    <3>4. bookings[a].event # NoEvent => (On(bookings[a].event, a)' <=> On(bookings[a].event, a))
      BY <1>a, <1>c, <3>3 DEF On
    <3>5. reqs[p].event # NoEvent =>
            /\ On(reqs[p].event, a)' <=> On(reqs[p].event, a)
            /\ On(reqs[p].event, a) =>
                 calendar'[reqs[p].event].start = calendar[reqs[p].event].start
      BY <1>a, <1>c, <3>2 DEF On
    <3> QED BY <1>4, <3>1, <3>2, <3>3, <3>4, <3>5 DEF ReqFollows, Active, On
  <2> QED BY <2>1, <2>2
<1> QED BY <1>1, <1>2, <1>3, <1>4

\* A step of a request that writes neither a row nor the calendar.
Passes(r) ==
  /\ UNCHANGED <<bookings, calendar>>
  /\ \/ /\ reqs[r].pc \in {"check", "write", "notify", "push"}
        /\ reqs'[r].pc \in {"idle", "push"}
     \/ /\ reqs[r].pc = "check" /\ reqs'[r].pc = "write"
        /\ reqs'[r].kind = reqs[r].kind /\ reqs'[r].status = reqs[r].status
     \/ /\ reqs[r].pc = "hook" /\ ~(connected /\ Exists(reqs[r].booking))
        /\ reqs'[r].pc = "notify"
     \/ /\ reqs[r].pc = "google" /\ GoogleCall(reqs[r]) = "nothing"
        /\ reqs'[r].pc = "notify"

\* The steps of a request, by what they change.
LEMMA StepShapes ==
  ASSUME TypeOK, NEW r \in Request, RequestStep(r)
  PROVE  /\ \A p \in Request \ {r} : reqs'[p] = reqs[p]
         /\ reqs'[r].pc = "idle" \/ reqs'[r].booking = reqs[r].booking
         /\ \/ Passes(r)
            \/ InsertBooking(r) \/ MoveBooking(r) \/ CancelBooking(r) \/ UpdateBooking(r)
            \/ HookRead(r) /\ connected /\ Exists(reqs[r].booking)
            \/ CreateEvent(r) \/ PatchEvent(r) \/ DeleteEvent(r) \/ RecordEvent(r)
<1> DEFINE Rest == /\ \A p \in Request \ {r} : reqs'[p] = reqs[p]
                   /\ reqs'[r].pc = "idle" \/ reqs'[r].booking = reqs[r].booking
<1>1. CASE CheckSlot(r)
  <2>1. CASE Goto(r, "write")
    BY <1>1, <2>1, ReqWrites DEF CheckSlot, Passes
  <2>2. CASE Finish(r)
    BY <1>1, <2>2, ReqWrites DEF CheckSlot, Passes
  <2> QED BY <1>1, <2>1, <2>2 DEF CheckSlot
<1>2. CASE RejectInsert(r) \/ Answer(r) \/ AlertOwner(r) \/ PushApproved(r)
  <2>1. Finish(r) /\ UNCHANGED <<bookings, calendar>> /\ reqs[r].pc \in {"write", "notify", "push"}
    BY <1>2 DEF RejectInsert, Answer, AlertOwner, PushApproved
  <2> QED BY <2>1, ReqWrites DEF Passes
<1>3. CASE MarkApproved(r)
  <2>1. CASE Finish(r)
    BY <1>3, <2>1, ReqWrites DEF MarkApproved, Passes
  <2>2. CASE Goto(r, "push")
    BY <1>3, <2>2, ReqWrites DEF MarkApproved, Passes
  <2> QED BY <1>3, <2>1, <2>2 DEF MarkApproved
<1>4. CASE HookRead(r)
  <2>1. CASE connected /\ Exists(reqs[r].booking)
    BY <1>4, <2>1, HookSteps
  <2>2. CASE ~(connected /\ Exists(reqs[r].booking))
    <3>1. Goto(r, "notify") /\ UNCHANGED <<bookings, calendar>> /\ reqs[r].pc = "hook"
      BY <1>4, <2>2 DEF HookRead
    <3> QED BY <2>2, <3>1, ReqWrites DEF Passes
  <2> QED BY <2>1, <2>2
<1>5. CASE NoGoogleCall(r)
  <2>1. Goto(r, "notify") /\ UNCHANGED <<bookings, calendar>> /\ reqs[r].pc = "google"
        /\ GoogleCall(reqs[r]) = "nothing"
    BY <1>5 DEF NoGoogleCall
  <2> QED BY <2>1, ReqWrites DEF Passes
<1>6. CASE InsertBooking(r) \/ MoveBooking(r) \/ CancelBooking(r) \/ UpdateBooking(r)
  <2>1. \E t : Committed(r, t)
    BY <1>6, Writes
  <2>2. Rest
    BY <2>1, ReqWrites
  <2> QED BY <1>6, <2>2
<1>7. CASE PatchEvent(r) \/ RecordEvent(r)
  <2>1. Goto(r, "notify")
    BY <1>7 DEF PatchEvent, RecordEvent
  <2>2. Rest
    BY <2>1, ReqWrites
  <2> QED BY <1>7, <2>2
<1>8. CASE CreateEvent(r) \/ DeleteEvent(r)
  <2>1. Rest
    BY <1>8, HookSteps
  <2> QED BY <1>8, <2>1
<1> QED BY <1>1, <1>2, <1>3, <1>4, <1>5, <1>6, <1>7, <1>8 DEF RequestStep

\* A request touches its own booking and that booking's events.
LEMMA StepFrame ==
  ASSUME PointerInv, NEW r \in Request, RequestStep(r), NEW b \in Appt, b = reqs[r].booking
  PROVE  Frame(r, b) /\ reqs[r].pc # "idle"
<1>a. /\ TypeOK /\ \A p \in Request \ {r} : reqs'[p] = reqs[p]
      /\ reqs'[r].pc = "idle" \/ reqs'[r].booking = b
  BY StepShapes DEF PointerInv
<1>b. reqs[r].event \in Event \cup {NoEvent} /\ \A e \in Event : calendar[e] \in CalendarRow
  BY <1>a DEF TypeOK, ReqRow
<1>c. reqs[r].pc = "google" /\ reqs[r].event # NoEvent =>
        calendar[reqs[r].event].booking = b
  BY DEF PointerInv, HookHoldsOwn, Owns
<1> DEFINE EventsKept == \A e \in Event, a \in Appt \ {b} :
                     /\ On(e, a)' <=> On(e, a)
                     /\ On(e, a) => calendar'[e].start = calendar[e].start
<1>1. CASE Passes(r)
  BY <1>a, <1>1 DEF Frame, Passes, On
<1>2. CASE InsertBooking(r) \/ MoveBooking(r) \/ CancelBooking(r) \/ UpdateBooking(r)
  <2>1. /\ reqs[r].pc = "write" /\ calendar' = calendar
        /\ \A a \in Appt \ {b} : bookings'[a] = bookings[a]
    BY <1>a, <1>2, Writes
  <2> QED BY <1>a, <2>1 DEF Frame, On
<1>3. CASE HookRead(r)
  BY <1>a, <1>3 DEF Frame, HookRead, On
<1>4. CASE CreateEvent(r)
  <2>1. bookings' = bookings /\ reqs[r].pc = "google"
    BY <1>4 DEF CreateEvent
  <2>2. PICK e \in Event :
          /\ calendar[e].status = "unused"
          /\ calendar'[e].status = "on" /\ calendar'[e].booking = b
          /\ \A x \in Event \ {e} : calendar'[x] = calendar[x]
    BY <1>a, <1>4, HookSteps
  <2>3. EventsKept
    BY <2>2 DEF On
  <2> QED BY <1>a, <2>1, <2>3 DEF Frame
<1>5. CASE PatchEvent(r)
  <2>1. bookings' = bookings /\ reqs[r].pc = "google" /\ reqs[r].event # NoEvent
    BY <1>5 DEF PatchEvent, GoogleCall
  <2>2. /\ \A x \in Event : /\ calendar'[x].status = calendar[x].status
                            /\ calendar'[x].booking = calendar[x].booking
        /\ \A x \in Event \ {reqs[r].event} : calendar'[x] = calendar[x]
    BY <1>a, <1>5, HookSteps
  <2>3. EventsKept
    BY <1>c, <2>1, <2>2 DEF On
  <2> QED BY <1>a, <2>1, <2>3 DEF Frame
<1>6. CASE DeleteEvent(r)
  <2>1. bookings' = bookings /\ reqs[r].pc = "google" /\ reqs[r].event # NoEvent
    BY <1>6 DEF DeleteEvent, GoogleCall
  <2>2. /\ \A x \in Event \ {reqs[r].event} : calendar'[x] = calendar[x]
        /\ calendar'[reqs[r].event].status = "deleted"
    BY <1>a, <1>b, <1>6, <2>1, HookSteps
  <2>3. EventsKept
    BY <1>c, <2>1, <2>2 DEF On
  <2> QED BY <1>a, <2>1, <2>3 DEF Frame
<1>7. CASE RecordEvent(r)
  <2>1. calendar' = calendar /\ reqs[r].pc = "record"
        /\ \A a \in Appt \ {b} : bookings'[a] = bookings[a]
    BY <1>a, <1>7, HookSteps DEF RecordEvent
  <2> QED BY <1>a, <2>1 DEF Frame, On
<1> QED BY <1>1, <1>2, <1>3, <1>4, <1>5, <1>6, <1>7, <1>a, StepShapes

\* An event is created only when the row names none, and a row loses the id of its
\* event only when the event is gone.
LEMMA StepNames ==
  ASSUME PointerInv, OneRequestPerBooking, Named, NEW r \in Request, RequestStep(r),
         NEW b \in Appt, b = reqs[r].booking
  PROVE  RowNamed(b)' /\ ReqNamed(r)'
<1> DEFINE q == reqs[r]
           row == bookings[b]
<1>a. /\ TypeOK /\ q \in ReqRow /\ row \in BookingRow
      /\ q.event \in Event \cup {NoEvent} /\ row.event \in Event \cup {NoEvent}
      /\ NoEvent \notin Event
  BY NullAssumption DEF PointerInv, TypeOK, ReqRow, BookingRow
<1>b. ReqNamed(r) /\ RowNamed(b) /\ Frame(r, b) /\ q.pc # "idle"
  BY StepFrame DEF Named
<1>c. \A e \in Event : On(e, b) => row.event = e \/ (q.pc = "record" /\ q.event = e)
  <2>1. \A p \in Request : p # r /\ reqs[p].pc = "record" => reqs[p].booking # b
    BY <1>b DEF OneRequestPerBooking
  <2> QED BY <1>b, <2>1 DEF RowNamed
<1>d. ASSUME bookings'[b].status = "unused" => bookings'[b].event = NoEvent,
             \A e \in Event : On(e, b)' =>
               \/ bookings'[b].event = e
               \/ reqs'[r].pc = "record" /\ reqs'[r].booking = b /\ reqs'[r].event = e
      PROVE  RowNamed(b)'
  BY <1>d DEF RowNamed
<1>e. row.status = "unused" => row.event = NoEvent
  BY <1>b DEF RowNamed
<1>f. q.pc \in {"google", "record"} => row.status # "unused"
  BY <1>b DEF ReqNamed, Exists, BookingStatus
<1>g. q.pc = "google" => q.event = row.event
  BY <1>b DEF ReqNamed
<1>1. CASE Passes(r)
  <2>1. RowNamed(b)'
    BY <1>1, <1>c, <1>d, <1>e DEF Passes, On
  <2>2. reqs'[r].pc \in {"idle", "push", "notify"} \/ q.pc = "check"
    BY <1>1 DEF Passes
  <2>3. CASE q.pc = "check" /\ reqs'[r].pc = "write"
    <3>1. /\ reqs'[r].booking = b /\ reqs'[r].kind = q.kind /\ bookings' = bookings
      BY <1>1, <1>b, <2>3 DEF Passes, Frame
    <3> QED BY <1>b, <2>1, <2>3, <3>1 DEF ReqNamed, Exists
  <2>4. CASE reqs'[r].pc \in {"idle", "push", "notify"}
    BY <2>1, <2>4 DEF ReqNamed
  <2> QED BY <1>1, <2>2, <2>3, <2>4 DEF Passes
<1>2. CASE InsertBooking(r) \/ MoveBooking(r) \/ CancelBooking(r) \/ UpdateBooking(r)
  <2>1. /\ q.pc = "write" /\ calendar' = calendar
        /\ \E t : Committed(r, t)
        /\ \/ q.kind = "create" /\ bookings'[b].status = "pending"
              /\ bookings'[b].event = NoEvent
           \/ q.kind = "move" /\ bookings'[b].status = "pending"
              /\ bookings'[b].event = row.event
           \/ q.kind = "cancel" /\ bookings'[b].status = "cancelled"
              /\ bookings'[b].event = row.event
           \/ /\ q.kind = "update" /\ bookings'[b].event = row.event
              /\ bookings'[b].status = IF q.status = "keep" THEN row.status ELSE q.status
    BY <1>a, <1>2, Writes
  <2>2. reqs'[r].pc = "hook" /\ reqs'[r].kind = q.kind /\ reqs'[r].booking = b
    BY <1>a, <2>1, ReqWrites
  <2>3. IF q.kind = "create" THEN row.status = "unused" ELSE row.status \in BookingStatus
    BY <1>b, <2>1 DEF ReqNamed, Exists
  <2>4. bookings'[b].status \in BookingStatus
    BY <1>a, <2>1, <2>3 DEF BookingStatus, ReqRow
  <2>5. bookings'[b].event = row.event
    BY <2>1, <2>3, <1>e
  <2>6. RowNamed(b)'
    BY <1>c, <1>d, <2>1, <2>4, <2>5 DEF On, BookingStatus
  <2>7. q.kind = "create" => bookings'[b].event = NoEvent
    BY <2>1
  <2> QED BY <2>2, <2>4, <2>6, <2>7 DEF ReqNamed, Exists
<1>3. CASE HookRead(r) /\ connected /\ Exists(b)
  <2>1. /\ q.pc = "hook" /\ bookings' = bookings /\ calendar' = calendar
    BY <1>3 DEF HookRead
  <2>2. /\ reqs'[r].pc = "google" /\ reqs'[r].event = row.event /\ reqs'[r].kind = q.kind
        /\ reqs'[r].booking = b
    BY <1>a, <1>3, HookSteps
  <2>3. RowNamed(b)'
    BY <1>c, <1>d, <1>e, <2>1 DEF On
  <2>4. Exists(b) /\ (q.kind = "create" => row.event = NoEvent)
    BY <1>b, <2>1 DEF ReqNamed
  <2> QED BY <2>1, <2>2, <2>3, <2>4 DEF ReqNamed, Exists
<1>4. CASE CreateEvent(r)
  <2>1. q.pc = "google" /\ bookings' = bookings /\ GoogleCall(q) = "create"
    BY <1>4 DEF CreateEvent
  <2>2. PICK e \in Event :
          /\ calendar'[e].status = "on" /\ calendar'[e].booking = b
          /\ \A x \in Event \ {e} : calendar'[x] = calendar[x]
          /\ reqs'[r].pc = "record" /\ reqs'[r].event = e /\ reqs'[r].booking = b
    BY <1>a, <1>4, HookSteps
  <2>3. q.kind = "create" \/ q.event = NoEvent
    BY <2>1 DEF GoogleCall, HookAction
  <2>4. row.event = NoEvent /\ Exists(b)
    BY <1>b, <1>g, <2>1, <2>3 DEF ReqNamed
  <2>5. RowNamed(b)'
    BY <1>c, <1>d, <1>e, <2>1, <2>2 DEF On
  <2> QED BY <1>a, <2>1, <2>2, <2>4, <2>5 DEF ReqNamed, Exists
<1>5. CASE PatchEvent(r)
  <2>1. q.pc = "google" /\ bookings' = bookings /\ Goto(r, "notify")
    BY <1>5 DEF PatchEvent
  <2>2. \A x \in Event : /\ calendar'[x].status = calendar[x].status
                         /\ calendar'[x].booking = calendar[x].booking
    BY <1>a, <1>5, HookSteps
  <2>3. reqs'[r].pc = "notify"
    BY <1>a, <2>1, ReqWrites
  <2>4. RowNamed(b)'
    BY <1>c, <1>d, <1>e, <2>1, <2>2 DEF On
  <2> QED BY <2>3, <2>4 DEF ReqNamed
<1>6. CASE DeleteEvent(r)
  <2>1. q.pc = "google" /\ bookings' = bookings /\ q.event # NoEvent
    BY <1>6 DEF DeleteEvent, GoogleCall
  <2>2. /\ \A x \in Event \ {q.event} : calendar'[x] = calendar[x]
        /\ calendar'[q.event].status = "deleted"
        /\ reqs'[r].pc = "record" /\ reqs'[r].event = NoEvent /\ reqs'[r].booking = b
    BY <1>a, <1>6, <2>1, HookSteps
  <2>3. \A e \in Event : ~On(e, b)'
    BY <1>c, <1>g, <2>1, <2>2 DEF On
  <2>4. RowNamed(b)'
    BY <1>d, <1>e, <2>1, <2>3
  <2>5. Exists(b)
    BY <1>b, <2>1 DEF ReqNamed
  <2> QED BY <2>1, <2>2, <2>3, <2>4, <2>5 DEF ReqNamed, Exists, On
<1>7. CASE RecordEvent(r)
  <2>1. q.pc = "record" /\ calendar' = calendar /\ Goto(r, "notify")
    BY <1>7 DEF RecordEvent
  <2>2. bookings'[b].event = q.event /\ bookings'[b].status = row.status
    BY <1>a, <1>7, HookSteps
  <2>3. reqs'[r].pc = "notify"
    BY <1>a, <2>1, ReqWrites
  <2>4. IF q.event = NoEvent THEN \A e \in Event : On(e, b) => row.event # e
        ELSE row.event = NoEvent
    BY <1>b, <2>1 DEF ReqNamed
  <2>5. \A e \in Event : On(e, b) => q.event = e
    BY <1>a, <1>c, <2>4
  <2>6. RowNamed(b)'
    BY <1>d, <1>f, <2>1, <2>2, <2>5 DEF On
  <2> QED BY <2>3, <2>6 DEF ReqNamed
<1> QED BY <1>1, <1>2, <1>3, <1>4, <1>5, <1>6, <1>7, <1>a, StepShapes

\* The hook asks Google for what the row calls for, and the calendar follows the
\* booking again when it is done.
LEMMA StepFollows ==
  ASSUME PointerInv, OneRequestPerBooking, Named, Followed, connected,
         NEW r \in Request, RequestStep(r), NEW b \in Appt, b = reqs[r].booking
  PROVE  RowFollows(b)' /\ ReqFollows(r)'
<1> DEFINE q == reqs[r]
           row == bookings[b]
<1>a. /\ TypeOK /\ q \in ReqRow /\ row \in BookingRow
      /\ q.event \in Event \cup {NoEvent} /\ row.event \in Event \cup {NoEvent}
      /\ NoEvent \notin Event
  BY NullAssumption DEF PointerInv, TypeOK, ReqRow, BookingRow
<1>b. /\ ReqNamed(r) /\ RowNamed(b) /\ Frame(r, b) /\ q.pc # "idle"
      /\ ReqFollows(r) /\ RowFollows(b)
  BY StepFrame DEF Named, Followed
<1>c. \A e \in Event : On(e, b) => row.event = e \/ (q.pc = "record" /\ q.event = e)
  <2>1. \A p \in Request : p # r /\ reqs[p].pc = "record" => reqs[p].booking # b
    BY <1>b DEF OneRequestPerBooking
  <2> QED BY <1>b, <2>1 DEF RowNamed
<1>d. q.pc \notin {"hook", "google", "record"} /\ Exists(b) => Follows(b)
  <2>1. \A p \in Request : p # r /\ reqs[p].pc # "idle" => reqs[p].booking # b
    BY <1>b DEF OneRequestPerBooking
  <2> QED BY <1>b, <2>1 DEF RowFollows
<1>e. ASSUME reqs'[r].pc \in {"hook", "google", "record"}, reqs'[r].booking = b
      PROVE  RowFollows(b)'
  BY <1>e DEF RowFollows
<1>g. q.pc = "google" => q.event = row.event /\ Exists(b)
  BY <1>b DEF ReqNamed
<1>h. q.pc = "google" => /\ HookAction(q) = "cancelled" <=> ~Active(b)
                         /\ row.event # NoEvent => On(row.event, b)
                         /\ q.seen = row.start
  BY <1>b DEF ReqFollows
<1>1. CASE Passes(r)
  <2>a. bookings' = bookings /\ calendar' = calendar
    BY <1>1 DEF Passes
  <2>b. Follows(b)' <=> Follows(b)
    BY <2>a DEF Follows, Active, On
  <2>1. CASE q.pc \in {"check", "write", "notify", "push"} /\ reqs'[r].pc \in {"idle", "push"}
    <3>1. RowFollows(b)'
      BY <1>d, <2>a, <2>b, <2>1 DEF RowFollows, Exists
    <3> QED BY <2>1, <3>1 DEF ReqFollows
  <2>2. CASE /\ q.pc = "check" /\ reqs'[r].pc = "write"
             /\ reqs'[r].kind = q.kind /\ reqs'[r].status = q.status
    <3>1. RowFollows(b)' /\ reqs'[r].booking = b
      BY <1>b, <1>d, <2>a, <2>b, <2>2 DEF RowFollows, Exists, Frame
    <3>2. q.kind = "update" /\ q.status = "keep" => Active(b)
      BY <1>b, <2>2 DEF ReqFollows
    <3> QED BY <2>a, <2>2, <3>1, <3>2 DEF ReqFollows, Active
  <2>3. CASE q.pc = "hook" /\ ~(connected /\ Exists(b))
    BY <1>b, <2>3 DEF ReqNamed
  <2>4. CASE q.pc = "google" /\ GoogleCall(q) = "nothing" /\ reqs'[r].pc = "notify"
    <3>1. HookAction(q) = "cancelled" /\ q.event = NoEvent
      BY <2>4 DEF GoogleCall, HookAction
    <3>2. ~Active(b) /\ row.event = NoEvent /\ \A e \in Event : ~On(e, b)
      BY <1>a, <1>c, <1>g, <1>h, <2>4, <3>1
    <3>3. Follows(b)'
      BY <2>b, <3>2 DEF Follows
    <3> QED BY <2>4, <3>3 DEF RowFollows, ReqFollows
  <2> QED BY <1>1, <2>1, <2>2, <2>3, <2>4 DEF Passes
<1>2. CASE InsertBooking(r) \/ MoveBooking(r) \/ CancelBooking(r) \/ UpdateBooking(r)
  <2>1. /\ q.pc = "write" /\ calendar' = calendar
        /\ \E t : Committed(r, t)
        /\ \/ q.kind = "create" /\ bookings'[b].status = "pending"
              /\ bookings'[b].event = NoEvent
           \/ q.kind = "move" /\ bookings'[b].status = "pending"
              /\ bookings'[b].event = row.event
           \/ q.kind = "cancel" /\ bookings'[b].status = "cancelled"
              /\ bookings'[b].event = row.event
           \/ /\ q.kind = "update" /\ bookings'[b].event = row.event
              /\ bookings'[b].status = IF q.status = "keep" THEN row.status ELSE q.status
    BY <1>a, <1>2, Writes
  <2>2. /\ reqs'[r].pc = "hook" /\ reqs'[r].kind = q.kind /\ reqs'[r].booking = b
        /\ reqs'[r].status = q.status
    BY <1>a, <2>1, ReqWrites
  <2>3. q.kind # "create" => Exists(b) /\ Follows(b)
    BY <1>b, <1>d, <2>1 DEF ReqNamed
  <2>4. q.kind = "update" /\ q.status = "keep" => Active(b)
    BY <1>b, <2>1 DEF ReqFollows
  <2>5. bookings'[b].event # NoEvent => On(bookings'[b].event, b)
    BY <2>1, <2>3 DEF Follows
  <2>6. q.status \in BookingStatus \cup {"keep"}
    BY <1>a DEF ReqRow
  <2>7. HookAction(reqs'[r]) = "cancelled" <=> bookings'[b].status \notin ActiveStatuses
    BY <2>1, <2>2, <2>4, <2>6 DEF HookAction, Active, ActiveStatuses, BookingStatus
  <2>8. RowFollows(b)'
    BY <1>e, <2>2
  <2>9. HookAction(reqs[r])' = HookAction(reqs'[r])
    BY DEF HookAction
  <2> QED BY <2>1, <2>2, <2>5, <2>7, <2>8, <2>9 DEF ReqFollows, Active, On
<1>3. CASE HookRead(r) /\ connected /\ Exists(b)
  <2>1. /\ q.pc = "hook" /\ bookings' = bookings /\ calendar' = calendar
    BY <1>3 DEF HookRead
  <2>2. /\ reqs'[r].pc = "google" /\ reqs'[r].event = row.event /\ reqs'[r].kind = q.kind
        /\ reqs'[r].booking = b /\ reqs'[r].status = q.status /\ reqs'[r].seen = row.start
    BY <1>a, <1>3, HookSteps
  <2>3. RowFollows(b)'
    BY <1>e, <2>2
  <2>4. /\ HookAction(q) = "cancelled" <=> ~Active(b)
        /\ row.event # NoEvent => On(row.event, b)
    BY <1>b, <2>1 DEF ReqFollows
  <2>5. HookAction(reqs[r])' = HookAction(q)
    BY <2>2 DEF HookAction
  <2> QED BY <2>1, <2>2, <2>3, <2>4, <2>5 DEF ReqFollows, Active, On
<1>4. CASE CreateEvent(r)
  <2>1. q.pc = "google" /\ bookings' = bookings /\ GoogleCall(q) = "create"
    BY <1>4 DEF CreateEvent
  <2>2. PICK e \in Event :
          /\ calendar'[e].status = "on" /\ calendar'[e].booking = b
          /\ calendar'[e].start = q.seen
          /\ reqs'[r].pc = "record" /\ reqs'[r].event = e /\ reqs'[r].booking = b
    BY <1>a, <1>4, HookSteps
  <2>3. HookAction(q) # "cancelled"
    BY <2>1 DEF GoogleCall, HookAction
  <2>4. Active(b) /\ q.seen = row.start
    BY <1>h, <2>1, <2>3
  <2>5. RowFollows(b)'
    BY <1>e, <2>2
  <2> QED BY <1>a, <2>1, <2>2, <2>4, <2>5 DEF ReqFollows, Active, On
<1>5. CASE PatchEvent(r)
  <2>1. q.pc = "google" /\ bookings' = bookings /\ Goto(r, "notify") /\ GoogleCall(q) = "patch"
    BY <1>5 DEF PatchEvent
  <2>2. q.event # NoEvent /\ HookAction(q) # "cancelled"
    BY <2>1 DEF GoogleCall, HookAction
  <2>3. /\ Active(b) /\ q.event = row.event /\ row.event \in Event /\ On(row.event, b)
        /\ q.seen = row.start
    BY <1>a, <1>g, <1>h, <2>1, <2>2
  <2>4. /\ \A x \in Event : /\ calendar'[x].status = calendar[x].status
                            /\ calendar'[x].booking = calendar[x].booking
        /\ calendar'[q.event].start = q.seen
    BY <1>a, <1>5, <2>3, HookSteps DEF On
  <2>5. reqs'[r].pc = "notify"
    BY <1>a, <2>1, ReqWrites
  <2>6. Follows(b)'
    BY <1>c, <2>1, <2>3, <2>4 DEF Follows, Active, On
  <2> QED BY <2>5, <2>6 DEF RowFollows, ReqFollows
<1>6. CASE DeleteEvent(r)
  <2>1. q.pc = "google" /\ bookings' = bookings /\ HookAction(q) = "cancelled"
    BY <1>6 DEF DeleteEvent, GoogleCall, HookAction
  <2>2. reqs'[r].pc = "record" /\ reqs'[r].event = NoEvent /\ reqs'[r].booking = b
    BY <1>a, <1>6, HookSteps
  <2>3. ~Active(b)
    BY <1>h, <2>1
  <2>4. RowFollows(b)'
    BY <1>e, <2>2
  <2> QED BY <2>1, <2>2, <2>3, <2>4 DEF ReqFollows, Active
<1>7. CASE RecordEvent(r)
  <2>1. q.pc = "record" /\ calendar' = calendar /\ Goto(r, "notify")
    BY <1>7 DEF RecordEvent
  <2>2. /\ bookings'[b].event = q.event /\ bookings'[b].status = row.status
        /\ bookings'[b].start = row.start
    BY <1>a, <1>7, HookSteps
  <2>3. reqs'[r].pc = "notify"
    BY <1>a, <2>1, ReqWrites
  <2>4. IF q.event = NoEvent THEN \A e \in Event : On(e, b) => row.event # e
        ELSE row.event = NoEvent
    BY <1>b, <2>1 DEF ReqNamed
  <2>5. \A e \in Event : On(e, b) => q.event = e
    BY <1>a, <1>c, <2>4
  <2>6. IF q.event = NoEvent THEN ~Active(b)
        ELSE Active(b) /\ On(q.event, b) /\ calendar[q.event].start = row.start
    BY <1>b, <2>1 DEF ReqFollows
  <2>7. Follows(b)'
    BY <1>a, <2>1, <2>2, <2>5, <2>6 DEF Follows, Active, On
  <2> QED BY <2>3, <2>7 DEF RowFollows, ReqFollows
<1> QED BY <1>1, <1>2, <1>3, <1>4, <1>5, <1>6, <1>7, <1>a, StepShapes

\* A step that leaves the calendar, the requests and what the calendar shows of the
\* rows leaves the rest.
LEMMA SameCalendar ==
  ASSUME TypeOK, UNCHANGED <<calendar, reqs>>,
         \A b \in Appt : /\ bookings'[b].status = bookings[b].status
                         /\ bookings'[b].event = bookings[b].event
                         /\ bookings'[b].start = bookings[b].start
  PROVE  (Named => Named') /\ (Followed => Followed')
<1>a. /\ \A r \in Request : reqs[r].booking \in Appt
      /\ \A b \in Appt : (Active(b)' <=> Active(b)) /\ (Exists(b)' <=> Exists(b))
  BY DEF TypeOK, ReqRow, Active, Exists
<1>b. \A e, b : On(e, b)' <=> On(e, b)
  BY DEF On
<1>1. ASSUME NEW b \in Appt PROVE (RowNamed(b) => RowNamed(b)') /\ (RowFollows(b) => RowFollows(b)')
  <2>1. Follows(b) => Follows(b)'
    BY <1>a DEF Follows, On
  <2> QED BY <1>a, <1>b, <2>1 DEF RowNamed, RowFollows
<1>2. ASSUME NEW r \in Request, ReqNamed(r) PROVE ReqNamed(r)'
  <2>1. PICK b \in Appt : b = reqs[r].booking
    BY <1>a
  <2> QED BY <1>2, <1>a, <2>1 DEF ReqNamed, On, Exists
<1>3. ASSUME NEW r \in Request, ReqFollows(r) PROVE ReqFollows(r)'
  <2>1. PICK b \in Appt : b = reqs[r].booking
    BY <1>a
  <2>2. HookAction(reqs[r])' = HookAction(reqs[r])
    BY DEF HookAction
  <2> QED BY <1>3, <1>a, <2>1, <2>2 DEF ReqFollows, On, Active
<1> QED BY <1>1, <1>2, <1>3 DEF Named, Followed

\* A request opens: it is about a row that exists, or about an id nobody has.
LEMMA StartCalendar ==
  ASSUME TypeOK, NEW r \in Request, StartRequest(r)
  PROVE  /\ Named => Named'
         /\ "move_cancelled" \notin OwnerOps /\ Followed => Followed'
<1>a. /\ reqs[r].pc = "idle" /\ reqs'[r].pc \in {"check", "write"}
      /\ \A p \in Request \ {r} : reqs'[p] = reqs[p]
      /\ bookings' = bookings /\ calendar' = calendar
      /\ reqs'[r].booking \in Appt
      /\ reqs'[r].kind = "create" => reqs'[r].booking \in FreeIds
      /\ reqs'[r].kind # "create" => Exists(reqs'[r].booking)
      /\ reqs'[r].kind = "update" /\ reqs'[r].status = "keep"
           /\ bookings[reqs'[r].booking].status = "cancelled" => "move_cancelled" \in OwnerOps
  BY Opens
<1>b. \A e, b : On(e, b)' <=> On(e, b)
  BY <1>a DEF On
<1>1. ASSUME NEW b \in Appt PROVE (RowNamed(b) => RowNamed(b)') /\ (RowFollows(b) => RowFollows(b)')
  <2>1. Follows(b) => Follows(b)'
    BY <1>a DEF Follows, Active, On
  <2>2. \A p \in Request : reqs[p].pc # "idle" => reqs'[p] = reqs[p]
    BY <1>a
  <2>3. RowNamed(b) => RowNamed(b)'
    BY <1>a, <1>b, <2>2 DEF RowNamed
  <2> QED BY <1>a, <2>1, <2>2, <2>3 DEF RowFollows, Exists
<1>2. ASSUME NEW p \in Request, ReqNamed(p) PROVE ReqNamed(p)'
  <2>1. CASE p = r
    <3>1. reqs'[r].kind = "create" => bookings[reqs'[r].booking].status = "unused"
      BY <1>a DEF FreeIds
    <3> QED BY <1>a, <2>1, <3>1 DEF ReqNamed, Exists
  <2>2. CASE p # r
    BY <1>2, <1>a, <2>2 DEF ReqNamed, Exists, On
  <2> QED BY <2>1, <2>2
<1>3. ASSUME "move_cancelled" \notin OwnerOps, NEW p \in Request, ReqFollows(p)
      PROVE  ReqFollows(p)'
  <2>1. CASE p = r
    <3>1. reqs'[r].kind = "update" /\ reqs'[r].status = "keep" =>
            bookings[reqs'[r].booking].status \in ActiveStatuses
      BY <1>3, <1>a DEF Exists, BookingStatus, ActiveStatuses
    <3> QED BY <1>a, <2>1, <3>1 DEF ReqFollows, Active
  <2>2. CASE p # r
    <3>1. HookAction(reqs[p])' = HookAction(reqs[p])
      BY <1>a, <2>2 DEF HookAction
    <3> QED BY <1>3, <1>a, <2>2, <3>1 DEF ReqFollows, Active, On
  <2> QED BY <2>1, <2>2
<1> QED BY <1>1, <1>2, <1>3 DEF Named, Followed

\* What is counted: a failed call, an owner's edit.
LEMMA Counted ==
  ASSUME TypeOK, [Next]_vars
  PROVE  /\ used'.fail = 0 => used.fail = 0 /\ \A r \in Request : ~RequestFault(r)
         /\ used'.edit = 0 => used.edit = 0 /\ ~OwnerEdit
<1>a. used \in [req : Nat, edit : Nat, fail : Nat] /\ used.fail \in Nat /\ used.edit \in Nat
  BY DEF TypeOK
<1>1. ASSUME NEW r \in Request, RequestFault(r)
      PROVE  used'.fail = used.fail + 1 /\ used'.edit = used.edit
  <2>1. used' = [used EXCEPT !.fail = @ + 1]
    BY <1>1 DEF RequestFault, LoseBooking, HookFails, RequestFails
  <2> QED BY <1>a, <2>1
<1>2. ASSUME OwnerEdit
      PROVE  used'.fail = used.fail /\ used'.edit = used.edit + 1
  <2>1. used' = [used EXCEPT !.edit = @ + 1]
    BY <1>2 DEF OwnerEdit, CreateService, UpdateService, DeleteService, UpdateSettings,
       ConnectGoogle, OwnerEdits
  <2> QED BY <1>a, <2>1
<1>3. ASSUME NEW r \in Request, StartRequest(r)
      PROVE  used'.fail = used.fail /\ used'.edit = used.edit
  <2>1. used' = [used EXCEPT !.req = @ + 1]
    BY <1>3 DEF StartRequest, StartCreate, StartCancel, StartMove, StartUpdate, Begin
  <2> QED BY <1>a, <2>1
<1>4. ASSUME UNCHANGED vars \/ Tick \/ \E r \in Request : RequestStep(r)
      PROVE  used' = used
  BY <1>4 DEF vars, Tick, RequestStep, CheckSlot, InsertBooking, RejectInsert, MoveBooking,
     CancelBooking, UpdateBooking, HookRead, NoGoogleCall, CreateEvent, PatchEvent,
     DeleteEvent, RecordEvent, Answer, AlertOwner, MarkApproved, PushApproved
<1>5. /\ used'.fail = used.fail \/ used'.fail = used.fail + 1
      /\ used'.edit = used.edit \/ used'.edit = used.edit + 1
  BY <1>1, <1>2, <1>3, <1>4 DEF Next
<1>6. used'.fail = 0 => used.fail = 0 /\ \A r \in Request : ~RequestFault(r)
  BY <1>a, <1>1, <1>5
<1>7. used'.edit = 0 => used.edit = 0 /\ ~OwnerEdit
  BY <1>a, <1>2, <1>5
<1> QED BY <1>6, <1>7

\* Without failed calls and overlapping requests about a booking, every event is
\* named; without the owner's edits the calendar follows too.  The two hold of the
\* states between the steps of a request, which NoOrphanEvent and CalendarFollows
\* say nothing of.
CalendarInv ==
  /\ PointerInv
  /\ used.fail = 0 => Named
  /\ used.fail = 0 /\ used.edit = 0 /\ connected => Followed

\* Every step.
LEMMA NextCalendar ==
  ASSUME PointerInv, OneRequestPerBooking, [Next]_vars, used'.fail = 0, Named
  PROVE  /\ Named'
         /\ "move_cancelled" \notin OwnerOps /\ used'.edit = 0 /\ connected' /\ connected
            /\ Followed => Followed'
<1>a. TypeOK /\ (\A r \in Request : ~RequestFault(r))
      /\ (used'.edit = 0 => ~OwnerEdit)
  BY Counted DEF PointerInv
<1>1. CASE UNCHANGED vars \/ Tick
  BY <1>1, <1>a, SameCalendar DEF vars, Tick
<1>2. CASE OwnerEdit
  <2>1. UNCHANGED <<calendar, reqs>>
    BY <1>2 DEF OwnerEdit, CreateService, UpdateService, DeleteService, UpdateSettings,
       ConnectGoogle
  <2>2. \A b \in Appt : /\ bookings'[b].status = bookings[b].status
                        /\ bookings'[b].event = bookings[b].event
                        /\ bookings'[b].start = bookings[b].start
    <3>1. CASE \E sv \in Service : DeleteService(sv)
      <4>1. PICK sv \in Service : DeleteService(sv)
        BY <3>1
      <4> TAKE b \in Appt
      <4>2. bookings[b] \in BookingRow
        BY <1>a DEF TypeOK
      <4>3. \/ bookings'[b] = bookings[b]
            \/ bookings'[b] = [bookings[b] EXCEPT !.service = NoService]
        BY <4>1 DEF DeleteService
      <4> QED BY <4>2, <4>3 DEF BookingRow
    <3>2. CASE bookings' = bookings
      BY <3>2
    <3> QED BY <1>2, <3>1, <3>2 DEF OwnerEdit, CreateService, UpdateService, UpdateSettings,
            ConnectGoogle
  <2> QED BY <1>a, <2>1, <2>2, SameCalendar
<1>3. ASSUME NEW r \in Request, StartRequest(r)
      PROVE  Named' /\ ("move_cancelled" \notin OwnerOps /\ Followed => Followed')
  BY <1>3, <1>a, StartCalendar
<1>4. ASSUME NEW r \in Request, RequestStep(r)
      PROVE  Named' /\ (connected /\ Followed => Followed')
  <2>1. PICK b \in Appt : b = reqs[r].booking
    BY <1>a DEF TypeOK, ReqRow
  <2>2. Frame(r, b) /\ reqs[r].pc # "idle"
    BY <1>4, <2>1, StepFrame
  <2>3. /\ \A a \in Appt \ {b} : RowNamed(a)'
        /\ \A p \in Request \ {r} : ReqNamed(p)'
    BY <1>a, <2>1, <2>2, Elsewhere DEF Named
  <2>4. RowNamed(b)' /\ ReqNamed(r)'
    BY <1>4, <2>1, StepNames
  <2>5. Named'
    BY <2>3, <2>4 DEF Named
  <2>6. ASSUME connected, Followed PROVE Followed'
    <3>1. /\ \A a \in Appt \ {b} : RowFollows(a)'
          /\ \A p \in Request \ {r} : ReqFollows(p)'
      BY <2>6, <1>a, <2>1, <2>2, Elsewhere DEF Followed
    <3>2. RowFollows(b)' /\ ReqFollows(r)'
      BY <2>6, <1>4, <2>1, StepFollows
    <3> QED BY <3>1, <3>2 DEF Followed
  <2> QED BY <2>5, <2>6
<1> QED BY <1>a, <1>1, <1>2, <1>3, <1>4 DEF Next

\* At the start there is neither a booking nor an event.
LEMMA InitCalendar == Init => CalendarInv
<1> SUFFICES ASSUME Init PROVE CalendarInv
  OBVIOUS
<1>1. /\ \A b \in Appt : bookings[b].status = "unused" /\ bookings[b].event = NoEvent
      /\ \A e \in Event : calendar[e].status = "unused"
      /\ \A r \in Request : reqs[r].pc = "idle"
  BY DEF Init, NoBooking, IdleReq
<1>2. Named
  BY <1>1 DEF Named, RowNamed, ReqNamed, On
<1>3. Followed
  BY <1>1 DEF Followed, RowFollows, ReqFollows, Exists, BookingStatus
<1> QED BY <1>2, <1>3, InitPointer DEF CalendarInv

\* Between requests every event on the calendar is named on the row of its booking,
\* whoever connects, disconnects or edits services meanwhile, as long as no call
\* fails and no two requests about one booking overlap.
THEOREM SerialNoOrphanEvent ==
  Spec /\ []OneRequestPerBooking => [](used.fail = 0 => NoOrphanEvent)
<1> DEFINE Inv == PointerInv /\ (used.fail = 0 => Named)
<1>1. Init => Inv
  BY InitCalendar DEF CalendarInv
<1>2. Inv /\ OneRequestPerBooking /\ [Next]_vars => Inv'
  <2> SUFFICES ASSUME Inv, OneRequestPerBooking, [Next]_vars PROVE Inv'
    OBVIOUS
  <2>1. PointerInv' /\ TypeOK
    BY NextPointer DEF PointerInv
  <2>2. ASSUME used'.fail = 0 PROVE Named'
    BY <2>1, <2>2, NextCalendar, Counted
  <2> QED BY <2>1, <2>2
<1>3. Inv => (used.fail = 0 => NoOrphanEvent)
  <2> SUFFICES ASSUME Inv, used.fail = 0, Quiet, NEW e \in Event, calendar[e].status = "on"
               PROVE  bookings[calendar[e].booking].event = e
    BY DEF NoOrphanEvent
  <2>1. calendar[e].booking \in Appt
    BY DEF PointerInv, TypeOK, CalendarRow
  <2> QED BY <2>1 DEF Named, RowNamed, On, Quiet
<1> QED BY <1>1, <1>2, <1>3, PTL DEF Spec

\* Between requests a live booking has one event, at its time, named on its row, and
\* a cancelled one has none: the calendar follows the bookings as long as no call
\* fails, no two requests about one booking overlap and nobody moves a cancelled
\* booking through the API.
THEOREM SerialCalendarFollows ==
  "move_cancelled" \notin OwnerOps /\ Spec /\ []OneRequestPerBooking =>
    [](used.fail = 0 => CalendarFollows)
<1> DEFINE NoMove == "move_cancelled" \notin OwnerOps
<1>1. Init => CalendarInv
  BY InitCalendar
<1>2. NoMove /\ CalendarInv /\ OneRequestPerBooking /\ [Next]_vars => (NoMove /\ CalendarInv)'
  <2> SUFFICES ASSUME NoMove, CalendarInv, OneRequestPerBooking, [Next]_vars
               PROVE  CalendarInv'
    OBVIOUS
  <2>1. PointerInv' /\ TypeOK /\ PointerInv
    BY NextPointer DEF PointerInv, CalendarInv
  <2>2. ASSUME used'.fail = 0 PROVE Named'
    BY <2>1, <2>2, NextCalendar, Counted DEF CalendarInv
  <2>3. ASSUME used'.fail = 0, used'.edit = 0, connected' PROVE Followed'
    <3>1. used.fail = 0 /\ used.edit = 0 /\ ~OwnerEdit
      BY <2>1, <2>3, Counted
    <3>2. connected' = connected
      <4>1. CASE UNCHANGED vars \/ Tick
        BY <4>1 DEF vars, Tick, shop
      <4>2. ASSUME NEW r \in Request, StartRequest(r) PROVE connected' = connected
        BY <2>1, <4>2, Opens
      <4>3. ASSUME NEW r \in Request, RequestStep(r) \/ RequestFault(r)
            PROVE  connected' = connected
        BY <4>3 DEF RequestStep, RequestFault, LoseBooking, HookFails, RequestFails, shop,
           CheckSlot, InsertBooking, RejectInsert, MoveBooking, CancelBooking, UpdateBooking,
           HookRead, NoGoogleCall, CreateEvent, PatchEvent, DeleteEvent, RecordEvent, Answer,
           AlertOwner, MarkApproved, PushApproved
      <4> QED BY <3>1, <4>1, <4>2, <4>3 DEF Next
    <3> QED BY <2>1, <2>3, <3>1, <3>2, NextCalendar DEF CalendarInv
  <2> QED BY <2>1, <2>2, <2>3 DEF CalendarInv
<1>3. CalendarInv => (used.fail = 0 => CalendarFollows)
  <2> SUFFICES ASSUME CalendarInv, used.fail = 0, connected, used.edit = 0, Quiet,
                      NEW b \in Appt, Exists(b)
               PROVE  LET events == {e \in Event : calendar[e].status = "on"
                                                   /\ calendar[e].booking = b}
                      IN IF Active(b)
                         THEN /\ events = {bookings[b].event}
                              /\ calendar[bookings[b].event].start = bookings[b].start
                         ELSE events = {} /\ bookings[b].event = NoEvent
    BY DEF CalendarFollows
  <2>1. Follows(b)
    BY DEF CalendarInv, Followed, RowFollows, Quiet
  <2> QED BY <2>1 DEF Follows, On
<1> QED BY <1>1, <1>2, <1>3, PTL DEF Spec

=============================================================================
