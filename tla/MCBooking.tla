------------------------------ MODULE MCBooking ------------------------------
(***************************************************************************)
(* Small instances of Booking.  The unit of time is an hour; a day, the    *)
(* pad around it, durations, buffers and working hours have the values the *)
(* code and its validators allow.                                          *)
(***************************************************************************)
EXTENDS Booking, TLC

Hours(from, to) == {[s |-> from, e |-> to]}
EveryDay(ranges) == [d \in 0 .. WeekLen - 1 |-> ranges]

\* A morning without breaks, and one with a break of an hour whose hours and
\* notice the owner may change.
Morning == [buffer |-> 0, notice |-> 0, ahead |-> 1, hours |-> EveryDay(Hours(8, 11))]
Spaced == [Morning EXCEPT !.buffer = 1, !.hours = EveryDay(Hours(8, 12))]
Later == [Spaced EXCEPT !.hours = EveryDay(Hours(8, 9) \cup Hours(9, 13)), !.notice = 9]

OneSetting == {Morning}
SpacedSettings == {Spaced, Later}

\* AnyAppt, which CHOOSE fixes, only fills fields that nothing reads.
Symmetry == Permutations(Appt) \cup Permutations(Event)
              \cup Permutations(Request) \cup Permutations(Service)

=============================================================================
