------------------------------ MODULE SaveForm ------------------------------
(***************************************************************************)
(* What an owner may expect of a form with a save button, whatever form it *)
(* is: while the form says "saved", what it shows is what the server keeps.*)
(* The forms of the owner's pages are shown to implement this.             *)
(***************************************************************************)
VARIABLES
  shown,   \* what the form shows
  stored,  \* what the server keeps, as the form would show it
  note     \* the form says that it is saved

vars == <<shown, stored, note>>

Init == ~note

\* The owner, an assistant or a late answer changes what is shown.
Edit == ~note' /\ UNCHANGED stored

\* A save takes effect on the server.
Store == ~note /\ UNCHANGED <<shown, note>>

\* The form learns of it: it adopts what the server keeps.
Acknowledge == note' /\ shown' = stored /\ UNCHANGED stored

Next == Edit \/ Store \/ Acknowledge

Spec == Init /\ [][Next]_vars
=============================================================================
