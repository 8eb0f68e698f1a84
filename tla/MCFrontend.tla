------------------------------ MODULE MCFrontend ------------------------------
(***************************************************************************)
(* A small instance of every page: two flows, two services with different  *)
(* times, three images, two conversations, leads and bookings.             *)
(***************************************************************************)
EXTENDS Frontend

\* A new bot, and one with a questionnaire (one choice step) and a booking flow.
Choice == [EmptyStep(1) EXCEPT !.type = "choice", !.options = <<"x", "y">>]
MCBots ==
    {[profile |-> FALSE, pub |-> FALSE, flows |-> <<>>],
     [profile |-> TRUE, pub |-> TRUE,
      flows |-> <<[EmptyFlow(1) EXCEPT !.steps = <<Choice>>],
                  [EmptyFlow(2) EXCEPT !.type = "booking", !.steps = <<>>, !.msg = "own"]>>]}

MCSettings == {[hours |-> <<"valid">>, days |-> 1, welcome |-> "null"]}
MCDetails == {[name |-> "name", link |-> "none", logo |-> "none"]}
MCNumbers == {<<>>, <<[phone |-> "a", label |-> TRUE]>>}
MCServices == {{[id |-> i, active |-> TRUE] : i \in 1 .. 2}}

\* Two images in order, and three with gaps that deletions have left.
Image(id, ord) == [id |-> id, ord |-> ord, cap |-> "none"]
MCGalleries == {{Image(1, 0), Image(2, 1)}, {Image(1, 0), Image(2, 2), Image(3, 4)}}

\* The two services are offered at different times of a day, one twice a day.
MCOffer == << <<{9, 11}, {10}>>, <<{10}, {9}>> >>

MCChats == {<<"waiting", "waiting">>, <<"waiting", "bot">>}
MCLeads ==
    {{[id |-> 1, status |-> "in_progress", flow |-> "quote", match |-> TRUE],
      [id |-> 2, status |-> "new", flow |-> "agent", match |-> FALSE]}}
MCBookings ==
    {{[id |-> 1, status |-> "pending", day |-> 1], [id |-> 2, status |-> "confirmed", day |-> 1]}}
=============================================================================
