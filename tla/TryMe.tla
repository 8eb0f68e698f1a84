-------------------------------- MODULE TryMe --------------------------------
(***************************************************************************)
(* The page on which an owner tries the bot.  The endpoint keeps nothing:  *)
(* the page holds the state of the conversation and sends it along, so the *)
(* state is written here as the number of turns it is the outcome of.      *)
(***************************************************************************)
EXTENDS Pages

CONSTANT MaxTurns  \* bound: messages sent and conversations started

VARIABLES
  tm,    \* the page: transcript, held state, what it waits for
  tmnet  \* the call in flight

tmvars == <<tm, tmnet>>

Customer == 0  \* a bubble of the customer; any other number is a turn of the bot

TMInit ==
    /\ tm = [entries |-> <<>>, state |-> 0, opening |-> TRUE, sending |-> FALSE, turns |-> 0]
    /\ tmnet = {[kind |-> "open", state |-> 0]}

\* open(): everything is dropped and an empty message fetches the greeting.
OpenChat ==
    /\ tm' = [tm EXCEPT !.entries = <<>>, !.state = 0, !.opening = TRUE, !.turns = @ + 1]
    /\ tmnet' = tmnet \cup {[kind |-> "open", state |-> 0]}

\* Fault: a new conversation is started while an answer of the old one is awaited.
OnResetAnytime == ~tm.opening /\ tm.turns < MaxTurns /\ OpenChat

\* The button is disabled while the page waits for an answer.
OnReset == ~tm.opening /\ ~tm.sending /\ tm.turns < MaxTurns /\ OpenChat

OnSubmit ==
    /\ ~tm.opening /\ ~tm.sending /\ tm.turns < MaxTurns
    /\ tm' = [tm EXCEPT !.entries = Append(@, Customer), !.sending = TRUE, !.turns = @ + 1]
    /\ tmnet' = tmnet \cup {[kind |-> "turn", state |-> tm.state]}

\* finally: the call, whatever came of it, is no longer waited for.
Returned(t, c) ==
    IF c.kind = "open" THEN [t EXCEPT !.opening = FALSE] ELSE [t EXCEPT !.sending = FALSE]

\* applyResponse: the replies, with the card of a lead or a handoff, are appended.
ApplyResponse(c) ==
    /\ tm' = [Returned(tm, c) EXCEPT !.state = c.state + 1,
                                     !.entries = Append(@, c.state + 1)]
    /\ tmnet' = tmnet \ {c}

\* An error is shown; the customer's bubble stays without an answer.
TurnFails(c) ==
    /\ tm' = Returned(tm, c)
    /\ tmnet' = tmnet \ {c}

TMNext ==
    \/ OnReset \/ OnSubmit
    \/ \E c \in tmnet : ApplyResponse(c) \/ TurnFails(c)

\* The held state is the one of the conversation on screen: the transcript shows
\* each turn it is the outcome of, once and in order, and no turn of a conversation
\* that was dropped, whatever was sent, failed or started over.
InStep ==
    LET bot == {i \in DOMAIN tm.entries : tm.entries[i] # Customer}
    IN /\ {tm.entries[i] : i \in bot} = 1 .. tm.state
       /\ \A i, j \in bot : i < j => tm.entries[i] < tm.entries[j]
=============================================================================
