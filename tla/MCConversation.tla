--------------------------- MODULE MCConversation ---------------------------
(***************************************************************************)
(* Small instances of Conversation: one questionnaire of two questions, a  *)
(* handoff entry and a booking entry; one message per way the engine can   *)
(* treat a text.                                                           *)
(***************************************************************************)
EXTENDS Conversation, TLC

Name == [key |-> "name", type |-> "text", required |-> TRUE, accept |-> {}]
Phone == [key |-> "phone", type |-> "phone", required |-> TRUE, accept |-> {}]
Photo == [key |-> "photo", type |-> "file", required |-> TRUE, accept |-> {"image"}]

Quote == [name |-> "quote", type |-> "lead", steps |-> <<Name, Phone>>]
Agent == [name |-> "agent", type |-> "human_handoff", steps |-> <<>>]
Visit == [name |-> "visit", type |-> "booking", steps |-> <<>>]

\* The bot of most runs, and three an owner may save over one another.
Bot == <<Quote, Agent, Visit>>
BotWithPhoto == <<[Quote EXCEPT !.steps = <<Photo, Name>>], Agent>>
ShortBot == <<[Quote EXCEPT !.steps = <<Phone>>], Agent>>
BotWithVisit == <<Visit, Agent>>

MCFlowName == {"quote", "agent", "visit"}
MCKey == {"name", "phone", "photo"}
OneBot == {Bot}
EditedBots == {ShortBot, BotWithPhoto, BotWithVisit}

Plain == [blank |-> FALSE, menuKw |-> FALSE, handoffKw |-> FALSE, pick |-> 0,
          skip |-> FALSE, fits |-> {}, media |-> NoMedia]
PickQuote == [Plain EXCEPT !.pick = 1]
PickAgent == [Plain EXCEPT !.pick = 2]
PhoneNo == [Plain EXCEPT !.fits = {"phone"}]
MenuWord == [Plain EXCEPT !.menuKw = TRUE]
AgentWord == [Plain EXCEPT !.handoffKw = TRUE]
Picture == [Plain EXCEPT !.blank = TRUE, !.media = "image"]

FlowMessages == {PickQuote, PhoneNo, Plain}
HandoffMessages == {PickQuote, PhoneNo, AgentWord}
SerialMessages == {PickQuote, PickAgent, PhoneNo, AgentWord, MenuWord, Picture}

Symmetry == Permutations(Lead) \cup Permutations(Worker)

=============================================================================
