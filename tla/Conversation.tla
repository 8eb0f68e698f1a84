---------------------------- MODULE Conversation ----------------------------
(***************************************************************************)
(* One tenant's conversations: the bot runtime (bot_runtime.run_turn) as   *)
(* it interleaves with itself, with the owner's dashboard and with the two *)
(* background sweeps, over the two stores it writes:                       *)
(*   Redis     chats[c]: status, engine state, active lead id and the time *)
(*             of the last activity (conversation_state.py)                *)
(*   Postgres  leads[l]: the lead rows (services/leads/)                   *)
(*                                                                         *)
(* A turn is one await-free stretch per action: each action is one Redis   *)
(* accessor or one Postgres transaction.  Nothing serialises the turns of  *)
(* one chat, so several workers may be inside run_turn for it.             *)
(*                                                                         *)
(* Timestamps are modelled by the age they have reached, counted in Ticks  *)
(* and capped just past Hour, the one threshold both sweeps and run_turn   *)
(* compare with.                                                           *)
(*                                                                         *)
(* A definition whose comment begins with "Fault" is a plausible mistake   *)
(* in the definition after it.  No action uses it: it is there to show     *)
(* that a property notices the mistake.                                    *)
(***************************************************************************)
EXTENDS BotEngine

CONSTANTS
  Conv,          \* conversation ids of the tenant
  Lead,          \* ids of the lead rows that can be created
  NoLead,        \* "no lead id" (None)
  Worker,        \* concurrent run_turn calls
  Sweeper,       \* backend processes, each with a stale-handoff loop
  NoSweeper,     \* nobody holds the sweep lock
  Configs,       \* the bot configurations the owner saves
  Inbound,       \* the messages customers send
  Hour,          \* STALE_HANDOFF_SECONDS and ABANDONED_AFTER_MINUTES, in ticks
  OwnerOps,      \* the dashboard operations the owner uses
  MaxInbound,    \* bound: inbound messages
  MaxOwner,      \* bound: dashboard operations
  MaxFail,       \* bound: process crashes and failed transactions
  MaxTurnTicks   \* bound: ticks one run_turn call may span

ASSUME ConfigsAssumption == Configs # {} /\ Configs \subseteq Config
ASSUME InboundAssumption == Inbound # {} /\ Inbound \subseteq Message
ASSUME ConvAssumption == Conv # {}
ASSUME NoneAssumption == NoLead \notin Lead /\ NoSweeper \notin Sweeper
ASSUME NoFlowAssumption == NoFlow \notin FlowName
ASSUME BoundsAssumption ==
  /\ Hour \in Nat /\ MaxTurnTicks \in Nat
  /\ MaxInbound \in Nat /\ MaxOwner \in Nat /\ MaxFail \in Nat
ASSUME OwnerOpsAssumption ==
  OwnerOps \subseteq {"status", "reply", "lead_status", "delete", "save_bot"}

VARIABLES
  bot,       \* the saved bot configuration (bot_settings)
  chats,     \* Redis: the conversation hashes
  leads,     \* Postgres: the lead rows
  turns,     \* the run_turn call of each worker
  sweeps,    \* the stale-handoff pass of each process
  lock,      \* who took lock:stale_handoff_sweep
  toClose,   \* the chats the abandoned sweep has still to close
  notices,   \* observer: closing messages sent since the customer last wrote
  used       \* how much of each bound is used, and whether a turn was torn

vars == <<bot, chats, leads, turns, sweeps, lock, toClose, notices, used>>

-----------------------------------------------------------------------------
(* Types *)

Age == 0 .. Hour + 1
Older(a) == IF a <= Hour THEN a + 1 ELSE a

ChatStatus == {"none", "bot", "waiting", "human", "closed"}
Handled == {"waiting", "human"}
LeadStatus == {"in_progress", "new", "abandoned", "deal", "closed"}
CloseReason == {"null", "completed", "abandoned", "answered"}

Chat == [status : ChatStatus, stamped : BOOLEAN, idle : Age,
         state : EngineState, lead : Lead \cup {NoLead}]

LeadRow == [status : LeadStatus \cup {"unused", "deleted"}, conv : Conv,
            flow : FlowName \cup {NoFlow}, idle : Age, answers : SUBSET Key,
            reason : CloseReason, handoff : BOOLEAN]

PC == {"idle", "status", "activity", "reset", "silent", "touch", "log", "load",
       "persist", "handoff", "save", "reply", "close"}

TurnResult == [state : EngineState, event : Event, lead : SUBSET Key]

Turn == [pc : PC, conv : Conv, msg : Message, status : ChatStatus,
         lead : Lead \cup {NoLead}, res : TurnResult, age : Nat]

Sweep == [pc : {"idle", "pass", "append", "close"}, todo : SUBSET Conv,
          conv : Conv]

TypeOK ==
  /\ bot \in Configs
  /\ chats \in [Conv -> Chat]
  /\ leads \in [Lead -> LeadRow]
  /\ turns \in [Worker -> Turn]
  /\ sweeps \in [Sweeper -> Sweep]
  /\ lock \in Sweeper \cup {NoSweeper}
  /\ toClose \subseteq Conv
  /\ notices \in [Conv -> 0 .. 2]
  /\ used \in [inbound : Nat, owner : Nat, fail : Nat, torn : BOOLEAN]

-----------------------------------------------------------------------------
(* Initial state *)

AnyConv == CHOOSE c \in Conv : TRUE
AnyMsg == CHOOSE m \in Inbound : TRUE

\* What get_status, get_state and get_last_activity_at say of a missing hash.
FreshChat == [status |-> "none", stamped |-> FALSE, idle |-> 0,
              state |-> InitialState, lead |-> NoLead]

NoRow == [status |-> "unused", conv |-> AnyConv, flow |-> NoFlow, idle |-> 0,
          answers |-> {}, reason |-> "null", handoff |-> FALSE]

IdleTurn == [pc |-> "idle", conv |-> AnyConv, msg |-> AnyMsg, status |-> "none",
             lead |-> NoLead, res |-> Result(InitialState, NoEvent, {}), age |-> 0]

IdleSweep == [pc |-> "idle", todo |-> {}, conv |-> AnyConv]

Init ==
  /\ bot \in Configs
  /\ chats = [c \in Conv |-> FreshChat]
  /\ leads = [l \in Lead |-> NoRow]
  /\ turns = [w \in Worker |-> IdleTurn]
  /\ sweeps = [s \in Sweeper |-> IdleSweep]
  /\ lock = NoSweeper
  /\ toClose = {}
  /\ notices = [c \in Conv |-> 0]
  /\ used = [inbound |-> 0, owner |-> 0, fail |-> 0, torn |-> FALSE]

-----------------------------------------------------------------------------
(* conversation_state: the accessors run_turn, the dashboard and sweeps use *)

Stamped(chat) == [chat EXCEPT !.stamped = TRUE, !.idle = 0]
WithStatus(chat, s) == [Stamped(chat) EXCEPT !.status = s]

AppendMessage(c) == chats' = [chats EXCEPT ![c] = Stamped(@)]
SetStatus(c, s) == chats' = [chats EXCEPT ![c] = WithStatus(@, s)]
\* Fault: the status hash is cleared and the engine state is left behind.
ResetKeepsState(c) ==
  chats' = [chats EXCEPT ![c] = [FreshChat EXCEPT !.state = chats[c].state,
                                                  !.lead = chats[c].lead]]
ResetConversation(c) == chats' = [chats EXCEPT ![c] = FreshChat]
SetState(c, st, l) == chats' = [chats EXCEPT ![c] = [@ EXCEPT !.state = st, !.lead = l]]

IsStale(stamped, age) == stamped /\ age > Hour

-----------------------------------------------------------------------------
(* services/leads: the rows *)

Live(l) == leads[l].status \in LeadStatus
LeadsOf(c) == {l \in Lead : Live(l) /\ leads[l].conv = c}

\* get_active_lead_id_by_conversation: the newest by last_activity_at.  Stamps
\* of one tick are not told apart, so any of them may be the newest.
NewestLeads(c) ==
  {l \in LeadsOf(c) : \A k \in LeadsOf(c) : leads[l].idle <= leads[k].idle}

NewLead(c, f, asked) ==
  [status |-> "in_progress", conv |-> c, flow |-> f, idle |-> 0,
   answers |-> {}, reason |-> "null", handoff |-> asked]

CreateLead(l, c, f, asked) ==
  /\ leads[l].status = "unused"
  /\ leads' = [leads EXCEPT ![l] = NewLead(c, f, asked)]

UpdateLead(l, answers) ==
  leads' = [leads EXCEPT ![l] = [@ EXCEPT !.answers = answers, !.idle = 0]]

CompleteLead(l, answers) ==
  leads' = [leads EXCEPT ![l] = [@ EXCEPT !.answers = answers, !.status = "new",
                                          !.reason = "completed", !.idle = 0]]

TouchLead(l) == leads' = [leads EXCEPT ![l] = [@ EXCEPT !.idle = 0]]

-----------------------------------------------------------------------------
(* run_turn: one action per Redis accessor or Postgres transaction *)

Goto(w, pc) == turns' = [turns EXCEPT ![w].pc = pc]
Finish(w) == turns' = [turns EXCEPT ![w] = IdleTurn]

\* The webhook accepted an inbound message: run_turn is called.
Receive(w, c, m) ==
  /\ turns[w].pc = "idle"
  /\ used.inbound < MaxInbound
  /\ turns' = [turns EXCEPT ![w] = [IdleTurn EXCEPT !.pc = "status",
                                                    !.conv = c, !.msg = m]]
  /\ used' = [used EXCEPT !.inbound = @ + 1]
  /\ notices' = [notices EXCEPT ![c] = 0]
  /\ UNCHANGED <<bot, chats, leads, sweeps, lock, toClose>>

\* get_status, and the branch it decides.
ReadStatus(w) ==
  LET s == chats[turns[w].conv].status IN
  /\ turns[w].pc = "status"
  /\ turns' = [turns EXCEPT ![w] =
                 [@ EXCEPT !.status = s,
                           !.pc = IF s \in Handled THEN "activity"
                                  ELSE IF s = "closed" THEN "reset" ELSE "log"]]
  /\ UNCHANGED <<bot, chats, leads, sweeps, lock, toClose, notices, used>>

\* get_last_activity_at: a handoff idle for more than an hour starts over.
ReadActivity(w) ==
  LET chat == chats[turns[w].conv] IN
  /\ turns[w].pc = "activity"
  /\ Goto(w, IF IsStale(chat.stamped, chat.idle) THEN "reset" ELSE "silent")
  /\ UNCHANGED <<bot, chats, leads, sweeps, lock, toClose, notices, used>>

ResetChat(w) ==
  /\ turns[w].pc = "reset"
  /\ ResetConversation(turns[w].conv)
  /\ Goto(w, "log")
  /\ UNCHANGED <<bot, leads, sweeps, lock, toClose, notices, used>>

\* A human handles the chat: record the message and say nothing.
SilentLog(w) ==
  /\ turns[w].pc = "silent"
  /\ AppendMessage(turns[w].conv)
  /\ Goto(w, "touch")
  /\ UNCHANGED <<bot, leads, sweeps, lock, toClose, notices, used>>

\* The transaction that restarts the abandoned clock of the newest lead.
SilentTouch(w) ==
  LET newest == NewestLeads(turns[w].conv) IN
  /\ turns[w].pc = "touch"
  /\ IF newest = {} THEN UNCHANGED leads ELSE \E l \in newest : TouchLead(l)
  /\ Finish(w)
  /\ UNCHANGED <<bot, chats, sweeps, lock, toClose, notices, used>>

LogMessage(w) ==
  /\ turns[w].pc = "log"
  /\ AppendMessage(turns[w].conv)
  /\ Goto(w, "load")
  /\ UNCHANGED <<bot, leads, sweeps, lock, toClose, notices, used>>

\* get_state, get_settings and the pure engine.
LoadAndAdvance(w) ==
  LET chat == chats[turns[w].conv] IN
  /\ turns[w].pc = "load"
  /\ turns' = [turns EXCEPT ![w] =
                 [@ EXCEPT !.pc = "persist", !.lead = chat.lead,
                           !.res = Advance(bot, chat.state, turns[w].msg)]]
  /\ UNCHANGED <<bot, chats, leads, sweeps, lock, toClose, notices, used>>

-----------------------------------------------------------------------------
(* The one transaction of a turn, by what the engine's result asks of it *)

EnteredFlow(t) == t.lead = NoLead /\ t.res.state.phase = "in_flow"
AnsweredStep(t) == t.lead # NoLead /\ t.res.state.phase = "in_flow"
Saving(w, l) == turns' = [turns EXCEPT ![w] = [@ EXCEPT !.pc = "save", !.lead = l]]

\* Inserting a flow event of a deleted lead breaks its foreign key.
LeadGone(t) == t.lead # NoLead /\ ~Live(t.lead)

StartLead(w) ==
  LET t == turns[w] IN
  /\ t.pc = "persist"
  /\ EnteredFlow(t)
  /\ \E l \in Lead :
       CreateLead(l, t.conv, t.res.state.flow, FALSE) /\ Saving(w, l)
  /\ UNCHANGED <<bot, chats, sweeps, lock, toClose, notices, used>>

RecordStep(w) ==
  LET t == turns[w] IN
  /\ t.pc = "persist"
  /\ AnsweredStep(t) /\ ~LeadGone(t)
  /\ UpdateLead(t.lead, t.res.state.collected)
  /\ Saving(w, t.lead)
  /\ UNCHANGED <<bot, chats, sweeps, lock, toClose, notices, used>>

FinishLead(w) ==
  LET t == turns[w] IN
  /\ t.pc = "persist"
  /\ t.res.event = "lead_completed" /\ ~LeadGone(t)
  /\ IF t.lead = NoLead THEN UNCHANGED leads ELSE CompleteLead(t.lead, t.res.lead)
  /\ Saving(w, t.lead)
  /\ UNCHANGED <<bot, chats, sweeps, lock, toClose, notices, used>>

\* The booking link is sent; the request becomes a lead of its own.
BookingLead(w) ==
  LET t == turns[w] IN
  /\ t.pc = "persist"
  /\ t.res.event = "booking"
  /\ IF t.lead = NoLead
     THEN \E l \in Lead : CreateLead(l, t.conv, NoFlow, FALSE) /\ Saving(w, l)
     ELSE UNCHANGED leads /\ Saving(w, t.lead)
  /\ UNCHANGED <<bot, chats, sweeps, lock, toClose, notices, used>>

NothingToPersist(w) ==
  LET t == turns[w] IN
  /\ t.pc = "persist"
  /\ t.res.event = NoEvent /\ t.res.state.phase # "in_flow"
  /\ Saving(w, t.lead)
  /\ UNCHANGED <<bot, chats, leads, sweeps, lock, toClose, notices, used>>

\* Fault: the engine's phase is written where the chat status belongs.
MarkHandedOff(w) ==
  LET t == turns[w] IN
  /\ t.pc = "persist"
  /\ t.res.event = "handed_off"
  /\ SetStatus(t.conv, "handed_off")
  /\ Goto(w, "handoff")
  /\ UNCHANGED <<bot, leads, sweeps, lock, toClose, notices, used>>

\* The handoff branch writes Redis inside the transaction, before its inserts.
MarkWaiting(w) ==
  LET t == turns[w] IN
  /\ t.pc = "persist"
  /\ t.res.event = "handed_off"
  /\ SetStatus(t.conv, "waiting")
  /\ Goto(w, "handoff")
  /\ UNCHANGED <<bot, leads, sweeps, lock, toClose, notices, used>>

\* Fault: only a lead that is already open is told about the handoff.
HandOffOpenLead(w) ==
  LET t == turns[w] IN
  /\ t.pc = "handoff"
  /\ ~LeadGone(t)
  /\ IF t.lead = NoLead
     THEN UNCHANGED leads
     ELSE leads' = [leads EXCEPT ![t.lead] = [@ EXCEPT !.handoff = TRUE]]
  /\ Saving(w, t.lead)
  /\ UNCHANGED <<bot, chats, sweeps, lock, toClose, notices, used>>

HandOff(w) ==
  LET t == turns[w] IN
  /\ t.pc = "handoff"
  /\ ~LeadGone(t)
  /\ IF t.lead = NoLead
     THEN \E l \in Lead : CreateLead(l, t.conv, NoFlow, TRUE) /\ Saving(w, l)
     ELSE /\ leads' = [leads EXCEPT ![t.lead] = [@ EXCEPT !.handoff = TRUE]]
          /\ Saving(w, t.lead)
  /\ UNCHANGED <<bot, chats, sweeps, lock, toClose, notices, used>>

\* The transaction raises and rolls back; run_turn ends without a reply.
RejectTransaction(w) ==
  LET t == turns[w] IN
  /\ \/ t.pc = "persist" /\ (AnsweredStep(t) \/ t.res.event = "lead_completed")
     \/ t.pc = "handoff"
  /\ LeadGone(t)
  /\ Finish(w)
  /\ UNCHANGED <<bot, chats, leads, sweeps, lock, toClose, notices, used>>

-----------------------------------------------------------------------------
(* After the commit *)

\* Fault: the lead id is saved whatever phase the turn ends in.
SaveStateWithLead(w) ==
  LET t == turns[w] IN
  /\ t.pc = "save"
  /\ SetState(t.conv, t.res.state, t.lead)
  /\ Goto(w, "reply")
  /\ UNCHANGED <<bot, leads, sweeps, lock, toClose, notices, used>>

SaveState(w) ==
  LET t == turns[w] IN
  /\ t.pc = "save"
  /\ SetState(t.conv, t.res.state,
              IF t.res.state.phase = "in_flow" THEN t.lead ELSE NoLead)
  /\ Goto(w, "reply")
  /\ UNCHANGED <<bot, leads, sweeps, lock, toClose, notices, used>>

\* Every reply is mirrored onto the transcript.
Reply(w) ==
  /\ turns[w].pc = "reply"
  /\ AppendMessage(turns[w].conv)
  /\ IF turns[w].res.event \in {"lead_completed", "booking"}
     THEN Goto(w, "close") ELSE Finish(w)
  /\ UNCHANGED <<bot, leads, sweeps, lock, toClose, notices, used>>

CloseChat(w) ==
  /\ turns[w].pc = "close"
  /\ SetStatus(turns[w].conv, "closed")
  /\ Finish(w)
  /\ UNCHANGED <<bot, leads, sweeps, lock, toClose, notices, used>>

\* A crash, a Redis error or a failed transaction ends the turn where it is.  It is
\* torn if it has completed a lead and has not yet saved the state that says so.
Torn(t) == t.pc = "save" /\ t.res.event = "lead_completed"
TurnFails(w) ==
  /\ turns[w].pc # "idle"
  /\ used.fail < MaxFail
  /\ Finish(w)
  /\ used' = [used EXCEPT !.fail = @ + 1, !.torn = @ \/ Torn(turns[w])]
  /\ UNCHANGED <<bot, chats, leads, sweeps, lock, toClose, notices>>

TurnStep(w) ==
  \/ ReadStatus(w) \/ ReadActivity(w) \/ ResetChat(w)
  \/ SilentLog(w) \/ SilentTouch(w) \/ LogMessage(w) \/ LoadAndAdvance(w)
  \/ StartLead(w) \/ RecordStep(w) \/ FinishLead(w) \/ BookingLead(w)
  \/ NothingToPersist(w) \/ MarkWaiting(w) \/ HandOff(w) \/ RejectTransaction(w)
  \/ SaveState(w) \/ Reply(w) \/ CloseChat(w)

-----------------------------------------------------------------------------
(* The owner's dashboard *)

OwnerDoes(op) ==
  /\ op \in OwnerOps
  /\ used.owner < MaxOwner
  /\ used' = [used EXCEPT !.owner = @ + 1]

OwnerSetsStatus(c, s) ==
  /\ OwnerDoes("status")
  /\ SetStatus(c, s)
  /\ UNCHANGED <<bot, leads, turns, sweeps, lock, toClose, notices>>

OwnerReplies(c) ==
  /\ OwnerDoes("reply")
  /\ AppendMessage(c)
  /\ UNCHANGED <<bot, leads, turns, sweeps, lock, toClose, notices>>

\* Closing a lead whose chat a human handles also records why it closed.
OwnerSetsLeadStatus(l, s) ==
  /\ OwnerDoes("lead_status")
  /\ Live(l)
  /\ leads' = [leads EXCEPT ![l] = [@ EXCEPT !.status = s, !.idle = 0,
                 !.reason = IF /\ s = "closed"
                               /\ chats[leads[l].conv].status \in Handled
                            THEN "answered" ELSE leads[l].reason]]
  /\ UNCHANGED <<bot, chats, turns, sweeps, lock, toClose, notices>>

OwnerDeletesLead(l) ==
  /\ OwnerDoes("delete")
  /\ Live(l)
  /\ leads' = [leads EXCEPT ![l] = [@ EXCEPT !.status = "deleted"]]
  /\ UNCHANGED <<bot, chats, turns, sweeps, lock, toClose, notices>>

OwnerSavesBot(cfg) ==
  /\ OwnerDoes("save_bot")
  /\ bot' = cfg
  /\ UNCHANGED <<chats, leads, turns, sweeps, lock, toClose, notices>>

OwnerStep ==
  \/ \E c \in Conv : \/ \E s \in ChatStatus \ {"none"} : OwnerSetsStatus(c, s)
                     \/ OwnerReplies(c)
  \/ \E l \in Lead : \/ \E s \in LeadStatus : OwnerSetsLeadStatus(l, s)
                     \/ OwnerDeletesLead(l)
  \/ \E cfg \in Configs : OwnerSavesBot(cfg)

-----------------------------------------------------------------------------
(* stale_handoff_sweep: under a lock that expires and is never released *)

\* Fault: only chats an owner took over count as handoffs.
StaleTakenOver == {c \in Conv : /\ chats[c].status = "human"
                                /\ IsStale(chats[c].stamped, chats[c].idle)}

\* What list_conversations shows open and silent for more than an hour.
StaleChats == {c \in Conv : /\ chats[c].status # "closed"
                            /\ IsStale(chats[c].stamped, chats[c].idle)}

\* Take the lock and list the conversations.  A pass takes minutes at most, so
\* the age of a listed stamp is judged at once; a pass that finds nothing stale
\* changes nothing and is left out.
SweepList(s) ==
  /\ sweeps[s].pc = "idle"
  /\ lock = NoSweeper
  /\ StaleChats # {}
  /\ lock' = s
  /\ sweeps' = [sweeps EXCEPT ![s].pc = "pass", ![s].todo = StaleChats]
  /\ UNCHANGED <<bot, chats, leads, turns, toClose, notices, used>>

\* The closing message goes out for a chat the listing showed stale.
SweepSend(s, c) ==
  /\ sweeps[s].pc = "pass"
  /\ c \in sweeps[s].todo
  /\ sweeps' = [sweeps EXCEPT ![s].pc = "append", ![s].conv = c,
                              ![s].todo = @ \ {c}]
  /\ notices' = [notices EXCEPT ![c] = IF @ < 2 THEN @ + 1 ELSE @]
  /\ UNCHANGED <<bot, chats, leads, turns, lock, toClose, used>>

SweepAppend(s) ==
  /\ sweeps[s].pc = "append"
  /\ AppendMessage(sweeps[s].conv)
  /\ sweeps' = [sweeps EXCEPT ![s].pc = "close"]
  /\ UNCHANGED <<bot, leads, turns, lock, toClose, notices, used>>

SweepClose(s) ==
  /\ sweeps[s].pc = "close"
  /\ SetStatus(sweeps[s].conv, "closed")
  /\ sweeps' = [sweeps EXCEPT ![s].pc = "pass"]
  /\ UNCHANGED <<bot, leads, turns, lock, toClose, notices, used>>

SweepDone(s) ==
  /\ sweeps[s].pc = "pass"
  /\ sweeps[s].todo = {}
  /\ sweeps' = [sweeps EXCEPT ![s] = IdleSweep]
  /\ UNCHANGED <<bot, chats, leads, turns, lock, toClose, notices, used>>

LockExpires ==
  /\ lock # NoSweeper
  /\ lock' = NoSweeper
  /\ UNCHANGED <<bot, chats, leads, turns, sweeps, toClose, notices, used>>

\* The process dies mid-pass, or a Redis call raises and the chat is skipped.
SweepFails(s) ==
  /\ sweeps[s].pc # "idle"
  /\ used.fail < MaxFail
  /\ \/ sweeps' = [sweeps EXCEPT ![s] = IdleSweep]
     \/ sweeps[s].pc # "pass" /\ sweeps' = [sweeps EXCEPT ![s].pc = "pass"]
  /\ used' = [used EXCEPT !.fail = @ + 1]
  /\ UNCHANGED <<bot, chats, leads, turns, lock, toClose, notices>>

SweepStep(s) ==
  \/ SweepList(s) \/ SweepAppend(s) \/ SweepClose(s) \/ SweepDone(s)
  \/ \E c \in Conv : SweepSend(s, c)

-----------------------------------------------------------------------------
(* abandoned_sweep: one SQL function, then one Redis write per swept lead *)

\* Fault: leads without a flow name fall out of the sweep's query.
AbandonedFlows == {l \in Lead : /\ leads[l].status = "in_progress"
                                /\ leads[l].flow # NoFlow
                                /\ leads[l].idle > Hour}

Abandoned == {l \in Lead : leads[l].status = "in_progress" /\ leads[l].idle > Hour}

AbandonLeads ==
  /\ Abandoned # {}
  /\ leads' = [l \in Lead |-> IF l \in Abandoned
                              THEN [leads[l] EXCEPT !.status = "abandoned",
                                                    !.reason = "abandoned"]
                              ELSE leads[l]]
  /\ toClose' = toClose \cup {leads[l].conv : l \in Abandoned}
  /\ UNCHANGED <<bot, chats, turns, sweeps, lock, notices, used>>

CloseAbandoned(c) ==
  /\ c \in toClose
  /\ SetStatus(c, "closed")
  /\ toClose' = toClose \ {c}
  /\ UNCHANGED <<bot, leads, turns, sweeps, lock, notices, used>>

\* The process dies before the Redis writes are done, or one of them raises and
\* is skipped.
AbandonFails ==
  /\ toClose # {}
  /\ used.fail < MaxFail
  /\ \/ toClose' = {}
     \/ \E c \in toClose : toClose' = toClose \ {c}
  /\ used' = [used EXCEPT !.fail = @ + 1]
  /\ UNCHANGED <<bot, chats, leads, turns, sweeps, lock, notices>>

-----------------------------------------------------------------------------
(* Time *)

\* A turn takes seconds, so it spans at most MaxTurnTicks ticks; a sweep pass,
\* whose listing was judged against the current time, spans none.
Tick ==
  /\ \A s \in Sweeper : sweeps[s].pc = "idle"
  /\ \A w \in Worker : turns[w].pc # "idle" => turns[w].age < MaxTurnTicks
  /\ chats' = [c \in Conv |-> IF chats[c].stamped
                              THEN [chats[c] EXCEPT !.idle = Older(@)] ELSE chats[c]]
  /\ leads' = [l \in Lead |-> IF Live(l)
                              THEN [leads[l] EXCEPT !.idle = Older(@)] ELSE leads[l]]
  /\ turns' = [w \in Worker |-> IF turns[w].pc # "idle"
                                THEN [turns[w] EXCEPT !.age = @ + 1] ELSE turns[w]]
  /\ UNCHANGED <<bot, sweeps, lock, toClose, notices, used>>

\* The TTL of a chat nobody has to answer runs out.
ChatExpires(c) ==
  /\ IsStale(chats[c].stamped, chats[c].idle)
  /\ chats[c].status \notin Handled
  /\ ResetConversation(c)
  /\ UNCHANGED <<bot, leads, turns, sweeps, lock, toClose, notices, used>>

-----------------------------------------------------------------------------
(* Specification *)

Next ==
  \/ \E w \in Worker : \/ \E c \in Conv, m \in Inbound : Receive(w, c, m)
                       \/ TurnStep(w)
                       \/ TurnFails(w)
  \/ OwnerStep
  \/ \E s \in Sweeper : SweepStep(s) \/ SweepFails(s)
  \/ LockExpires
  \/ AbandonLeads
  \/ \E c \in Conv : CloseAbandoned(c) \/ ChatExpires(c)
  \/ AbandonFails
  \/ Tick

Spec == Init /\ [][Next]_vars

\* A started turn runs on, the loops of every process keep waking up, the lock
\* carries a TTL and time passes.  Customers and the owner owe nothing.
Fairness ==
  /\ \A w \in Worker : WF_vars(TurnStep(w))
  /\ \A s \in Sweeper : WF_vars(SweepStep(s))
  /\ WF_vars(LockExpires)
  /\ WF_vars(AbandonLeads)
  /\ \A c \in Conv : WF_vars(CloseAbandoned(c))
  /\ WF_vars(Tick)

FairSpec == Spec /\ Fairness

-----------------------------------------------------------------------------
(* Safety under every interleaving, crash and dashboard operation *)

PointerOK(rows, c, st, l) ==
  IF st.phase = "in_flow"
  THEN /\ l \in Lead
       /\ rows[l].status # "unused"
       /\ rows[l].conv = c
       /\ rows[l].flow = st.flow
  ELSE l = NoLead

\* The lead id that rides along in the Redis state (bot_runtime step 6) names a
\* row that was created for this very conversation and this very flow, exactly
\* while a questionnaire is running: however turns of several chats interleave,
\* crash or are closed by a sweep, an answer can never land on another
\* customer's lead.
LeadPointerSound == \A c \in Conv : PointerOK(leads, c, chats[c].state, chats[c].lead)

AnswersOK(st) ==
  IF st.phase = "in_flow"
  THEN /\ st.step < Len(StepsOf(bot, st.flow))
       /\ st.collected = KeysUpTo(bot, st.flow, st.step)
  ELSE st.collected = {}

\* While the owner does not edit the bot, a saved questionnaire state holds the
\* answers to exactly the questions before the one it stands on.
AnswersMatchStep == \A c \in Conv : AnswersOK(chats[c].state)

\* complete_lead runs only with an answer to every question of the flow the lead
\* was opened for, also when turns of the chat race or repeat after a crash.
CompletionIsFull ==
  [][\A w \in Worker : FinishLead(w) =>
       /\ turns[w].lead \in Lead
       /\ turns[w].res.lead = AllKeys(bot, leads[turns[w].lead].flow)]_vars

-----------------------------------------------------------------------------
(* What a tenant whose turns do not overlap can rely on *)

\* A message that reaches a closed chat, or a handoff nobody attended for an
\* hour, is greeted as a first contact (run_turn steps 1 and 1a): the engine
\* state of the finished conversation never leaks into the new one.
FreshStartAfterClose ==
  \A w \in Worker :
    turns[w].pc = "persist" /\ turns[w].status \in Handled \cup {"closed"} =>
      turns[w].res = Result(MenuState, NoEvent, {})

\* Nothing the bot does takes an answer away from a lead it has completed, wherever
\* a turn crashes but between the commit that completes a lead and the state it saves:
\* after such a crash the next message repeats the step and its answers replace those
\* of the completed lead.
CompletedLeadKeepsAnswers ==
  [][\A l \in Lead :
       Live(l) /\ leads[l].reason = "completed" /\ ~used.torn /\ Live(l)' =>
         leads[l].answers \subseteq leads'[l].answers]_vars

\* "a handoff ALWAYS yields a lead": a chat the bot put in the waiting queue has
\* a lead that carries the request (a row the owner deleted afterwards counts),
\* as long as no turn crashed between two of its steps.
HandoffHasLead ==
  used.fail = 0 => \A c \in Conv :
    chats[c].status = "waiting"
      /\ (\A w \in Worker : turns[w].conv = c => turns[w].pc # "handoff")
    => \E l \in Lead : leads[l].status # "unused" /\ leads[l].conv = c
                         /\ leads[l].handoff

-----------------------------------------------------------------------------
(* Liveness, under FairSpec *)

\* A lead does not stay in progress for ever once its customer goes quiet.
LeadsSettle ==
  \A l \in Lead : leads[l].status = "in_progress" ~> leads[l].status # "in_progress"

\* A chat waiting for a human does not wait for ever: the owner, the customer's
\* next message or the stale-handoff sweep takes it out of the queue.
HandoffsSettle ==
  \A c \in Conv : chats[c].status \in Handled ~> chats[c].status \notin Handled

-----------------------------------------------------------------------------
(* What the comments say and the code does not keep *)

\* "'human' (an owner took over) [...] the bot does NOT answer at all": the turn
\* that was running when the owner took the chat over does not close it.
TakeoverSurvivesTurn ==
  [][\A w \in Worker : CloseChat(w) => chats[turns[w].conv].status \notin Handled]_vars

\* "a race can't double-send": between two messages of the customer the sweep
\* sends the closing message at most once.  The code keeps it only while a pass
\* ends within the life of its lock: a second sweeper whose listing is older than
\* the close sends the message again, so no run lists it.
OneClosingNotice == \A c \in Conv : notices[c] <= 1

=============================================================================
