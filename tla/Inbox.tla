-------------------------------- MODULE Inbox --------------------------------
(***************************************************************************)
(* The conversations page: the list under its four tabs, and one opened    *)
(* row, with the outcome dialog and the chat panel in it.  The list and    *)
(* the row are two machines that do not share state here: the row reports  *)
(* a new status to the list through handleStatusChange.                    *)
(***************************************************************************)
EXTENDS Pages, FiniteSets

CONSTANTS FirstChats,   \* [id -> status] the list may find
          MaxListCalls, \* bound: tabs, refreshes and status changes of a list
          MaxMessages,  \* bound: messages of customer and owner, and leads, of the chat
          MaxPolls,     \* bound: polls of the chat on their way at once
          Outcomes      \* the outcomes of a conversation the dialog is for

ASSUME InboxBoundsAssumption ==
    {MaxListCalls, MaxMessages, MaxPolls} \subseteq Nat /\ Outcomes \subseteq {"deal", "closed"}

VARIABLES
  cv, cvrow, cvnet,  \* the list, the conversations on the server, calls in flight
  ch, chrow, chnet   \* the opened row, its conversation and lead, calls in flight

cvvars == <<cv, cvrow, cvnet>>
chvars == <<ch, chrow, chnet>>

ConversationStatus == {"bot", "waiting", "human", "closed"}

-----------------------------------------------------------------------------
(* The list *)

\* A load of one tab, or a change of one conversation.  own: the effect of the tab
\* started it and its cleanup cancels it.
CvCall(kind, tab, own, id, to) ==
    [kind |-> kind, tab |-> tab, own |-> own, id |-> id, to |-> to, st |-> "sent", v |-> {},
     n |-> cv.calls]
CvLoads == {c \in cvnet : c.kind = "load"}

Listed(tab) == {[id |-> i, status |-> cvrow[i].status, unread |-> cvrow[i].unread] :
                  i \in {j \in DOMAIN cvrow : cvrow[j].status = tab}}

CVInit ==
    /\ \E f \in FirstChats :
         cvrow = [i \in DOMAIN f |-> [status |-> f[i], unread |-> TRUE]]
    /\ cv = [tab |-> "waiting", list |-> {}, open |-> 0, loading |-> TRUE, error |-> FALSE,
             calls |-> 0, raced |-> FALSE, failed |-> FALSE]
    /\ cvnet = {[kind |-> "load", tab |-> "waiting", own |-> TRUE, id |-> 0, to |-> "",
                 st |-> "sent", v |-> {}, n |-> 0]}

\* Fault: the effect of a tab leaves no cleanup behind.
CvCancelledNone(net) == net

CvCancelled(net) == {c \in net : ~(c.kind = "load" /\ c.own)}

\* Another tab.  A refresh or a status change under way is not cancelled by it.
SetTab(tab) ==
    /\ tab # cv.tab /\ cv.calls < MaxListCalls
    /\ cv' = [cv EXCEPT !.tab = tab, !.loading = TRUE, !.error = FALSE, !.calls = @ + 1,
                        !.raced = @ \/ \E c \in cvnet : ~c.own]
    /\ cvnet' = CvCancelled(cvnet) \cup {CvCall("load", tab, TRUE, 0, "")}
    /\ UNCHANGED cvrow

RefreshList ==
    /\ ~cv.loading /\ cv.calls < MaxListCalls
    /\ cv' = [cv EXCEPT !.loading = TRUE, !.error = FALSE, !.calls = @ + 1,
                        !.raced = @ \/ cvnet # {}]
    /\ cvnet' = cvnet \cup {CvCall("load", cv.tab, FALSE, 0, "")}
    /\ UNCHANGED cvrow

LoadReads(c) ==
    /\ c.kind = "load" /\ c.st = "sent"
    /\ cvnet' = (cvnet \ {c}) \cup {[c EXCEPT !.st = "done", !.v = Listed(c.tab)]}
    /\ UNCHANGED <<cv, cvrow>>

LoadAnswered(c) ==
    /\ c.kind = "load" /\ c.st = "done"
    /\ cv' = [cv EXCEPT !.list = c.v, !.loading = FALSE]
    /\ cvnet' = cvnet \ {c}
    /\ UNCHANGED cvrow

LoadListFails(c) ==
    /\ c.kind = "load"
    /\ cv' = [cv EXCEPT !.error = TRUE, !.loading = FALSE, !.failed = TRUE]
    /\ cvnet' = cvnet \ {c}
    /\ UNCHANGED cvrow

\* One row is open at a time.  Opening it shows it as read at once and fetches the
\* detail, which is what marks it read on the server.
ListShown == ~cv.loading /\ ~cv.error
ToggleRow(id) ==
    /\ ListShown /\ id \in {r.id : r \in cv.list}
    /\ IF cv.open = id
       THEN cv' = [cv EXCEPT !.open = 0] /\ UNCHANGED cvnet
       ELSE /\ cv.calls < MaxListCalls
            /\ cv' = [cv EXCEPT !.open = id, !.calls = @ + 1, !.raced = @ \/ CvLoads # {},
                        !.list = {IF r.id = id THEN [r EXCEPT !.unread = FALSE] ELSE r : r \in @}]
            /\ cvnet' = cvnet \cup {CvCall("detail", cv.tab, FALSE, id, "")}
    /\ UNCHANGED cvrow

\* The open row sets a status: take over, back to the bot, closed.
SetStatusFromRow(to) ==
    /\ ListShown /\ cv.calls < MaxListCalls
    /\ \E r \in cv.list :
         /\ r.id = cv.open /\ r.status # to
         /\ ~\E c \in cvnet : c.kind = "status" /\ c.id = r.id
         /\ cvnet' = cvnet \cup {CvCall("status", cv.tab, FALSE, r.id, to)}
    /\ cv' = [cv EXCEPT !.calls = @ + 1, !.raced = @ \/ CvLoads # {}]
    /\ UNCHANGED cvrow

RowCallLands(c) ==
    /\ c.kind \in {"status", "detail"} /\ c.st = "sent"
    /\ cvrow' = IF c.kind = "status" THEN [cvrow EXCEPT ![c.id].status = c.to]
                ELSE [cvrow EXCEPT ![c.id].unread = FALSE]
    /\ cvnet' = (cvnet \ {c}) \cup {[c EXCEPT !.st = "done"]}
    /\ UNCHANGED cv

\* handleStatusChange of the render in which the button was pressed: the row takes
\* the new status, and what does not match the tab of that render is dropped.
StatusAnswered(c) ==
    /\ c.kind = "status" /\ c.st = "done"
    /\ cv' = [cv EXCEPT !.list =
                {r \in {IF r.id = c.id THEN [r EXCEPT !.status = c.to] ELSE r : r \in @} :
                   r.status = c.tab}]
    /\ cvnet' = cvnet \ {c}
    /\ UNCHANGED cvrow

DetailAnswered(c) ==
    /\ c.kind = "detail" /\ c.st = "done"
    /\ cvnet' = cvnet \ {c}
    /\ UNCHANGED <<cv, cvrow>>

RowCallFails(c) ==
    /\ c.kind \in {"status", "detail"}
    /\ cv' = [cv EXCEPT !.failed = TRUE]
    /\ cvnet' = cvnet \ {c}
    /\ UNCHANGED cvrow

CVNext ==
    \/ RefreshList
    \/ \E s \in ConversationStatus : SetTab(s)
    \/ \E id \in DOMAIN cvrow : ToggleRow(id)
    \/ \E s \in ConversationStatus \ {"waiting"} : SetStatusFromRow(s)
    \/ \E c \in cvnet :
         \/ LoadReads(c) \/ LoadAnswered(c) \/ LoadListFails(c) \/ RowCallLands(c)
         \/ StatusAnswered(c) \/ DetailAnswered(c) \/ RowCallFails(c)

-----------------------------------------------------------------------------
(* The opened row: take over, outcome, chat *)

\* The server: the status and transcript of the conversation, and what became of its
\* leads, the newest last.  In a transcript 0 is a message of the customer and any
\* other number one of the owner; Bubble(k) is message k on screen before its time.
Bubble(k) == MaxMessages + k

\* The row is opened and its detail asked for.  lead: the lead of that answer, by its
\* place in leads, or 0.
CHInit ==
    /\ \E status \in {"waiting", "bot"}, leads \in {<<>>, <<"open">>} :
         /\ chrow = [status |-> status, leads |-> leads, log |-> <<0>>]
         /\ ch = [status |-> status, detail |-> "loading", lead |-> 0, busy |-> FALSE,
                  outcome |-> "none", chat |-> FALSE, shown |-> <<>>, pending |-> FALSE,
                  sending |-> FALSE, draft |-> 0, next |-> 1]
    /\ chnet = {}

ChCall(kind, v) == [kind |-> kind, st |-> "sent", v |-> v, log |-> <<>>]
Post(c) == chnet' = chnet \cup {c}
Settle(c) == chnet' = chnet \ {c}
Becomes(c, d) == chnet' = (chnet \ {c}) \cup {d}

\* getConversation, once for an opening: what it says of the lead is kept as it is.
DetailReads ==
    /\ ch.detail = "loading"
    /\ ch' = [ch EXCEPT !.detail = "read", !.lead = Len(chrow.leads)]
    /\ UNCHANGED <<chrow, chnet>>
DetailShown ==
    /\ ch.detail = "read"
    /\ ch' = [ch EXCEPT !.detail = "ready"]
    /\ UNCHANGED <<chrow, chnet>>
DetailFails ==
    /\ ch.detail \in {"loading", "read"}
    /\ ch' = [ch EXCEPT !.detail = "error"]
    /\ UNCHANGED <<chrow, chnet>>

\* changeStatus: taking over, and handing back to the bot.
Reachable == ch.detail = "ready" /\ ch.outcome = "none"
ChangeStatus(to) ==
    /\ Reachable /\ ~ch.busy /\ to # ch.status
    /\ to = "bot" => ch.status = "human"
    /\ ch' = [ch EXCEPT !.busy = TRUE]
    /\ Post(ChCall("status", to))
    /\ UNCHANGED chrow

StatusSet(c) ==
    /\ c.kind \in {"status", "close"} /\ c.st = "sent"
    /\ chrow' = [chrow EXCEPT !.status = c.v]
    /\ Becomes(c, [c EXCEPT !.st = "done"])
    /\ UNCHANGED ch

\* A human's conversation shows the chat, from then on.
ChangeAcknowledged(c) ==
    /\ c.kind = "status" /\ c.st = "done"
    /\ ch' = [ch EXCEPT !.status = c.v, !.busy = FALSE, !.chat = @ \/ c.v = "human"]
    /\ Settle(c)
    /\ UNCHANGED chrow

ChangeRefused(c) ==
    /\ c.kind = "status"
    /\ ch' = [ch EXCEPT !.busy = FALSE]
    /\ Settle(c)
    /\ UNCHANGED chrow

\* OutcomeNoteDialog, a modal: deal or closed, with a note that may not be empty.
OpenOutcome(o) ==
    /\ Reachable /\ ~ch.busy /\ ch.status # "closed"
    /\ ch' = [ch EXCEPT !.outcome = o]
    /\ UNCHANGED <<chrow, chnet>>
CancelOutcome ==
    /\ ch.detail = "ready" /\ ch.outcome # "none" /\ ~ch.busy
    /\ ch' = [ch EXCEPT !.outcome = "none"]
    /\ UNCHANGED <<chrow, chnet>>

\* Fault: the conversation is closed before the lead is marked.
ConfirmOutcomeClosesFirst ==
    /\ ch.detail = "ready" /\ ch.outcome # "none" /\ ~ch.busy /\ ch.status # "closed"
    /\ ch' = [ch EXCEPT !.busy = TRUE]
    /\ Post(ChCall("close", "closed"))
    /\ UNCHANGED chrow

\* confirmOutcome: the lead first, if the detail has one, then the conversation.
ConfirmOutcome ==
    /\ ch.detail = "ready" /\ ch.outcome # "none" /\ ~ch.busy /\ ch.status # "closed"
    /\ ch' = [ch EXCEPT !.busy = TRUE]
    /\ Post(IF ch.lead = 0 THEN ChCall("close", "closed")
            ELSE ChCall("lead", ch.outcome))
    /\ UNCHANGED chrow

LeadMarked(c) ==
    /\ c.kind = "lead" /\ c.st = "sent"
    /\ chrow' = [chrow EXCEPT !.leads[ch.lead] = c.v]
    /\ Becomes(c, [c EXCEPT !.st = "done"])
    /\ UNCHANGED ch

LeadAcknowledged(c) ==
    /\ c.kind = "lead" /\ c.st = "done"
    /\ Becomes(c, ChCall("close", "closed"))
    /\ UNCHANGED <<ch, chrow>>

CloseAcknowledged(c) ==
    /\ c.kind = "close" /\ c.st = "done"
    /\ ch' = [ch EXCEPT !.status = "closed", !.busy = FALSE, !.outcome = "none"]
    /\ Settle(c)
    /\ UNCHANGED chrow

OutcomeFails(c) ==
    /\ c.kind \in {"lead", "close"}
    /\ ch' = [ch EXCEPT !.busy = FALSE]
    /\ Settle(c)
    /\ UNCHANGED chrow

-----------------------------------------------------------------------------
(* The chat panel *)

\* A message of the customer.  Unless a human handles the chat the bot takes a turn:
\* a closed chat starts over with the greeting, and a flow that is entered creates a lead.
CustomerWrites ==
    LET silent == chrow.status \in {"waiting", "human"}
        over == chrow.status = "closed"
    IN /\ Len(chrow.log) < MaxMessages \/ (over /\ Len(chrow.log) = MaxMessages)
       /\ \E lead \in BOOLEAN :
            /\ lead => ~silent /\ ~over /\ Len(chrow.leads) < MaxMessages
            /\ chrow' = [status |-> IF silent THEN chrow.status ELSE "bot",
                         leads |-> IF lead THEN Append(chrow.leads, "open") ELSE chrow.leads,
                         log |-> IF over THEN <<0>> ELSE Append(chrow.log, 0)]
       /\ UNCHANGED <<ch, chnet>>

\* On mount and every 4 seconds, whether or not the previous poll was answered.
Poll ==
    /\ ch.chat /\ Cardinality({c \in chnet : c.kind = "poll"}) < MaxPolls
    /\ Post(ChCall("poll", 0))
    /\ UNCHANGED <<ch, chrow>>

PollReads(c) ==
    /\ c.kind \in {"poll", "reconcile"} /\ c.st = "sent"
    /\ Becomes(c, [c EXCEPT !.st = "done", !.log = chrow.log])
    /\ UNCHANGED <<ch, chrow>>

\* Fault: a poll is applied while a reply is on its way.
PollAnsweredAnyway(c) ==
    /\ c.kind = "poll" /\ c.st = "done"
    /\ ch' = [ch EXCEPT !.shown = c.log]
    /\ Settle(c)
    /\ UNCHANGED chrow

PollAnswered(c) ==
    /\ c.kind = "poll" /\ c.st = "done"
    /\ ch' = [ch EXCEPT !.shown = IF ch.pending THEN @ ELSE c.log]
    /\ Settle(c)
    /\ UNCHANGED chrow

PollFails(c) ==
    /\ c.kind = "poll"
    /\ Settle(c)
    /\ UNCHANGED <<ch, chrow>>

\* The composer stays open while a reply is sent.
TypeReply ==
    /\ Reachable /\ ch.chat /\ ch.draft = 0 /\ ch.next < MaxMessages
    /\ ch' = [ch EXCEPT !.draft = ch.next, !.next = @ + 1]
    /\ UNCHANGED <<chrow, chnet>>

\* send(): the bubble is shown before the server has it.
SendReply ==
    /\ Reachable /\ ch.chat /\ ch.draft # 0 /\ ~ch.sending /\ Len(chrow.log) <= MaxMessages
    /\ ch' = [ch EXCEPT !.sending = TRUE, !.pending = TRUE, !.draft = 0,
                        !.shown = Append(@, Bubble(ch.draft))]
    /\ Post(ChCall("reply", ch.draft))
    /\ UNCHANGED chrow

\* POST .../reply appends to the transcript and makes the conversation a human's.
ReplyLands(c) ==
    /\ c.kind = "reply" /\ c.st = "sent"
    /\ chrow' = [chrow EXCEPT !.log = Append(@, c.v), !.status = "human"]
    /\ Becomes(c, [c EXCEPT !.st = "done"])
    /\ UNCHANGED ch

\* Polls count again, and the transcript is fetched once more.
ReplyAcknowledged(c) ==
    /\ c.kind = "reply" /\ c.st = "done"
    /\ ch' = [ch EXCEPT !.pending = FALSE, !.status = "human"]
    /\ Becomes(c, ChCall("reconcile", c.v))
    /\ UNCHANGED chrow

Reconciled(c) ==
    /\ c.kind = "reconcile" /\ c.st = "done"
    /\ ch' = [ch EXCEPT !.shown = c.log, !.sending = FALSE]
    /\ Settle(c)
    /\ UNCHANGED chrow

\* The bubble is one object: it is in the list once, or a poll has replaced the list.
Without(s, m) == IF m \in ToSet(s) THEN RemoveAt(s, CHOOSE i \in DOMAIN s : s[i] = m) ELSE s

\* The reply, or the fetch after it, has failed: the bubble is taken back and the
\* text returns to the composer, over whatever was typed meanwhile.
SendFails(c) ==
    /\ c.kind \in {"reply", "reconcile"}
    /\ ch' = [ch EXCEPT !.pending = FALSE, !.sending = FALSE, !.draft = c.v,
                        !.shown = Without(@, Bubble(c.v))]
    /\ Settle(c)
    /\ UNCHANGED chrow

CHNext ==
    \/ DetailReads \/ DetailShown \/ DetailFails
    \/ ConfirmOutcome \/ CancelOutcome \/ CustomerWrites \/ Poll \/ TypeReply \/ SendReply
    \/ \E s \in {"human", "bot"} : ChangeStatus(s)
    \/ \E o \in Outcomes : OpenOutcome(o)
    \/ \E c \in chnet :
         \/ StatusSet(c) \/ ChangeAcknowledged(c) \/ ChangeRefused(c)
         \/ LeadMarked(c) \/ LeadAcknowledged(c) \/ CloseAcknowledged(c) \/ OutcomeFails(c)
         \/ PollReads(c) \/ PollAnswered(c) \/ PollFails(c)
         \/ ReplyLands(c) \/ ReplyAcknowledged(c) \/ Reconciled(c) \/ SendFails(c)

-----------------------------------------------------------------------------
(* Properties *)

\* The list shows the conversations of the tab it is under, with the status and the
\* unread mark the server has, once nothing is on its way, however the owner went
\* from tab to tab and changed rows.  Exempt are the ways around it that the page
\* leaves open: a failed call, and a refresh or a status change under way while a
\* tab is changed or another load is started.
ConversationsFollow ==
    cvnet = {} /\ ~cv.raced /\ ~cv.failed => cv.list = Listed(cv.tab)

\* A reply that is on its way stays on screen: no poll, however old, takes the
\* bubble away before the server has recorded the reply or the call has failed.
BubbleStays ==
    \A c \in chnet : c.kind = "reply" /\ ch.pending => Bubble(c.v) \in ToSet(ch.shown)

\* A conversation that was closed from its row has its outcome recorded at the lead
\* the row shows, also when a call of the two was lost, the owner tried again or the
\* bot has started another lead meanwhile.
OutcomeRecorded == chrow.status = "closed" /\ ch.lead # 0 => chrow.leads[ch.lead] # "open"
=============================================================================
