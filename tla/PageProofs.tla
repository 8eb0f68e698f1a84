----------------------------- MODULE PageProofs -----------------------------
(***************************************************************************)
(* What the pages of the web app show follows the server, for any number   *)
(* of rows, messages and calls and any order in which they are answered.   *)
(***************************************************************************)
EXTENDS Frontend, SequenceTheorems, FiniteSetTheorems, WellFoundedInduction, TLAPS

-----------------------------------------------------------------------------
(* The opened row of the conversations page *)

ChatPage == [status : ConversationStatus, detail : {"loading", "read", "ready", "error"},
             lead : Nat, busy : BOOLEAN,
             outcome : {"none", "deal", "closed"}, chat : BOOLEAN, shown : Seq(Nat),
             pending : BOOLEAN, sending : BOOLEAN, draft : Nat, next : Nat]
LeadMark == {"open", "deal", "closed"}
ChatRow == [status : ConversationStatus, leads : Seq(LeadMark), log : Seq(Nat)]

\* The lead the row shows is one of the conversation's, and if there is one it has an
\* outcome.
Known(p, row) == p.lead \in 0 .. Len(row.leads)
Marked(p, row) == p.lead # 0 => row.leads[p.lead] # "open"

\* A reply that send() has not returned from.
OfReply(c) == c.kind \in {"reply", "reconcile"}

\* What a call in flight carries; a conversation is closed only once the lead the row
\* shows has an outcome or it shows none.
ChatCall(c, p, row) ==
    /\ c = [kind |-> c.kind, st |-> c.st, v |-> c.v, log |-> c.log]
    /\ c.log \in Seq(Nat)
    /\ c.kind = "status" => c.v \in {"human", "bot"}
    /\ c.kind = "close" => c.v = "closed" /\ p.detail = "ready" /\ Marked(p, row)
    /\ c.kind = "lead" => /\ c.v \in {"deal", "closed"} /\ p.detail = "ready" /\ p.lead # 0
                          /\ c.st = "done" => Marked(p, row)
    /\ OfReply(c) => c.v \in Nat

\* One reply is under way at a time, and `sending` says so.
OneReply(p, net) ==
    /\ \A c \in net : OfReply(c) => p.sending
    /\ \A c, d \in net : OfReply(c) /\ OfReply(d) => c = d

ChatInv ==
    /\ ch \in ChatPage /\ chrow \in ChatRow
    /\ Known(ch, chrow)
    /\ \A c \in chnet : ChatCall(c, ch, chrow)
    /\ OneReply(ch, chnet)
    /\ chrow.status = "closed" => ch.detail = "ready" /\ Marked(ch, chrow)
    /\ BubbleStays

\* A row that is opened.
LEMMA ChatInit == CHInit => ChatInv
<1> SUFFICES ASSUME CHInit PROVE ChatInv
  OBVIOUS
<1>1. chnet = {}
  BY DEF CHInit
<1>2. PICK status \in {"waiting", "bot"}, leads \in {<<>>, <<"open">>} :
        /\ chrow = [status |-> status, leads |-> leads, log |-> <<0>>]
        /\ ch = [status |-> status, detail |-> "loading", lead |-> 0, busy |-> FALSE,
                 outcome |-> "none", chat |-> FALSE, shown |-> <<>>, pending |-> FALSE,
                 sending |-> FALSE, draft |-> 0, next |-> 1]
  BY DEF CHInit
<1>3. leads \in Seq(LeadMark) /\ Len(leads) \in Nat
  <2>1. "open" \in LeadMark
    BY DEF LeadMark
  <2>2. <<>> \in Seq(LeadMark) /\ <<"open">> \in Seq(LeadMark)
    BY <2>1
  <2> QED BY <2>2
<1>4. ch \in ChatPage /\ chrow \in ChatRow /\ chrow.status # "closed" /\ Known(ch, chrow)
  BY <1>2, <1>3 DEF ChatPage, ChatRow, ConversationStatus, Known
<1> QED BY <1>1, <1>4 DEF ChatInv, OneReply, BubbleStays

\* Taking the bubble back leaves a transcript.
LEMMA WithoutIsSeq ==
  ASSUME NEW s \in Seq(Nat), NEW m PROVE Without(s, m) \in Seq(Nat)
<1>1. CASE m \in ToSet(s)
  <2>1. PICK i : i \in DOMAIN s /\ i = CHOOSE j \in DOMAIN s : s[j] = m
    BY <1>1 DEF ToSet
  <2>2. Without(s, m) = SubSeq(s, 1, i - 1) \o SubSeq(s, i + 1, Len(s))
    BY <1>1, <2>1 DEF Without, RemoveAt
  <2>3. /\ i \in 1 .. Len(s) /\ Len(s) \in Nat /\ i - 1 \in Int /\ i + 1 \in Int
        /\ \A j \in 1 .. Len(s) : s[j] \in Nat
    BY <2>1
  <2>4. /\ \A j \in 1 .. i - 1 : s[j] \in Nat
        /\ \A j \in i + 1 .. Len(s) : s[j] \in Nat
    BY <2>3
  <2>5. SubSeq(s, 1, i - 1) \in Seq(Nat)
    BY <2>3, <2>4, SubSeqProperties
  <2>6. SubSeq(s, i + 1, Len(s)) \in Seq(Nat)
    BY <2>3, <2>4, SubSeqProperties
  <2> QED BY <2>2, <2>5, <2>6
<1>2. CASE m \notin ToSet(s)
  BY <1>2 DEF Without
<1> QED BY <1>1, <1>2

\* A step that changes one record and keeps the calls in flight, or drops one.
LEMMA ChatKept ==
  ASSUME ChatInv, ch' \in ChatPage, chrow' \in ChatRow, chnet' \subseteq chnet,
         Known(ch', chrow'), ch'.detail = ch.detail,
         ch.detail = "ready" => ch'.lead = ch.lead /\ (Marked(ch, chrow) => Marked(ch', chrow')),
         \A c \in chnet' : OfReply(c) => ch'.sending,
         chrow'.status = "closed" => ch'.detail = "ready" /\ Marked(ch', chrow'),
         \A c \in chnet' : c.kind = "reply" /\ ch'.pending =>
           /\ ch.pending /\ Bubble(c.v) \in ToSet(ch.shown) => Bubble(c.v) \in ToSet(ch'.shown)
           /\ ch.pending
  PROVE  ChatInv'
<1>1. \A c \in chnet' : ChatCall(c, ch', chrow')
  BY DEF ChatInv, ChatCall
<1>2. OneReply(ch', chnet')
  BY DEF ChatInv, OneReply
<1>3. BubbleStays'
  BY DEF ChatInv, BubbleStays, Bubble
<1> QED BY <1>1, <1>2, <1>3 DEF ChatInv

\* A step that sends a call, or replaces one by another.
LEMMA ChatSent ==
  ASSUME ChatInv, NEW d, chnet' \subseteq chnet \cup {d},
         ch' \in ChatPage, chrow' \in ChatRow, ChatCall(d, ch', chrow'),
         Known(ch', chrow'), ch'.detail = ch.detail,
         ch.detail = "ready" => ch'.lead = ch.lead /\ (Marked(ch, chrow) => Marked(ch', chrow')),
         chrow'.status = "closed" => ch'.detail = "ready" /\ Marked(ch', chrow'),
         ch'.sending = ch.sending,
         OfReply(d) => \E c \in chnet : OfReply(c) /\ (c \in chnet' => c = d),
         ch'.pending => ch.pending /\ ch'.shown = ch.shown /\ d.kind # "reply"
  PROVE  ChatInv'
<1>1. \A c \in chnet' : ChatCall(c, ch', chrow')
  BY DEF ChatInv, ChatCall
<1>2. OneReply(ch', chnet')
  BY DEF ChatInv, OneReply
<1>3. BubbleStays'
  BY DEF ChatInv, BubbleStays, Bubble
<1> QED BY <1>1, <1>2, <1>3 DEF ChatInv

\* The buttons of the row and its outcome dialog.
LEMMA ChatButtons ==
  ASSUME ChatInv,
         \/ ConfirmOutcome \/ CancelOutcome
         \/ \E s \in {"human", "bot"} : ChangeStatus(s)
         \/ \E o \in Outcomes : OpenOutcome(o)
  PROVE  ChatInv'
<1>a. /\ ch \in ChatPage /\ chrow \in ChatRow /\ Known(ch, chrow) /\ OneReply(ch, chnet)
      /\ chrow.status = "closed" => ch.detail = "ready" /\ Marked(ch, chrow)
  BY DEF ChatInv
<1>1. CASE CancelOutcome \/ \E o \in Outcomes : OpenOutcome(o)
  <2>1. PICK o \in {"none", "deal", "closed"} : ch' = [ch EXCEPT !.outcome = o]
    BY <1>1, InboxBoundsAssumption DEF CancelOutcome, OpenOutcome
  <2>2. /\ ch' \in ChatPage /\ ch'.pending = ch.pending /\ ch'.shown = ch.shown
        /\ ch'.sending = ch.sending /\ ch'.lead = ch.lead
        /\ ch'.detail = ch.detail
    BY <1>a, <2>1 DEF ChatPage
  <2>3. UNCHANGED <<chrow, chnet>>
    BY <1>1 DEF CancelOutcome, OpenOutcome
  <2> QED BY <1>a, <2>2, <2>3, ChatKept DEF OneReply, Known, Marked
<1>2. CASE ConfirmOutcome \/ \E s \in {"human", "bot"} : ChangeStatus(s)
  <2>0. ch.detail = "ready"
    BY <1>2 DEF ConfirmOutcome, ChangeStatus, Reachable
  <2>b. ch' = [ch EXCEPT !.busy = TRUE]
    BY <1>2 DEF ConfirmOutcome, ChangeStatus
  <2>1. chrow' = chrow
    BY <1>2 DEF ConfirmOutcome, ChangeStatus
  <2>2. /\ ch' \in ChatPage /\ ch'.pending = ch.pending /\ ch'.shown = ch.shown
        /\ ch'.sending = ch.sending /\ ch'.lead = ch.lead
        /\ ch'.detail = ch.detail
    BY <1>a, <2>b DEF ChatPage
  <2>3. PICK k, v : /\ chnet' = chnet \cup {ChCall(k, v)}
                    /\ \/ k = "status" /\ v \in {"human", "bot"}
                       \/ k = "close" /\ v = "closed" /\ ch.lead = 0
                       \/ k = "lead" /\ v = ch.outcome /\ ch.outcome # "none" /\ ch.lead # 0
    <3>1. CASE \E s \in {"human", "bot"} : ChangeStatus(s)
      BY <3>1 DEF ChangeStatus, Post
    <3>2. CASE ConfirmOutcome /\ ch.lead = 0
      BY <3>2 DEF ConfirmOutcome, Post
    <3>3. CASE ConfirmOutcome /\ ch.lead # 0
      BY <3>3 DEF ConfirmOutcome, Post
    <3> QED BY <1>2, <3>1, <3>2, <3>3
  <2>4. ch.outcome \in {"none", "deal", "closed"}
    BY <1>a DEF ChatPage
  <2>5. ChatCall(ChCall(k, v), ch', chrow') /\ ~OfReply(ChCall(k, v))
    BY <2>0, <2>1, <2>2, <2>3, <2>4 DEF ChatCall, ChCall, OfReply, Marked
  <2> QED BY <1>a, <2>1, <2>2, <2>3, <2>5, ChatSent DEF Known, Marked, OfReply
<1> QED BY <1>1, <1>2

\* The calls of the buttons.
LEMMA ChatButtonCalls ==
  ASSUME ChatInv, NEW c \in chnet,
         \/ StatusSet(c) \/ ChangeAcknowledged(c) \/ ChangeRefused(c)
         \/ LeadMarked(c) \/ LeadAcknowledged(c) \/ CloseAcknowledged(c) \/ OutcomeFails(c)
  PROVE  ChatInv'
<1>a. /\ ch \in ChatPage /\ chrow \in ChatRow /\ Known(ch, chrow) /\ OneReply(ch, chnet)
      /\ chrow.status = "closed" => ch.detail = "ready" /\ Marked(ch, chrow)
      /\ ChatCall(c, ch, chrow)
  BY DEF ChatInv
<1>1. CASE StatusSet(c)
  <2>1. /\ c.kind \in {"status", "close"} /\ ch' = ch
        /\ chnet' = (chnet \ {c}) \cup {[c EXCEPT !.st = "done"]}
        /\ chrow' = [chrow EXCEPT !.status = c.v]
    BY <1>1 DEF StatusSet, Becomes
  <2>2. c.v \in ConversationStatus
    BY <1>a, <2>1 DEF ChatCall, ConversationStatus
  <2>3. chrow' \in ChatRow /\ chrow'.leads = chrow.leads /\ chrow'.status = c.v
    BY <1>a, <2>1, <2>2 DEF ChatRow
  <2>4. chrow'.status = "closed" => ch'.detail = "ready" /\ Marked(ch', chrow')
    BY <1>a, <2>1, <2>3 DEF ChatCall, Marked
  <2>5. PICK d : d = [c EXCEPT !.st = "done"]
    OBVIOUS
  <2>6. ChatCall(d, ch', chrow') /\ ~OfReply(d)
    BY <1>a, <2>1, <2>3, <2>5 DEF ChatCall, OfReply, Marked
  <2> QED BY <1>a, <2>1, <2>3, <2>4, <2>5, <2>6, ChatSent DEF OfReply, Known, Marked
<1>2. CASE ChangeAcknowledged(c) \/ ChangeRefused(c) \/ CloseAcknowledged(c) \/ OutcomeFails(c)
  <2>2. /\ ch' \in ChatPage /\ ch'.pending = ch.pending /\ ch'.shown = ch.shown
        /\ ch'.sending = ch.sending /\ ch'.lead = ch.lead
        /\ ch'.detail = ch.detail
    <3>1. CASE ChangeAcknowledged(c)
      <4>1. c.v \in ConversationStatus
        BY <1>a, <3>1 DEF ChangeAcknowledged, ChatCall, ConversationStatus
      <4>2. PICK y \in BOOLEAN : y = (ch.chat \/ c.v = "human")
        OBVIOUS
      <4>3. ch' = [ch EXCEPT !.status = c.v, !.busy = FALSE, !.chat = y]
        BY <3>1, <4>2 DEF ChangeAcknowledged
      <4> QED BY <1>a, <4>1, <4>2, <4>3 DEF ChatPage
    <3>2. CASE ChangeRefused(c) \/ OutcomeFails(c)
      <4>1. ch' = [ch EXCEPT !.busy = FALSE]
        BY <3>2 DEF ChangeRefused, OutcomeFails
      <4> QED BY <1>a, <4>1 DEF ChatPage
    <3>3. CASE CloseAcknowledged(c)
      <4>1. ch' = [ch EXCEPT !.status = "closed", !.busy = FALSE, !.outcome = "none"]
        BY <3>3 DEF CloseAcknowledged
      <4> QED BY <1>a, <4>1 DEF ChatPage, ConversationStatus
    <3> QED BY <1>2, <3>1, <3>2, <3>3
  <2>3. chrow' = chrow /\ chnet' \subseteq chnet
    BY <1>2 DEF ChangeAcknowledged, ChangeRefused, CloseAcknowledged, OutcomeFails, Settle
  <2> QED BY <1>a, <2>2, <2>3, ChatKept DEF OneReply, Known, Marked
<1>3. CASE LeadMarked(c)
  <2>1. /\ c.kind = "lead" /\ ch' = ch
        /\ chnet' = (chnet \ {c}) \cup {[c EXCEPT !.st = "done"]}
        /\ chrow' = [chrow EXCEPT !.leads[ch.lead] = c.v]
    BY <1>3 DEF LeadMarked, Becomes
  <2>2. /\ c.v \in LeadMark /\ c.v # "open" /\ ch.detail = "ready"
        /\ ch.lead \in 1 .. Len(chrow.leads) /\ chrow.leads \in Seq(LeadMark)
    BY <1>a, <2>1 DEF ChatCall, LeadMark, Known, ChatRow
  <2>a. PICK m : m = [chrow.leads EXCEPT ![ch.lead] = c.v]
    OBVIOUS
  <2>b. m \in Seq(LeadMark) /\ Len(m) = Len(chrow.leads) /\ m[ch.lead] = c.v
    BY <2>2, <2>a
  <2>c. chrow' = [chrow EXCEPT !.leads = m]
    BY <2>1, <2>a
  <2>3. /\ chrow' \in ChatRow /\ chrow'.leads = m /\ chrow'.status = chrow.status
    BY <1>a, <2>b, <2>c DEF ChatRow
  <2>d. Known(ch', chrow') /\ Marked(ch', chrow')
    BY <1>a, <2>1, <2>2, <2>b, <2>3 DEF Known, Marked
  <2>4. PICK d : d = [c EXCEPT !.st = "done"]
    OBVIOUS
  <2>5. ChatCall(d, ch', chrow') /\ ~OfReply(d)
    BY <1>a, <2>1, <2>3, <2>4, <2>d DEF ChatCall, OfReply
  <2> QED BY <1>a, <2>1, <2>2, <2>3, <2>4, <2>5, <2>d, ChatSent DEF OfReply
<1>4. CASE LeadAcknowledged(c)
  <2>1. /\ c.kind = "lead" /\ c.st = "done" /\ UNCHANGED <<ch, chrow>>
        /\ chnet' = (chnet \ {c}) \cup {ChCall("close", "closed")}
    BY <1>4 DEF LeadAcknowledged, Becomes
  <2>2. ChatCall(ChCall("close", "closed"), ch', chrow') /\ ~OfReply(ChCall("close", "closed"))
    BY <1>a, <2>1 DEF ChatCall, ChCall, OfReply
  <2> QED BY <1>a, <2>1, <2>2, ChatSent DEF OfReply, Known, Marked
<1> QED BY <1>1, <1>2, <1>3, <1>4

\* The chat panel: polls, and what is typed.
LEMMA ChatPolls ==
  ASSUME ChatInv,
         \/ CustomerWrites \/ Poll \/ TypeReply
         \/ \E c \in chnet : PollReads(c) \/ PollAnswered(c) \/ PollFails(c)
  PROVE  ChatInv'
<1>a. /\ ch \in ChatPage /\ chrow \in ChatRow /\ Known(ch, chrow) /\ OneReply(ch, chnet)
      /\ chrow.status = "closed" => ch.detail = "ready" /\ Marked(ch, chrow)
      /\ ch.shown \in Seq(Nat) /\ chrow.log \in Seq(Nat)
  BY DEF ChatInv, ChatPage, ChatRow
<1>1. CASE CustomerWrites
  <2>c. PICK lead \in BOOLEAN :
          chrow' = [status |-> IF chrow.status \in {"waiting", "human"}
                               THEN chrow.status ELSE "bot",
                    leads |-> IF lead THEN Append(chrow.leads, "open") ELSE chrow.leads,
                    log |-> IF chrow.status = "closed" THEN <<0>> ELSE Append(chrow.log, 0)]
    BY <1>1 DEF CustomerWrites
  <2>d. PICK st : st = IF chrow.status \in {"waiting", "human"} THEN chrow.status ELSE "bot"
    OBVIOUS
  <2>e. PICK n : n = IF lead THEN Append(chrow.leads, "open") ELSE chrow.leads
    OBVIOUS
  <2>f. PICK l : l = IF chrow.status = "closed" THEN <<0>> ELSE Append(chrow.log, 0)
    OBVIOUS
  <2>g. chrow' = [status |-> st, leads |-> n, log |-> l]
    BY <2>c, <2>d, <2>e, <2>f
  <2>1. /\ chrow' = [status |-> st, leads |-> n, log |-> l] /\ UNCHANGED <<ch, chnet>>
        /\ st \in {"waiting", "human", "bot"}
        /\ n = chrow.leads \/ n = Append(chrow.leads, "open")
        /\ l = <<0>> \/ l = Append(chrow.log, 0)
    BY <1>1, <2>d, <2>e, <2>f, <2>g DEF CustomerWrites
  <2>a. l \in Seq(Nat) /\ st \in ConversationStatus /\ st # "closed"
    <3>1. <<0>> \in Seq(Nat)
      OBVIOUS
    <3>2. Append(chrow.log, 0) \in Seq(Nat)
      BY <1>a, AppendProperties
    <3>3. st \in ConversationStatus /\ st # "closed"
      BY <2>1 DEF ConversationStatus
    <3> QED BY <2>1, <3>1, <3>2, <3>3
  <2>b. /\ n \in Seq(LeadMark) /\ Len(n) \in Nat /\ Len(chrow.leads) \in Nat
        /\ Len(chrow.leads) <= Len(n)
        /\ \A i \in 1 .. Len(chrow.leads) : n[i] = chrow.leads[i]
    <3>1. chrow.leads \in Seq(LeadMark) /\ "open" \in LeadMark
      BY <1>a DEF ChatRow, LeadMark
    <3>2. CASE n = chrow.leads
      BY <3>1, <3>2
    <3>3. CASE n = Append(chrow.leads, "open")
      <4>1. /\ n \in Seq(LeadMark) /\ Len(n) = Len(chrow.leads) + 1
            /\ \A i \in 1 .. Len(chrow.leads) : n[i] = chrow.leads[i]
        BY <3>1, <3>3, AppendProperties
      <4>2. Len(chrow.leads) \in Nat
        BY <3>1
      <4> QED BY <4>1, <4>2
    <3> QED BY <2>1, <3>2, <3>3
  <2>2. chrow' \in ChatRow /\ chrow'.leads = n /\ chrow'.status # "closed"
    BY <2>1, <2>a, <2>b DEF ChatRow
  <2>3. Known(ch', chrow') /\ (Marked(ch, chrow) => Marked(ch', chrow'))
    BY <1>a, <2>1, <2>2, <2>b DEF Known, Marked
  <2> QED BY <1>a, <2>1, <2>2, <2>3, ChatKept DEF OneReply
<1>2. CASE TypeReply
  <2>1. ch' = [ch EXCEPT !.draft = ch.next, !.next = @ + 1] /\ UNCHANGED <<chrow, chnet>>
    BY <1>2 DEF TypeReply
  <2>a. ch.next \in Nat
    BY <1>a DEF ChatPage
  <2>b. PICK k, n \in Nat : k = ch.next /\ n = ch.next + 1
    BY <2>a
  <2>c. ch' = [ch EXCEPT !.draft = k, !.next = n]
    BY <2>1, <2>b
  <2>2. /\ ch' \in ChatPage /\ ch'.pending = ch.pending /\ ch'.shown = ch.shown
        /\ ch'.sending = ch.sending /\ ch'.lead = ch.lead
        /\ ch'.detail = ch.detail
    BY <1>a, <2>c DEF ChatPage
  <2> QED BY <1>a, <2>1, <2>2, ChatKept DEF OneReply, Known, Marked
<1>3. CASE Poll
  <2>1. chnet' = chnet \cup {ChCall("poll", 0)} /\ UNCHANGED <<ch, chrow>>
    BY <1>3 DEF Poll, Post
  <2>2. ChatCall(ChCall("poll", 0), ch', chrow') /\ ~OfReply(ChCall("poll", 0))
    BY DEF ChatCall, ChCall, OfReply
  <2> QED BY <1>a, <2>1, <2>2, ChatSent DEF OfReply, Known, Marked
<1>4. ASSUME NEW c \in chnet, PollReads(c) PROVE ChatInv'
  <2>a. ChatCall(c, ch, chrow)
    BY DEF ChatInv
  <2>1. /\ c.kind \in {"poll", "reconcile"} /\ UNCHANGED <<ch, chrow>>
        /\ chnet' = (chnet \ {c}) \cup {[c EXCEPT !.st = "done", !.log = chrow.log]}
    BY <1>4 DEF PollReads, Becomes
  <2>2. PICK l : l = chrow.log
    OBVIOUS
  <2>3. PICK d : d = [c EXCEPT !.st = "done", !.log = l]
    OBVIOUS
  <2>4. ChatCall(d, ch', chrow') /\ d.kind = c.kind
    BY <1>a, <2>a, <2>1, <2>2, <2>3 DEF ChatCall, OfReply, Marked
  <2>5. OfReply(d) => OfReply(c) /\ (c \in chnet' => c = d)
    BY <2>1, <2>2, <2>3, <2>4 DEF OfReply
  <2> QED BY <1>a, <2>1, <2>2, <2>3, <2>4, <2>5, ChatSent DEF Known, Marked
<1>5. ASSUME NEW c \in chnet, PollAnswered(c) PROVE ChatInv'
  <2>a. c.log \in Seq(Nat)
    BY DEF ChatInv, ChatCall
  <2>1. PICK l : l = IF ch.pending THEN ch.shown ELSE c.log
    OBVIOUS
  <2>2. ch' = [ch EXCEPT !.shown = l] /\ chrow' = chrow /\ chnet' \subseteq chnet
    BY <1>5, <2>1 DEF PollAnswered, Settle
  <2>3. /\ ch' \in ChatPage /\ ch'.pending = ch.pending /\ ch'.shown = l
        /\ ch'.sending = ch.sending /\ ch'.lead = ch.lead
        /\ ch'.detail = ch.detail
    BY <1>a, <2>a, <2>1, <2>2 DEF ChatPage
  <2> QED BY <1>a, <2>1, <2>2, <2>3, ChatKept DEF OneReply, Known, Marked
<1>6. ASSUME NEW c \in chnet, PollFails(c) PROVE ChatInv'
  <2>1. UNCHANGED <<ch, chrow>> /\ chnet' \subseteq chnet
    BY <1>6 DEF PollFails, Settle
  <2> QED BY <1>a, <2>1, ChatKept DEF OneReply, Known, Marked
<1> QED BY <1>1, <1>2, <1>3, <1>4, <1>5, <1>6

\* A reply, from the composer to the transcript.
LEMMA ChatReplies ==
  ASSUME ChatInv,
         \/ SendReply
         \/ \E c \in chnet : \/ ReplyLands(c) \/ ReplyAcknowledged(c)
                             \/ Reconciled(c) \/ SendFails(c)
  PROVE  ChatInv'
<1>a. /\ ch \in ChatPage /\ chrow \in ChatRow /\ Known(ch, chrow) /\ OneReply(ch, chnet)
      /\ chrow.status = "closed" => ch.detail = "ready" /\ Marked(ch, chrow)
      /\ ch.shown \in Seq(Nat) /\ chrow.log \in Seq(Nat)
  BY DEF ChatInv, ChatPage, ChatRow
<1>1. CASE SendReply
  <2>1. PICK k \in Nat : k = ch.draft
    BY <1>a DEF ChatPage
  <2>2. PICK s : s = Append(ch.shown, Bubble(k))
    OBVIOUS
  <2>3. /\ ch' = [ch EXCEPT !.sending = TRUE, !.pending = TRUE, !.draft = 0, !.shown = s]
        /\ chnet' = chnet \cup {ChCall("reply", k)} /\ chrow' = chrow /\ ~ch.sending
    BY <1>1, <2>1, <2>2 DEF SendReply, Post
  <2>4. Bubble(k) \in Nat
    BY InboxBoundsAssumption DEF Bubble
  <2>5. s \in Seq(Nat) /\ Bubble(k) \in ToSet(s)
    <3>1. s \in Seq(Nat) /\ DOMAIN s = 1 .. Len(ch.shown) + 1
          /\ s[Len(ch.shown) + 1] = Bubble(k) /\ Len(ch.shown) + 1 \in DOMAIN s
      BY <1>a, <2>2, <2>4
    <3> QED BY <3>1 DEF ToSet
  <2>6. /\ ch' \in ChatPage /\ ch'.sending /\ ch'.shown = s
        /\ ch'.lead = ch.lead /\ ch'.detail = ch.detail
    BY <1>a, <2>3, <2>5 DEF ChatPage
  <2>7. \A c \in chnet : ~OfReply(c)
    BY <1>a, <2>3 DEF OneReply
  <2>8. ChatCall(ChCall("reply", k), ch', chrow') /\ ChCall("reply", k).v = k
    BY DEF ChatCall, ChCall, OfReply
  <2>9. (\A c \in chnet' : ChatCall(c, ch', chrow')) /\ OneReply(ch', chnet')
    <3>1. \A c \in chnet : ChatCall(c, ch', chrow')
      BY <2>3, <2>6 DEF ChatInv, ChatCall, Marked
    <3>2. \A c \in chnet' : ChatCall(c, ch', chrow')
      BY <2>3, <2>8, <3>1
    <3>3. OneReply(ch', chnet')
      BY <2>3, <2>6, <2>7 DEF OneReply
    <3> QED BY <3>2, <3>3
  <2>10. BubbleStays'
    BY <2>3, <2>5, <2>6, <2>7, <2>8 DEF BubbleStays, Bubble, OfReply
  <2> QED BY <1>a, <2>3, <2>6, <2>9, <2>10 DEF ChatInv, Known, Marked
<1>2. ASSUME NEW c \in chnet, ReplyLands(c) PROVE ChatInv'
  <2>a. ChatCall(c, ch, chrow) /\ c.kind = "reply" /\ c.v \in Nat
    BY <1>2 DEF ChatInv, ChatCall, ReplyLands, OfReply
  <2>1. PICK d : d = [c EXCEPT !.st = "done"]
    OBVIOUS
  <2>2. /\ chrow' = [chrow EXCEPT !.log = Append(@, c.v), !.status = "human"] /\ ch' = ch
        /\ chnet' = (chnet \ {c}) \cup {d}
    BY <1>2, <2>1 DEF ReplyLands, Becomes
  <2>d. Append(chrow.log, c.v) \in Seq(Nat)
    BY <1>a, <2>a, AppendProperties
  <2>b. PICK l : l = Append(chrow.log, c.v) /\ l \in Seq(Nat)
    BY <2>d
  <2>c. chrow' = [chrow EXCEPT !.log = l, !.status = "human"]
    BY <2>2, <2>b
  <2>3. chrow' \in ChatRow /\ chrow'.leads = chrow.leads /\ chrow'.status = "human"
    BY <1>a, <2>b, <2>c DEF ChatRow, ConversationStatus
  <2>4. ChatCall(d, ch', chrow') /\ d.kind = "reply" /\ d.v = c.v
    BY <2>a, <2>1, <2>3 DEF ChatCall, OfReply
  <2>5. (\A x \in chnet' : ChatCall(x, ch', chrow')) /\ OneReply(ch', chnet')
    <3>1. \A x \in chnet : ChatCall(x, ch', chrow')
      BY <2>2, <2>3 DEF ChatInv, ChatCall, Marked
    <3>2. \A x \in chnet' : ChatCall(x, ch', chrow')
      BY <2>2, <2>4, <3>1
    <3>3. OneReply(ch', chnet')
      BY <1>a, <2>a, <2>2, <2>4 DEF OneReply, OfReply
    <3> QED BY <3>2, <3>3
  <2>6. BubbleStays'
    BY <2>a, <2>2, <2>4 DEF ChatInv, BubbleStays, Bubble
  <2> QED BY <1>a, <2>2, <2>3, <2>5, <2>6 DEF ChatInv, Known, Marked
<1>3. ASSUME NEW c \in chnet, ReplyAcknowledged(c) PROVE ChatInv'
  <2>a. c.kind = "reply" /\ c.v \in Nat /\ OfReply(c)
    BY <1>3 DEF ChatInv, ChatCall, ReplyAcknowledged, OfReply
  <2>1. /\ ch' = [ch EXCEPT !.pending = FALSE, !.status = "human"] /\ chrow' = chrow
        /\ chnet' = (chnet \ {c}) \cup {ChCall("reconcile", c.v)}
    BY <1>3 DEF ReplyAcknowledged, Becomes
  <2>2. ch' \in ChatPage /\ ch'.sending = ch.sending /\ ch'.lead = ch.lead
        /\ ch'.detail = ch.detail /\ ~ch'.pending
    BY <1>a, <2>1 DEF ChatPage, ConversationStatus
  <2>3. /\ ChatCall(ChCall("reconcile", c.v), ch', chrow')
        /\ ChCall("reconcile", c.v).kind = "reconcile"
    BY <2>a DEF ChatCall, ChCall, OfReply
  <2>4. c \notin chnet'
    BY <2>a, <2>1, <2>3
  <2> QED BY <1>a, <2>a, <2>1, <2>2, <2>3, <2>4, ChatSent DEF Known, Marked
<1>4. ASSUME NEW c \in chnet, Reconciled(c) \/ SendFails(c) PROVE ChatInv'
  <2>a. OfReply(c) /\ c.v \in Nat /\ c.log \in Seq(Nat)
    BY <1>4 DEF ChatInv, ChatCall, Reconciled, SendFails, OfReply
  <2>1. chrow' = chrow /\ chnet' = chnet \ {c}
    BY <1>4 DEF Reconciled, SendFails, Settle
  <2>2. \A x \in chnet' : ~OfReply(x)
    BY <1>a, <2>a, <2>1 DEF OneReply
  <2>3. ch' \in ChatPage /\ ch'.lead = ch.lead /\ ch'.detail = ch.detail
    <3>1. CASE Reconciled(c)
      BY <1>a, <2>a, <3>1 DEF Reconciled, ChatPage
    <3>2. CASE SendFails(c)
      <4>1. PICK s : s = Without(ch.shown, Bubble(c.v))
        OBVIOUS
      <4>2. s \in Seq(Nat)
        BY <1>a, <4>1, WithoutIsSeq
      <4>3. ch' = [ch EXCEPT !.pending = FALSE, !.sending = FALSE, !.draft = c.v, !.shown = s]
        BY <3>2, <4>1 DEF SendFails
      <4> QED BY <1>a, <2>a, <4>2, <4>3 DEF ChatPage
    <3> QED BY <1>4, <3>1, <3>2
  <2> QED BY <1>a, <2>1, <2>2, <2>3, ChatKept DEF Known, Marked, OfReply
<1> QED BY <1>1, <1>2, <1>3, <1>4

\* The detail of the row, fetched when it is opened.
LEMMA ChatDetail ==
  ASSUME ChatInv, DetailReads \/ DetailShown \/ DetailFails
  PROVE  ChatInv'
<1>a. /\ ch \in ChatPage /\ chrow \in ChatRow /\ Known(ch, chrow) /\ OneReply(ch, chnet)
      /\ chrow.status = "closed" => ch.detail = "ready" /\ Marked(ch, chrow)
      /\ \A c \in chnet : ChatCall(c, ch, chrow)
      /\ BubbleStays
  BY DEF ChatInv
<1>1. Len(chrow.leads) \in Nat /\ ch.lead \in Nat /\ ch.lead <= Len(chrow.leads)
  BY <1>a DEF ChatRow, ChatPage, Known
<1>2. PICK d \in {"read", "ready", "error"}, n \in 0 .. Len(chrow.leads) :
        /\ ch' = [ch EXCEPT !.detail = d, !.lead = n] /\ UNCHANGED <<chrow, chnet>>
        /\ ch.detail # "ready"
  <2>1. CASE DetailReads
    <3>1. PICK n \in 0 .. Len(chrow.leads) : n = Len(chrow.leads)
      BY <1>1
    <3> QED BY <2>1, <3>1 DEF DetailReads
  <2>2. CASE DetailShown \/ DetailFails
    <3>1. PICK d \in {"ready", "error"} : ch' = [ch EXCEPT !.detail = d]
      BY <2>2 DEF DetailShown, DetailFails
    <3>2. ch' = [ch EXCEPT !.detail = d, !.lead = ch.lead]
      BY <1>a, <3>1 DEF ChatPage
    <3>3. PICK n \in 0 .. Len(chrow.leads) : n = ch.lead
      BY <1>1
    <3>4. ch' = [ch EXCEPT !.detail = d, !.lead = n]
      BY <3>2, <3>3
    <3>5. ch.detail # "ready" /\ UNCHANGED <<chrow, chnet>>
      BY <2>2 DEF DetailShown, DetailFails
    <3> QED BY <3>4, <3>5
  <2> QED BY <2>1, <2>2
<1>3. n \in Nat
  BY <1>1
<1>4. /\ ch' \in ChatPage /\ ch'.pending = ch.pending /\ ch'.shown = ch.shown
      /\ ch'.sending = ch.sending /\ Known(ch', chrow')
  BY <1>a, <1>2, <1>3 DEF ChatPage, Known
<1>5. \A c \in chnet' : ChatCall(c, ch', chrow')
  BY <1>a, <1>2 DEF ChatCall
<1>6. OneReply(ch', chnet') /\ BubbleStays'
  BY <1>a, <1>2, <1>4 DEF OneReply, BubbleStays, Bubble
<1> QED BY <1>a, <1>2, <1>4, <1>5, <1>6 DEF ChatInv

\* Every step of the opened row.
LEMMA ChatNext ==
  ASSUME ChatInv, [CHNext]_chvars PROVE ChatInv'
<1>1. CASE UNCHANGED chvars
  BY <1>1 DEF chvars, ChatInv, BubbleStays, Bubble
<1>2. CASE CHNext
  BY <1>2, ChatDetail, ChatButtons, ChatButtonCalls, ChatPolls, ChatReplies DEF CHNext
<1> QED BY <1>1, <1>2

-----------------------------------------------------------------------------
(* The list of services *)

ServiceCall(c) ==
    /\ c = [kind |-> c.kind, id |-> c.id, st |-> c.st, v |-> c.v, n |-> c.n]
    /\ c.kind \in {"add", "patch", "remove", "reload"} /\ c.st \in {"sent", "done"}

\* A change has taken effect and its answer is on its way: a reload will follow.
Landed(net) == \E c \in net : c.kind # "reload" /\ c.st = "done"

\* One reload at a time, and it or the list is what the server keeps, unless a change
\* that has taken effect since is still to be answered.
ServicesInv ==
    /\ sv = [list |-> sv.list, busy |-> sv.busy, adding |-> sv.adding, calls |-> sv.calls,
             raced |-> sv.raced, failed |-> sv.failed]
    /\ \A c \in svnet : ServiceCall(c)
    /\ ~sv.raced /\ ~sv.failed =>
         /\ \A c, d \in Reloads : c = d
         /\ \A c \in Reloads : c.st = "done" => c.v = svrow \/ Landed(svnet)
         /\ Reloads = {} => sv.list = svrow \/ Landed(svnet)

\* An editor that is opened.
LEMMA ServicesInit == SVInit => ServicesInv
BY DEF SVInit, ServicesInv, Reloads

\* Every step of the editor.
LEMMA ServicesNext ==
  ASSUME ServicesInv, [SVNext]_svvars PROVE ServicesInv'
<1>1. ASSUME NEW kind \in {"add", "patch", "remove"}, NEW id, Request(kind, id)
      PROVE  ServicesInv'
  <2>1. PICK d : d = Call(kind, id)
    OBVIOUS
  <2>2. ServiceCall(d) /\ d.kind # "reload" /\ d.st = "sent"
    BY <2>1 DEF Call, ServiceCall
  <2>3. svnet' = svnet \cup {d} /\ svrow' = svrow
    BY <1>1, <2>1 DEF Request
  <2>4. /\ sv' = [list |-> sv'.list, busy |-> sv'.busy, adding |-> sv'.adding,
                  calls |-> sv'.calls, raced |-> sv'.raced, failed |-> sv'.failed]
        /\ sv'.list = sv.list /\ sv'.raced = sv.raced /\ sv'.failed = sv.failed
    BY <1>1 DEF Request, ServicesInv
  <2>5. Reloads' = Reloads /\ (Landed(svnet) => Landed(svnet'))
    BY <2>2, <2>3 DEF Reloads, Landed
  <2> QED BY <2>2, <2>3, <2>4, <2>5 DEF ServicesInv
<1>2. ASSUME NEW c \in svnet, ServiceLands(c) PROVE ServicesInv'
  <2>1. PICK d : d = [c EXCEPT !.st = "done"]
    OBVIOUS
  <2>2. ServiceCall(d) /\ d.kind = c.kind /\ d.st = "done" /\ c.kind # "reload"
    BY <1>2, <2>1 DEF ServicesInv, ServiceCall, ServiceLands
  <2>3. svnet' = (svnet \ {c}) \cup {d} /\ sv' = sv
    BY <1>2, <2>1 DEF ServiceLands
  <2>4. Reloads' = Reloads /\ Landed(svnet')
    BY <2>2, <2>3 DEF Reloads, Landed
  <2> QED BY <2>2, <2>3, <2>4 DEF ServicesInv
<1>3. ASSUME NEW c \in svnet, ServiceAnswered(c) PROVE ServicesInv'
  <2>1. PICK d : d = [c EXCEPT !.kind = "reload", !.st = "sent"]
    OBVIOUS
  <2>a. ServiceCall(c) /\ c.kind # "reload"
    BY <1>3 DEF ServicesInv, ServiceAnswered
  <2>2. ServiceCall(d) /\ d.kind = "reload" /\ d.st = "sent" /\ c.kind # "reload"
    BY <2>a, <2>1 DEF ServiceCall
  <2>3. svnet' = (svnet \ {c}) \cup {d} /\ svrow' = svrow
    BY <1>3, <2>1 DEF ServiceAnswered
  <2>4. /\ sv' = [list |-> sv'.list, busy |-> sv'.busy, adding |-> sv'.adding,
                  calls |-> sv'.calls, raced |-> sv'.raced, failed |-> sv'.failed]
        /\ sv'.raced = (sv.raced \/ Reloads # {}) /\ sv'.failed = sv.failed
    BY <1>3 DEF ServiceAnswered, ServicesInv
  <2>5. Reloads' = Reloads \cup {d}
    BY <2>2, <2>3 DEF Reloads
  <2> QED BY <2>2, <2>3, <2>4, <2>5 DEF ServicesInv
<1>4. ASSUME NEW c \in svnet, ReloadReads(c) PROVE ServicesInv'
  <2>1. PICK d : d = [c EXCEPT !.st = "done", !.v = svrow]
    OBVIOUS
  <2>a. ServiceCall(c) /\ c.kind = "reload"
    BY <1>4 DEF ServicesInv, ReloadReads, Reloads
  <2>2. ServiceCall(d) /\ d.kind = "reload" /\ d.v = svrow /\ c.kind = "reload"
    BY <2>a, <2>1 DEF ServiceCall
  <2>3. svnet' = (svnet \ {c}) \cup {d} /\ svrow' = svrow /\ sv' = sv
    BY <1>4, <2>1 DEF ReloadReads
  <2>4. Reloads' = (Reloads \ {c}) \cup {d} /\ c \in Reloads
    BY <2>2, <2>3 DEF Reloads
  <2> QED BY <2>2, <2>3, <2>4 DEF ServicesInv
<1>5. ASSUME NEW c \in svnet, ReloadAnswered(c) PROVE ServicesInv'
  <2>1. c.kind = "reload" /\ c \in Reloads /\ c.st = "done"
    BY <1>5 DEF ReloadAnswered, Reloads
  <2>2. svnet' = svnet \ {c} /\ svrow' = svrow /\ sv' = [sv EXCEPT !.list = c.v]
    BY <1>5 DEF ReloadAnswered
  <2>3. /\ sv' = [list |-> sv'.list, busy |-> sv'.busy, adding |-> sv'.adding,
                  calls |-> sv'.calls, raced |-> sv'.raced, failed |-> sv'.failed]
        /\ sv'.list = c.v /\ sv'.raced = sv.raced /\ sv'.failed = sv.failed
    BY <2>2 DEF ServicesInv
  <2>4. Reloads' = Reloads \ {c} /\ (Landed(svnet) => Landed(svnet'))
    BY <2>1, <2>2 DEF Reloads, Landed
  <2> QED BY <2>1, <2>2, <2>3, <2>4 DEF ServicesInv
<1>6. ASSUME NEW c \in svnet, ServiceFails(c) PROVE ServicesInv'
  <2>1. /\ sv' = [list |-> sv'.list, busy |-> sv'.busy, adding |-> sv'.adding,
                  calls |-> sv'.calls, raced |-> sv'.raced, failed |-> sv'.failed]
        /\ sv'.failed
    BY <1>6 DEF ServiceFails, ServicesInv
  <2>2. svnet' = svnet \ {c}
    BY <1>6 DEF ServiceFails
  <2> QED BY <2>1, <2>2 DEF ServicesInv
<1>7. CASE UNCHANGED svvars
  BY <1>7 DEF svvars, ServicesInv, Reloads
<1> QED BY <1>1, <1>2, <1>3, <1>4, <1>5, <1>6, <1>7
    DEF SVNext, AddService, PatchService, RemoveService

-----------------------------------------------------------------------------
(* The lists of leads and of bookings *)

ListCall(c) ==
    /\ c = [kind |-> c.kind, f |-> c.f, own |-> c.own, id |-> c.id, to |-> c.to,
            st |-> c.st, v |-> c.v, n |-> c.n]
    /\ c.kind \in {"pull", "change"} /\ c.own \in BOOLEAN /\ (c.own => c.kind = "pull")

\* Every call is for the filter of the page, and a fetch is the only call there is.
OnePull(f, net) ==
    /\ \A c \in net : c.f = f
    /\ \A c, d \in net : c.kind = "pull" => c = d

\* Nothing has changed on the server since the list was shown.
NothingLanded(net) == \A c \in net : c.kind = "change" /\ c.st = "sent"

\* A change a page asks for.
LEMMA ChangeCall ==
  ASSUME NEW f, NEW id, NEW to, NEW n, NEW d, d = Change(f, id, to, n)
  PROVE  ListCall(d) /\ d.kind = "change" /\ d.f = f /\ d.st = "sent" /\ ~d.own
BY DEF ListCall, Change

\* The cleanup leaves nothing when all that is under way can be cancelled; what it
\* leaves otherwise are calls of the page.
LEMMA CleanUp ==
  ASSUME NEW net, \A c \in net : ListCall(c)
  PROVE  DropOwn(net) \subseteq net /\ (~Uncancelled(net) => DropOwn(net) = {})
BY DEF DropOwn, Uncancelled, ListCall

LeadsShape(p) ==
    p = [f |-> p.f, query |-> p.query, list |-> p.list, gone |-> p.gone, loading |-> p.loading,
         error |-> p.error, card |-> p.card, saving |-> p.saving, steps |-> p.steps,
         raced |-> p.raced, failed |-> p.failed]

\* A fetch keeps the cards out of reach, and a change keeps the filter out of reach:
\* each is alone, and what the page shows or is about to show is the server's list.
LeadsFollow(p, row, net) ==
    /\ OnePull(p.f, net)
    /\ \A c \in net : c.kind = "pull" =>
         p.loading /\ p.card.id = 0
         /\ (c.st = "done" => c.v[1] = {r \in row : p.f.status \in {"all", r.status}
                                                    /\ p.f.flow \in {"all", r.flow}})
    /\ \A c \in net : c.kind = "change" => p.saving /\ p.card.id # 0
    /\ NothingLanded(net) => p.list = {r \in row : p.f.status \in {"all", r.status}
                                                   /\ p.f.flow \in {"all", r.flow}}

LeadsInv ==
    /\ LeadsShape(ld)
    /\ \A c \in ldnet : ListCall(c)
    /\ ~ld.raced /\ ~ld.failed => LeadsFollow(ld, ldrow, ldnet)

\* A page that is opened.
LEMMA LeadsInit == LDInit => LeadsInv
<1> SUFFICES ASSUME LDInit PROVE LeadsInv
  OBVIOUS
<1>1. PICK f, d : /\ d = Pull(f, TRUE, 0)
               /\ ld = [f |-> f, query |-> FALSE, list |-> {}, gone |-> {}, loading |-> TRUE,
                  error |-> FALSE, card |-> [id |-> 0, to |-> ""], saving |-> FALSE,
                  steps |-> 0, raced |-> FALSE, failed |-> FALSE]
               /\ ldnet = {d}
  BY DEF LDInit
<1>a. ListCall(d) /\ d.kind = "pull" /\ d.f = f /\ d.st = "sent"
  BY <1>1 DEF Pull, ListCall
<1>2. LeadsShape(ld) /\ ld.f = f /\ ld.loading /\ ld.card.id = 0
  BY <1>1 DEF LeadsShape
<1> QED BY <1>1, <1>2, <1>a DEF LeadsInv, LeadsFollow, OnePull, NothingLanded

\* The filters, the search and the dialog.
LEMMA LeadsControls ==
  ASSUME LeadsInv,
         \/ Search \/ CloseLeadDialog \/ ConfirmLeadDialog
         \/ \E f : Refilter(f)
         \/ \E id, to : OpenLeadDialog(id, to)
  PROVE  LeadsInv'
<1>1. CASE Search
  <2>1. PICK q : q = ~ld.query
    OBVIOUS
  <2>2. ld' = [ld EXCEPT !.query = q] /\ ldrow' = ldrow /\ ldnet' = ldnet
    BY <1>1, <2>1 DEF Search
  <2>3. LeadsShape(ld') /\ LeadsFollow(ld', ldrow', ldnet') = LeadsFollow(ld, ldrow, ldnet)
        /\ ld'.raced = ld.raced /\ ld'.failed = ld.failed
    BY <2>2 DEF LeadsInv, LeadsShape, LeadsFollow
  <2> QED BY <2>2, <2>3 DEF LeadsInv
<1>2. CASE CloseLeadDialog
  <2>1. ld' = [ld EXCEPT !.card = [id |-> 0, to |-> ""]] /\ ldrow' = ldrow /\ ldnet' = ldnet
        /\ ~ld.saving
    BY <1>2 DEF CloseLeadDialog
  <2>2. LeadsShape(ld') /\ ld'.raced = ld.raced /\ ld'.failed = ld.failed /\ ld'.f = ld.f
        /\ ld'.loading = ld.loading /\ ld'.list = ld.list /\ ld'.card.id = 0
    BY <2>1 DEF LeadsInv, LeadsShape
  <2> QED BY <2>1, <2>2 DEF LeadsInv, LeadsFollow
<1>3. CASE ConfirmLeadDialog
  <2>1. PICK d : d = Change(ld.f, ld.card.id, ld.card.to, ld.steps + 1)
    OBVIOUS
  <2>2. /\ ld' = [ld EXCEPT !.saving = TRUE, !.steps = @ + 1] /\ ldrow' = ldrow
        /\ ldnet' = ldnet \cup {d} /\ ld.card.id # 0
    BY <1>3, <2>1 DEF ConfirmLeadDialog, NoDialog
  <2>3. LeadsShape(ld') /\ ld'.raced = ld.raced /\ ld'.failed = ld.failed /\ ld'.f = ld.f
        /\ ld'.loading = ld.loading /\ ld'.list = ld.list /\ ld'.card = ld.card /\ ld'.saving
    BY <2>2 DEF LeadsInv, LeadsShape
  <2>4. ListCall(d) /\ d.kind = "change" /\ d.f = ld.f
    BY <2>1, ChangeCall
  <2> QED BY <2>2, <2>3, <2>4 DEF LeadsInv, LeadsFollow, OnePull, NothingLanded
<1>4. ASSUME NEW f, Refilter(f) PROVE LeadsInv'
  <2>1. PICK d : d = Pull(f, TRUE, ld.steps + 1)
    OBVIOUS
  <2>a. PICK b \in BOOLEAN : b <=> ld.raced \/ Uncancelled(ldnet)
    OBVIOUS
  <2>b. Loading(ld, ldnet) = [ld EXCEPT !.loading = TRUE, !.error = FALSE, !.raced = b]
    BY <2>a DEF Loading
  <2>2. /\ ld' = [Loading(ld, ldnet) EXCEPT !.f = f, !.steps = @ + 1] /\ ldrow' = ldrow
        /\ ldnet' = DropOwn(ldnet) \cup {d} /\ ld.card.id = 0
    BY <1>4, <2>1 DEF Refilter, NoDialog
  <2>3. LeadsShape(ld') /\ ld'.raced = b /\ ld'.f = f /\ ld'.loading /\ ld'.card = ld.card
    BY <2>b, <2>2 DEF LeadsInv, LeadsShape
  <2>4. ListCall(d) /\ d.kind = "pull" /\ d.f = f /\ d.st = "sent"
    BY <2>1 DEF Pull, ListCall
  <2>5. \A c \in ldnet' : ListCall(c)
    BY <2>2, <2>4, CleanUp DEF LeadsInv
  <2>6. ~ld'.raced => ldnet' = {d}
    BY <2>a, <2>2, <2>3, CleanUp DEF LeadsInv
  <2> QED BY <2>2, <2>3, <2>4, <2>5, <2>6 DEF LeadsInv, LeadsFollow, OnePull, NothingLanded
<1>5. ASSUME NEW id, NEW to, OpenLeadDialog(id, to) PROVE LeadsInv'
  <2>1. ld' = [ld EXCEPT !.card = [id |-> id, to |-> to]] /\ ldrow' = ldrow /\ ldnet' = ldnet
        /\ ~ld.loading /\ ld.card.id = 0
    BY <1>5 DEF OpenLeadDialog, LeadsShown, NoDialog
  <2>2. LeadsShape(ld') /\ ld'.raced = ld.raced /\ ld'.failed = ld.failed /\ ld'.f = ld.f
        /\ ld'.loading = ld.loading /\ ld'.list = ld.list /\ ld'.saving = ld.saving
    BY <2>1 DEF LeadsInv, LeadsShape
  <2> QED BY <2>1, <2>2 DEF LeadsInv, LeadsFollow
<1> QED BY <1>1, <1>2, <1>3, <1>4, <1>5

\* The calls of the page.
LEMMA LeadsCalls ==
  ASSUME LeadsInv, NEW c \in ldnet,
         \/ LeadsRead(c) \/ LeadsAnswered(c) \/ LeadsFail(c)
         \/ LeadChangeLands(c) \/ LeadChangeAnswered(c) \/ LeadChangeFails(c)
  PROVE  LeadsInv'
<1>a. ListCall(c)
  BY DEF LeadsInv
<1>1. CASE LeadsRead(c)
  <2>1. PICK v, w : v = LeadsOf(c.f) /\ w = LeadsOf([c.f EXCEPT !.status = "abandoned"])
    OBVIOUS
  <2>b. PICK u : u = <<v, w>>
    OBVIOUS
  <2>2. PICK d : d = [c EXCEPT !.st = "done", !.v = u] /\ ldnet' = (ldnet \ {c}) \cup {d}
    BY <1>1, <2>1, <2>b DEF LeadsRead
  <2>3. ListCall(d) /\ d.kind = "pull" /\ d.f = c.f /\ d.v = u /\ u[1] = v
    BY <1>a, <1>1, <2>2, <2>b DEF ListCall, LeadsRead
  <2>4. ld' = ld /\ ldrow' = ldrow /\ c.kind = "pull" /\ ldnet' = (ldnet \ {c}) \cup {d}
    BY <1>1, <2>2 DEF LeadsRead
  <2> QED BY <2>1, <2>3, <2>4 DEF LeadsInv, LeadsFollow, OnePull, NothingLanded, LeadsOf
<1>2. CASE LeadsAnswered(c)
  <2>1. /\ ld' = [ld EXCEPT !.list = c.v[1], !.gone = c.v[2], !.loading = FALSE]
        /\ ldnet' = ldnet \ {c} /\ ldrow' = ldrow /\ c.kind = "pull" /\ c.st = "done"
    BY <1>2 DEF LeadsAnswered
  <2>2. LeadsShape(ld') /\ ld'.raced = ld.raced /\ ld'.failed = ld.failed /\ ld'.f = ld.f
        /\ ld'.list = c.v[1]
    BY <2>1 DEF LeadsInv, LeadsShape
  <2>3. LeadsFollow(ld, ldrow, ldnet) => ldnet' = {}
    BY <2>1 DEF LeadsFollow, OnePull
  <2> QED BY <2>1, <2>2, <2>3 DEF LeadsInv, LeadsFollow, OnePull
<1>3. CASE LeadsFail(c) \/ LeadChangeFails(c)
  <2>1. LeadsShape(ld') /\ ld'.failed
    <3>1. CASE LeadsFail(c)
      BY <3>1 DEF LeadsFail, LeadsInv, LeadsShape
    <3>2. CASE LeadChangeFails(c)
      BY <3>2 DEF LeadChangeFails, LeadsInv, LeadsShape
    <3> QED BY <1>3, <3>1, <3>2
  <2>2. ldnet' = ldnet \ {c}
    BY <1>3 DEF LeadsFail, LeadChangeFails
  <2> QED BY <2>1, <2>2 DEF LeadsInv
<1>4. CASE LeadChangeLands(c)
  <2>1. PICK d : d = [c EXCEPT !.st = "done"]
    OBVIOUS
  <2>2. ListCall(d) /\ d.kind = "change" /\ d.f = c.f /\ d.st = "done"
    BY <1>a, <1>4, <2>1 DEF ListCall, LeadChangeLands
  <2>3. ld' = ld /\ ldnet' = (ldnet \ {c}) \cup {d} /\ c.kind = "change"
    BY <1>4, <2>1 DEF LeadChangeLands
  <2>4. (\A x \in ldnet' : ListCall(x)) /\ ~NothingLanded(ldnet')
    BY <2>2, <2>3 DEF LeadsInv, NothingLanded
  <2>5. LeadsFollow(ld, ldrow, ldnet) => \A x \in ldnet : x.kind = "change"
    BY <1>a, <2>3 DEF LeadsInv, LeadsFollow, ListCall, OnePull
  <2> QED BY <2>2, <2>3, <2>4, <2>5 DEF LeadsInv, LeadsFollow, OnePull
<1>5. CASE LeadChangeAnswered(c)
  <2>1. PICK d : d = Pull(c.f, FALSE, c.n)
    OBVIOUS
  <2>a. PICK b \in BOOLEAN : b <=> ld.raced \/ Uncancelled(ldnet \ {c})
    OBVIOUS
  <2>b. Loading(ld, ldnet \ {c}) = [ld EXCEPT !.loading = TRUE, !.error = FALSE, !.raced = b]
    BY <2>a DEF Loading
  <2>2. /\ ld' = [Loading(ld, ldnet \ {c}) EXCEPT !.saving = FALSE,
                                                  !.card = [id |-> 0, to |-> ""]]
        /\ ldrow' = ldrow /\ ldnet' = (ldnet \ {c}) \cup {d} /\ c.kind = "change"
    BY <1>5, <2>1 DEF LeadChangeAnswered
  <2>3. LeadsShape(ld') /\ ld'.raced = b /\ ld'.f = ld.f /\ ld'.loading /\ ld'.card.id = 0
        /\ ld'.failed = ld.failed
    BY <2>b, <2>2 DEF LeadsInv, LeadsShape
  <2>4. ListCall(d) /\ d.kind = "pull" /\ d.f = c.f /\ d.st = "sent"
    BY <2>1 DEF Pull, ListCall
  <2>5. \A x \in ldnet' : ListCall(x)
    BY <2>2, <2>4 DEF LeadsInv
  <2>6. LeadsFollow(ld, ldrow, ldnet) => \A x \in ldnet : x.kind = "change" /\ x.f = ld.f
    BY <1>a, <2>2 DEF LeadsInv, LeadsFollow, ListCall, OnePull
  <2>7. ~b => \A x \in ldnet \ {c} : x.kind = "pull"
    BY <2>a DEF Uncancelled, LeadsInv, ListCall
  <2>8. ~b /\ LeadsFollow(ld, ldrow, ldnet) => ldnet' = {d}
    BY <2>2, <2>6, <2>7
  <2> QED BY <2>a, <2>2, <2>3, <2>4, <2>5, <2>6, <2>8
          DEF LeadsInv, LeadsFollow, OnePull, NothingLanded
<1> QED BY <1>1, <1>2, <1>3, <1>4, <1>5

\* Every step of the page.
LEMMA LeadsNext ==
  ASSUME LeadsInv, [LDNext]_ldvars PROVE LeadsInv'
<1>1. CASE UNCHANGED ldvars
  BY <1>1 DEF ldvars, LeadsInv
<1>2. CASE LDNext
  BY <1>2, LeadsControls, LeadsCalls DEF LDNext, SetLeadStatusFilter, SetFlowFilter
<1> QED BY <1>1, <1>2

BookingsShape(p) ==
    p = [f |-> p.f, list |-> p.list, day |-> p.day, loading |-> p.loading, error |-> p.error,
         dialog |-> p.dialog, steps |-> p.steps, raced |-> p.raced, failed |-> p.failed]

\* Several cards may be changed at once, but not while a list is fetched.
BookingsFollow(p, row, net) ==
    /\ OnePull(p.f, net)
    /\ \A c \in net : c.kind = "pull" /\ c.st = "done" =>
         c.v = {r \in row : p.f \in {"all", r.status}}
    /\ NothingLanded(net) => p.list = {r \in row : p.f \in {"all", r.status}}

BookingsInv ==
    /\ BookingsShape(bk)
    /\ \A c \in bknet : ListCall(c)
    /\ ~bk.raced /\ ~bk.failed => BookingsFollow(bk, bkrow, bknet)

\* A panel that is opened.
LEMMA BookingsInit == BKInit => BookingsInv
<1> SUFFICES ASSUME BKInit PROVE BookingsInv
  OBVIOUS
<1>1. PICK d : d = Pull("all", TRUE, 0) /\ bknet = {d}
  BY DEF BKInit
<1>2. ListCall(d) /\ d.kind = "pull" /\ d.f = "all" /\ d.st = "sent"
  BY <1>1 DEF Pull, ListCall
<1>3. BookingsShape(bk) /\ bk.f = "all"
  BY DEF BKInit, BookingsShape
<1> QED BY <1>1, <1>2, <1>3 DEF BookingsInv, BookingsFollow, OnePull, NothingLanded

\* The filter, the calendar and the cards.
LEMMA BookingsControls ==
  ASSUME BookingsInv,
         \/ CloseMoveDialog
         \/ \E f : SetBookingFilter(f)
         \/ \E d : SelectDay(d)
         \/ \E r : OpenMoveDialog(r)
         \/ \E r, to : PatchBooking(r, to)
  PROVE  BookingsInv'
<1>1. CASE CloseMoveDialog \/ (\E d : SelectDay(d)) \/ (\E r : OpenMoveDialog(r))
  <2>1. bkrow' = bkrow /\ bknet' = bknet
    BY <1>1 DEF CloseMoveDialog, SelectDay, OpenMoveDialog
  <2>3. BookingsShape(bk') /\ bk'.raced = bk.raced /\ bk'.failed = bk.failed /\ bk'.f = bk.f
        /\ bk'.list = bk.list
    <3>1. CASE \E d : SelectDay(d)
      <4>1. PICK d : bk' = [bk EXCEPT !.day = d]
        BY <3>1 DEF SelectDay
      <4> QED BY <4>1 DEF BookingsInv, BookingsShape
    <3>2. CASE CloseMoveDialog \/ \E r : OpenMoveDialog(r)
      <4>1. PICK x : bk' = [bk EXCEPT !.dialog = x]
        BY <3>2 DEF CloseMoveDialog, OpenMoveDialog
      <4> QED BY <4>1 DEF BookingsInv, BookingsShape
    <3> QED BY <1>1, <3>1, <3>2
  <2> QED BY <2>1, <2>3 DEF BookingsInv, BookingsFollow
<1>2. ASSUME NEW f, SetBookingFilter(f) PROVE BookingsInv'
  <2>1. PICK d : d = Pull(f, TRUE, bk.steps + 1)
    OBVIOUS
  <2>a. PICK b \in BOOLEAN : b <=> bk.raced \/ Uncancelled(bknet)
    OBVIOUS
  <2>b. Loading(bk, bknet) = [bk EXCEPT !.loading = TRUE, !.error = FALSE, !.raced = b]
    BY <2>a DEF Loading
  <2>2. /\ bk' = [Loading(bk, bknet) EXCEPT !.f = f, !.steps = @ + 1] /\ bkrow' = bkrow
        /\ bknet' = DropOwn(bknet) \cup {d}
    BY <1>2, <2>1 DEF SetBookingFilter
  <2>3. BookingsShape(bk') /\ bk'.raced = b /\ bk'.f = f
    BY <2>b, <2>2 DEF BookingsInv, BookingsShape
  <2>4. ListCall(d) /\ d.kind = "pull" /\ d.f = f /\ d.st = "sent"
    BY <2>1 DEF Pull, ListCall
  <2>5. \A c \in bknet' : ListCall(c)
    BY <2>2, <2>4, CleanUp DEF BookingsInv
  <2>6. ~bk'.raced => bknet' = {d}
    BY <2>a, <2>2, <2>3, CleanUp DEF BookingsInv
  <2> QED BY <2>2, <2>3, <2>4, <2>5, <2>6
          DEF BookingsInv, BookingsFollow, OnePull, NothingLanded
<1>3. ASSUME NEW r, NEW to, PatchBooking(r, to) PROVE BookingsInv'
  <2>1. PICK d : d = Change(bk.f, r.id, to, bk.steps + 1)
    OBVIOUS
  <2>2. PICK b \in BOOLEAN : b <=> bk.raced \/ \E c \in bknet : c.kind = "pull"
    OBVIOUS
  <2>3. bk' = [bk EXCEPT !.steps = @ + 1, !.raced = b] /\ bkrow' = bkrow
        /\ bknet' = bknet \cup {d}
    BY <1>3, <2>1, <2>2 DEF PatchBooking
  <2>4. BookingsShape(bk') /\ bk'.raced = b /\ bk'.failed = bk.failed /\ bk'.f = bk.f
        /\ bk'.list = bk.list
    BY <2>3 DEF BookingsInv, BookingsShape
  <2>5. ListCall(d) /\ d.kind = "change" /\ d.f = bk.f /\ d.st = "sent"
    BY <2>1, ChangeCall
  <2>6. (\A c \in bknet' : ListCall(c)) /\ (NothingLanded(bknet') => NothingLanded(bknet))
    BY <2>3, <2>5 DEF BookingsInv, NothingLanded
  <2>7. ~b => \A c \in bknet' : c.kind = "change"
    BY <2>2, <2>3, <2>5 DEF BookingsInv, ListCall
  <2> QED BY <2>2, <2>3, <2>4, <2>5, <2>6, <2>7 DEF BookingsInv, BookingsFollow, OnePull
<1> QED BY <1>1, <1>2, <1>3

\* The calls of the panel.
LEMMA BookingsCalls ==
  ASSUME BookingsInv, NEW c \in bknet,
         \/ BookingsRead(c) \/ BookingsAnswered(c) \/ BookingsFail(c)
         \/ BookingChangeLands(c) \/ BookingChangeAnswered(c) \/ BookingChangeFails(c)
  PROVE  BookingsInv'
<1>a. ListCall(c)
  BY DEF BookingsInv
<1>b. BookingsFollow(bk, bkrow, bknet) /\ c.kind = "change" =>
        \A x \in bknet : x.kind = "change" /\ x.f = bk.f
  BY DEF BookingsInv, BookingsFollow, ListCall, OnePull
<1>1. CASE BookingsRead(c)
  <2>1. PICK v : v = BookingsOf(c.f)
    OBVIOUS
  <2>2. PICK d : d = [c EXCEPT !.st = "done", !.v = v] /\ bknet' = (bknet \ {c}) \cup {d}
    BY <1>1, <2>1 DEF BookingsRead
  <2>3. ListCall(d) /\ d.kind = "pull" /\ d.f = c.f /\ d.v = v
    BY <1>a, <1>1, <2>2 DEF ListCall, BookingsRead
  <2>4. bk' = bk /\ bkrow' = bkrow /\ c.kind = "pull"
    BY <1>1 DEF BookingsRead
  <2> QED BY <2>1, <2>2, <2>3, <2>4
          DEF BookingsInv, BookingsFollow, OnePull, NothingLanded, BookingsOf
<1>2. CASE BookingsAnswered(c)
  <2>1. /\ bk' = [bk EXCEPT !.list = c.v, !.loading = FALSE]
        /\ bknet' = bknet \ {c} /\ bkrow' = bkrow /\ c.kind = "pull" /\ c.st = "done"
    BY <1>2 DEF BookingsAnswered
  <2>2. BookingsShape(bk') /\ bk'.raced = bk.raced /\ bk'.failed = bk.failed /\ bk'.f = bk.f
        /\ bk'.list = c.v
    BY <2>1 DEF BookingsInv, BookingsShape
  <2>3. BookingsFollow(bk, bkrow, bknet) => bknet' = {}
    BY <2>1 DEF BookingsFollow, OnePull
  <2> QED BY <2>1, <2>2, <2>3 DEF BookingsInv, BookingsFollow, OnePull
<1>3. CASE BookingsFail(c) \/ BookingChangeFails(c)
  <2>1. BookingsShape(bk') /\ bk'.failed
    <3>1. CASE BookingsFail(c)
      BY <3>1 DEF BookingsFail, BookingsInv, BookingsShape
    <3>2. CASE BookingChangeFails(c)
      BY <3>2 DEF BookingChangeFails, BookingsInv, BookingsShape
    <3> QED BY <1>3, <3>1, <3>2
  <2>2. bknet' = bknet \ {c}
    BY <1>3 DEF BookingsFail, BookingChangeFails
  <2> QED BY <2>1, <2>2 DEF BookingsInv
<1>4. CASE BookingChangeLands(c)
  <2>1. PICK d : d = [c EXCEPT !.st = "done"]
    OBVIOUS
  <2>2. ListCall(d) /\ d.kind = "change" /\ d.f = c.f /\ d.st = "done"
    BY <1>a, <1>4, <2>1 DEF ListCall, BookingChangeLands
  <2>3. bk' = bk /\ bknet' = (bknet \ {c}) \cup {d} /\ c.kind = "change"
    BY <1>4, <2>1 DEF BookingChangeLands
  <2>4. (\A x \in bknet' : ListCall(x)) /\ ~NothingLanded(bknet')
    BY <2>2, <2>3 DEF BookingsInv, NothingLanded
  <2>5. BookingsFollow(bk, bkrow, bknet) => \A x \in bknet' : x.kind = "change" /\ x.f = bk.f
    BY <1>b, <2>2, <2>3
  <2> QED BY <2>3, <2>4, <2>5 DEF BookingsInv, BookingsFollow, OnePull
<1>5. CASE BookingChangeAnswered(c)
  <2>1. PICK d, x : d = Pull(c.f, FALSE, c.n) /\ x = IF bk.dialog = c.id THEN 0 ELSE bk.dialog
    OBVIOUS
  <2>a. PICK b \in BOOLEAN : b <=> bk.raced \/ Uncancelled(bknet \ {c})
    OBVIOUS
  <2>b. PICK l : l = Loading(bk, bknet \ {c})
    OBVIOUS
  <2>c. l = [bk EXCEPT !.loading = TRUE, !.error = FALSE, !.raced = b]
    BY <2>a, <2>b DEF Loading
  <2>d. l.dialog = bk.dialog
    BY <2>c DEF BookingsInv, BookingsShape
  <2>2. /\ bk' = [l EXCEPT !.dialog = x] /\ bkrow' = bkrow
        /\ bknet' = (bknet \ {c}) \cup {d} /\ c.kind = "change"
    BY <1>5, <2>1, <2>b, <2>d DEF BookingChangeAnswered
  <2>3. BookingsShape(bk') /\ bk'.raced = b /\ bk'.f = bk.f /\ bk'.failed = bk.failed
    BY <2>c, <2>2 DEF BookingsInv, BookingsShape
  <2>4. ListCall(d) /\ d.kind = "pull" /\ d.f = c.f /\ d.st = "sent"
    BY <2>1 DEF Pull, ListCall
  <2>5. \A y \in bknet' : ListCall(y)
    BY <2>2, <2>4 DEF BookingsInv
  <2>7. ~b => \A y \in bknet \ {c} : y.kind = "pull"
    BY <2>a DEF Uncancelled, BookingsInv, ListCall
  <2>8. ~b /\ BookingsFollow(bk, bkrow, bknet) => bknet' = {d} /\ d.f = bk.f
    BY <1>b, <2>2, <2>4, <2>7
  <2> QED BY <2>a, <2>2, <2>3, <2>4, <2>5, <2>8
          DEF BookingsInv, BookingsFollow, OnePull, NothingLanded
<1> QED BY <1>1, <1>2, <1>3, <1>4, <1>5

\* Every step of the panel.
LEMMA BookingsNext ==
  ASSUME BookingsInv, [BKNext]_bkvars PROVE BookingsInv'
<1>1. CASE UNCHANGED bkvars
  BY <1>1 DEF bkvars, BookingsInv
<1>2. CASE BKNext
  BY <1>2, BookingsControls, BookingsCalls DEF BKNext, MoveBooking, SetBookingStatus
<1> QED BY <1>1, <1>2

-----------------------------------------------------------------------------
(* The public booking page *)

FlowShape(f) ==
    f = [svc |-> f.svc, day |-> f.day, time |-> f.time, month |-> f.month, days |-> f.days,
         daysLoading |-> f.daysLoading, daysError |-> f.daysError, slots |-> f.slots,
         slotsLoading |-> f.slotsLoading, slotsError |-> f.slotsError,
         submitting |-> f.submitting, result |-> f.result]
PageShape(p) ==
    /\ p = [flow |-> p.flow, services |-> p.services, design |-> p.design, picks |-> p.picks,
            submits |-> p.submits, stray |-> p.stray, lost |-> p.lost]
    /\ FlowShape(p.flow)

BookCall(c) ==
    /\ c = [kind |-> c.kind, svc |-> c.svc, day |-> c.day, own |-> c.own, st |-> c.st,
            time |-> c.time]
    /\ c.own \in BOOLEAN /\ c.st \in {"sent", "done"}
    /\ c.kind \in {"days", "slots", "create"}

\* A fetch of times that an effect listens to is for the choice on screen.
OwnFetch(f, net) == \A c \in net : c.kind = "slots" /\ c.own => c.svc = f.svc /\ c.day = f.day

\* The times on screen, and the chosen one, are of the service and the day.
Offered(f) ==
    /\ f.day # None /\ ~f.slotsLoading => f.slots \subseteq Offer[f.svc][f.day]
    /\ f.time # None => f.time \in Offer[f.svc][f.day]

Creates(net) == {c \in net : c.kind = "create"}

\* One booking is submitted at a time, by a page that shows no confirmation; the one
\* that was made is the one that is confirmed, or about to be.
Told(submitting, result, creates, mine) ==
    /\ \A c, d \in creates : c = d
    /\ \A c \in creates :
         /\ c.own /\ submitting /\ result = Nothing
         /\ mine = IF c.st = "done" THEN {Slot(c)} ELSE {}
    /\ creates = {} => mine = IF result = Nothing THEN {} ELSE {result.v}

VisitInv ==
    /\ PageShape(pb) /\ pbrow = [taken |-> pbrow.taken, mine |-> pbrow.mine]
    /\ \A c \in pbnet : BookCall(c)
    /\ OwnFetch(pb.flow, pbnet)
    /\ ~pb.stray => Offered(pb.flow)
    /\ ~pb.lost => Told(pb.flow.submitting, pb.flow.result, Creates(pbnet), pbrow.mine)

\* A page that is opened.
LEMMA VisitInit == PBInit => VisitInv
<1> SUFFICES ASSUME PBInit PROVE VisitInv
  OBVIOUS
<1>1. PageShape(pb) /\ pb.flow = EmptyFlowState
  BY DEF PBInit, PageShape, FlowShape, EmptyFlowState
<1>2. pb.flow.day = None /\ pb.flow.time = None /\ pb.flow.result = Nothing
  BY <1>1 DEF EmptyFlowState
<1>3. pbnet = {} /\ pbrow.mine = {} /\ pbrow = [taken |-> pbrow.taken, mine |-> pbrow.mine]
  BY DEF PBInit
<1>4. Creates(pbnet) = {}
  BY <1>3 DEF Creates
<1> QED BY <1>1, <1>2, <1>3, <1>4 DEF VisitInv, OwnFetch, Offered, Told

\* A step that neither makes nor answers a booking and leaves what was submitted.
LEMMA VisitKept ==
  ASSUME VisitInv, PageShape(pb'), pbrow' = pbrow, \A c \in pbnet' : BookCall(c),
         Creates(pbnet') = Creates(pbnet), OwnFetch(pb'.flow, pbnet'),
         ~pb'.stray => ~pb.stray, pb'.lost = pb.lost,
         Offered(pb.flow) \/ pb'.stray => Offered(pb'.flow) \/ pb'.stray,
         pb'.flow.submitting = pb.flow.submitting, pb'.flow.result = pb.flow.result
  PROVE  VisitInv'
BY DEF VisitInv

\* What the cleanup of an effect leaves.
LEMMA Cancels ==
  ASSUME NEW net, NEW kinds, "create" \notin kinds, \A c \in net : BookCall(c)
  PROVE  /\ Cancelled(net, kinds) \subseteq net
         /\ Creates(Cancelled(net, kinds)) = Creates(net)
         /\ \A c \in Cancelled(net, kinds) : c.kind \in kinds => ~c.own
BY DEF Cancelled, Creates

\* A list that an effect fetches.
LEMMA FetchCall ==
  ASSUME NEW kind \in {"days", "slots", "create"}, NEW svc, NEW day, NEW own \in BOOLEAN,
         NEW d, d = Fetch(kind, svc, day, own)
  PROVE  /\ BookCall(d) /\ d.kind = kind /\ d.svc = svc /\ d.day = day /\ d.own = own
         /\ d.st = "sent"
BY DEF BookCall, Fetch

\* The page itself: its services and its design.
LEMMA VisitLoads ==
  ASSUME VisitInv, DesignLoaded \/ DesignFails \/ \E st : ServicesLoaded(st)
  PROVE  VisitInv'
<1>1. CASE DesignFails \/ \E st : ServicesLoaded(st)
  <2>1. pbrow' = pbrow /\ pbnet' = pbnet
    BY <1>1 DEF DesignFails, ServicesLoaded
  <2>2. PageShape(pb') /\ pb'.flow = pb.flow /\ pb'.stray = pb.stray /\ pb'.lost = pb.lost
    BY <1>1 DEF DesignFails, ServicesLoaded, VisitInv, PageShape
  <2> QED BY <2>1, <2>2 DEF VisitInv
<1>2. CASE DesignLoaded
  <2>1. PICK b \in BOOLEAN : b <=> pb.lost \/ pb.flow.submitting \/ pb.flow.result # Nothing
    OBVIOUS
  <2>2. pb' = [pb EXCEPT !.design = "page", !.flow = EmptyFlowState, !.lost = b]
    BY <1>2, <2>1 DEF DesignLoaded, Flow
  <2>3. PageShape(pb') /\ pb'.flow = EmptyFlowState /\ pb'.stray = pb.stray /\ pb'.lost = b
    BY <2>2 DEF VisitInv, PageShape, FlowShape, EmptyFlowState
  <2>4. pb'.flow.day = None /\ pb'.flow.time = None /\ pb'.flow.result = Nothing
    BY <2>3 DEF EmptyFlowState
  <2>5. pbrow' = pbrow /\ pbnet' = {[c EXCEPT !.own = FALSE] : c \in Creates(pbnet)}
    BY <1>2 DEF DesignLoaded, Creates
  <2>6. ASSUME NEW x \in pbnet' PROVE BookCall(x) /\ x.kind = "create"
    <3>1. PICK c \in pbnet : c.kind = "create" /\ x = [c EXCEPT !.own = FALSE]
      BY <2>5 DEF Creates
    <3>2. BookCall(c)
      BY DEF VisitInv
    <3> QED BY <3>1, <3>2 DEF BookCall
  <2>7. ~b => Creates(pbnet) = {} /\ pbrow.mine = {} /\ ~pb.lost
    BY <2>1 DEF VisitInv, Told
  <2>8. ~b => Creates(pbnet') = {}
    BY <2>5, <2>7 DEF Creates
  <2>9. OwnFetch(pb'.flow, pbnet') /\ Offered(pb'.flow)
    BY <2>4, <2>6 DEF OwnFetch, Offered
  <2>10. ~b => Told(pb'.flow.submitting, pb'.flow.result, Creates(pbnet'), pbrow'.mine)
    BY <2>4, <2>5, <2>7, <2>8 DEF Told
  <2> QED BY <2>3, <2>5, <2>6, <2>9, <2>10 DEF VisitInv
<1> QED BY <1>1, <1>2

\* The service, the month, the day and the time.
LEMMA VisitChoices ==
  ASSUME VisitInv,
         \/ \E s : PickService(s)
         \/ \E d : ShiftMonth(d) \/ PickDay(d)
         \/ \E t : PickTime(t)
  PROVE  VisitInv'
<1>a. PageShape(pb) /\ OwnFetch(pb.flow, pbnet) /\ \A c \in pbnet : BookCall(c)
  BY DEF VisitInv
<1>1. ASSUME NEW s, PickService(s) PROVE VisitInv'
  <2>1. PICK f : f = [pb.flow EXCEPT !.svc = s, !.day = None, !.time = None, !.slots = {}]
    OBVIOUS
  <2>2. PICK g : /\ \/ g = f
                    \/ g = [f EXCEPT !.daysLoading = TRUE, !.daysError = FALSE]
                 /\ pb' = [pb EXCEPT !.flow = g, !.picks = @ + 1]
    BY <1>1, <2>1 DEF PickService, Flow
  <2>3. /\ FlowShape(g) /\ g.day = None /\ g.time = None
        /\ g.submitting = pb.flow.submitting /\ g.result = pb.flow.result
    BY <1>a, <2>1, <2>2 DEF PageShape, FlowShape
  <2>4. PageShape(pb') /\ pb'.flow = g /\ pb'.stray = pb.stray /\ pb'.lost = pb.lost
    BY <1>a, <2>2, <2>3 DEF PageShape
  <2>5. PICK d : d = Fetch("days", s, pb.flow.month, TRUE)
    OBVIOUS
  <2>6. BookCall(d) /\ d.kind = "days"
    BY <2>5 DEF BookCall, Fetch
  <2>7. PICK kinds : /\ kinds \in {{"slots"}, {"slots", "days"}}
                     /\ \/ pbnet' = Cancelled(pbnet, kinds)
                        \/ pbnet' = Cancelled(pbnet, kinds) \cup {d}
    BY <1>1, <2>5 DEF PickService, Flow
  <2>8. /\ Cancelled(pbnet, kinds) \subseteq pbnet
        /\ Creates(Cancelled(pbnet, kinds)) = Creates(pbnet)
        /\ \A c \in Cancelled(pbnet, kinds) : c.kind = "slots" => ~c.own
    BY <1>a, <2>7, Cancels
  <2>9. (\A c \in pbnet' : BookCall(c)) /\ Creates(pbnet') = Creates(pbnet)
    BY <1>a, <2>6, <2>7, <2>8 DEF Creates
  <2>10. OwnFetch(g, pbnet') /\ Offered(g)
    BY <2>3, <2>6, <2>7, <2>8 DEF OwnFetch, Offered
  <2>11. pbrow' = pbrow
    BY <1>1 DEF PickService
  <2> QED BY <2>3, <2>4, <2>9, <2>10, <2>11, VisitKept
<1>2. ASSUME NEW m, ShiftMonth(m) PROVE VisitInv'
  <2>1. PICK f : f = [pb.flow EXCEPT !.month = m, !.daysLoading = TRUE]
    OBVIOUS
  <2>2. pb' = [pb EXCEPT !.flow = f, !.picks = @ + 1]
    BY <1>2, <2>1 DEF ShiftMonth
  <2>3. /\ FlowShape(f) /\ f.svc = pb.flow.svc /\ f.day = pb.flow.day /\ f.time = pb.flow.time
        /\ f.slots = pb.flow.slots /\ f.slotsLoading = pb.flow.slotsLoading
        /\ f.submitting = pb.flow.submitting /\ f.result = pb.flow.result
    BY <1>a, <2>1 DEF PageShape, FlowShape
  <2>4. PageShape(pb') /\ pb'.flow = f /\ pb'.stray = pb.stray /\ pb'.lost = pb.lost
    BY <1>a, <2>2, <2>3 DEF PageShape
  <2>5. PICK d : d = Fetch("days", pb.flow.svc, m, TRUE)
    OBVIOUS
  <2>6. BookCall(d) /\ d.kind = "days"
    BY <2>5 DEF BookCall, Fetch
  <2>7. pbnet' = Cancelled(pbnet, {"days"}) \cup {d} /\ pbrow' = pbrow
    BY <1>2, <2>5 DEF ShiftMonth, Flow
  <2>8. /\ Cancelled(pbnet, {"days"}) \subseteq pbnet
        /\ Creates(Cancelled(pbnet, {"days"})) = Creates(pbnet)
    BY <1>a, Cancels
  <2>9. (\A c \in pbnet' : BookCall(c)) /\ Creates(pbnet') = Creates(pbnet)
    BY <1>a, <2>6, <2>7, <2>8 DEF Creates
  <2>10. OwnFetch(f, pbnet') /\ (Offered(pb.flow) => Offered(f))
    BY <1>a, <2>3, <2>6, <2>7, <2>8 DEF OwnFetch, Offered
  <2> QED BY <2>3, <2>4, <2>7, <2>9, <2>10, VisitKept
<1>3. ASSUME NEW x, PickDay(x) PROVE VisitInv'
  <2>1. PICK b \in BOOLEAN, e \in BOOLEAN :
          /\ b <=> pb.flow.slotsLoading \/ x # pb.flow.day
          /\ e <=> pb.flow.slotsError /\ x = pb.flow.day
    OBVIOUS
  <2>a. PICK f : f = [pb.flow EXCEPT !.day = x, !.time = None, !.slotsLoading = b,
                                     !.slotsError = e]
    OBVIOUS
  <2>2. pb' = [pb EXCEPT !.flow = f, !.picks = @ + 1]
    BY <1>3, <2>1, <2>a DEF PickDay, Flow, PageShape, FlowShape
  <2>3. /\ FlowShape(f) /\ f.svc = pb.flow.svc /\ f.day = x /\ f.time = None
        /\ f.slots = pb.flow.slots /\ f.slotsLoading = b
        /\ f.submitting = pb.flow.submitting /\ f.result = pb.flow.result
    BY <1>a, <2>a DEF PageShape, FlowShape
  <2>4. PageShape(pb') /\ pb'.flow = f /\ pb'.stray = pb.stray /\ pb'.lost = pb.lost
    BY <1>a, <2>2, <2>3 DEF PageShape
  <2>5. PICK d : d = Fetch("slots", pb.flow.svc, x, TRUE)
    OBVIOUS
  <2>6. BookCall(d) /\ d.kind = "slots" /\ d.svc = pb.flow.svc /\ d.day = x
    BY <2>5 DEF BookCall, Fetch
  <2>7. /\ pbrow' = pbrow
        /\ pbnet' = IF x = pb.flow.day THEN pbnet ELSE Cancelled(pbnet, {"slots"}) \cup {d}
    BY <1>3, <2>5 DEF PickDay, Flow
  <2>8. /\ Cancelled(pbnet, {"slots"}) \subseteq pbnet
        /\ Creates(Cancelled(pbnet, {"slots"})) = Creates(pbnet)
        /\ \A c \in Cancelled(pbnet, {"slots"}) : c.kind = "slots" => ~c.own
    BY <1>a, Cancels
  <2>9. (\A c \in pbnet' : BookCall(c)) /\ Creates(pbnet') = Creates(pbnet)
    BY <1>a, <2>6, <2>7, <2>8 DEF Creates
  <2>10. OwnFetch(f, pbnet')
    BY <1>a, <2>3, <2>6, <2>7, <2>8 DEF OwnFetch
  <2>11. Offered(pb.flow) => Offered(f)
    BY <2>1, <2>3 DEF Offered
  <2> QED BY <2>3, <2>4, <2>7, <2>9, <2>10, <2>11, VisitKept
<1>4. ASSUME NEW t, PickTime(t) PROVE VisitInv'
  <2>1. PICK f : f = [pb.flow EXCEPT !.time = t]
    OBVIOUS
  <2>2. pb' = [pb EXCEPT !.flow = f] /\ pbrow' = pbrow /\ pbnet' = pbnet
    BY <1>4, <2>1 DEF PickTime
  <2>3. /\ FlowShape(f) /\ f.svc = pb.flow.svc /\ f.day = pb.flow.day /\ f.time = t
        /\ f.slots = pb.flow.slots /\ f.slotsLoading = pb.flow.slotsLoading
        /\ f.submitting = pb.flow.submitting /\ f.result = pb.flow.result
    BY <1>a, <2>1 DEF PageShape, FlowShape
  <2>4. PageShape(pb') /\ pb'.flow = f /\ pb'.stray = pb.stray /\ pb'.lost = pb.lost
    BY <1>a, <2>2, <2>3 DEF PageShape
  <2>5. pb.flow.day # None /\ ~pb.flow.slotsLoading /\ t \in pb.flow.slots
    BY <1>4 DEF PickTime, HasSlotGrid, Flow
  <2>6. OwnFetch(f, pbnet') /\ (Offered(pb.flow) => Offered(f))
    BY <1>a, <2>2, <2>3, <2>5 DEF OwnFetch, Offered
  <2> QED BY <1>a, <2>2, <2>3, <2>4, <2>6, VisitKept
<1> QED BY <1>1, <1>2, <1>3, <1>4

\* The lists that arrive.
LEMMA VisitLists ==
  ASSUME VisitInv, NEW c \in pbnet, NEW ok \in BOOLEAN,
         DaysAnswered(c, ok) \/ SlotsAnswered(c, ok)
  PROVE  VisitInv'
<1>a. PageShape(pb) /\ OwnFetch(pb.flow, pbnet) /\ (\A x \in pbnet : BookCall(x)) /\ BookCall(c)
  BY DEF VisitInv
<1>b. pbrow' = pbrow /\ pbnet' = pbnet \ {c} /\ c.kind # "create"
  BY DEF DaysAnswered, SlotsAnswered
<1>c. (\A x \in pbnet' : BookCall(x)) /\ Creates(pbnet') = Creates(pbnet)
  BY <1>a, <1>b DEF Creates
<1>d. PICK p : p = IF ok THEN pb.picks ELSE pb.picks + 1
  OBVIOUS
<1>1. CASE DaysAnswered(c, ok)
  <2>1. PICK v : v = IF ok THEN FreeDays(c.svc, c.day) ELSE {}
    OBVIOUS
  <2>b. PICK b \in BOOLEAN : b <=> ~ok
    OBVIOUS
  <2>a. PICK f : f = [pb.flow EXCEPT !.days = v, !.daysLoading = FALSE, !.daysError = b]
    OBVIOUS
  <2>2. pb' = [pb EXCEPT !.picks = p, !.flow = f]
    BY <1>1, <1>a, <1>d, <2>1, <2>a, <2>b DEF DaysAnswered, PageShape, FlowShape
  <2>3. /\ FlowShape(f) /\ f.svc = pb.flow.svc /\ f.day = pb.flow.day /\ f.time = pb.flow.time
        /\ f.slots = pb.flow.slots /\ f.slotsLoading = pb.flow.slotsLoading
        /\ f.submitting = pb.flow.submitting /\ f.result = pb.flow.result
    BY <1>a, <2>a DEF PageShape, FlowShape
  <2>4. PageShape(pb') /\ pb'.flow = f /\ pb'.stray = pb.stray /\ pb'.lost = pb.lost
    BY <1>a, <2>2, <2>3 DEF PageShape
  <2>5. OwnFetch(f, pbnet') /\ (Offered(pb.flow) => Offered(f))
    BY <1>a, <1>b, <2>3 DEF OwnFetch, Offered
  <2> QED BY <1>b, <1>c, <2>3, <2>4, <2>5, VisitKept
<1>2. CASE SlotsAnswered(c, ok)
  <2>1. PICK v : v = IF ok THEN FreeTimes(c.svc, c.day) ELSE {}
    OBVIOUS
  <2>b. PICK e \in BOOLEAN, b \in BOOLEAN :
          /\ e <=> pb.flow.slotsError \/ ~ok
          /\ b <=> pb.stray \/ (~c.own /\ <<c.svc, c.day>> # <<pb.flow.svc, pb.flow.day>>)
    OBVIOUS
  <2>a. PICK f : f = [pb.flow EXCEPT !.slots = v, !.slotsLoading = FALSE, !.slotsError = e]
    OBVIOUS
  <2>2. pb' = [pb EXCEPT !.picks = p, !.flow = f, !.stray = b]
    BY <1>2, <1>a, <1>d, <2>1, <2>a, <2>b DEF SlotsAnswered, PageShape, FlowShape, Flow
  <2>3. /\ FlowShape(f) /\ f.svc = pb.flow.svc /\ f.day = pb.flow.day /\ f.time = pb.flow.time
        /\ f.slots = v
        /\ f.submitting = pb.flow.submitting /\ f.result = pb.flow.result
    BY <1>a, <2>a DEF PageShape, FlowShape
  <2>4. PageShape(pb') /\ pb'.flow = f /\ pb'.stray = b /\ pb'.lost = pb.lost
    BY <1>a, <2>2, <2>3 DEF PageShape
  <2>5. OwnFetch(f, pbnet') /\ v \subseteq Offer[c.svc][c.day]
    BY <1>a, <1>b, <2>1, <2>3 DEF OwnFetch, FreeTimes
  <2>6. b \/ (c.svc = pb.flow.svc /\ c.day = pb.flow.day)
    BY <1>2, <1>a, <2>b DEF SlotsAnswered, OwnFetch, BookCall
  <2>7. Offered(pb.flow) \/ b => Offered(f) \/ b
    BY <2>3, <2>5, <2>6 DEF Offered
  <2> QED BY <1>b, <1>c, <2>3, <2>4, <2>5, <2>7, <2>b, VisitKept
<1> QED BY <1>1, <1>2

\* A booking is submitted.
LEMMA VisitSubmits ==
  ASSUME VisitInv, Submit PROVE VisitInv'
<1>a. PageShape(pb) /\ OwnFetch(pb.flow, pbnet) /\ \A x \in pbnet : BookCall(x)
  BY DEF VisitInv
<1>1. PICK f : f = [pb.flow EXCEPT !.submitting = TRUE]
  OBVIOUS
<1>2. pb' = [pb EXCEPT !.flow = f, !.submits = @ + 1] /\ pbrow' = pbrow
  BY <1>1 DEF Submit
<1>3. /\ FlowShape(f) /\ f.svc = pb.flow.svc /\ f.day = pb.flow.day /\ f.time = pb.flow.time
      /\ f.slots = pb.flow.slots /\ f.slotsLoading = pb.flow.slotsLoading
      /\ f.submitting /\ f.result = pb.flow.result
  BY <1>a, <1>1 DEF PageShape, FlowShape
<1>4. PageShape(pb') /\ pb'.flow = f /\ pb'.stray = pb.stray /\ pb'.lost = pb.lost
  BY <1>a, <1>2, <1>3 DEF PageShape
<1>5. PICK d : d = [Fetch("create", pb.flow.svc, pb.flow.day, TRUE) EXCEPT !.time = pb.flow.time]
  OBVIOUS
<1>6. BookCall(d) /\ d.kind = "create" /\ d.own /\ d.st = "sent"
  BY <1>5 DEF BookCall, Fetch
<1>7. pbnet' = pbnet \cup {d} /\ ~pb.flow.submitting /\ pb.flow.result = Nothing
  BY <1>5 DEF Submit, Flow, ShowSummary, Choosing
<1>8. (\A x \in pbnet' : BookCall(x)) /\ Creates(pbnet') = Creates(pbnet) \cup {d}
  BY <1>a, <1>6, <1>7 DEF Creates
<1>9. OwnFetch(f, pbnet') /\ (Offered(pb.flow) => Offered(f))
  BY <1>a, <1>3, <1>6, <1>7 DEF OwnFetch, Offered
<1>10. ~pb.lost => Creates(pbnet) = {} /\ pbrow.mine = {}
  BY <1>7 DEF VisitInv, Told
<1>11. ~pb.lost => Told(f.submitting, f.result, Creates(pbnet'), pbrow'.mine)
  BY <1>2, <1>3, <1>6, <1>7, <1>8, <1>10 DEF Told
<1> QED BY <1>2, <1>4, <1>8, <1>9, <1>11 DEF VisitInv

\* A booking is made, refused, answered or lost, and somebody else is faster.
LEMMA VisitBookings ==
  ASSUME VisitInv, NEW c \in pbnet,
         \/ CreateLands(c) \/ CreateAnswered(c) \/ CreateRefused(c)
         \/ CreateFails(c) \/ OthersBook(c)
  PROVE  VisitInv'
<1>a. /\ PageShape(pb) /\ OwnFetch(pb.flow, pbnet) /\ BookCall(c) /\ c.kind = "create"
      /\ \A x \in pbnet : BookCall(x)
  BY DEF VisitInv, CreateLands, CreateAnswered, CreateRefused, CreateFails, OthersBook
<1>b. Creates(pbnet \ {c}) = Creates(pbnet) \ {c} /\ c \in Creates(pbnet)
  BY <1>a DEF Creates
<1>c. ~pb.lost => /\ Creates(pbnet) = {c} /\ c.own /\ pb.flow.result = Nothing
                  /\ pb.flow.submitting
                  /\ pbrow.mine = IF c.st = "done" THEN {Slot(c)} ELSE {}
  BY <1>b DEF VisitInv, Told
<1>1. CASE CreateLands(c)
  <2>1. PICK d : d = [c EXCEPT !.st = "done"]
    OBVIOUS
  <2>2. BookCall(d) /\ d.kind = "create" /\ d.own = c.own /\ Slot(d) = Slot(c) /\ d.st = "done"
    BY <1>a, <2>1 DEF BookCall, Slot
  <2>3. pbnet' = (pbnet \ {c}) \cup {d} /\ pb' = pb /\ c.st = "sent"
    BY <1>1, <2>1 DEF CreateLands
  <2>4. /\ pbrow' = [taken |-> pbrow'.taken, mine |-> pbrow'.mine]
        /\ pbrow'.mine = pbrow.mine \cup {Slot(c)}
    BY <1>1 DEF CreateLands
  <2>5. /\ \A x \in pbnet' : BookCall(x)
        /\ OwnFetch(pb.flow, pbnet') /\ Creates(pbnet') = (Creates(pbnet) \ {c}) \cup {d}
    BY <1>a, <2>2, <2>3 DEF OwnFetch, Creates
  <2>6. ~pb.lost => Creates(pbnet') = {d} /\ pbrow'.mine = {Slot(d)}
    BY <1>c, <2>2, <2>3, <2>4, <2>5
  <2>7. ~pb.lost => Told(pb.flow.submitting, pb.flow.result, Creates(pbnet'), pbrow'.mine)
    BY <1>c, <2>2, <2>6 DEF Told
  <2> QED BY <2>3, <2>4, <2>5, <2>7 DEF VisitInv
<1>2. CASE CreateAnswered(c)
  <2>1. pbnet' = pbnet \ {c} /\ pbrow' = pbrow /\ c.st = "done"
    BY <1>2 DEF CreateAnswered
  <2>2. (\A x \in pbnet' : BookCall(x)) /\ OwnFetch(pb.flow, pbnet')
    BY <1>a, <2>1 DEF OwnFetch
  <2>3. CASE ~c.own
    BY <1>2, <1>c, <2>1, <2>2, <2>3 DEF VisitInv, CreateAnswered
  <2>4. CASE c.own
    <3>a. PICK r : r = Done(Slot(c))
      OBVIOUS
    <3>b. r # Nothing /\ r.v = Slot(c)
      BY <3>a DEF Done, Nothing
    <3>1. PICK f : f = [pb.flow EXCEPT !.result = r, !.submitting = FALSE]
      OBVIOUS
    <3>2. pb' = [pb EXCEPT !.flow = f]
      BY <1>2, <2>4, <3>1, <3>a DEF CreateAnswered
    <3>3. /\ FlowShape(f) /\ f.svc = pb.flow.svc /\ f.day = pb.flow.day
          /\ f.time = pb.flow.time /\ f.slots = pb.flow.slots
          /\ f.slotsLoading = pb.flow.slotsLoading /\ f.result = r
      BY <1>a, <3>1 DEF PageShape, FlowShape
    <3>4. PageShape(pb') /\ pb'.flow = f /\ pb'.stray = pb.stray /\ pb'.lost = pb.lost
      BY <1>a, <3>2, <3>3 DEF PageShape
    <3>5. OwnFetch(f, pbnet') /\ (Offered(pb.flow) => Offered(f))
      BY <2>2, <3>3 DEF OwnFetch, Offered
    <3>6. ~pb.lost => Creates(pbnet') = {} /\ pbrow'.mine = {r.v}
      BY <1>b, <1>c, <2>1, <3>b
    <3>7. ~pb.lost => Told(f.submitting, f.result, Creates(pbnet'), pbrow'.mine)
      BY <3>b, <3>3, <3>6 DEF Told
    <3> QED BY <2>1, <2>2, <3>4, <3>5, <3>7 DEF VisitInv
  <2> QED BY <1>a, <2>3, <2>4 DEF BookCall
<1>3. CASE CreateRefused(c)
  <2>1. pbrow' = pbrow /\ c.st = "sent"
    BY <1>3 DEF CreateRefused
  <2>2. CASE ~c.own
    <3>1. pbnet' = pbnet \ {c} /\ pb' = pb
      BY <1>3, <2>2 DEF CreateRefused
    <3>2. (\A x \in pbnet' : BookCall(x)) /\ OwnFetch(pb.flow, pbnet')
      BY <1>a, <3>1 DEF OwnFetch
    <3> QED BY <1>c, <2>1, <2>2, <3>1, <3>2 DEF VisitInv
  <2>3. CASE c.own
    <3>1. PICK f : f = [pb.flow EXCEPT !.submitting = FALSE, !.slotsLoading = TRUE,
                                       !.slotsError = FALSE, !.time = None]
      OBVIOUS
    <3>2. pb' = [pb EXCEPT !.flow = f]
      BY <1>3, <2>3, <3>1 DEF CreateRefused
    <3>3. /\ FlowShape(f) /\ f.svc = pb.flow.svc /\ f.day = pb.flow.day
          /\ f.time = None /\ f.slotsLoading /\ f.result = pb.flow.result
      BY <1>a, <3>1 DEF PageShape, FlowShape
    <3>4. PageShape(pb') /\ pb'.flow = f /\ pb'.stray = pb.stray /\ pb'.lost = pb.lost
      BY <1>a, <3>2, <3>3 DEF PageShape
    <3>5. PICK d : d = Fetch("slots", c.svc, c.day, FALSE)
      OBVIOUS
    <3>6. BookCall(d) /\ d.kind = "slots" /\ ~d.own
      BY <3>5 DEF BookCall, Fetch
    <3>7. pbnet' = (pbnet \ {c}) \cup {d}
      BY <1>3, <2>3, <3>5 DEF CreateRefused
    <3>8. /\ \A x \in pbnet' : BookCall(x)
          /\ OwnFetch(f, pbnet') /\ Offered(f) /\ Creates(pbnet') = Creates(pbnet) \ {c}
      BY <1>a, <3>3, <3>6, <3>7 DEF OwnFetch, Offered, Creates
    <3>9. ~pb.lost => Told(f.submitting, f.result, Creates(pbnet'), pbrow'.mine)
      BY <1>c, <2>1, <3>3, <3>8 DEF Told
    <3> QED BY <2>1, <3>4, <3>8, <3>9 DEF VisitInv
  <2> QED BY <1>a, <2>2, <2>3 DEF BookCall
<1>4. CASE CreateFails(c)
  <2>1. PICK s \in BOOLEAN, b \in BOOLEAN : /\ s <=> pb.flow.submitting /\ ~c.own
                                            /\ b <=> pb.lost \/ c.st = "done"
    OBVIOUS
  <2>2. PICK f : f = [pb.flow EXCEPT !.submitting = s]
    OBVIOUS
  <2>3. pb' = [pb EXCEPT !.flow = f, !.lost = b] /\ pbnet' = pbnet \ {c} /\ pbrow' = pbrow
    BY <1>4, <1>a, <2>1, <2>2 DEF CreateFails, PageShape, FlowShape
  <2>4. /\ FlowShape(f) /\ f.svc = pb.flow.svc /\ f.day = pb.flow.day
        /\ f.time = pb.flow.time /\ f.slots = pb.flow.slots
        /\ f.slotsLoading = pb.flow.slotsLoading /\ f.result = pb.flow.result
    BY <1>a, <2>2 DEF PageShape, FlowShape
  <2>5. PageShape(pb') /\ pb'.flow = f /\ pb'.stray = pb.stray /\ pb'.lost = b
    BY <1>a, <2>3, <2>4 DEF PageShape
  <2>6. /\ \A x \in pbnet' : BookCall(x)
        /\ OwnFetch(f, pbnet') /\ (Offered(pb.flow) => Offered(f))
    BY <1>a, <2>3, <2>4 DEF OwnFetch, Offered
  <2>7. ~b => Creates(pbnet') = {} /\ pbrow'.mine = {} /\ f.result = Nothing
    BY <1>b, <1>c, <2>1, <2>3, <2>4
  <2>8. ~b => Told(f.submitting, f.result, Creates(pbnet'), pbrow'.mine)
    BY <2>7 DEF Told
  <2> QED BY <2>3, <2>5, <2>6, <2>8 DEF VisitInv
<1>5. CASE OthersBook(c)
  <2>1. pb' = pb /\ pbnet' = pbnet /\ pbrow' = [pbrow EXCEPT !.taken = @ \cup {Slot(c)}]
    BY <1>5 DEF OthersBook
  <2>2. pbrow' = [taken |-> pbrow'.taken, mine |-> pbrow'.mine] /\ pbrow'.mine = pbrow.mine
    BY <2>1 DEF VisitInv
  <2> QED BY <2>1, <2>2 DEF VisitInv
<1> QED BY <1>1, <1>2, <1>3, <1>4, <1>5

\* Every step of the booking page.
LEMMA VisitNext ==
  ASSUME VisitInv, [PBNext]_pbvars PROVE VisitInv'
<1>1. CASE UNCHANGED pbvars
  BY <1>1 DEF pbvars, VisitInv
<1>2. CASE PBNext
  BY <1>2, VisitLoads, VisitChoices, VisitLists, VisitSubmits, VisitBookings DEF PBNext
<1> QED BY <1>1, <1>2

-----------------------------------------------------------------------------
(* The page behind the link of a booking *)

LinkShape(p) == p = [dialog |-> p.dialog, pick |-> p.pick, done |-> p.done, calls |-> p.calls]
LinkCall(c) == c = Nothing \/ (c = [st |-> c.st, v |-> c.v] /\ c.st \in {"sent", "done"})

\* One change at a time: the dialog and the button behind it exclude each other, and
\* after the last answer nothing can be asked for any more.
OneChange(dialog, done, cancel, move) ==
    /\ cancel # Nothing => ~dialog /\ move = Nothing /\ done = Nothing
    /\ move # Nothing => dialog
    /\ dialog => done = Nothing

\* What has been answered, or is about to be, is what the booking has become.
Became(done, cancel, move, row) ==
    /\ cancel.st = "done" => row.on = FALSE
    /\ move.st = "done" => row.on = TRUE /\ row.slot = move.v
    /\ done # Nothing =>
         \/ done.v[1] = "cancel" /\ row.on = FALSE
         \/ done.v[1] = "move" /\ row.on = TRUE /\ row.slot = done.v[2]

LinkInv ==
    /\ LinkShape(pm) /\ pmnet = [cancel |-> pmnet.cancel, move |-> pmnet.move]
    /\ pmrow = [on |-> pmrow.on, slot |-> pmrow.slot]
    /\ LinkCall(pmnet.cancel) /\ LinkCall(pmnet.move)
    /\ OneChange(pm.dialog, pm.done, pmnet.cancel, pmnet.move)
    /\ Became(pm.done, pmnet.cancel, pmnet.move, pmrow)

\* A page that is opened.
LEMMA LinkInit == PMInit => LinkInv
BY DEF PMInit, LinkInv, LinkShape, LinkCall, OneChange, Became, Nothing

\* The dialog and the two buttons.
LEMMA LinkControls ==
  ASSUME LinkInv,
         \/ OpenReschedule \/ CloseReschedule \/ ConfirmReschedule \/ CancelBooking
         \/ \E k : PickSlot(k)
  PROVE  LinkInv'
<1>a. Nothing.st = "none"
  BY DEF Nothing
<1>1. CASE OpenReschedule
  <2>1. /\ pm' = [pm EXCEPT !.dialog = TRUE, !.pick = 0] /\ pmrow' = pmrow /\ pmnet' = pmnet
        /\ pm.done = Nothing /\ pmnet.cancel = Nothing
    BY <1>1 DEF OpenReschedule, Behind
  <2>2. LinkShape(pm') /\ pm'.dialog = TRUE /\ pm'.done = pm.done
    BY <2>1 DEF LinkInv, LinkShape
  <2> QED BY <2>1, <2>2 DEF LinkInv, OneChange
<1>2. CASE CloseReschedule
  <2>1. /\ pm' = [pm EXCEPT !.dialog = FALSE] /\ pmrow' = pmrow /\ pmnet' = pmnet
        /\ pm.dialog /\ pmnet.move = Nothing
    BY <1>2 DEF CloseReschedule, Moving
  <2>2. LinkShape(pm') /\ pm'.dialog = FALSE /\ pm'.done = pm.done
    BY <2>1 DEF LinkInv, LinkShape
  <2> QED BY <2>1, <2>2 DEF LinkInv, OneChange
<1>3. ASSUME NEW k, PickSlot(k) PROVE LinkInv'
  <2>1. pm' = [pm EXCEPT !.pick = k] /\ pmrow' = pmrow /\ pmnet' = pmnet
    BY <1>3 DEF PickSlot
  <2>2. LinkShape(pm') /\ pm'.dialog = pm.dialog /\ pm'.done = pm.done
    BY <2>1 DEF LinkInv, LinkShape
  <2> QED BY <2>1, <2>2 DEF LinkInv
<1>4. CASE ConfirmReschedule
  <2>1. PICK d : d = Sent(pm.pick)
    OBVIOUS
  <2>2. LinkCall(d) /\ d # Nothing /\ d.st = "sent"
    BY <2>1 DEF Sent, LinkCall, Nothing
  <2>3. /\ pm' = [pm EXCEPT !.calls = @ + 1] /\ pmnet' = [pmnet EXCEPT !.move = d]
        /\ pmrow' = pmrow /\ pm.dialog
    BY <1>4, <2>1 DEF ConfirmReschedule, Ask
  <2>4. LinkShape(pm') /\ pm'.dialog = pm.dialog /\ pm'.done = pm.done
    BY <2>3 DEF LinkInv, LinkShape
  <2>5. /\ pmnet' = [cancel |-> pmnet'.cancel, move |-> pmnet'.move]
        /\ pmnet'.cancel = pmnet.cancel /\ pmnet'.move = d
    BY <2>3 DEF LinkInv
  <2>6. pmnet.cancel = Nothing
    BY <2>3 DEF LinkInv, OneChange
  <2> QED BY <2>2, <2>3, <2>4, <2>5, <2>6 DEF LinkInv, OneChange, Became
<1>5. CASE CancelBooking
  <2>1. PICK d : d = Sent(0)
    OBVIOUS
  <2>2. LinkCall(d) /\ d # Nothing /\ d.st = "sent"
    BY <2>1 DEF Sent, LinkCall, Nothing
  <2>3. /\ pm' = [pm EXCEPT !.calls = @ + 1] /\ pmnet' = [pmnet EXCEPT !.cancel = d]
        /\ pmrow' = pmrow /\ ~pm.dialog /\ pm.done = Nothing
    BY <1>5, <2>1 DEF CancelBooking, Behind, Ask
  <2>4. LinkShape(pm') /\ pm'.dialog = pm.dialog /\ pm'.done = pm.done
    BY <2>3 DEF LinkInv, LinkShape
  <2>5. /\ pmnet' = [cancel |-> pmnet'.cancel, move |-> pmnet'.move]
        /\ pmnet'.cancel = d /\ pmnet'.move = pmnet.move
    BY <2>3 DEF LinkInv
  <2>6. pmnet.move = Nothing
    BY <2>3 DEF LinkInv, OneChange
  <2> QED BY <2>2, <2>3, <2>4, <2>5, <2>6 DEF LinkInv, OneChange, Became
<1> QED BY <1>1, <1>2, <1>3, <1>4, <1>5

\* The calls of that page.
LEMMA LinkCalls ==
  ASSUME LinkInv,
         \/ CancelLands \/ MoveLands
         \/ \E call \in {"cancel", "move"} : ChangeAnswered(call) \/ ChangeFails(call)
  PROVE  LinkInv'
<1>a. Nothing.st = "none"
  BY DEF Nothing
<1>1. CASE CancelLands
  <2>1. PICK d : d = [pmnet.cancel EXCEPT !.st = "done"]
    OBVIOUS
  <2>2. LinkCall(d) /\ d # Nothing /\ d.st = "done" /\ pmnet.cancel # Nothing
    BY <1>1, <1>a, <2>1 DEF CancelLands, LinkInv, LinkCall, Nothing
  <2>3. /\ pmnet' = [cancel |-> d, move |-> pmnet.move] /\ pm' = pm
        /\ pmrow' = [pmrow EXCEPT !.on = FALSE]
    BY <1>1, <2>1 DEF CancelLands, LinkInv
  <2>4. pmrow' = [on |-> pmrow'.on, slot |-> pmrow'.slot] /\ pmrow'.on = FALSE
    BY <2>3 DEF LinkInv
  <2>5. /\ pmnet' = [cancel |-> pmnet'.cancel, move |-> pmnet'.move]
        /\ pmnet'.cancel = d /\ pmnet'.move = pmnet.move
    BY <2>3
  <2>6. pmnet.move = Nothing /\ pm.done = Nothing
    BY <2>2 DEF LinkInv, OneChange
  <2> QED BY <1>a, <2>2, <2>3, <2>4, <2>5, <2>6 DEF LinkInv, OneChange, Became
<1>2. CASE MoveLands
  <2>1. PICK d : d = [pmnet.move EXCEPT !.st = "done"]
    OBVIOUS
  <2>2. /\ LinkCall(d) /\ d # Nothing /\ d.st = "done" /\ d.v = pmnet.move.v
        /\ pmnet.move # Nothing
    BY <1>2, <1>a, <2>1 DEF MoveLands, LinkInv, LinkCall, Nothing
  <2>3. /\ pmnet' = [cancel |-> pmnet.cancel, move |-> d] /\ pm' = pm
        /\ pmrow' = [on |-> TRUE, slot |-> d.v]
    BY <1>2, <2>1, <2>2 DEF MoveLands, LinkInv
  <2>4. pmrow' = [on |-> pmrow'.on, slot |-> pmrow'.slot] /\ pmrow'.on = TRUE
        /\ pmrow'.slot = d.v
    BY <2>3
  <2>5. /\ pmnet' = [cancel |-> pmnet'.cancel, move |-> pmnet'.move]
        /\ pmnet'.cancel = pmnet.cancel /\ pmnet'.move = d
    BY <2>3
  <2>6. pmnet.cancel = Nothing /\ pm.done = Nothing
    BY <2>2 DEF LinkInv, OneChange
  <2> QED BY <1>a, <2>2, <2>3, <2>4, <2>5, <2>6 DEF LinkInv, OneChange, Became
<1>3. CASE ChangeAnswered("cancel")
  <2>1. PICK u, d : u = <<"cancel", pmnet.cancel.v>> /\ d = Done(u)
    OBVIOUS
  <2>2. d # Nothing /\ d.v[1] = "cancel" /\ pmnet.cancel.st = "done"
    BY <1>3, <2>1 DEF Done, Nothing, ChangeAnswered
  <2>3. /\ pm' = [pm EXCEPT !.dialog = FALSE, !.done = d] /\ pmrow' = pmrow
        /\ pmnet' = [pmnet EXCEPT !.cancel = Nothing]
    BY <1>3, <2>1 DEF ChangeAnswered
  <2>4. LinkShape(pm') /\ pm'.dialog = FALSE /\ pm'.done = d
    BY <2>3 DEF LinkInv, LinkShape
  <2>5. /\ pmnet' = [cancel |-> pmnet'.cancel, move |-> pmnet'.move]
        /\ pmnet'.cancel = Nothing /\ pmnet'.move = pmnet.move
    BY <2>3 DEF LinkInv
  <2>6. pmnet.move = Nothing /\ pmrow.on = FALSE
    BY <1>a, <2>2 DEF LinkInv, OneChange, Became
  <2> QED BY <1>a, <2>2, <2>3, <2>4, <2>5, <2>6 DEF LinkInv, OneChange, Became, LinkCall
<1>4. CASE ChangeAnswered("move")
  <2>1. PICK u, d : u = <<"move", pmnet.move.v>> /\ d = Done(u)
    OBVIOUS
  <2>2. /\ d # Nothing /\ d.v[1] = "move" /\ d.v[2] = pmnet.move.v /\ pmnet.move.st = "done"
    BY <1>4, <2>1 DEF Done, Nothing, ChangeAnswered
  <2>3. /\ pm' = [pm EXCEPT !.dialog = FALSE, !.done = d] /\ pmrow' = pmrow
        /\ pmnet' = [pmnet EXCEPT !.move = Nothing]
    BY <1>4, <2>1 DEF ChangeAnswered
  <2>4. LinkShape(pm') /\ pm'.dialog = FALSE /\ pm'.done = d
    BY <2>3 DEF LinkInv, LinkShape
  <2>5. /\ pmnet' = [cancel |-> pmnet'.cancel, move |-> pmnet'.move]
        /\ pmnet'.cancel = pmnet.cancel /\ pmnet'.move = Nothing
    BY <2>3 DEF LinkInv
  <2>6. pmnet.cancel = Nothing /\ pmrow.on = TRUE /\ pmrow.slot = pmnet.move.v
    BY <1>a, <2>2 DEF LinkInv, OneChange, Became
  <2> QED BY <1>a, <2>2, <2>3, <2>4, <2>5, <2>6 DEF LinkInv, OneChange, Became, LinkCall
<1>5. ASSUME NEW call \in {"cancel", "move"}, ChangeFails(call) PROVE LinkInv'
  <2>1. pm' = pm /\ pmrow' = pmrow /\ pmnet' = [pmnet EXCEPT ![call] = Nothing]
    BY <1>5 DEF ChangeFails
  <2>2. /\ pmnet' = [cancel |-> pmnet'.cancel, move |-> pmnet'.move]
        /\ pmnet'.cancel \in {Nothing, pmnet.cancel} /\ pmnet'.move \in {Nothing, pmnet.move}
    BY <2>1 DEF LinkInv
  <2> QED BY <1>a, <2>1, <2>2 DEF LinkInv, OneChange, Became, LinkCall
<1> QED BY <1>1, <1>2, <1>3, <1>4, <1>5

\* Every step of that page.
LEMMA LinkNext ==
  ASSUME LinkInv, [PMNext]_pmvars PROVE LinkInv'
<1>1. CASE UNCHANGED pmvars
  BY <1>1 DEF pmvars, LinkInv
<1>2. CASE PMNext
  BY <1>2, LinkControls, LinkCalls DEF PMNext
<1> QED BY <1>1, <1>2

-----------------------------------------------------------------------------
(* The bot on trial *)

TryPage == [entries : Seq(Nat), state : Nat, opening : BOOLEAN, sending : BOOLEAN, turns : Nat]

TurnsShown(l, n) ==
    /\ {l[i] : i \in {j \in DOMAIN l : l[j] # Customer}} = 1 .. n
    /\ \A i, j \in {k \in DOMAIN l : l[k] # Customer} : i < j => l[i] < l[j]

\* The page waits for one answer at a time, and the answer is to the state it holds.
TryInv ==
    /\ tm \in TryPage
    /\ \A c \in tmnet : /\ c = [kind |-> c.kind, state |-> c.state] /\ c.state = tm.state
                        /\ c.kind = "open" => tm.opening
                        /\ c.kind # "open" => tm.sending
    /\ \A c, d \in tmnet : c = d
    /\ ~(tm.opening /\ tm.sending)
    /\ TurnsShown(tm.entries, tm.state)

\* A page that is opened.
LEMMA TryInit == TMInit => TryInv
<1> SUFFICES ASSUME TMInit PROVE TryInv
  OBVIOUS
<1>1. tm \in TryPage /\ tm.entries = <<>> /\ tm.state = 0 /\ tm.opening /\ ~tm.sending
  BY DEF TMInit, TryPage
<1>2. TurnsShown(tm.entries, tm.state)
  BY <1>1 DEF TurnsShown
<1> QED BY <1>1, <1>2 DEF TMInit, TryInv

\* A bubble of the customer leaves the turns as they were; the next turn follows them.
LEMMA NextBubble ==
  ASSUME TryInv, NEW e \in {Customer, tm.state + 1}, NEW l, l = Append(tm.entries, e)
  PROVE  /\ l \in Seq(Nat)
         /\ e = Customer => TurnsShown(l, tm.state)
         /\ e # Customer => TurnsShown(l, tm.state + 1)
<1>1. tm.entries \in Seq(Nat) /\ tm.state \in Nat /\ e \in Nat /\ Customer = 0
  BY DEF TryInv, TryPage, Customer
<1>2. /\ l \in Seq(Nat) /\ Len(l) = Len(tm.entries) + 1 /\ l[Len(tm.entries) + 1] = e
      /\ \A i \in 1 .. Len(tm.entries) : l[i] = tm.entries[i]
      /\ DOMAIN l = 1 .. Len(tm.entries) + 1 /\ DOMAIN tm.entries = 1 .. Len(tm.entries)
      /\ Len(tm.entries) \in Nat
  BY <1>1, AppendProperties
<1> DEFINE k == Len(tm.entries)
           old == {i \in DOMAIN tm.entries : tm.entries[i] # Customer}
           bot == {i \in DOMAIN l : l[i] # Customer}
<1>3. {tm.entries[i] : i \in old} = 1 .. tm.state
  BY DEF TryInv, TurnsShown
<1>4. \A i, j \in old : i < j => tm.entries[i] < tm.entries[j]
  BY DEF TryInv, TurnsShown
<1>a. \A i \in old : tm.entries[i] \in 1 .. tm.state
  BY <1>3
<1>5. CASE e = Customer
  <2>1. bot = old
    BY <1>1, <1>2, <1>5
  <2>2. \A i \in old : l[i] = tm.entries[i]
    BY <1>2
  <2>3. {l[i] : i \in bot} = {tm.entries[i] : i \in old}
    BY <2>1, <2>2
  <2>4. \A i, j \in bot : i < j => l[i] < l[j]
    BY <1>4, <2>1, <2>2
  <2> QED BY <1>2, <1>3, <1>5, <2>3, <2>4 DEF TurnsShown
<1>6. CASE e # Customer
  <2>1. e = tm.state + 1 /\ bot = old \cup {k + 1}
    BY <1>1, <1>2, <1>6
  <2>2. \A i \in old : l[i] = tm.entries[i] /\ i \in 1 .. k
    BY <1>2
  <2>3. {l[i] : i \in bot} = {tm.entries[i] : i \in old} \cup {e}
    BY <1>2, <2>1, <2>2
  <2>a. 1 .. tm.state + 1 = (1 .. tm.state) \cup {tm.state + 1}
    BY <1>1
  <2>4. {l[i] : i \in bot} = 1 .. tm.state + 1
    BY <1>3, <2>1, <2>3, <2>a
  <2>5. ASSUME NEW i \in bot, NEW j \in bot, i < j PROVE l[i] < l[j]
    <3>1. i \in old
      BY <1>2, <2>1, <2>2, <2>5
    <3>2. CASE j \in old
      BY <1>4, <2>2, <2>5, <3>1, <3>2
    <3>3. CASE j = k + 1
      BY <1>1, <1>2, <1>a, <2>1, <2>2, <3>1, <3>3
    <3> QED BY <2>1, <3>2, <3>3
  <2> QED BY <1>2, <1>6, <2>4, <2>5 DEF TurnsShown
<1> QED BY <1>5, <1>6

\* Every step of the page.
LEMMA TryNext ==
  ASSUME TryInv, [TMNext]_tmvars PROVE TryInv'
<1>a. tm \in TryPage
  BY DEF TryInv
<1>b. PICK n \in Nat : n = tm.turns + 1
  BY <1>a DEF TryPage
<1>1. CASE OnReset
  <2>1. ~tm.opening /\ ~tm.sending /\ tmnet = {}
    BY <1>1 DEF OnReset, TryInv
  <2>e. <<>> \in Seq(Nat)
    BY EmptySeq
  <2>a. PICK l : l \in Seq(Nat) /\ l = <<>>
    BY <2>e
  <2>2. /\ tm' = [tm EXCEPT !.entries = l, !.state = 0, !.opening = TRUE, !.turns = n]
        /\ tmnet' = {[kind |-> "open", state |-> 0]}
    BY <1>1, <1>b, <2>1, <2>a DEF OnReset, OpenChat
  <2>3. /\ tm' \in TryPage /\ tm'.entries = <<>> /\ tm'.state = 0 /\ tm'.opening
        /\ ~tm'.sending
    BY <1>a, <2>1, <2>2, <2>a DEF TryPage
  <2>4. TurnsShown(tm'.entries, tm'.state)
    BY <2>3 DEF TurnsShown
  <2> QED BY <2>2, <2>3, <2>4 DEF TryInv
<1>2. CASE OnSubmit
  <2>1. ~tm.opening /\ ~tm.sending /\ tmnet = {}
    BY <1>2 DEF OnSubmit, TryInv
  <2>2. PICK l : l = Append(tm.entries, Customer)
    OBVIOUS
  <2>3. l \in Seq(Nat) /\ TurnsShown(l, tm.state)
    BY <2>2, NextBubble
  <2>4. /\ tm' = [tm EXCEPT !.entries = l, !.sending = TRUE, !.turns = n]
        /\ tmnet' = {[kind |-> "turn", state |-> tm.state]}
    BY <1>2, <1>b, <2>1, <2>2 DEF OnSubmit
  <2>5. /\ tm' \in TryPage /\ tm'.entries = l /\ tm'.state = tm.state /\ ~tm'.opening
        /\ tm'.sending
    BY <1>a, <2>1, <2>3, <2>4 DEF TryPage
  <2> QED BY <2>3, <2>4, <2>5 DEF TryInv
<1>3. ASSUME NEW c \in tmnet, ApplyResponse(c) PROVE TryInv'
  <2>1. PICK t : t = Returned(tm, c)
    OBVIOUS
  <2>2. /\ t \in TryPage /\ t.entries = tm.entries /\ t.state = tm.state
        /\ ~(t.opening /\ t.sending)
    BY <2>1 DEF Returned, TryInv, TryPage
  <2>3. PICK l : l = Append(tm.entries, tm.state + 1)
    OBVIOUS
  <2>4. tm.state \in Nat /\ tm.state + 1 # Customer
    BY DEF TryInv, TryPage, Customer
  <2>5. l \in Seq(Nat) /\ TurnsShown(l, tm.state + 1)
    BY <2>3, <2>4, NextBubble
  <2>a. PICK m \in Nat : m = tm.state + 1
    BY <2>4
  <2>6. tm' = [t EXCEPT !.state = m, !.entries = l] /\ tmnet' = {}
    BY <1>3, <2>1, <2>2, <2>3, <2>a DEF ApplyResponse, TryInv
  <2>7. /\ tm' \in TryPage /\ tm'.entries = l /\ tm'.state = m
        /\ tm'.opening = t.opening /\ tm'.sending = t.sending
    BY <2>2, <2>5, <2>6 DEF TryPage
  <2> QED BY <2>2, <2>5, <2>6, <2>7, <2>a DEF TryInv
<1>4. ASSUME NEW c \in tmnet, TurnFails(c) PROVE TryInv'
  <2>1. /\ tm' \in TryPage /\ tm'.entries = tm.entries /\ tm'.state = tm.state
        /\ ~(tm'.opening /\ tm'.sending)
    BY <1>4 DEF TurnFails, Returned, TryInv, TryPage
  <2>2. tmnet' = {}
    BY <1>4 DEF TurnFails, TryInv
  <2> QED BY <2>1, <2>2 DEF TryInv
<1>5. CASE UNCHANGED tmvars
  BY <1>5 DEF tmvars, TryInv
<1> QED BY <1>1, <1>2, <1>3, <1>4, <1>5 DEF TMNext

-----------------------------------------------------------------------------
(* The list of conversations *)

ChatsShape(p) ==
    p = [tab |-> p.tab, list |-> p.list, open |-> p.open, loading |-> p.loading,
         error |-> p.error, calls |-> p.calls, raced |-> p.raced, failed |-> p.failed]
ChatsRow(row) ==
    /\ row = [i \in DOMAIN row |-> row[i]]
    /\ \A i \in DOMAIN row : row[i] = [status |-> row[i].status, unread |-> row[i].unread]

ChatsCall(c) ==
    /\ c = [kind |-> c.kind, tab |-> c.tab, own |-> c.own, id |-> c.id, to |-> c.to,
            st |-> c.st, v |-> c.v, n |-> c.n]
    /\ c.kind \in {"load", "detail", "status"} /\ c.st \in {"sent", "done"}
    /\ c.own \in BOOLEAN /\ (c.own => c.kind = "load")

\* Every call is for the tab on screen, and a load is the only call there is.
OneLoad(tab, net) ==
    /\ \A c \in net : c.tab = tab
    /\ \A c, d \in net : c.kind = "load" => c = d

UnderTab(row, tab) == {[id |-> i, status |-> row[i].status, unread |-> row[i].unread] :
                         i \in {j \in DOMAIN row : row[j].status = tab}}

\* What the calls under way say about the server: a status set from a row takes it out
\* of the tab, and a row whose detail is fetched is shown as read.
CallsTrue(tab, list, row, net) ==
    /\ \A c \in net : c.kind = "load" /\ c.st = "done" => c.v = UnderTab(row, tab)
    /\ \A c \in net : c.kind = "status" =>
         c.to # tab /\ (c.st = "done" /\ c.id \in DOMAIN row => row[c.id].status # tab)
    /\ \A c \in net : c.kind = "detail" /\ c.st = "sent" =>
         \A r \in list : r.id = c.id => r.unread = FALSE

\* A row of the list is the server's, but for a change that is still to be answered
\* and a read mark that is still to be set.
RowTrue(r, tab, row, net) ==
    /\ r = [id |-> r.id, status |-> r.status, unread |-> r.unread]
    /\ r.id \in DOMAIN row /\ r.status = tab
    /\ row[r.id].status = tab \/ \E c \in net : c.kind = "status" /\ c.st = "done" /\ c.id = r.id
    /\ \/ r.unread = row[r.id].unread
       \/ \E c \in net : c.kind = "detail" /\ c.st = "sent" /\ c.id = r.id

ListTrue(tab, list, row, net) ==
    /\ \A r \in list : RowTrue(r, tab, row, net)
    /\ \A i \in DOMAIN row : row[i].status = tab => \E r \in list : r.id = i

FollowsTab(p, row, net) ==
    /\ OneLoad(p.tab, net)
    /\ CallsTrue(p.tab, p.list, row, net)
    /\ (\A c \in net : c.kind # "load") => ListTrue(p.tab, p.list, row, net)

ChatsInv ==
    /\ ChatsShape(cv) /\ ChatsRow(cvrow)
    /\ \A c \in cvnet : ChatsCall(c)
    /\ ~cv.raced /\ ~cv.failed => FollowsTab(cv, cvrow, cvnet)

\* A page that is opened.
LEMMA ChatsInit == CVInit => ChatsInv
<1> SUFFICES ASSUME CVInit PROVE ChatsInv
  OBVIOUS
<1>1. ChatsShape(cv) /\ cv.tab = "waiting"
  BY DEF CVInit, ChatsShape
<1>2. ChatsRow(cvrow)
  <2>1. PICK f : cvrow = [i \in DOMAIN f |-> [status |-> f[i], unread |-> TRUE]]
    BY DEF CVInit
  <2> QED BY <2>1 DEF ChatsRow
<1>3. PICK d : d = [kind |-> "load", tab |-> "waiting", own |-> TRUE, id |-> 0, to |-> "",
                    st |-> "sent", v |-> {}, n |-> 0]
               /\ cvnet = {d}
  BY DEF CVInit
<1>4. ChatsCall(d) /\ d.kind = "load" /\ d.st = "sent" /\ d.tab = "waiting"
  BY <1>3 DEF ChatsCall
<1> QED BY <1>1, <1>2, <1>3, <1>4 DEF ChatsInv, FollowsTab, OneLoad, CallsTrue

\* A load that starts is the only call there is, if it has not raced with another.
LEMMA LoadStarts ==
  ASSUME ChatsInv, ChatsShape(cv'), cvrow' = cvrow, \A c \in cvnet' : ChatsCall(c),
         NEW d, d.kind = "load", d.st = "sent", d.tab = cv'.tab, ~cv'.raced => cvnet' = {d}
  PROVE  ChatsInv'
BY DEF ChatsInv, FollowsTab, OneLoad, CallsTrue

\* The tabs and the refresh button.
LEMMA ChatsLoads ==
  ASSUME ChatsInv, RefreshList \/ \E s : SetTab(s) PROVE ChatsInv'
<1>a. ChatsShape(cv) /\ \A c \in cvnet : ChatsCall(c)
  BY DEF ChatsInv
<1>1. CASE RefreshList
  <2>1. PICK d : d = CvCall("load", cv.tab, FALSE, 0, "")
    OBVIOUS
  <2>2. ChatsCall(d) /\ d.kind = "load" /\ d.st = "sent" /\ d.tab = cv.tab
    BY <2>1 DEF CvCall, ChatsCall
  <2>3. PICK b \in BOOLEAN : b <=> cv.raced \/ cvnet # {}
    OBVIOUS
  <2>4. /\ cv' = [cv EXCEPT !.loading = TRUE, !.error = FALSE, !.calls = @ + 1, !.raced = b]
        /\ cvnet' = cvnet \cup {d} /\ cvrow' = cvrow
    BY <1>1, <2>1, <2>3 DEF RefreshList
  <2>5. ChatsShape(cv') /\ cv'.tab = cv.tab /\ cv'.raced = b
    BY <1>a, <2>4 DEF ChatsShape
  <2>6. (\A c \in cvnet' : ChatsCall(c)) /\ (~b => cvnet' = {d})
    BY <1>a, <2>2, <2>3, <2>4
  <2> QED BY <2>2, <2>4, <2>5, <2>6, LoadStarts
<1>2. ASSUME NEW s, SetTab(s) PROVE ChatsInv'
  <2>1. PICK d : d = CvCall("load", s, TRUE, 0, "")
    OBVIOUS
  <2>2. ChatsCall(d) /\ d.kind = "load" /\ d.st = "sent" /\ d.tab = s
    BY <2>1 DEF CvCall, ChatsCall
  <2>3. PICK b \in BOOLEAN : b <=> cv.raced \/ \E c \in cvnet : ~c.own
    OBVIOUS
  <2>4. /\ cv' = [cv EXCEPT !.tab = s, !.loading = TRUE, !.error = FALSE, !.calls = @ + 1,
                            !.raced = b]
        /\ cvnet' = CvCancelled(cvnet) \cup {d} /\ cvrow' = cvrow
    BY <1>2, <2>1, <2>3 DEF SetTab
  <2>5. ChatsShape(cv') /\ cv'.tab = s /\ cv'.raced = b
    BY <1>a, <2>4 DEF ChatsShape
  <2>6. CvCancelled(cvnet) \subseteq cvnet /\ (~b => CvCancelled(cvnet) = {})
    BY <1>a, <2>3 DEF CvCancelled, ChatsCall
  <2>7. (\A c \in cvnet' : ChatsCall(c)) /\ (~b => cvnet' = {d})
    BY <1>a, <2>2, <2>4, <2>6
  <2> QED BY <2>2, <2>4, <2>5, <2>7, LoadStarts
<1> QED BY <1>1, <1>2

\* The rows: one is opened or closed, or its status is set.
LEMMA ChatsRows ==
  ASSUME ChatsInv, (\E id : ToggleRow(id)) \/ \E s : SetStatusFromRow(s) PROVE ChatsInv'
<1>a. ChatsShape(cv) /\ \A c \in cvnet : ChatsCall(c)
  BY DEF ChatsInv
<1>b. PICK b \in BOOLEAN : b <=> cv.raced \/ CvLoads # {}
  OBVIOUS
<1>c. ~b => \A c \in cvnet : c.kind # "load"
  BY <1>b DEF CvLoads
<1>1. ASSUME NEW id, ToggleRow(id), cv.open = id PROVE ChatsInv'
  <2>1. cv' = [cv EXCEPT !.open = 0] /\ cvnet' = cvnet /\ cvrow' = cvrow
    BY <1>1 DEF ToggleRow
  <2>2. /\ ChatsShape(cv') /\ cv'.tab = cv.tab /\ cv'.list = cv.list /\ cv'.raced = cv.raced
        /\ cv'.failed = cv.failed
    BY <1>a, <2>1 DEF ChatsShape
  <2> QED BY <2>1, <2>2 DEF ChatsInv, FollowsTab
<1>2. ASSUME NEW id, ToggleRow(id), cv.open # id PROVE ChatsInv'
  <2>1. PICK d, l : /\ d = CvCall("detail", cv.tab, FALSE, id, "")
                    /\ l = {IF r.id = id THEN [r EXCEPT !.unread = FALSE] ELSE r : r \in cv.list}
    OBVIOUS
  <2>2. /\ ChatsCall(d) /\ d.kind = "detail" /\ d.st = "sent" /\ d.tab = cv.tab /\ d.id = id
    BY <2>1 DEF CvCall, ChatsCall
  <2>3. /\ cv' = [cv EXCEPT !.open = id, !.calls = @ + 1, !.raced = b, !.list = l]
        /\ cvnet' = cvnet \cup {d} /\ cvrow' = cvrow
    BY <1>2, <1>b, <2>1 DEF ToggleRow
  <2>4. /\ ChatsShape(cv') /\ cv'.tab = cv.tab /\ cv'.list = l /\ cv'.raced = b
        /\ cv'.failed = cv.failed
    BY <1>a, <2>3 DEF ChatsShape
  <2>5. \A c \in cvnet' : ChatsCall(c)
    BY <1>a, <2>2, <2>3
  <2>6. SUFFICES ASSUME ~b, ~cv.failed PROVE FollowsTab(cv', cvrow', cvnet')
    BY <2>3, <2>4, <2>5 DEF ChatsInv
  <2>7. /\ FollowsTab(cv, cvrow, cvnet) /\ \A c \in cvnet : c.kind # "load"
        /\ ListTrue(cv.tab, cv.list, cvrow, cvnet)
    BY <1>b, <1>c, <2>6 DEF ChatsInv, FollowsTab
  <2>8. OneLoad(cv'.tab, cvnet')
    BY <2>2, <2>3, <2>4, <2>7 DEF FollowsTab, OneLoad
  <2>9. ASSUME NEW x \in l
        PROVE  \E r \in cv.list : /\ x.id = r.id /\ x.status = r.status
                                  /\ x = [id |-> x.id, status |-> x.status, unread |-> x.unread]
                                  /\ x.unread = r.unread \/ x.unread = FALSE
                                  /\ x.id = id => x.unread = FALSE
                                  /\ x.id # id => x = r
    <3>1. PICK r \in cv.list : x = IF r.id = id THEN [r EXCEPT !.unread = FALSE] ELSE r
      BY <2>1
    <3>2. r = [id |-> r.id, status |-> r.status, unread |-> r.unread]
      BY <2>7 DEF ListTrue, RowTrue
    <3> QED BY <3>1, <3>2
  <2>10. CallsTrue(cv'.tab, cv'.list, cvrow', cvnet')
    <3>1. ASSUME NEW c \in cvnet', c.kind = "detail", c.st = "sent", NEW x \in l, x.id = c.id
          PROVE  x.unread = FALSE
      <4>1. PICK r \in cv.list : /\ x.id = r.id /\ (x.id = id => x.unread = FALSE)
                                 /\ x.id # id => x = r
        BY <2>9
      <4> QED BY <2>2, <2>3, <2>7, <3>1, <4>1 DEF FollowsTab, CallsTrue
    <3> QED BY <2>2, <2>3, <2>4, <2>7, <3>1 DEF FollowsTab, CallsTrue
  <2>11. ASSUME NEW x \in l PROVE RowTrue(x, cv.tab, cvrow, cvnet')
    <3>1. PICK r \in cv.list : /\ x.id = r.id /\ x.status = r.status
                               /\ x = [id |-> x.id, status |-> x.status, unread |-> x.unread]
                               /\ x.id # id => x = r
      BY <2>9
    <3>2. RowTrue(r, cv.tab, cvrow, cvnet)
      BY <2>7 DEF ListTrue
    <3>3. CASE x.id = id
      BY <2>2, <2>3, <3>1, <3>2, <3>3 DEF RowTrue
    <3>4. CASE x.id # id
      BY <2>3, <3>1, <3>2, <3>4 DEF RowTrue
    <3> QED BY <3>3, <3>4
  <2>12. ASSUME NEW r \in cv.list PROVE \E x \in l : x.id = r.id
    <3>1. r = [id |-> r.id, status |-> r.status, unread |-> r.unread]
      BY <2>7 DEF ListTrue, RowTrue
    <3>2. PICK x : x = IF r.id = id THEN [r EXCEPT !.unread = FALSE] ELSE r
      OBVIOUS
    <3>3. x \in l /\ x.id = r.id
      BY <2>1, <3>1, <3>2
    <3> QED BY <3>3
  <2>13. ListTrue(cv'.tab, cv'.list, cvrow', cvnet')
    BY <2>3, <2>4, <2>7, <2>11, <2>12 DEF ListTrue
  <2> QED BY <2>8, <2>10, <2>13 DEF FollowsTab
<1>3. ASSUME NEW to, SetStatusFromRow(to) PROVE ChatsInv'
  <2>1. PICK r \in cv.list : /\ r.status # to
                             /\ cvnet' = cvnet \cup {CvCall("status", cv.tab, FALSE, r.id, to)}
    BY <1>3 DEF SetStatusFromRow
  <2>a. PICK d : d = CvCall("status", cv.tab, FALSE, r.id, to)
    OBVIOUS
  <2>2. /\ ChatsCall(d) /\ d.kind = "status" /\ d.st = "sent" /\ d.tab = cv.tab /\ d.to = to
    BY <2>a DEF CvCall, ChatsCall
  <2>3. /\ cv' = [cv EXCEPT !.calls = @ + 1, !.raced = b] /\ cvnet' = cvnet \cup {d}
        /\ cvrow' = cvrow
    BY <1>3, <1>b, <2>1, <2>a DEF SetStatusFromRow
  <2>4. /\ ChatsShape(cv') /\ cv'.tab = cv.tab /\ cv'.list = cv.list /\ cv'.raced = b
        /\ cv'.failed = cv.failed
    BY <1>a, <2>3 DEF ChatsShape
  <2>5. \A c \in cvnet' : ChatsCall(c)
    BY <1>a, <2>2, <2>3
  <2>6. SUFFICES ASSUME ~b, ~cv.failed PROVE FollowsTab(cv', cvrow', cvnet')
    BY <2>3, <2>4, <2>5 DEF ChatsInv
  <2>7. /\ FollowsTab(cv, cvrow, cvnet) /\ \A c \in cvnet : c.kind # "load"
        /\ ListTrue(cv.tab, cv.list, cvrow, cvnet)
    BY <1>b, <1>c, <2>6 DEF ChatsInv, FollowsTab
  <2>8. r.status = cv.tab
    BY <2>7 DEF ListTrue, RowTrue
  <2>9. OneLoad(cv'.tab, cvnet')
    BY <2>2, <2>3, <2>4, <2>7 DEF FollowsTab, OneLoad
  <2>10. CallsTrue(cv'.tab, cv'.list, cvrow', cvnet')
    BY <2>1, <2>2, <2>3, <2>4, <2>7, <2>8 DEF FollowsTab, CallsTrue
  <2>11. ListTrue(cv'.tab, cv'.list, cvrow', cvnet')
    BY <2>2, <2>3, <2>4, <2>7 DEF ListTrue, RowTrue
  <2> QED BY <2>9, <2>10, <2>11 DEF FollowsTab
<1> QED BY <1>1, <1>2, <1>3

\* The loads.
LEMMA ChatsLoadCalls ==
  ASSUME ChatsInv, NEW c \in cvnet, LoadReads(c) \/ LoadAnswered(c) \/ LoadListFails(c)
  PROVE  ChatsInv'
<1>a. ChatsShape(cv) /\ (\A x \in cvnet : ChatsCall(x)) /\ ChatsCall(c) /\ c.kind = "load"
  BY DEF ChatsInv, LoadReads, LoadAnswered, LoadListFails
<1>b. FollowsTab(cv, cvrow, cvnet) => cvnet = {c} /\ c.tab = cv.tab
  BY <1>a DEF FollowsTab, OneLoad
<1>1. CASE LoadReads(c)
  <2>1. PICK v : v = UnderTab(cvrow, c.tab)
    OBVIOUS
  <2>2. PICK d : d = [c EXCEPT !.st = "done", !.v = v]
    OBVIOUS
  <2>3. ChatsCall(d) /\ d.kind = "load" /\ d.tab = c.tab /\ d.v = v
    BY <1>a, <2>2 DEF ChatsCall
  <2>4. cv' = cv /\ cvrow' = cvrow /\ cvnet' = (cvnet \ {c}) \cup {d}
    BY <1>1, <2>1, <2>2 DEF LoadReads, Listed, UnderTab
  <2>5. FollowsTab(cv, cvrow, cvnet) => FollowsTab(cv, cvrow, cvnet')
    BY <1>b, <2>1, <2>3, <2>4 DEF FollowsTab, OneLoad, CallsTrue
  <2> QED BY <1>a, <2>3, <2>4, <2>5 DEF ChatsInv
<1>2. CASE LoadAnswered(c)
  <2>1. /\ cv' = [cv EXCEPT !.list = c.v, !.loading = FALSE] /\ cvnet' = cvnet \ {c}
        /\ cvrow' = cvrow /\ c.st = "done"
    BY <1>2 DEF LoadAnswered
  <2>2. /\ ChatsShape(cv') /\ cv'.tab = cv.tab /\ cv'.list = c.v /\ cv'.raced = cv.raced
        /\ cv'.failed = cv.failed
    BY <1>a, <2>1 DEF ChatsShape
  <2>3. SUFFICES ASSUME FollowsTab(cv, cvrow, cvnet) PROVE FollowsTab(cv', cvrow', cvnet')
    BY <1>a, <2>1, <2>2 DEF ChatsInv
  <2>4. cvnet' = {} /\ c.v = UnderTab(cvrow, cv.tab)
    BY <1>a, <1>b, <2>1, <2>3 DEF FollowsTab, CallsTrue
  <2>5. ASSUME NEW r \in c.v PROVE RowTrue(r, cv.tab, cvrow, cvnet')
    <3>1. PICK i \in DOMAIN cvrow :
            /\ cvrow[i].status = cv.tab
            /\ r = [id |-> i, status |-> cvrow[i].status, unread |-> cvrow[i].unread]
      BY <2>4 DEF UnderTab
    <3> QED BY <3>1 DEF RowTrue
  <2>6. ASSUME NEW i \in DOMAIN cvrow, cvrow[i].status = cv.tab
        PROVE  \E r \in c.v : r.id = i
    <3>1. PICK r : r = [id |-> i, status |-> cvrow[i].status, unread |-> cvrow[i].unread]
      OBVIOUS
    <3> QED BY <2>4, <2>6, <3>1 DEF UnderTab
  <2>7. ListTrue(cv'.tab, cv'.list, cvrow', cvnet')
    BY <2>1, <2>2, <2>5, <2>6 DEF ListTrue
  <2> QED BY <2>4, <2>7 DEF FollowsTab, OneLoad, CallsTrue
<1>3. CASE LoadListFails(c)
  <2>1. ChatsShape(cv') /\ cv'.failed
    BY <1>3, <1>a DEF LoadListFails, ChatsShape
  <2>2. cvnet' = cvnet \ {c} /\ cvrow' = cvrow
    BY <1>3 DEF LoadListFails
  <2> QED BY <1>a, <2>1, <2>2 DEF ChatsInv
<1> QED BY <1>1, <1>2, <1>3

\* One conversation changes on the server.
LEMMA RowChanges ==
  ASSUME NEW row, ChatsRow(row), NEW id, NEW x,
         x = [status |-> x.status, unread |-> x.unread], NEW new, new = [row EXCEPT ![id] = x]
  PROVE  /\ ChatsRow(new) /\ DOMAIN new = DOMAIN row
         /\ \A i \in DOMAIN row : new[i] = IF i = id THEN x ELSE row[i]
<1>1. /\ DOMAIN new = DOMAIN row /\ new = [i \in DOMAIN new |-> new[i]]
      /\ \A i \in DOMAIN row : new[i] = IF i = id THEN x ELSE row[i]
  BY DEF ChatsRow
<1>2. ASSUME NEW i \in DOMAIN new
      PROVE  new[i] = [status |-> new[i].status, unread |-> new[i].unread]
  <2>1. CASE i = id
    BY <1>1, <2>1
  <2>2. CASE i # id
    BY <1>1, <2>2 DEF ChatsRow
  <2> QED BY <2>1, <2>2
<1> QED BY <1>1, <1>2 DEF ChatsRow

\* The calls of a row.
LEMMA ChatsRowCalls ==
  ASSUME ChatsInv, NEW c \in cvnet,
         RowCallLands(c) \/ StatusAnswered(c) \/ DetailAnswered(c) \/ RowCallFails(c)
  PROVE  ChatsInv'
<1>a. /\ ChatsShape(cv) /\ (\A x \in cvnet : ChatsCall(x)) /\ ChatsCall(c) /\ c.kind # "load"
      /\ ChatsRow(cvrow)
  BY DEF ChatsInv, RowCallLands, StatusAnswered, DetailAnswered, RowCallFails
<1>b. FollowsTab(cv, cvrow, cvnet) =>
        /\ \A x \in cvnet : x.kind # "load" /\ x.tab = cv.tab
        /\ ListTrue(cv.tab, cv.list, cvrow, cvnet) /\ CallsTrue(cv.tab, cv.list, cvrow, cvnet)
  BY <1>a DEF FollowsTab, OneLoad
<1>1. CASE RowCallLands(c) /\ c.kind = "status"
  <2>1. PICK d : d = [c EXCEPT !.st = "done"]
    OBVIOUS
  <2>2. /\ ChatsCall(d) /\ d.kind = "status" /\ d.st = "done" /\ d.tab = c.tab /\ d.id = c.id
        /\ d.to = c.to
    BY <1>1, <1>a, <2>1 DEF ChatsCall
  <2>3. /\ cvrow' = [cvrow EXCEPT ![c.id].status = c.to] /\ cv' = cv /\ c.st = "sent"
        /\ cvnet' = (cvnet \ {c}) \cup {d}
    BY <1>1, <2>1 DEF RowCallLands
  <2>4. /\ ChatsRow(cvrow') /\ DOMAIN cvrow' = DOMAIN cvrow
        /\ \A i \in DOMAIN cvrow : /\ cvrow'[i].unread = cvrow[i].unread
                                   /\ i = c.id => cvrow'[i].status = c.to
                                   /\ i # c.id => cvrow'[i].status = cvrow[i].status
    <3>1. CASE c.id \notin DOMAIN cvrow
      <4>1. cvrow' = cvrow
        BY <1>a, <2>3, <3>1 DEF ChatsRow
      <4> QED BY <1>a, <3>1, <4>1
    <3>2. CASE c.id \in DOMAIN cvrow
      <4>1. PICK x : x = [cvrow[c.id] EXCEPT !.status = c.to]
        OBVIOUS
      <4>2. /\ x = [status |-> x.status, unread |-> x.unread]
            /\ x.status = c.to /\ x.unread = cvrow[c.id].unread
        BY <1>a, <3>2, <4>1 DEF ChatsRow
      <4>3. cvrow' = [cvrow EXCEPT ![c.id] = x]
        BY <2>3, <4>1
      <4>4. /\ ChatsRow(cvrow') /\ DOMAIN cvrow' = DOMAIN cvrow
            /\ \A i \in DOMAIN cvrow : cvrow'[i] = IF i = c.id THEN x ELSE cvrow[i]
        BY <1>a, <4>2, <4>3, RowChanges
      <4> QED BY <4>2, <4>4
    <3> QED BY <3>1, <3>2
  <2>5. \A x \in cvnet' : ChatsCall(x)
    BY <1>a, <2>2, <2>3
  <2>6. SUFFICES ASSUME FollowsTab(cv, cvrow, cvnet) PROVE FollowsTab(cv, cvrow', cvnet')
    BY <2>3, <2>4, <2>5 DEF ChatsInv
  <2>7. (\A x \in cvnet' : x.kind # "load") /\ OneLoad(cv.tab, cvnet') /\ c.to # cv.tab
    BY <1>1, <1>a, <1>b, <2>2, <2>3, <2>6 DEF OneLoad, CallsTrue
  <2>8. CallsTrue(cv.tab, cv.list, cvrow', cvnet')
    BY <1>b, <2>2, <2>3, <2>4, <2>6, <2>7 DEF CallsTrue
  <2>9. ASSUME NEW r \in cv.list PROVE RowTrue(r, cv.tab, cvrow', cvnet')
    <3>1. RowTrue(r, cv.tab, cvrow, cvnet)
      BY <1>b, <2>6 DEF ListTrue
    <3>2. cvrow'[r.id].status = cv.tab
            \/ \E x \in cvnet' : x.kind = "status" /\ x.st = "done" /\ x.id = r.id
      BY <2>2, <2>3, <2>4, <3>1 DEF RowTrue
    <3>3. r.unread = cvrow'[r.id].unread
            \/ \E x \in cvnet' : x.kind = "detail" /\ x.st = "sent" /\ x.id = r.id
      BY <1>1, <2>3, <2>4, <3>1 DEF RowTrue
    <3> QED BY <2>4, <3>1, <3>2, <3>3 DEF RowTrue
  <2>10. ListTrue(cv.tab, cv.list, cvrow', cvnet')
    BY <1>b, <2>4, <2>6, <2>7, <2>9 DEF ListTrue
  <2> QED BY <2>7, <2>8, <2>10 DEF FollowsTab
<1>2. CASE RowCallLands(c) /\ c.kind = "detail"
  <2>1. PICK d : d = [c EXCEPT !.st = "done"]
    OBVIOUS
  <2>2. ChatsCall(d) /\ d.kind = "detail" /\ d.st = "done" /\ d.tab = c.tab
    BY <1>2, <1>a, <2>1 DEF ChatsCall
  <2>3. /\ cvrow' = [cvrow EXCEPT ![c.id].unread = FALSE] /\ cv' = cv /\ c.st = "sent"
        /\ cvnet' = (cvnet \ {c}) \cup {d}
    BY <1>2, <2>1 DEF RowCallLands
  <2>4. /\ ChatsRow(cvrow') /\ DOMAIN cvrow' = DOMAIN cvrow
        /\ \A i \in DOMAIN cvrow : /\ cvrow'[i].status = cvrow[i].status
                                   /\ i = c.id => cvrow'[i].unread = FALSE
                                   /\ i # c.id => cvrow'[i].unread = cvrow[i].unread
    <3>1. CASE c.id \notin DOMAIN cvrow
      <4>1. cvrow' = cvrow
        BY <1>a, <2>3, <3>1 DEF ChatsRow
      <4> QED BY <1>a, <3>1, <4>1
    <3>2. CASE c.id \in DOMAIN cvrow
      <4>a. PICK f : f = FALSE
        OBVIOUS
      <4>1. PICK x : x = [cvrow[c.id] EXCEPT !.unread = f]
        OBVIOUS
      <4>2. /\ x = [status |-> x.status, unread |-> x.unread]
            /\ x.unread = f /\ x.status = cvrow[c.id].status
        BY <1>a, <3>2, <4>1 DEF ChatsRow
      <4>3. cvrow' = [cvrow EXCEPT ![c.id] = x]
        BY <2>3, <4>1, <4>a
      <4>4. /\ ChatsRow(cvrow') /\ DOMAIN cvrow' = DOMAIN cvrow
            /\ \A i \in DOMAIN cvrow : cvrow'[i] = IF i = c.id THEN x ELSE cvrow[i]
        BY <1>a, <4>2, <4>3, RowChanges
      <4> QED BY <4>a, <4>2, <4>4
    <3> QED BY <3>1, <3>2
  <2>5. \A x \in cvnet' : ChatsCall(x)
    BY <1>a, <2>2, <2>3
  <2>6. SUFFICES ASSUME FollowsTab(cv, cvrow, cvnet) PROVE FollowsTab(cv, cvrow', cvnet')
    BY <2>3, <2>4, <2>5 DEF ChatsInv
  <2>7. (\A x \in cvnet' : x.kind # "load") /\ OneLoad(cv.tab, cvnet')
    BY <1>2, <1>a, <1>b, <2>2, <2>3, <2>6 DEF OneLoad
  <2>8. CallsTrue(cv.tab, cv.list, cvrow', cvnet')
    BY <1>b, <2>2, <2>3, <2>4, <2>6, <2>7 DEF CallsTrue
  <2>9. ASSUME NEW r \in cv.list PROVE RowTrue(r, cv.tab, cvrow', cvnet')
    <3>1. RowTrue(r, cv.tab, cvrow, cvnet)
      BY <1>b, <2>6 DEF ListTrue
    <3>2. cvrow'[r.id].status = cv.tab
            \/ \E x \in cvnet' : x.kind = "status" /\ x.st = "done" /\ x.id = r.id
      BY <1>2, <2>3, <2>4, <3>1 DEF RowTrue
    <3>3. r.id = c.id => r.unread = FALSE
      BY <1>2, <1>b, <2>3, <2>6 DEF CallsTrue
    <3>4. r.unread = cvrow'[r.id].unread
            \/ \E x \in cvnet' : x.kind = "detail" /\ x.st = "sent" /\ x.id = r.id
      BY <2>3, <2>4, <3>1, <3>3 DEF RowTrue
    <3> QED BY <2>4, <3>1, <3>2, <3>4 DEF RowTrue
  <2>10. ListTrue(cv.tab, cv.list, cvrow', cvnet')
    BY <1>b, <2>4, <2>6, <2>9 DEF ListTrue
  <2> QED BY <2>7, <2>8, <2>10 DEF FollowsTab
<1>3. CASE StatusAnswered(c)
  <2>1. PICK l : l = {r \in {IF r.id = c.id THEN [r EXCEPT !.status = c.to] ELSE r :
                               r \in cv.list} : r.status = c.tab}
    OBVIOUS
  <2>2. /\ cv' = [cv EXCEPT !.list = l] /\ cvnet' = cvnet \ {c} /\ cvrow' = cvrow
        /\ c.kind = "status" /\ c.st = "done"
    BY <1>3, <2>1 DEF StatusAnswered
  <2>3. /\ ChatsShape(cv') /\ cv'.tab = cv.tab /\ cv'.list = l /\ cv'.raced = cv.raced
        /\ cv'.failed = cv.failed
    BY <1>a, <2>2 DEF ChatsShape
  <2>4. SUFFICES ASSUME FollowsTab(cv, cvrow, cvnet) PROVE FollowsTab(cv', cvrow, cvnet')
    BY <1>a, <2>2, <2>3 DEF ChatsInv
  <2>5. /\ c.tab = cv.tab /\ c.to # cv.tab
        /\ c.id \in DOMAIN cvrow => cvrow[c.id].status # cv.tab
    BY <1>b, <2>2, <2>4 DEF CallsTrue
  <2>6. \A r \in cv.list : r = [id |-> r.id, status |-> r.status, unread |-> r.unread]
                           /\ r.status = cv.tab
    BY <1>b, <2>4 DEF ListTrue, RowTrue
  <2>7. ASSUME NEW x \in l PROVE x \in cv.list /\ x.id # c.id
    <3>1. PICK r \in cv.list : x = IF r.id = c.id THEN [r EXCEPT !.status = c.to] ELSE r
      BY <2>1
    <3>2. r.id # c.id
      BY <2>1, <2>5, <2>6, <3>1
    <3> QED BY <3>1, <3>2
  <2>8. \A r \in cv.list : r.id # c.id => r \in l
    BY <2>1, <2>5, <2>6
  <2>9. OneLoad(cv'.tab, cvnet') /\ CallsTrue(cv'.tab, cv'.list, cvrow, cvnet')
    BY <1>b, <2>2, <2>3, <2>4, <2>7 DEF OneLoad, CallsTrue
  <2>10. ASSUME NEW x \in l PROVE RowTrue(x, cv.tab, cvrow, cvnet')
    <3>1. RowTrue(x, cv.tab, cvrow, cvnet) /\ x.id # c.id
      BY <1>b, <2>4, <2>7 DEF ListTrue
    <3> QED BY <2>2, <3>1 DEF RowTrue
  <2>11. ListTrue(cv'.tab, cv'.list, cvrow, cvnet')
    BY <1>b, <2>3, <2>4, <2>5, <2>8, <2>10 DEF ListTrue
  <2> QED BY <2>9, <2>11 DEF FollowsTab
<1>4. CASE DetailAnswered(c)
  <2>1. cv' = cv /\ cvrow' = cvrow /\ cvnet' = cvnet \ {c} /\ c.kind = "detail" /\ c.st = "done"
    BY <1>4 DEF DetailAnswered
  <2>2. SUFFICES ASSUME FollowsTab(cv, cvrow, cvnet) PROVE FollowsTab(cv, cvrow, cvnet')
    BY <1>a, <2>1 DEF ChatsInv
  <2>3. OneLoad(cv.tab, cvnet') /\ CallsTrue(cv.tab, cv.list, cvrow, cvnet')
    BY <1>b, <2>1, <2>2 DEF OneLoad, CallsTrue
  <2>4. ListTrue(cv.tab, cv.list, cvrow, cvnet')
    BY <1>b, <2>1, <2>2 DEF ListTrue, RowTrue
  <2> QED BY <2>3, <2>4 DEF FollowsTab
<1>5. CASE RowCallFails(c)
  <2>1. ChatsShape(cv') /\ cv'.failed
    BY <1>5, <1>a DEF RowCallFails, ChatsShape
  <2>2. cvnet' = cvnet \ {c} /\ cvrow' = cvrow
    BY <1>5 DEF RowCallFails
  <2> QED BY <1>a, <2>1, <2>2 DEF ChatsInv
<1> QED BY <1>1, <1>2, <1>3, <1>4, <1>5 DEF RowCallLands

\* Every step of the list.
LEMMA ChatsNext ==
  ASSUME ChatsInv, [CVNext]_cvvars PROVE ChatsInv'
<1>1. CASE UNCHANGED cvvars
  BY <1>1 DEF cvvars, ChatsInv
<1>2. CASE CVNext
  BY <1>2, ChatsLoads, ChatsRows, ChatsLoadCalls, ChatsRowCalls DEF CVNext
<1> QED BY <1>1, <1>2

-----------------------------------------------------------------------------
(* The operator's board *)

CardShape(x) == x = [stage |-> x.stage, due |-> x.due]
CardsShape(cs) == cs = [b \in Cards |-> cs[b]] /\ \A b \in Cards : CardShape(cs[b])
PipelineShape(row) ==
    /\ row = [b \in Cards |-> row[b]]
    /\ \A b \in Cards : row[b] = [stage |-> row[b].stage, due |-> row[b].due,
                                  notes |-> row[b].notes]

BoardShape(p) ==
    /\ p = [cards |-> p.cards, state |-> p.state, moving |-> p.moving, open |-> p.open,
            form |-> p.form, saving |-> p.saving, notes |-> p.notes, adding |-> p.adding,
            panel |-> p.panel, calls |-> p.calls, over |-> p.over, lost |-> p.lost]
    /\ p.panel \in Nat /\ p.open \in Cards \cup {0}
    /\ p.state = "ready" => CardsShape(p.cards)
    /\ p.open # 0 => p.state = "ready" /\ CardShape(p.form)

OfStage(c) == c.kind \in {"move", "save"}
OfNotes(c) == c.kind \in {"add", "notes"}

\* A call of the board; one about notes from the panel that is open is about the
\* business that is open.
BoardCall(c, p) ==
    /\ c = [kind |-> c.kind, b |-> c.b, v |-> c.v, prev |-> c.prev, panel |-> c.panel,
            n |-> c.n, st |-> c.st]
    /\ OfStage(c) \/ OfNotes(c)
    /\ c.st \in {"sent", "done"} /\ c.b \in Cards /\ c.panel \in Nat /\ c.panel <= p.panel
    /\ OfStage(c) => CardShape(c.v)
    /\ OfNotes(c) /\ p.open # 0 /\ c.panel = p.panel => c.b = p.open

\* A card that is moved shows where it was moved to, and remembers where it was.
StageCallTrue(c, cards, row) ==
    IF c.st = "done" THEN c.v = Card(row[c.b])
    ELSE /\ c.kind = "save" => cards[c.b] = Card(row[c.b])
         /\ c.kind = "move" => /\ cards[c.b] = [stage |-> c.v.stage, due |-> row[c.b].due]
                               /\ c.prev = row[c.b].stage

StagesTrue(cards, row, net) ==
    /\ \A c, d \in net : OfStage(c) /\ OfStage(d) /\ c.b = d.b => c = d
    /\ \A c \in net : OfStage(c) => StageCallTrue(c, cards, row)
    /\ \A b \in Cards : (\A c \in net : OfStage(c) => c.b # b) => cards[b] = Card(row[b])

\* The open panel has one call about notes at a time, and nobody else adds one.
NotesTrue(p, row, net) ==
    p.open # 0 =>
      /\ \A c \in net : c.kind = "add" /\ c.b = p.open => c.panel = p.panel
      /\ \A c \in net : c.kind = "add" /\ c.panel = p.panel => p.adding
      /\ \A c, d \in net : OfNotes(c) /\ OfNotes(d) /\ c.panel = p.panel /\ d.panel = p.panel
                             => c = d
      /\ \A c \in net : c.kind = "notes" /\ c.st = "done" /\ c.panel = p.panel
                          => c.v = row[p.open].notes
      /\ (\A c \in net : OfNotes(c) => c.panel # p.panel) => p.notes = row[p.open].notes

BoardInv ==
    /\ BoardShape(ad) /\ PipelineShape(adrow)
    /\ \A c \in adnet : BoardCall(c, ad)
    /\ ad.state # "ready" => adnet = {}
    /\ ad.state = "ready" /\ ~ad.over /\ ~ad.lost =>
         StagesTrue(ad.cards, adrow, adnet) /\ NotesTrue(ad, adrow, adnet)

\* A board that is opened.
LEMMA BoardInit == ADInit => BoardInv
<1> SUFFICES ASSUME ADInit PROVE BoardInv
  OBVIOUS
<1>1. adnet = {} /\ ad.state = "loading"
  BY DEF ADInit
<1>2. BoardShape(ad)
  BY DEF ADInit, BoardShape
<1>3. PipelineShape(adrow)
  <2>1. PICK s : adrow = [b \in Cards |-> [stage |-> s,
                            due |-> IF b = 1 THEN "date" ELSE "none", notes |-> 0]]
    BY DEF ADInit
  <2>2. ASSUME NEW b \in Cards
        PROVE adrow[b] = [stage |-> adrow[b].stage, due |-> adrow[b].due,
                          notes |-> adrow[b].notes]
    BY <2>1
  <2> QED BY <2>1, <2>2 DEF PipelineShape
<1> QED BY <1>1, <1>2, <1>3 DEF BoardInv

\* A card of the board changes, and with it an open panel.
LEMMA CardChanges ==
  ASSUME BoardShape(ad), ad.state = "ready", NEW b \in Cards, NEW card, CardShape(card),
         NEW a, a = WithCard(ad, b, card)
  PROVE  /\ BoardShape(a) /\ \A x \in Cards : a.cards[x] = IF x = b THEN card ELSE ad.cards[x]
         /\ a.state = "ready" /\ a.open = ad.open /\ a.panel = ad.panel /\ a.notes = ad.notes
         /\ a.adding = ad.adding /\ a.over = ad.over /\ a.lost = ad.lost
<1>1. PICK f : f = IF ad.open = b /\ ad.cards[b] # card THEN card ELSE ad.form
  OBVIOUS
<1>2. PICK cs : cs = [ad.cards EXCEPT ![b] = card]
  OBVIOUS
<1>3. a = [ad EXCEPT !.cards = cs, !.form = f]
  BY <1>1, <1>2 DEF WithCard, BoardShape
<1>4. ad.open # 0 => CardShape(f)
  BY <1>1 DEF BoardShape
<1>5. cs = [x \in Cards |-> cs[x]] /\ \A x \in Cards : cs[x] = IF x = b THEN card ELSE ad.cards[x]
  BY <1>2 DEF BoardShape, CardsShape
<1>6. CardsShape(cs)
  <2>1. \A x \in Cards : CardShape(ad.cards[x])
    BY DEF BoardShape, CardsShape
  <2>2. \A x \in Cards : CardShape(cs[x])
    BY <1>5, <2>1
  <2> QED BY <1>5, <2>2 DEF CardsShape
<1>7. /\ a.cards = cs /\ a.form = f
      /\ a.state = ad.state /\ a.open = ad.open /\ a.panel = ad.panel /\ a.notes = ad.notes
      /\ a.adding = ad.adding /\ a.over = ad.over /\ a.lost = ad.lost
      /\ a = [cards |-> a.cards, state |-> a.state, moving |-> a.moving, open |-> a.open,
              form |-> a.form, saving |-> a.saving, notes |-> a.notes, adding |-> a.adding,
              panel |-> a.panel, calls |-> a.calls, over |-> a.over, lost |-> a.lost]
  BY <1>3 DEF BoardShape
<1> QED BY <1>4, <1>5, <1>6, <1>7 DEF BoardShape

\* The calls stay calls of the board when its panel does not change.
LEMMA CallsKept ==
  ASSUME NEW c, NEW p, NEW q, BoardCall(c, p), q.panel = p.panel, q.open \in {p.open, 0}
  PROVE  BoardCall(c, q)
BY DEF BoardCall

\* The notes are not concerned.
LEMMA NotesKept ==
  ASSUME NEW p, NEW q, NEW row, NEW new, NEW net, NEW fresh, NotesTrue(p, row, net),
         q.open = p.open, q.panel = p.panel, q.notes = p.notes, q.adding = p.adding,
         p.open # 0 => new[p.open].notes = row[p.open].notes,
         {c \in fresh : OfNotes(c)} = {c \in net : OfNotes(c)}
  PROVE  NotesTrue(q, new, fresh)
<1>1. \A c : c \in fresh /\ OfNotes(c) <=> c \in net /\ OfNotes(c)
  OBVIOUS
<1>2. SUFFICES ASSUME p.open # 0
      PROVE  /\ \A c \in fresh : c.kind = "add" /\ c.b = p.open => c.panel = p.panel
             /\ \A c \in fresh : c.kind = "add" /\ c.panel = p.panel => p.adding
             /\ \A c, d \in fresh : OfNotes(c) /\ OfNotes(d) /\ c.panel = p.panel
                                      /\ d.panel = p.panel => c = d
             /\ \A c \in fresh : c.kind = "notes" /\ c.st = "done" /\ c.panel = p.panel
                                   => c.v = row[p.open].notes
             /\ (\A c \in fresh : OfNotes(c) => c.panel # p.panel)
                  => p.notes = row[p.open].notes
  BY DEF NotesTrue
<1> QED BY <1>1, <1>2 DEF NotesTrue, OfNotes

\* The stages are not concerned.
LEMMA StagesKept ==
  ASSUME NEW cards, NEW row, NEW new, NEW net, NEW fresh, StagesTrue(cards, row, net),
         \A b \in Cards : Card(new[b]) = Card(row[b]),
         \A b \in Cards : new[b].stage = row[b].stage /\ new[b].due = row[b].due,
         \A c \in net : OfStage(c) => c.b \in Cards,
         {c \in fresh : OfStage(c)} = {c \in net : OfStage(c)}
  PROVE  StagesTrue(cards, new, fresh)
<1>1. \A c : c \in fresh /\ OfStage(c) <=> c \in net /\ OfStage(c)
  OBVIOUS
<1>2. \A c, d \in fresh : OfStage(c) /\ OfStage(d) /\ c.b = d.b => c = d
  BY <1>1 DEF StagesTrue
<1>3. \A c \in fresh : OfStage(c) => StageCallTrue(c, cards, new)
  BY <1>1 DEF StagesTrue, StageCallTrue
<1>4. \A b \in Cards : (\A c \in fresh : OfStage(c) => c.b # b) => cards[b] = Card(new[b])
  BY <1>1 DEF StagesTrue
<1> QED BY <1>2, <1>3, <1>4 DEF StagesTrue

\* The board is loaded; its panel is closed or edited.
LEMMA BoardPages ==
  ASSUME BoardInv,
         LoadBoard \/ ClosePanel \/ \E f \in {"stage", "due"} : \E v : EditPanel(f, v)
  PROVE  BoardInv'
<1>a. BoardShape(ad) /\ PipelineShape(adrow) /\ \A c \in adnet : BoardCall(c, ad)
  BY DEF BoardInv
<1>b. adrow' = adrow /\ adnet' = adnet
  BY DEF LoadBoard, ClosePanel, EditPanel
<1>1. CASE LoadBoard
  <2>1. ad.state = "loading" /\ adnet = {} /\ ad.open = 0
    BY <1>1, <1>a DEF LoadBoard, BoardInv, BoardShape
  <2>2. CASE ad' = [ad EXCEPT !.state = "error"]
    <3>1. BoardShape(ad') /\ ad'.state = "error"
      BY <1>a, <2>1, <2>2 DEF BoardShape
    <3> QED BY <1>a, <1>b, <2>1, <3>1 DEF BoardInv
  <2>3. CASE ad' = [ad EXCEPT !.state = "ready", !.cards = [b \in Cards |-> Card(adrow[b])]]
    <3>1. PICK cs : cs = [b \in Cards |-> Card(adrow[b])]
      OBVIOUS
    <3>2. ad' = [ad EXCEPT !.state = "ready", !.cards = cs]
      BY <2>3, <3>1
    <3>3. CardsShape(cs) /\ \A b \in Cards : cs[b] = Card(adrow[b])
      BY <3>1 DEF CardsShape, CardShape, Card
    <3>4. BoardShape(ad') /\ ad'.state = "ready" /\ ad'.open = 0 /\ ad'.cards = cs
      BY <1>a, <2>1, <3>2, <3>3 DEF BoardShape
    <3>5. StagesTrue(ad'.cards, adrow', adnet') /\ NotesTrue(ad', adrow', adnet')
      BY <1>b, <2>1, <3>3, <3>4 DEF StagesTrue, NotesTrue
    <3> QED BY <1>a, <1>b, <2>1, <3>4, <3>5 DEF BoardInv
  <2> QED BY <1>1, <2>2, <2>3 DEF LoadBoard
<1>2. CASE ClosePanel
  <2>1. ad' = [ad EXCEPT !.open = 0, !.form = Nothing, !.saving = FALSE, !.adding = FALSE,
                         !.notes = 0]
    BY <1>2 DEF ClosePanel
  <2>2. /\ BoardShape(ad') /\ ad'.open = 0 /\ ad'.cards = ad.cards /\ ad'.state = ad.state
        /\ ad'.over = ad.over /\ ad'.lost = ad.lost /\ ad'.panel = ad.panel
    BY <1>a, <2>1 DEF BoardShape
  <2>3. \A c \in adnet' : BoardCall(c, ad')
    BY <1>a, <1>b, <2>2, CallsKept
  <2> QED BY <1>a, <1>b, <2>2, <2>3 DEF BoardInv, NotesTrue
<1>3. ASSUME NEW f \in {"stage", "due"}, NEW v, EditPanel(f, v) PROVE BoardInv'
  <2>1. PICK g : g = [ad.form EXCEPT ![f] = v]
    OBVIOUS
  <2>2. ad' = [ad EXCEPT !.form = g] /\ ad.open # 0
    BY <1>3, <2>1 DEF EditPanel, InPanel
  <2>3. CardShape(g)
    BY <1>a, <2>1, <2>2 DEF BoardShape, CardShape
  <2>4. /\ BoardShape(ad') /\ ad'.open = ad.open /\ ad'.cards = ad.cards /\ ad'.state = ad.state
        /\ ad'.over = ad.over /\ ad'.lost = ad.lost /\ ad'.panel = ad.panel
        /\ ad'.notes = ad.notes /\ ad'.adding = ad.adding
    BY <1>a, <2>2, <2>3 DEF BoardShape
  <2>5. \A c \in adnet' : BoardCall(c, ad')
    BY <1>a, <1>b, <2>4, CallsKept
  <2>6. NotesTrue(ad, adrow, adnet) => NotesTrue(ad', adrow', adnet')
    BY <1>b, <2>4, NotesKept
  <2> QED BY <1>a, <1>b, <2>4, <2>5, <2>6 DEF BoardInv
<1> QED BY <1>1, <1>2, <1>3

\* A card is moved, or saved from its panel.
LEMMA BoardStages ==
  ASSUME BoardInv, OnSaveStage \/ \E b \in Cards : \E s : MoveCard(b, s)
  PROVE  BoardInv'
<1>a. BoardShape(ad) /\ PipelineShape(adrow) /\ \A c \in adnet : BoardCall(c, ad)
  BY DEF BoardInv
<1>1. CASE OnSaveStage
  <2>1. PICK d : d = CrmCall("save", ad.open, ad.form, 0)
    OBVIOUS
  <2>2. PICK o \in BOOLEAN : o <=> ad.over \/ Overlap(ad.open)
    OBVIOUS
  <2>3. /\ ad' = [ad EXCEPT !.saving = TRUE, !.calls = @ + 1, !.over = o]
        /\ adnet' = adnet \cup {d} /\ adrow' = adrow /\ ad.open # 0
    BY <1>1, <2>1, <2>2 DEF OnSaveStage, Ring, InPanel
  <2>4. /\ BoardShape(ad') /\ ad'.open = ad.open /\ ad'.cards = ad.cards /\ ad'.state = ad.state
        /\ ad'.over = o /\ ad'.lost = ad.lost /\ ad'.panel = ad.panel
        /\ ad'.notes = ad.notes /\ ad'.adding = ad.adding /\ ad.state = "ready"
    BY <1>a, <2>3 DEF BoardShape
  <2>5. /\ BoardCall(d, ad) /\ d.kind = "save" /\ d.st = "sent" /\ d.b = ad.open
        /\ OfStage(d) /\ ~OfNotes(d)
    BY <1>a, <2>1, <2>3 DEF CrmCall, BoardCall, OfStage, OfNotes, BoardShape
  <2>6. ASSUME NEW c \in adnet' PROVE BoardCall(c, ad')
    <3>1. BoardCall(c, ad)
      BY <1>a, <2>3, <2>5
    <3> QED BY <2>4, <3>1, CallsKept
  <2>7. SUFFICES ASSUME ~o, ~ad.lost
        PROVE  StagesTrue(ad.cards, adrow, adnet') /\ NotesTrue(ad', adrow, adnet')
    BY <1>a, <2>3, <2>4, <2>6 DEF BoardInv
  <2>8. StagesTrue(ad.cards, adrow, adnet) /\ NotesTrue(ad, adrow, adnet)
    BY <2>2, <2>4, <2>7 DEF BoardInv
  <2>9. \A c \in adnet : OfStage(c) => c.b # ad.open
    BY <2>2, <2>7 DEF Overlap, OfStage
  <2>10. ad.cards[d.b] = Card(adrow[d.b]) /\ d.b \in Cards
    BY <1>a, <2>3, <2>5, <2>8, <2>9 DEF StagesTrue, BoardShape
  <2>11. StagesTrue(ad.cards, adrow, adnet')
    BY <2>3, <2>5, <2>8, <2>9, <2>10 DEF StagesTrue, StageCallTrue
  <2>12. {c \in adnet' : OfNotes(c)} = {c \in adnet : OfNotes(c)}
    BY <2>3, <2>5
  <2> QED BY <2>4, <2>8, <2>11, <2>12, NotesKept
<1>2. ASSUME NEW b \in Cards, NEW s, MoveCard(b, s) PROVE BoardInv'
  <2>a. ad.state = "ready" /\ ad.open = 0
    BY <1>2 DEF MoveCard, OnBoard
  <2>1. PICK w, d : /\ w = [stage |-> s, due |-> "none"]
                    /\ d = CrmCall("move", b, w, ad.cards[b].stage)
    OBVIOUS
  <2>2. PICK o \in BOOLEAN : o <=> ad.over \/ Overlap(b)
    OBVIOUS
  <2>b. PICK card, a : card = [ad.cards[b] EXCEPT !.stage = s] /\ a = WithCard(ad, b, card)
    OBVIOUS
  <2>c. CardShape(ad.cards[b])
    BY <1>a, <2>a DEF BoardShape, CardsShape
  <2>d. CardShape(card) /\ card = [stage |-> s, due |-> ad.cards[b].due]
    BY <2>b, <2>c DEF CardShape
  <2>e. /\ BoardShape(a) /\ \A x \in Cards : a.cards[x] = IF x = b THEN card ELSE ad.cards[x]
        /\ a.state = "ready" /\ a.open = ad.open /\ a.panel = ad.panel /\ a.over = ad.over
        /\ a.lost = ad.lost
    BY <1>a, <2>a, <2>b, <2>d, CardChanges
  <2>f. a.over = ad.over
    BY <2>e
  <2>3. /\ ad' = [a EXCEPT !.moving = b, !.calls = @ + 1, !.over = o]
        /\ adnet' = adnet \cup {d} /\ adrow' = adrow
    BY <1>2, <2>1, <2>2, <2>b, <2>f DEF MoveCard, Ring
  <2>4. /\ BoardShape(ad') /\ ad'.open = 0 /\ ad'.cards = a.cards /\ ad'.state = "ready"
        /\ ad'.over = o /\ ad'.lost = ad.lost /\ ad'.panel = ad.panel
    BY <2>a, <2>e, <2>3 DEF BoardShape
  <2>5. /\ BoardCall(d, ad) /\ d.kind = "move" /\ d.st = "sent" /\ d.b = b /\ d.v = w
        /\ d.prev = ad.cards[b].stage /\ OfStage(d) /\ w.stage = s
    BY <1>a, <2>1 DEF CrmCall, BoardCall, OfStage, OfNotes, BoardShape, CardShape
  <2>6. ASSUME NEW c \in adnet' PROVE BoardCall(c, ad')
    <3>1. BoardCall(c, ad)
      BY <1>a, <2>3, <2>5
    <3> QED BY <2>a, <2>4, <3>1, CallsKept
  <2>7. SUFFICES ASSUME ~o, ~ad.lost PROVE StagesTrue(a.cards, adrow, adnet')
    BY <1>a, <2>3, <2>4, <2>6 DEF BoardInv, NotesTrue
  <2>8. StagesTrue(ad.cards, adrow, adnet)
    BY <2>2, <2>a, <2>7 DEF BoardInv
  <2>9. \A c \in adnet : OfStage(c) => c.b # b
    BY <2>2, <2>7 DEF Overlap, OfStage
  <2>10. ad.cards[b] = Card(adrow[b]) /\ ad.cards[b].stage = adrow[b].stage
         /\ ad.cards[b].due = adrow[b].due
    BY <2>8, <2>9 DEF StagesTrue, Card
  <2>11. StageCallTrue(d, a.cards, adrow)
    BY <2>5, <2>d, <2>e, <2>10 DEF StageCallTrue
  <2>12. \A c \in adnet : OfStage(c) => StageCallTrue(c, a.cards, adrow)
    BY <1>a, <2>8, <2>9, <2>e DEF StagesTrue, StageCallTrue, BoardCall
  <2>13. \A x \in Cards : x # b /\ (\A c \in adnet : OfStage(c) => c.b # x)
           => a.cards[x] = Card(adrow[x])
    BY <2>8, <2>e DEF StagesTrue
  <2> QED BY <2>3, <2>5, <2>8, <2>9, <2>11, <2>12, <2>13 DEF StagesTrue
<1> QED BY <1>1, <1>2

\* A panel is opened, and a note is added in it.
LEMMA BoardPanels ==
  ASSUME BoardInv, OnAddNote \/ \E b \in Cards : OpenPanel(b)
  PROVE  BoardInv'
<1>a. BoardShape(ad) /\ PipelineShape(adrow) /\ \A c \in adnet : BoardCall(c, ad)
  BY DEF BoardInv
<1>1. CASE OnAddNote
  <2>1. PICK d : d = CrmCall("add", ad.open, 0, 0)
    OBVIOUS
  <2>2. PICK o \in BOOLEAN : o <=> ad.over \/ \E c \in adnet : c.kind = "notes"
    OBVIOUS
  <2>3. /\ ad' = [ad EXCEPT !.adding = TRUE, !.calls = @ + 1, !.over = o]
        /\ adnet' = adnet \cup {d} /\ adrow' = adrow /\ ad.open # 0 /\ ~ad.adding
    BY <1>1, <2>1, <2>2 DEF OnAddNote, Ring, InPanel
  <2>4. /\ BoardShape(ad') /\ ad'.open = ad.open /\ ad'.cards = ad.cards /\ ad'.state = ad.state
        /\ ad'.over = o /\ ad'.lost = ad.lost /\ ad'.panel = ad.panel
        /\ ad'.notes = ad.notes /\ ad'.adding /\ ad.state = "ready"
    BY <1>a, <2>3 DEF BoardShape
  <2>5. /\ BoardCall(d, ad) /\ d.kind = "add" /\ d.st = "sent" /\ d.b = ad.open
        /\ ~OfStage(d) /\ OfNotes(d) /\ d.panel = ad.panel
    BY <1>a, <2>1, <2>3 DEF CrmCall, BoardCall, OfStage, OfNotes, BoardShape
  <2>6. ASSUME NEW c \in adnet' PROVE BoardCall(c, ad')
    <3>1. BoardCall(c, ad)
      BY <1>a, <2>3, <2>5
    <3> QED BY <2>4, <3>1, CallsKept
  <2>7. SUFFICES ASSUME ~o, ~ad.lost
        PROVE  StagesTrue(ad.cards, adrow, adnet') /\ NotesTrue(ad', adrow, adnet')
    BY <1>a, <2>3, <2>4, <2>6 DEF BoardInv
  <2>8. StagesTrue(ad.cards, adrow, adnet) /\ NotesTrue(ad, adrow, adnet)
    BY <2>2, <2>4, <2>7 DEF BoardInv
  <2>9. {c \in adnet' : OfStage(c)} = {c \in adnet : OfStage(c)}
    BY <2>3, <2>5
  <2>10. StagesTrue(ad.cards, adrow, adnet')
    BY <1>a, <2>8, <2>9, StagesKept DEF BoardCall
  <2>11. \A c \in adnet : OfNotes(c) => c.panel # ad.panel
    BY <2>2, <2>3, <2>7, <2>8 DEF NotesTrue, OfNotes
  <2>12. NotesTrue(ad', adrow, adnet')
    BY <2>3, <2>4, <2>5, <2>8, <2>11 DEF NotesTrue, OfNotes
  <2> QED BY <2>10, <2>12
<1>2. ASSUME NEW b \in Cards, OpenPanel(b) PROVE BoardInv'
  <2>a. ad.state = "ready" /\ ad.open = 0 /\ ad.panel \in Nat
    BY <1>2, <1>a DEF OpenPanel, OnBoard, BoardShape
  <2>b. PICK n \in Nat : n = ad.panel + 1
    BY <2>a
  <2>c. PICK e, d : e = CrmCall("notes", b, 0, 0) /\ d = [e EXCEPT !.panel = n]
    OBVIOUS
  <2>d. e.panel = ad.panel
    BY <2>c DEF CrmCall
  <2>2. PICK o \in BOOLEAN : o <=> ad.over \/ \E c \in adnet : c.kind = "add" /\ c.b = b
    OBVIOUS
  <2>e. PICK g : g = ad.cards[b] /\ CardShape(g)
    BY <1>a, <2>a DEF BoardShape, CardsShape
  <2>3. /\ ad' = [ad EXCEPT !.open = b, !.form = g, !.saving = FALSE, !.notes = 0,
                            !.adding = FALSE, !.panel = n, !.over = o]
        /\ adnet' = adnet \cup {d} /\ adrow' = adrow
    BY <1>2, <2>2, <2>b, <2>c, <2>d, <2>e DEF OpenPanel, Ring
  <2>4. /\ BoardShape(ad') /\ ad'.open = b /\ ad'.cards = ad.cards /\ ad'.state = ad.state
        /\ ad'.over = o /\ ad'.lost = ad.lost /\ ad'.panel = n
    BY <1>a, <2>3, <2>a, <2>b, <2>e DEF BoardShape
  <2>5. /\ d = [kind |-> "notes", b |-> b, v |-> 0, prev |-> 0, panel |-> n, n |-> ad.calls,
                st |-> "sent"]
    BY <2>c DEF CrmCall
  <2>f. b # 0
    BY DEF Cards
  <2>6. /\ BoardCall(d, ad') /\ d.kind = "notes" /\ d.st = "sent" /\ d.b = b
        /\ ~OfStage(d) /\ OfNotes(d) /\ d.panel = n
    BY <2>4, <2>5 DEF BoardCall, OfStage, OfNotes
  <2>7. ASSUME NEW c \in adnet PROVE BoardCall(c, ad') /\ c.panel # n
    BY <1>a, <2>4, <2>a, <2>b DEF BoardCall
  <2>8. SUFFICES ASSUME ~o, ~ad.lost
        PROVE  StagesTrue(ad.cards, adrow, adnet') /\ NotesTrue(ad', adrow, adnet')
    BY <1>a, <2>3, <2>4, <2>6, <2>7, <2>a DEF BoardInv
  <2>9. StagesTrue(ad.cards, adrow, adnet)
    BY <2>2, <2>a, <2>8 DEF BoardInv
  <2>10. {c \in adnet' : OfStage(c)} = {c \in adnet : OfStage(c)}
    BY <2>3, <2>6
  <2>11. StagesTrue(ad.cards, adrow, adnet')
    BY <1>a, <2>9, <2>10, StagesKept DEF BoardCall
  <2>12. NotesTrue(ad', adrow, adnet')
    BY <2>2, <2>3, <2>4, <2>6, <2>7, <2>8 DEF NotesTrue
  <2> QED BY <2>11, <2>12
<1> QED BY <1>1, <1>2

\* The stage and the reminder of a business change on the server.
LEMMA BoardLands ==
  ASSUME BoardInv, NEW c \in adnet, StageLands(c) \/ NoteLands(c)
  PROVE  BoardInv'
<1>a. /\ BoardShape(ad) /\ PipelineShape(adrow) /\ (\A x \in adnet : BoardCall(x, ad))
      /\ BoardCall(c, ad) /\ c.b \in Cards /\ ad.state = "ready"
  BY DEF BoardInv, BoardCall
<1>b. PICK d : d = [c EXCEPT !.st = "done"]
  OBVIOUS
<1>c. /\ BoardCall(d, ad) /\ d.st = "done" /\ d.kind = c.kind /\ d.b = c.b /\ d.v = c.v
      /\ d.panel = c.panel
  BY <1>a, <1>b DEF BoardCall, OfStage, OfNotes
<1>d. ad' = ad /\ adnet' = (adnet \ {c}) \cup {d} /\ c.st = "sent"
  BY <1>b DEF StageLands, NoteLands
<1>e. \A x \in adnet' : BoardCall(x, ad')
  BY <1>a, <1>c, <1>d
<1>1. CASE StageLands(c)
  <2>1. OfStage(c) /\ OfStage(d) /\ ~OfNotes(c) /\ ~OfNotes(d) /\ CardShape(c.v)
    BY <1>1, <1>a, <1>c DEF StageLands, OfStage, OfNotes, BoardCall
  <2>2. PICK x : x = [adrow[c.b] EXCEPT !.stage = c.v.stage, !.due = c.v.due]
    OBVIOUS
  <2>3. adrow' = [adrow EXCEPT ![c.b] = x]
    BY <1>1, <1>a, <2>2 DEF StageLands, PipelineShape
  <2>4. /\ x = [stage |-> x.stage, due |-> x.due, notes |-> x.notes]
        /\ x.stage = c.v.stage /\ x.due = c.v.due /\ x.notes = adrow[c.b].notes
    <3>1. PICK r, s, t : /\ r = adrow[c.b] /\ s = c.v.stage /\ t = c.v.due
                         /\ r = [stage |-> r.stage, due |-> r.due, notes |-> r.notes]
      BY <1>a DEF PipelineShape
    <3>2. x = [r EXCEPT !.stage = s, !.due = t]
      BY <2>2, <3>1
    <3>3. x = [stage |-> s, due |-> t, notes |-> r.notes]
      BY <3>1, <3>2
    <3> QED BY <3>1, <3>3
  <2>5. /\ adrow' = [b \in Cards |-> adrow'[b]]
        /\ \A b \in Cards : adrow'[b] = IF b = c.b THEN x ELSE adrow[b]
    BY <1>a, <2>3 DEF PipelineShape
  <2>6. PipelineShape(adrow')
    BY <1>a, <2>4, <2>5 DEF PipelineShape
  <2>7. SUFFICES ASSUME ~ad.over, ~ad.lost
        PROVE  StagesTrue(ad.cards, adrow', adnet') /\ NotesTrue(ad, adrow', adnet')
    BY <1>a, <1>d, <1>e, <2>6 DEF BoardInv
  <2>8. StagesTrue(ad.cards, adrow, adnet) /\ NotesTrue(ad, adrow, adnet)
    BY <1>a, <2>7 DEF BoardInv
  <2>9. d.v = Card(adrow'[d.b])
    BY <1>a, <1>c, <2>1, <2>4, <2>5 DEF Card, CardShape
  <2>10. \A y \in adnet : OfStage(y) /\ y # c => y.b # c.b /\ y.b \in Cards
    BY <1>a, <2>1, <2>8 DEF StagesTrue, BoardCall
  <2>11. ASSUME NEW y \in adnet', OfStage(y) PROVE StageCallTrue(y, ad.cards, adrow')
    <3>1. CASE y = d
      BY <1>c, <2>9, <3>1 DEF StageCallTrue
    <3>2. CASE y # d
      <4>1. y \in adnet /\ y # c /\ y.b \in Cards /\ adrow'[y.b] = adrow[y.b]
        BY <1>d, <2>5, <2>10, <2>11, <3>2
      <4> QED BY <2>8, <2>11, <4>1 DEF StagesTrue, StageCallTrue
    <3> QED BY <3>1, <3>2
  <2>12. \A y, z \in adnet' : OfStage(y) /\ OfStage(z) /\ y.b = z.b => y = z
    BY <1>c, <1>d, <2>1, <2>8, <2>10 DEF StagesTrue
  <2>13. ASSUME NEW b \in Cards, \A y \in adnet' : OfStage(y) => y.b # b
         PROVE  ad.cards[b] = Card(adrow'[b])
    <3>1. b # c.b /\ adrow'[b] = adrow[b]
      BY <1>c, <1>d, <2>1, <2>5, <2>13
    <3>2. \A y \in adnet : OfStage(y) => y.b # b
      BY <1>d, <2>13, <3>1
    <3> QED BY <2>8, <3>1, <3>2 DEF StagesTrue
  <2>14. StagesTrue(ad.cards, adrow', adnet')
    BY <2>11, <2>12, <2>13 DEF StagesTrue
  <2>15. {y \in adnet' : OfNotes(y)} = {y \in adnet : OfNotes(y)}
    BY <1>d, <2>1
  <2>16. ad.open # 0 => adrow'[ad.open].notes = adrow[ad.open].notes
    BY <1>a, <2>4, <2>5 DEF BoardShape
  <2>17. NotesTrue(ad, adrow', adnet')
    BY <2>8, <2>15, <2>16, NotesKept
  <2> QED BY <2>14, <2>17
<1>2. CASE NoteLands(c)
  <2>1. /\ ~OfStage(c) /\ ~OfStage(d) /\ OfNotes(c) /\ OfNotes(d) /\ c.kind = "add"
    BY <1>2, <1>c DEF NoteLands, OfStage, OfNotes
  <2>2. PICK x : x = [adrow[c.b] EXCEPT !.notes = @ + 1]
    OBVIOUS
  <2>3. adrow' = [adrow EXCEPT ![c.b] = x]
    BY <1>2, <1>a, <2>2 DEF NoteLands, PipelineShape
  <2>4. /\ x = [stage |-> x.stage, due |-> x.due, notes |-> x.notes]
        /\ x.stage = adrow[c.b].stage /\ x.due = adrow[c.b].due
    BY <1>a, <2>2 DEF PipelineShape
  <2>5. /\ adrow' = [b \in Cards |-> adrow'[b]]
        /\ \A b \in Cards : adrow'[b] = IF b = c.b THEN x ELSE adrow[b]
    BY <1>a, <2>3 DEF PipelineShape
  <2>6. PipelineShape(adrow')
    BY <1>a, <2>4, <2>5 DEF PipelineShape
  <2>7. SUFFICES ASSUME ~ad.over, ~ad.lost
        PROVE  StagesTrue(ad.cards, adrow', adnet') /\ NotesTrue(ad, adrow', adnet')
    BY <1>a, <1>d, <1>e, <2>6 DEF BoardInv
  <2>8. StagesTrue(ad.cards, adrow, adnet) /\ NotesTrue(ad, adrow, adnet)
    BY <1>a, <2>7 DEF BoardInv
  <2>9. \A b \in Cards : adrow'[b].stage = adrow[b].stage /\ adrow'[b].due = adrow[b].due
    BY <2>4, <2>5
  <2>10. \A b \in Cards : Card(adrow'[b]) = Card(adrow[b])
    BY <2>9 DEF Card
  <2>11. {y \in adnet' : OfStage(y)} = {y \in adnet : OfStage(y)}
    BY <1>d, <2>1
  <2>12. StagesTrue(ad.cards, adrow', adnet')
    BY <1>a, <2>8, <2>9, <2>10, <2>11, StagesKept DEF BoardCall
  <2>13. CASE ad.open = 0
    BY <2>12, <2>13 DEF NotesTrue
  <2>14. CASE ad.open # 0 /\ c.b # ad.open
    <3>1. adrow'[ad.open] = adrow[ad.open] /\ c.panel # ad.panel
      BY <1>a, <2>1, <2>5, <2>14 DEF BoardShape, BoardCall
    <3>2. \A y \in adnet' : y # d => y \in adnet
      BY <1>d
    <3>3. \A y \in adnet : y # c => y \in adnet'
      BY <1>d
    <3>4. /\ \A y \in adnet' : y.kind = "add" /\ y.b = ad.open => y.panel = ad.panel
          /\ \A y \in adnet' : y.kind = "add" /\ y.panel = ad.panel => ad.adding
      BY <1>c, <2>8, <2>14, <3>1, <3>2 DEF NotesTrue
    <3>5. \A y, z \in adnet' : OfNotes(y) /\ OfNotes(z) /\ y.panel = ad.panel
                                 /\ z.panel = ad.panel => y = z
      BY <1>c, <2>8, <2>14, <3>1, <3>2 DEF NotesTrue
    <3>6. \A y \in adnet' : y.kind = "notes" /\ y.st = "done" /\ y.panel = ad.panel
                              => y.v = adrow'[ad.open].notes
      BY <1>c, <2>8, <2>14, <3>1, <3>2 DEF NotesTrue
    <3>7. (\A y \in adnet' : OfNotes(y) => y.panel # ad.panel)
            => ad.notes = adrow'[ad.open].notes
      BY <1>c, <2>8, <2>14, <3>1, <3>3 DEF NotesTrue
    <3> QED BY <2>12, <3>4, <3>5, <3>6, <3>7 DEF NotesTrue
  <2>15. CASE ad.open # 0 /\ c.b = ad.open
    <3>1. c.panel = ad.panel /\ ad.adding
      BY <2>1, <2>8, <2>15 DEF NotesTrue
    <3>2. \A y \in adnet' : OfNotes(y) /\ y.panel = ad.panel => y = d
      BY <1>d, <2>1, <2>8, <2>15, <3>1 DEF NotesTrue
    <3>3. \A y \in adnet' : y.kind = "add" /\ y.b = ad.open => y.panel = ad.panel
      BY <1>c, <1>d, <2>8, <2>15, <3>1 DEF NotesTrue
    <3>4. d \in adnet' /\ OfNotes(d) /\ d.panel = ad.panel /\ d.kind = "add"
      BY <1>c, <1>d, <2>1, <3>1
    <3> QED BY <2>12, <3>1, <3>2, <3>3, <3>4 DEF NotesTrue, OfNotes
  <2> QED BY <2>13, <2>14, <2>15
<1> QED BY <1>1, <1>2

\* A card of the board changes to x, as the one call about it is over.
LEMMA StageCallOver ==
  ASSUME NEW cards, NEW row, NEW net, NEW c \in net, StagesTrue(cards, row, net), OfStage(c),
         NEW new, NEW b \in Cards, b = c.b, new[b] = Card(row[b]),
         \A x \in Cards : x # b => new[x] = cards[x],
         \A x \in net : OfStage(x) => x.b \in Cards
  PROVE  StagesTrue(new, row, net \ {c})
<1>1. \A x \in net \ {c} : OfStage(x) => x.b # b /\ x.b \in Cards
  BY DEF StagesTrue
<1>2. \A x \in net \ {c} : OfStage(x) => StageCallTrue(x, new, row)
  BY <1>1 DEF StagesTrue, StageCallTrue
<1>3. ASSUME NEW x \in Cards, \A y \in net \ {c} : OfStage(y) => y.b # x
      PROVE  new[x] = Card(row[x])
  BY <1>3 DEF StagesTrue
<1> QED BY <1>2, <1>3 DEF StagesTrue

\* A move or a save is answered, or fails.
LEMMA BoardAnswers ==
  ASSUME BoardInv, NEW c \in adnet,
         MoveCardAnswered(c) \/ MoveCardFails(c) \/ StageSaved(c) \/ StageSaveFails(c)
  PROVE  BoardInv'
<1>a. /\ BoardShape(ad) /\ PipelineShape(adrow) /\ (\A x \in adnet : BoardCall(x, ad))
      /\ BoardCall(c, ad) /\ c.b \in Cards /\ ad.state = "ready"
  BY DEF BoardInv, BoardCall
<1>b. /\ adnet' = adnet \ {c} /\ adrow' = adrow /\ c.kind \in {"move", "save"} /\ OfStage(c)
      /\ ~OfNotes(c)
  BY DEF MoveCardAnswered, MoveCardFails, StageSaved, StageSaveFails, HangUp, OfStage, OfNotes
<1>c. /\ {x \in adnet' : OfNotes(x)} = {x \in adnet : OfNotes(x)}
      /\ CardShape(c.v) /\ \A x \in adnet : OfStage(x) => x.b \in Cards
  BY <1>a, <1>b DEF BoardCall
<1>d. PICK l \in BOOLEAN : l <=> ad.lost \/ c.st = "done"
  OBVIOUS
<1>e. PICK s \in BOOLEAN : s <=> ad.saving /\ ~Mine(c)
  OBVIOUS
<1>f. CardShape(ad.cards[c.b])
  BY <1>a DEF BoardShape, CardsShape
<1>1. ASSUME NEW a, BoardShape(a), a.state = "ready", a.open = ad.open, a.panel = ad.panel,
             a.notes = ad.notes, a.adding = ad.adding, a.over = ad.over,
             \A x \in Cards : x # c.b => a.cards[x] = ad.cards[x],
             ~a.lost => ~ad.lost,
             StagesTrue(ad.cards, adrow, adnet) /\ ~a.lost => a.cards[c.b] = Card(adrow[c.b]),
             ad' = a
      PROVE  BoardInv'
  <2>1. \A x \in adnet' : BoardCall(x, ad')
    BY <1>1, <1>a, <1>b, CallsKept
  <2>2. SUFFICES ASSUME ~a.over, ~a.lost
        PROVE  StagesTrue(a.cards, adrow, adnet \ {c}) /\ NotesTrue(a, adrow, adnet')
    BY <1>1, <1>a, <1>b, <2>1 DEF BoardInv
  <2>3. StagesTrue(ad.cards, adrow, adnet) /\ NotesTrue(ad, adrow, adnet)
    BY <1>1, <1>a, <2>2 DEF BoardInv
  <2>4. StagesTrue(a.cards, adrow, adnet \ {c})
    BY <1>1, <1>a, <1>b, <1>c, <2>2, <2>3, StageCallOver
  <2>5. NotesTrue(a, adrow, adnet')
    BY <1>1, <1>c, <2>3, NotesKept
  <2> QED BY <2>4, <2>5
<1>2. CASE MoveCardAnswered(c)
  <2>1. PICK w : w = WithCard(ad, c.b, c.v)
    OBVIOUS
  <2>2. /\ BoardShape(w) /\ (\A x \in Cards : w.cards[x] = IF x = c.b THEN c.v ELSE ad.cards[x])
        /\ w.state = "ready" /\ w.open = ad.open /\ w.panel = ad.panel /\ w.notes = ad.notes
        /\ w.adding = ad.adding /\ w.over = ad.over /\ w.lost = ad.lost
    BY <1>a, <1>c, <2>1, CardChanges
  <2>3. PICK a : a = [w EXCEPT !.moving = 0] /\ ad' = a /\ c.st = "done"
    BY <1>2, <2>1 DEF MoveCardAnswered
  <2>4. /\ BoardShape(a) /\ a.state = "ready" /\ a.open = ad.open /\ a.panel = ad.panel
        /\ a.notes = ad.notes /\ a.adding = ad.adding /\ a.over = ad.over /\ a.lost = ad.lost
        /\ a.cards = w.cards
    BY <2>2, <2>3 DEF BoardShape
  <2>5. StagesTrue(ad.cards, adrow, adnet) => a.cards[c.b] = Card(adrow[c.b])
    BY <1>a, <1>b, <2>2, <2>3, <2>4 DEF StagesTrue, StageCallTrue
  <2> QED BY <1>1, <2>2, <2>3, <2>4, <2>5
<1>3. CASE StageSaved(c)
  <2>1. PICK w : w = WithCard(ad, c.b, c.v)
    OBVIOUS
  <2>2. /\ BoardShape(w) /\ (\A x \in Cards : w.cards[x] = IF x = c.b THEN c.v ELSE ad.cards[x])
        /\ w.state = "ready" /\ w.open = ad.open /\ w.panel = ad.panel /\ w.notes = ad.notes
        /\ w.adding = ad.adding /\ w.over = ad.over /\ w.lost = ad.lost
    BY <1>a, <1>c, <2>1, CardChanges
  <2>a. PICK t \in BOOLEAN : t <=> w.saving /\ ~Mine(c)
    OBVIOUS
  <2>3. PICK a : a = [w EXCEPT !.saving = t] /\ ad' = a /\ c.st = "done"
    BY <1>3, <2>1, <2>2, <2>a DEF StageSaved, BoardShape
  <2>4. /\ BoardShape(a) /\ a.state = "ready" /\ a.open = ad.open /\ a.panel = ad.panel
        /\ a.notes = ad.notes /\ a.adding = ad.adding /\ a.over = ad.over /\ a.lost = ad.lost
        /\ a.cards = w.cards
    BY <2>2, <2>3 DEF BoardShape
  <2>5. StagesTrue(ad.cards, adrow, adnet) => a.cards[c.b] = Card(adrow[c.b])
    BY <1>a, <1>b, <2>2, <2>3, <2>4 DEF StagesTrue, StageCallTrue
  <2> QED BY <1>1, <2>2, <2>3, <2>4, <2>5
<1>4. CASE MoveCardFails(c)
  <2>0. PICK card : card = [ad.cards[c.b] EXCEPT !.stage = c.prev]
    OBVIOUS
  <2>b. CardShape(card) /\ card = [stage |-> c.prev, due |-> ad.cards[c.b].due]
    BY <1>f, <2>0 DEF CardShape
  <2>1. PICK w : w = WithCard(ad, c.b, card)
    OBVIOUS
  <2>2. /\ BoardShape(w) /\ (\A x \in Cards : w.cards[x] = IF x = c.b THEN card ELSE ad.cards[x])
        /\ w.state = "ready" /\ w.open = ad.open /\ w.panel = ad.panel /\ w.notes = ad.notes
        /\ w.adding = ad.adding /\ w.over = ad.over /\ w.lost = ad.lost
    BY <1>a, <2>b, <2>1, CardChanges
  <2>3. PICK a : a = [w EXCEPT !.moving = 0, !.lost = l] /\ ad' = a /\ c.kind = "move"
    BY <1>4, <1>d, <2>0, <2>1, <2>2 DEF MoveCardFails, BoardShape
  <2>4. /\ BoardShape(a) /\ a.state = "ready" /\ a.open = ad.open /\ a.panel = ad.panel
        /\ a.notes = ad.notes /\ a.adding = ad.adding /\ a.over = ad.over /\ a.lost = l
        /\ a.cards = w.cards
    BY <2>2, <2>3 DEF BoardShape
  <2>5. ASSUME StagesTrue(ad.cards, adrow, adnet), ~l PROVE a.cards[c.b] = Card(adrow[c.b])
    <3>1. StageCallTrue(c, ad.cards, adrow) /\ c.st # "done"
      BY <1>b, <1>d, <2>5 DEF StagesTrue
    <3>2. /\ ad.cards[c.b] = [stage |-> c.v.stage, due |-> adrow[c.b].due]
          /\ c.prev = adrow[c.b].stage
      BY <2>3, <3>1 DEF StageCallTrue
    <3>3. card = [stage |-> adrow[c.b].stage, due |-> adrow[c.b].due]
      BY <2>b, <3>2
    <3> QED BY <1>a, <2>2, <2>4, <3>3 DEF Card
  <2>6. StagesTrue(ad.cards, adrow, adnet) /\ ~a.lost => a.cards[c.b] = Card(adrow[c.b])
    BY <2>4, <2>5
  <2>7. (~a.lost => ~ad.lost) /\ \A x \in Cards : x # c.b => a.cards[x] = ad.cards[x]
    BY <1>d, <2>2, <2>4
  <2> QED BY <1>1, <2>3, <2>4, <2>6, <2>7
<1>5. CASE StageSaveFails(c)
  <2>3. PICK a : a = [ad EXCEPT !.saving = s, !.lost = l] /\ ad' = a /\ c.kind = "save"
    BY <1>5, <1>a, <1>d, <1>e DEF StageSaveFails, BoardShape
  <2>4. /\ BoardShape(a) /\ a.state = "ready" /\ a.open = ad.open /\ a.panel = ad.panel
        /\ a.notes = ad.notes /\ a.adding = ad.adding /\ a.over = ad.over /\ a.lost = l
        /\ a.cards = ad.cards
    BY <1>a, <2>3 DEF BoardShape
  <2>5. ASSUME StagesTrue(ad.cards, adrow, adnet), ~l PROVE a.cards[c.b] = Card(adrow[c.b])
    BY <1>b, <1>d, <2>3, <2>4, <2>5 DEF StagesTrue, StageCallTrue
  <2> QED BY <1>1, <1>d, <2>3, <2>4, <2>5
<1> QED BY <1>2, <1>3, <1>4, <1>5

\* A note is added and the log fetched after it; the log is read and shown; a call fails.
LEMMA BoardNotes ==
  ASSUME BoardInv, NEW c \in adnet,
         NoteAdded(c) \/ NotesRead(c) \/ NotesAnswered(c) \/ NoteCallFails(c)
  PROVE  BoardInv'
<1>a. /\ BoardShape(ad) /\ PipelineShape(adrow) /\ (\A x \in adnet : BoardCall(x, ad))
      /\ BoardCall(c, ad) /\ c.b \in Cards /\ ad.state = "ready" /\ adrow' = adrow
  BY DEF BoardInv, BoardCall, NoteAdded, NotesRead, NotesAnswered, NoteCallFails, HangUp
<1>b. OfNotes(c) /\ ~OfStage(c)
  BY DEF NoteAdded, NotesRead, NotesAnswered, NoteCallFails, OfNotes, OfStage
<1>c. ASSUME NEW fresh, {x \in fresh : OfStage(x)} = {x \in adnet : OfStage(x)},
             StagesTrue(ad.cards, adrow, adnet)
      PROVE  StagesTrue(ad.cards, adrow, fresh)
  BY <1>a, <1>c, StagesKept DEF BoardCall
<1>1. CASE NoteAdded(c)
  <2>1. PICK g \in BOOLEAN : g <=> ad.adding /\ ~Mine(c)
    OBVIOUS
  <2>2. PICK d : d = [c EXCEPT !.kind = "notes", !.st = "sent"]
    OBVIOUS
  <2>3. /\ d = [kind |-> "notes", b |-> c.b, v |-> c.v, prev |-> c.prev, panel |-> c.panel,
                n |-> c.n, st |-> "sent"]
        /\ c.kind = "add" /\ c.st = "done"
    BY <1>1, <1>a, <2>2 DEF BoardCall, NoteAdded
  <2>4. BoardCall(d, ad) /\ OfNotes(d) /\ ~OfStage(d) /\ d.kind = "notes" /\ d.st = "sent"
        /\ d.panel = c.panel
    BY <1>a, <1>b, <2>3 DEF BoardCall, OfNotes, OfStage
  <2>5. ad' = [ad EXCEPT !.adding = g] /\ adnet' = (adnet \ {c}) \cup {d}
    BY <1>1, <1>a, <2>1, <2>2 DEF NoteAdded, BoardShape
  <2>6. /\ BoardShape(ad') /\ ad'.open = ad.open /\ ad'.cards = ad.cards /\ ad'.state = ad.state
        /\ ad'.over = ad.over /\ ad'.lost = ad.lost /\ ad'.panel = ad.panel
        /\ ad'.notes = ad.notes /\ ad'.adding = g
    BY <1>a, <2>5 DEF BoardShape
  <2>7. ASSUME NEW x \in adnet' PROVE BoardCall(x, ad')
    BY <1>a, <2>4, <2>5, <2>6, CallsKept
  <2>8. SUFFICES ASSUME ~ad.over, ~ad.lost
        PROVE  StagesTrue(ad.cards, adrow, adnet') /\ NotesTrue(ad', adrow, adnet')
    BY <1>a, <2>6, <2>7 DEF BoardInv
  <2>9. StagesTrue(ad.cards, adrow, adnet) /\ NotesTrue(ad, adrow, adnet)
    BY <1>a, <2>8 DEF BoardInv
  <2>10. {x \in adnet' : OfStage(x)} = {x \in adnet : OfStage(x)}
    BY <1>b, <2>4, <2>5
  <2>11. StagesTrue(ad.cards, adrow, adnet')
    BY <1>c, <2>9, <2>10
  <2>12. CASE ad.open # 0 /\ c.panel = ad.panel
    <3>1. \A x \in adnet' : OfNotes(x) /\ x.panel = ad.panel => x = d
      BY <1>b, <2>5, <2>9, <2>12 DEF NotesTrue
    <3>2. \A x \in adnet' : x.kind = "add" /\ x.b = ad.open => FALSE
      BY <2>4, <2>5, <2>9, <2>12, <1>b DEF NotesTrue, OfNotes
    <3> QED BY <2>4, <2>5, <2>6, <2>11, <2>12, <3>1, <3>2 DEF NotesTrue, OfNotes
  <2>13. CASE ad.open # 0 /\ c.panel # ad.panel
    <3>1. g <=> ad.adding
      BY <2>1, <2>13 DEF Mine
    <3>2. \A x \in adnet' : x.panel = ad.panel => x \in adnet
      BY <2>4, <2>5, <2>13
    <3>3. \A x \in adnet : x.panel = ad.panel => x \in adnet'
      BY <2>5, <2>13
    <3>4. \A x \in adnet' : x.kind = "add" => x \in adnet
      BY <2>4, <2>5
    <3> QED BY <2>6, <2>9, <2>11, <2>13, <3>1, <3>2, <3>3, <3>4 DEF NotesTrue
  <2>14. CASE ad.open = 0
    BY <2>6, <2>11, <2>14 DEF NotesTrue
  <2> QED BY <2>12, <2>13, <2>14
<1>2. CASE NotesRead(c)
  <2>1. PICK k : k = adrow[c.b].notes
    OBVIOUS
  <2>2. PICK d : d = [c EXCEPT !.v = k, !.st = "done"]
    OBVIOUS
  <2>3. /\ d = [kind |-> "notes", b |-> c.b, v |-> k, prev |-> c.prev, panel |-> c.panel,
                n |-> c.n, st |-> "done"]
        /\ c.kind = "notes" /\ c.st = "sent"
    BY <1>2, <1>a, <2>2 DEF BoardCall, NotesRead
  <2>4. BoardCall(d, ad) /\ OfNotes(d) /\ ~OfStage(d) /\ d.kind = "notes" /\ d.st = "done"
        /\ d.panel = c.panel /\ d.v = k
    BY <1>a, <1>b, <2>3 DEF BoardCall, OfNotes, OfStage
  <2>5. ad' = ad /\ adnet' = (adnet \ {c}) \cup {d}
    BY <1>2, <2>1, <2>2 DEF NotesRead
  <2>7. ASSUME NEW x \in adnet' PROVE BoardCall(x, ad')
    BY <1>a, <2>4, <2>5
  <2>8. SUFFICES ASSUME ~ad.over, ~ad.lost
        PROVE  StagesTrue(ad.cards, adrow, adnet') /\ NotesTrue(ad, adrow, adnet')
    BY <1>a, <2>5, <2>7 DEF BoardInv
  <2>9. StagesTrue(ad.cards, adrow, adnet) /\ NotesTrue(ad, adrow, adnet)
    BY <1>a, <2>8 DEF BoardInv
  <2>10. {x \in adnet' : OfStage(x)} = {x \in adnet : OfStage(x)}
    BY <1>b, <2>4, <2>5
  <2>11. StagesTrue(ad.cards, adrow, adnet')
    BY <1>c, <2>9, <2>10
  <2>12. CASE ad.open # 0 /\ c.panel = ad.panel
    <3>1. \A x \in adnet' : OfNotes(x) /\ x.panel = ad.panel => x = d
      BY <1>b, <2>5, <2>9, <2>12 DEF NotesTrue
    <3>2. \A x \in adnet' : x.kind = "add" => x \in adnet
      BY <2>4, <2>5
    <3>3. d.v = adrow[ad.open].notes /\ d \in adnet'
      BY <1>a, <1>b, <2>1, <2>4, <2>5, <2>12 DEF BoardCall
    <3> QED BY <2>4, <2>9, <2>11, <2>12, <3>1, <3>2, <3>3 DEF NotesTrue, OfNotes
  <2>13. CASE ad.open # 0 /\ c.panel # ad.panel
    <3>2. \A x \in adnet' : x.panel = ad.panel => x \in adnet
      BY <2>4, <2>5, <2>13
    <3>3. \A x \in adnet : x.panel = ad.panel => x \in adnet'
      BY <2>5, <2>13
    <3>4. \A x \in adnet' : x.kind = "add" => x \in adnet
      BY <2>4, <2>5
    <3> QED BY <2>9, <2>11, <2>13, <3>2, <3>3, <3>4 DEF NotesTrue
  <2>14. CASE ad.open = 0
    BY <2>11, <2>14 DEF NotesTrue
  <2> QED BY <2>12, <2>13, <2>14
<1>3. CASE NotesAnswered(c)
  <2>1. PICK k : k = IF Mine(c) THEN c.v ELSE ad.notes
    OBVIOUS
  <2>2. [ad EXCEPT !.notes = ad.notes] = ad
    BY <1>a DEF BoardShape
  <2>3. ad' = [ad EXCEPT !.notes = k] /\ adnet' = adnet \ {c} /\ c.kind = "notes" /\ c.st = "done"
    BY <1>3, <2>1, <2>2 DEF NotesAnswered, HangUp
  <2>4. /\ BoardShape(ad') /\ ad'.open = ad.open /\ ad'.cards = ad.cards /\ ad'.state = ad.state
        /\ ad'.over = ad.over /\ ad'.lost = ad.lost /\ ad'.panel = ad.panel
        /\ ad'.notes = k /\ ad'.adding = ad.adding
    BY <1>a, <2>3 DEF BoardShape
  <2>5. ASSUME NEW x \in adnet' PROVE BoardCall(x, ad')
    BY <1>a, <2>3, <2>4, CallsKept
  <2>8. SUFFICES ASSUME ~ad.over, ~ad.lost
        PROVE  StagesTrue(ad.cards, adrow, adnet') /\ NotesTrue(ad', adrow, adnet')
    BY <1>a, <2>4, <2>5 DEF BoardInv
  <2>9. StagesTrue(ad.cards, adrow, adnet) /\ NotesTrue(ad, adrow, adnet)
    BY <1>a, <2>8 DEF BoardInv
  <2>10. {x \in adnet' : OfStage(x)} = {x \in adnet : OfStage(x)}
    BY <1>b, <2>3
  <2>11. StagesTrue(ad.cards, adrow, adnet')
    BY <1>c, <2>9, <2>10
  <2>12. CASE ad.open # 0 /\ c.panel = ad.panel
    <3>1. k = adrow[ad.open].notes
      BY <2>1, <2>3, <2>9, <2>12 DEF NotesTrue, Mine, InPanel
    <3> QED BY <2>3, <2>4, <2>9, <2>11, <2>12, <3>1 DEF NotesTrue
  <2>13. CASE ad.open # 0 /\ c.panel # ad.panel
    <3>1. k = ad.notes
      BY <2>1, <2>13 DEF Mine
    <3> QED BY <2>3, <2>4, <2>9, <2>11, <2>13, <3>1 DEF NotesTrue
  <2>14. CASE ad.open = 0
    BY <2>4, <2>11, <2>14 DEF NotesTrue
  <2> QED BY <2>12, <2>13, <2>14
<1>4. CASE NoteCallFails(c)
  <2>1. PICK g \in BOOLEAN : g <=> ad.adding /\ ~(c.kind = "add" /\ Mine(c))
    OBVIOUS
  <2>2. ad' = [ad EXCEPT !.adding = g, !.lost = TRUE] /\ adnet' = adnet \ {c}
    BY <1>4, <1>a, <2>1 DEF NoteCallFails, HangUp, BoardShape
  <2>3. BoardShape(ad') /\ ad'.lost /\ ad'.open = ad.open /\ ad'.panel = ad.panel
        /\ ad'.state = "ready"
    BY <1>a, <2>2 DEF BoardShape
  <2>4. ASSUME NEW x \in adnet' PROVE BoardCall(x, ad')
    BY <1>a, <2>2, <2>3, CallsKept
  <2> QED BY <1>a, <2>3, <2>4 DEF BoardInv
<1> QED BY <1>1, <1>2, <1>3, <1>4

\* Every step of the board keeps its invariant.
LEMMA BoardNext == BoardInv /\ [ADNext]_advars => BoardInv'
<1> SUFFICES ASSUME BoardInv, [ADNext]_advars PROVE BoardInv'
  OBVIOUS
<1>1. CASE UNCHANGED advars
  BY <1>1 DEF advars, BoardInv
<1>2. CASE ADNext
  BY <1>2, BoardPages, BoardStages, BoardPanels, BoardLands, BoardAnswers, BoardNotes DEF ADNext
<1> QED BY <1>1, <1>2

-----------------------------------------------------------------------------
(* The page of a business *)

\* No call, or one that is on its way.
DetailCall(c) == c = Nothing \/ (c = [st |-> c.st, v |-> c.v] /\ c.st \in {"sent", "done"})
PanelsShape(x) == x = [subscription |-> x.subscription, crm |-> x.crm]

BusinessShape(p, row, net) ==
    /\ p = [state |-> p.state, page |-> p.page, form |-> p.form, confirm |-> p.confirm,
            typed |-> p.typed, calls |-> p.calls, lost |-> p.lost]
    /\ p.state \in {"loading", "error", "ready", "left"}
    /\ p.state = "ready" => PanelsShape(p.page) /\ PanelsShape(p.form)
    /\ row = [exists |-> row.exists, subscription |-> row.subscription, crm |-> row.crm]
    /\ row.exists \in BOOLEAN
    /\ net = [subscription |-> net.subscription, crm |-> net.crm, delete |-> net.delete]
    /\ DetailCall(net.subscription) /\ DetailCall(net.crm) /\ DetailCall(net.delete)

\* A panel shows what the server keeps, until a save of it has taken effect.
PanelTrue(shown, kept, call) == kept = IF call.st = "done" THEN call.v ELSE shown

BusinessInv ==
    /\ BusinessShape(dt, dtrow, dtnet)
    /\ dt.confirm => dt.state = "ready"
    /\ dtnet.delete # Nothing => dt.confirm
    /\ dt.state \in {"loading", "error"} =>
         dtrow.exists /\ dtnet.subscription = Nothing /\ dtnet.crm = Nothing
    /\ ~dt.lost =>
         /\ dt.state = "left" => ~dtrow.exists
         /\ dt.state = "ready" =>
              /\ dtrow.exists <=> dtnet.delete.st # "done"
              /\ PanelTrue(dt.page.subscription, dtrow.subscription, dtnet.subscription)
              /\ PanelTrue(dt.page.crm, dtrow.crm, dtnet.crm)

\* A page that is opened.
LEMMA BusinessInit == DTInit => BusinessInv
BY DEF DTInit, BusinessInv, BusinessShape, DetailCall, Nothing

\* The page is loaded; the dialog of the deletion is opened, filled in and closed.
LEMMA BusinessDialogs ==
  ASSUME BusinessInv, LoadBusiness \/ OpenConfirm \/ CloseConfirm \/ TypeName
  PROVE  BusinessInv'
<1>a. BusinessShape(dt, dtrow, dtnet)
  BY DEF BusinessInv
<1>b. dtrow' = dtrow /\ dtnet' = dtnet
  BY DEF LoadBusiness, OpenConfirm, CloseConfirm, TypeName
<1>1. CASE LoadBusiness
  <2>1. PICK pg : pg = [subscription |-> dtrow.subscription, crm |-> dtrow.crm]
    OBVIOUS
  <2>2. \/ dt' = [dt EXCEPT !.state = "ready", !.page = pg, !.form = pg]
        \/ dt' = [dt EXCEPT !.state = "error"]
    BY <1>1, <2>1 DEF LoadBusiness
  <2>3. dt.state = "loading" /\ ~dt.confirm
    BY <1>1 DEF LoadBusiness, BusinessInv
  <2>4. BusinessShape(dt', dtrow, dtnet)
    BY <1>a, <2>1, <2>2 DEF BusinessShape, PanelsShape
  <2>5. /\ dt'.confirm = dt.confirm /\ dt'.lost = dt.lost
        /\ \/ dt'.state = "ready" /\ dt'.page = pg
           \/ dt'.state = "error"
    BY <1>a, <2>2 DEF BusinessShape
  <2>6. dtnet.delete.st # "done" /\ dtnet.subscription.st # "done" /\ dtnet.crm.st # "done"
        /\ dtrow.exists /\ dtnet.subscription = Nothing /\ dtnet.crm = Nothing
        /\ dtnet.delete = Nothing
    BY <2>3 DEF BusinessInv, Nothing
  <2> QED BY <1>b, <2>1, <2>3, <2>4, <2>5, <2>6 DEF BusinessInv, PanelTrue
<1>2. CASE OpenConfirm \/ CloseConfirm \/ TypeName
  <2>1. PICK t : t = ~dt.typed
    OBVIOUS
  <2>2. \/ dt' = [dt EXCEPT !.confirm = TRUE, !.typed = FALSE] /\ dt.state = "ready"
        \/ dt' = [dt EXCEPT !.confirm = FALSE] /\ dtnet.delete = Nothing
        \/ dt' = [dt EXCEPT !.typed = t]
    BY <1>2, <1>a, <2>1 DEF OpenConfirm, CloseConfirm, TypeName, OnDetail, BusinessShape
  <2>3. BusinessShape(dt', dtrow, dtnet) /\ dt'.state = dt.state /\ dt'.page = dt.page
        /\ dt'.lost = dt.lost
    BY <1>a, <2>2 DEF BusinessShape
  <2>4. \/ dt'.confirm /\ dt.state = "ready"
        \/ ~dt'.confirm /\ dtnet.delete = Nothing
        \/ dt'.confirm = dt.confirm
    BY <1>a, <2>2 DEF BusinessShape
  <2> QED BY <1>b, <2>3, <2>4 DEF BusinessInv
<1> QED BY <1>1, <1>2

\* The business is deleted: the call is sent, takes effect, is answered or fails.
LEMMA BusinessDeletes ==
  ASSUME BusinessInv, HandleDelete \/ DeleteLands \/ DeleteAnswered \/ DeleteFails
  PROVE  BusinessInv'
<1>a. BusinessShape(dt, dtrow, dtnet)
  BY DEF BusinessInv
<1>1. CASE HandleDelete
  <2>1. PICK d, n : d = Sent(0) /\ n = dt.calls + 1
    OBVIOUS
  <2>2. dt' = [dt EXCEPT !.calls = n] /\ dtnet' = [dtnet EXCEPT !.delete = d] /\ dtrow' = dtrow
    BY <1>1, <1>a, <2>1 DEF HandleDelete, BusinessShape
  <2>3. DetailCall(d) /\ d.st = "sent"
    BY <2>1 DEF DetailCall, Sent
  <2>4. BusinessShape(dt', dtrow', dtnet')
    BY <1>a, <2>2, <2>3 DEF BusinessShape
  <2>5. /\ dt'.state = dt.state /\ dt'.page = dt.page /\ dt'.confirm = dt.confirm
        /\ dt'.lost = dt.lost /\ dtnet'.delete = d
        /\ dtnet'.subscription = dtnet.subscription /\ dtnet'.crm = dtnet.crm
    BY <1>a, <2>2 DEF BusinessShape
  <2>6. dt.confirm /\ dtnet.delete.st # "done"
    BY <1>1 DEF HandleDelete, Nothing
  <2> QED BY <2>2, <2>3, <2>4, <2>5, <2>6 DEF BusinessInv
<1>2. CASE DeleteLands
  <2>1. PICK d : d = [dtnet.delete EXCEPT !.st = "done"]
    OBVIOUS
  <2>2. /\ dt' = dt /\ dtnet' = [dtnet EXCEPT !.delete = d]
        /\ dtrow' = [dtrow EXCEPT !.exists = FALSE]
    BY <1>2, <1>a, <2>1 DEF DeleteLands, BusinessShape
  <2>3. DetailCall(d) /\ d.st = "done" /\ dtnet.delete # Nothing
    BY <1>2, <1>a, <2>1 DEF DetailCall, DeleteLands, BusinessShape, Nothing
  <2>4. BusinessShape(dt', dtrow', dtnet')
    BY <1>a, <2>2, <2>3 DEF BusinessShape
  <2>5. /\ dtnet'.subscription = dtnet.subscription /\ dtnet'.crm = dtnet.crm
        /\ dtnet'.delete = d /\ dtrow'.exists = FALSE
        /\ dtrow'.subscription = dtrow.subscription /\ dtrow'.crm = dtrow.crm
    BY <1>a, <2>2 DEF BusinessShape
  <2> QED BY <2>2, <2>3, <2>4, <2>5 DEF BusinessInv
<1>3. CASE DeleteAnswered
  <2>2. /\ dt' = [dt EXCEPT !.state = "left", !.confirm = FALSE] /\ dtrow' = dtrow
        /\ dtnet' = [dtnet EXCEPT !.delete = Nothing]
    BY <1>3 DEF DeleteAnswered
  <2>3. dtnet.delete.st = "done" /\ dtnet.delete # Nothing
    BY <1>3 DEF DeleteAnswered, Nothing
  <2>4. BusinessShape(dt', dtrow', dtnet')
    BY <1>a, <2>2 DEF BusinessShape, DetailCall
  <2>5. /\ dt'.state = "left" /\ ~dt'.confirm /\ dt'.lost = dt.lost
        /\ dtnet'.delete = Nothing
    BY <1>a, <2>2 DEF BusinessShape
  <2> QED BY <2>2, <2>3, <2>4, <2>5 DEF BusinessInv
<1>4. CASE DeleteFails
  <2>1. PICK l \in BOOLEAN : l <=> dt.lost \/ dtnet.delete.st = "done"
    OBVIOUS
  <2>2. /\ dt' = [dt EXCEPT !.lost = l] /\ dtrow' = dtrow
        /\ dtnet' = [dtnet EXCEPT !.delete = Nothing]
    BY <1>4, <1>a, <2>1 DEF DeleteFails, BusinessShape
  <2>4. BusinessShape(dt', dtrow', dtnet')
    BY <1>a, <2>2 DEF BusinessShape, DetailCall
  <2>5. /\ dt'.state = dt.state /\ dt'.page = dt.page /\ dt'.confirm = dt.confirm
        /\ dt'.lost = l /\ dtnet'.delete = Nothing
        /\ dtnet'.subscription = dtnet.subscription /\ dtnet'.crm = dtnet.crm
    BY <1>a, <2>2 DEF BusinessShape
  <2>6. Nothing.st # "done"
    BY DEF Nothing
  <2> QED BY <2>1, <2>2, <2>4, <2>5, <2>6 DEF BusinessInv
<1> QED BY <1>1, <1>2, <1>3, <1>4

\* A panel is edited and saved; its save takes effect, is answered or fails.
LEMMA BusinessPanels ==
  ASSUME BusinessInv, NEW p \in Panels,
         \/ SaveDetail(p) \/ FormLands(p) \/ FormSaved(p)
         \/ FormSaveFails(p) \/ \E v : EditForm(p, v)
  PROVE  BusinessInv'
<1>a. BusinessShape(dt, dtrow, dtnet)
  BY DEF BusinessInv
<1>b. PICK q : \/ p = "subscription" /\ q = "crm"
               \/ p = "crm" /\ q = "subscription"
  BY DEF Panels
<1>1. ASSUME NEW v, EditForm(p, v) PROVE BusinessInv'
  <2>1. PICK f : f = [dt.form EXCEPT ![p] = v]
    OBVIOUS
  <2>2. dt' = [dt EXCEPT !.form = f] /\ dtrow' = dtrow /\ dtnet' = dtnet /\ dt.state = "ready"
    BY <1>1, <1>a, <1>b, <2>1 DEF EditForm, OnDetail, BusinessShape
  <2>3. PanelsShape(f)
    BY <1>a, <1>b, <2>1, <2>2 DEF BusinessShape, PanelsShape
  <2>4. BusinessShape(dt', dtrow, dtnet)
    BY <1>a, <1>b, <2>2, <2>3 DEF BusinessShape
  <2>5. /\ dt'.state = dt.state /\ dt'.page = dt.page /\ dt'.confirm = dt.confirm
        /\ dt'.lost = dt.lost
    BY <1>a, <1>b, <2>2 DEF BusinessShape
  <2> QED BY <1>b, <2>2, <2>4, <2>5 DEF BusinessInv
<1>2. CASE SaveDetail(p)
  <2>1. PICK d, n : d = Sent(dt.form[p]) /\ n = dt.calls + 1
    OBVIOUS
  <2>2. /\ dt' = [dt EXCEPT !.calls = n] /\ dtnet' = [dtnet EXCEPT ![p] = d] /\ dtrow' = dtrow
        /\ dt.state = "ready" /\ dtnet[p] = Nothing
    BY <1>2, <1>a, <1>b, <2>1 DEF SaveDetail, OnDetail, BusinessShape
  <2>3. DetailCall(d) /\ d.st = "sent" /\ Nothing.st # "done"
    BY <2>1 DEF DetailCall, Sent, Nothing
  <2>4. BusinessShape(dt', dtrow', dtnet')
    BY <1>a, <1>b, <2>2, <2>3 DEF BusinessShape
  <2>5. /\ dt'.state = dt.state /\ dt'.page = dt.page /\ dt'.confirm = dt.confirm
        /\ dt'.lost = dt.lost /\ dtnet'[p] = d
        /\ dtnet'[q] = dtnet[q] /\ dtnet'.delete = dtnet.delete
    BY <1>a, <1>b, <2>2 DEF BusinessShape
  <2> QED BY <1>b, <2>2, <2>3, <2>4, <2>5 DEF BusinessInv, PanelTrue
<1>3. CASE FormLands(p)
  <2>1. PICK d, w : d = [dtnet[p] EXCEPT !.st = "done"] /\ w = dtnet[p].v
    OBVIOUS
  <2>2. /\ dt' = dt /\ dtnet' = [dtnet EXCEPT ![p] = d]
        /\ dtrow' = [dtrow EXCEPT ![p] = w] /\ dtnet[p].st = "sent"
    BY <1>3, <1>a, <1>b, <2>1 DEF FormLands, BusinessShape
  <2>3. DetailCall(d) /\ d.st = "done" /\ d.v = w /\ dtnet[p] # Nothing
    BY <1>a, <1>b, <2>1, <2>2 DEF DetailCall, BusinessShape, Nothing
  <2>4. BusinessShape(dt', dtrow', dtnet')
    BY <1>a, <1>b, <2>2, <2>3 DEF BusinessShape
  <2>5. /\ dtnet'[p] = d /\ dtnet'[q] = dtnet[q] /\ dtnet'.delete = dtnet.delete
        /\ dtrow'.exists = dtrow.exists /\ dtrow'[p] = w /\ dtrow'[q] = dtrow[q]
    BY <1>a, <1>b, <2>2 DEF BusinessShape
  <2> QED BY <1>b, <2>2, <2>3, <2>4, <2>5 DEF BusinessInv, PanelTrue
<1>4. CASE FormSaved(p)
  <2>1. PICK w : w = dtnet[p].v
    OBVIOUS
  <2>6. PICK f, g : f = [dt.form EXCEPT ![p] = w] /\ g = [dt.page EXCEPT ![p] = w]
    OBVIOUS
  <2>2. /\ dt' = [dt EXCEPT !.page = g, !.form = f] /\ dtrow' = dtrow
        /\ dtnet' = [dtnet EXCEPT ![p] = Nothing]
        /\ dt.state = "ready" /\ dtnet[p].st = "done" /\ Nothing.st # "done"
    BY <1>4, <1>a, <2>1, <2>6 DEF FormSaved, BusinessShape, Nothing
  <2>3. PanelsShape(f) /\ PanelsShape(g) /\ g[p] = w /\ g[q] = dt.page[q]
    BY <1>a, <1>b, <2>2, <2>6 DEF BusinessShape, PanelsShape
  <2>4. BusinessShape(dt', dtrow', dtnet')
    BY <1>a, <1>b, <2>2, <2>3 DEF BusinessShape, DetailCall
  <2>5. /\ dt'.state = dt.state /\ dt'.page = g /\ dt'.confirm = dt.confirm
        /\ dt'.lost = dt.lost /\ dtnet'[p] = Nothing
        /\ dtnet'[q] = dtnet[q] /\ dtnet'.delete = dtnet.delete
    BY <1>a, <1>b, <2>2 DEF BusinessShape
  <2> QED BY <1>b, <2>1, <2>2, <2>3, <2>4, <2>5 DEF BusinessInv, PanelTrue
<1>5. CASE FormSaveFails(p)
  <2>1. PICK l \in BOOLEAN : l <=> dt.lost \/ dtnet[p].st = "done"
    OBVIOUS
  <2>2. /\ dt' = [dt EXCEPT !.lost = l] /\ dtrow' = dtrow
        /\ dtnet' = [dtnet EXCEPT ![p] = Nothing] /\ Nothing.st # "done"
    BY <1>5, <1>a, <1>b, <2>1 DEF FormSaveFails, BusinessShape, Nothing
  <2>4. BusinessShape(dt', dtrow', dtnet')
    BY <1>a, <1>b, <2>2 DEF BusinessShape, DetailCall
  <2>5. /\ dt'.state = dt.state /\ dt'.page = dt.page /\ dt'.confirm = dt.confirm
        /\ dt'.lost = l /\ dtnet'[p] = Nothing
        /\ dtnet'[q] = dtnet[q] /\ dtnet'.delete = dtnet.delete
    BY <1>a, <1>b, <2>2 DEF BusinessShape
  <2> QED BY <1>b, <2>1, <2>2, <2>4, <2>5 DEF BusinessInv, PanelTrue
<1> QED BY <1>1, <1>2, <1>3, <1>4, <1>5

\* Every step of the page of a business keeps its invariant.
LEMMA BusinessNext == BusinessInv /\ [DTNext]_dtvars => BusinessInv'
<1> SUFFICES ASSUME BusinessInv, [DTNext]_dtvars PROVE BusinessInv'
  OBVIOUS
<1>1. CASE UNCHANGED dtvars
  BY <1>1 DEF dtvars, BusinessInv
<1>2. CASE DTNext
  BY <1>2, BusinessDialogs, BusinessDeletes, BusinessPanels DEF DTNext
<1> QED BY <1>1, <1>2

-----------------------------------------------------------------------------
(* The gallery *)

\* Tiles in the order of the page, each image once.
Lined(s) ==
    /\ s \in Seq(Img)
    /\ \A i, j \in 1 .. Len(s) : i < j => Before(s[i], s[j])
    /\ \A i, j \in 1 .. Len(s) : s[i].id = s[j].id => i = j

\* The tiles of a set of rows, as list_images gives them.
Shows(s, rows) == Lined(s) /\ \A r : r \in rows <=> \E i \in 1 .. Len(s) : s[i] = r

TabShape(p) ==
    p = [grid |-> p.grid, theme |-> p.theme, busy |-> p.busy, uploading |-> p.uploading,
         calls |-> p.calls, over |-> p.over, lost |-> p.lost, half |-> p.half]
TabCall(c) ==
    /\ c = [kind |-> c.kind, id |-> c.id, snap |-> c.snap, todo |-> c.todo, added |-> c.added,
            st |-> c.st, v |-> c.v, n |-> c.n]
    /\ c.st \in {"sent", "done"}
    /\ c.kind \in {"upload", "caption", "remove", "move", "palette"}

UploadTrue(c, grid, rows) ==
    /\ grid = c.snap /\ c.added \in Seq(Img)
    /\ c.st = "sent" => Shows(c.snap \o c.added, rows)
    /\ c.st = "done" => c.v \in Img /\ Shows(c.snap \o Append(c.added, c.v), rows)

Captioned(s, id, row) == [i \in DOMAIN s |-> IF s[i].id = id THEN row ELSE s[i]]
CaptionTrue(c, grid, rows) ==
    /\ grid = c.snap
    /\ c.st = "sent" => c.todo \in Captions /\ Shows(c.snap, rows)
    /\ c.st = "done" => \E r : c.v = {r} /\ Shows(Captioned(c.snap, c.id, r), rows)

RemoveTrue(c, grid, rows) ==
    /\ grid = c.snap
    /\ c.st = "sent" => Shows(c.snap, rows)
    /\ c.st = "done" => Shows(WithoutTile(c.snap, c.id), rows)

\* The rows are those of the grid, but for the numbers that are still to be written; if
\* none is written yet they are those of the click.
Unwritten(c) == IF c.st = "sent" THEN c.todo ELSE c.todo \ {NextRow(c.todo)}
MoveTrue(c, grid, rows) ==
    /\ c.todo # {} /\ \A x \in c.todo : \E i \in 1 .. Len(grid) : x = grid[i]
    /\ \A r \in rows : \E i \in 1 .. Len(grid) :
         /\ r.id = grid[i].id /\ r.cap = grid[i].cap
         /\ grid[i] \notin Unwritten(c) => r = grid[i]
    /\ \A i \in 1 .. Len(grid) : \E r \in rows : r.id = grid[i].id
    /\ c.st = "sent" /\ c.added = <<>> => Shows(c.snap, rows)

PaletteTrue(c, p, row) ==
    /\ p.theme = c.todo /\ Shows(p.grid, row.imgs)
    /\ c.st = "sent" => row.theme = c.snap
    /\ c.st = "done" => row.theme = c.todo /\ c.v = p.grid

CallTrue(c, p, row) ==
    /\ c.kind = "palette" => PaletteTrue(c, p, row)
    /\ c.kind # "palette" => p.theme = row.theme
    /\ c.kind = "upload" => UploadTrue(c, p.grid, row.imgs)
    /\ c.kind = "caption" => CaptionTrue(c, p.grid, row.imgs)
    /\ c.kind = "remove" => RemoveTrue(c, p.grid, row.imgs)
    /\ c.kind = "move" => MoveTrue(c, p.grid, row.imgs)

\* One change at a time, and what it has done to the rows so far.
TabTrue(p, row, net) ==
    /\ row = [imgs |-> row.imgs, theme |-> row.theme, next |-> row.next]
    /\ row.next \in Nat /\ GalleryOf(row.imgs, row.next)
    /\ Lined(p.grid)
    /\ net = {} => Shows(p.grid, row.imgs) /\ p.theme = row.theme
    /\ \A c \in net : net = {c} /\ TabCall(c) /\ CallTrue(c, p, row)

GalleryInv ==
    /\ TabShape(gp)
    /\ ~gp.over /\ ~gp.lost /\ ~gp.half => TabTrue(gp, gprow, gpnet)

\* A set of natural numbers that is not empty has a least element.
LEMMA LeastNumber ==
  ASSUME NEW T, T \subseteq Nat, T # {}
  PROVE  \E n \in T : \A k \in T : n <= k
<1>1. IsWellFoundedOn({x \in Nat \X Nat : x[1] < x[2]}, Nat)
  BY NatLessThanWellFounded DEF OpToRel
<1>2. PICK R : R = {x \in Nat \X Nat : x[1] < x[2]}
  OBVIOUS
<1>3. PICK n \in T : \A k \in T : ~(<<k, n>> \in R)
  BY <1>1, <1>2, WFMin
<1>4. \A k \in T : ~(k < n)
  BY <1>2, <1>3
<1> QED BY <1>4

\* Two lists of the same rows in order are one: they cannot differ first anywhere.
LEMMA OneOrder ==
  ASSUME NEW rows, NEW s, NEW t, Shows(s, rows), Shows(t, rows)
  PROVE  s = t
<1>1. /\ s \in Seq(Img) /\ t \in Seq(Img) /\ Len(s) \in Nat /\ Len(t) \in Nat
      /\ \A i \in 1 .. Len(s) : s[i] \in Img
      /\ \A i \in 1 .. Len(t) : t[i] \in Img
  BY LenProperties, ElementOfSeq DEF Shows, Lined
<1>2. /\ \A i, j \in 1 .. Len(s) : i < j => Before(s[i], s[j])
      /\ \A i, j \in 1 .. Len(t) : i < j => Before(t[i], t[j])
  BY DEF Shows, Lined
<1>3. /\ \A i \in 1 .. Len(s) : \E j \in 1 .. Len(t) : t[j] = s[i]
      /\ \A i \in 1 .. Len(t) : \E j \in 1 .. Len(s) : s[j] = t[i]
  BY DEF Shows
<1>4. \A a, b \in Img : ~(Before(a, b) /\ Before(b, a)) /\ ~Before(a, a)
  BY DEF Before, Img
<1>5. PICK T : T = {i \in Nat : 1 <= i /\ i <= Len(s) /\ i <= Len(t) /\ s[i] # t[i]}
  OBVIOUS
<1>6. CASE T # {}
  <2>1. PICK n \in T : \A k \in T : n <= k
    BY <1>5, <1>6, LeastNumber
  <2>2. /\ n \in 1 .. Len(s) /\ n \in 1 .. Len(t) /\ s[n] # t[n]
        /\ \A k \in 1 .. n - 1 : s[k] = t[k]
    BY <1>1, <1>5, <2>1
  <2>3. PICK j \in 1 .. Len(t) : t[j] = s[n]
    BY <1>3, <2>2
  <2>4. j > n
    <3>1. j # n
      BY <2>2, <2>3
    <3>2. ASSUME j < n PROVE FALSE
      <4>1. s[j] = s[n] /\ j \in 1 .. Len(s)
        BY <1>1, <2>2, <2>3, <3>2
      <4> QED BY <1>1, <1>2, <1>4, <2>2, <3>2, <4>1
    <3> QED BY <1>1, <2>2, <3>1, <3>2
  <2>5. Before(t[n], s[n])
    BY <1>2, <2>2, <2>3, <2>4
  <2>6. PICK k \in 1 .. Len(s) : s[k] = t[n]
    BY <1>3, <2>2
  <2>7. k > n
    <3>1. k # n
      BY <2>2, <2>6
    <3>2. ASSUME k < n PROVE FALSE
      <4>1. t[k] = t[n] /\ k \in 1 .. Len(t)
        BY <1>1, <2>2, <2>6, <3>2
      <4> QED BY <1>1, <1>2, <1>4, <2>2, <3>2, <4>1
    <3> QED BY <1>1, <2>2, <3>1, <3>2
  <2>8. Before(s[n], t[n])
    BY <1>2, <2>2, <2>6, <2>7
  <2> QED BY <1>1, <1>4, <2>2, <2>5, <2>8
<1>7. CASE T = {}
  <2>1. \A i \in Nat : 1 <= i /\ i <= Len(s) /\ i <= Len(t) => s[i] = t[i]
    BY <1>5, <1>7
  <2>2. ASSUME Len(s) < Len(t) PROVE FALSE
    <3>0. Len(s) + 1 \in 1 .. Len(t)
      BY <1>1, <2>2
    <3>1. PICK j \in 1 .. Len(s) : s[j] = t[Len(s) + 1]
      BY <1>3, <3>0
    <3>2. t[j] = t[Len(s) + 1] /\ j < Len(s) + 1 /\ j \in 1 .. Len(t)
           /\ Len(s) + 1 \in 1 .. Len(t)
      BY <1>1, <2>1, <2>2, <3>1
    <3> QED BY <1>1, <1>2, <1>4, <3>2
  <2>3. ASSUME Len(t) < Len(s) PROVE FALSE
    <3>0. Len(t) + 1 \in 1 .. Len(s)
      BY <1>1, <2>3
    <3>1. PICK j \in 1 .. Len(t) : t[j] = s[Len(t) + 1]
      BY <1>3, <3>0
    <3>2. s[j] = s[Len(t) + 1] /\ j < Len(t) + 1 /\ j \in 1 .. Len(s)
           /\ Len(t) + 1 \in 1 .. Len(s)
      BY <1>1, <2>1, <2>3, <3>1
    <3> QED BY <1>1, <1>2, <1>4, <3>2
  <2>4. Len(s) = Len(t)
    BY <1>1, <2>2, <2>3
  <2>5. \A i \in 1 .. Len(s) : s[i] = t[i]
    BY <1>1, <2>1, <2>4
  <2> QED BY <1>1, <2>4, <2>5, SeqEqual
<1> QED BY <1>6, <1>7

\* A row that is not in the list finds its place in it.
LEMMA PlaceInOrder ==
  ASSUME NEW rows, NEW s, Shows(s, rows), NEW x \in Img, \A r \in rows : r.id # x.id
  PROVE  \E t : Shows(t, rows \cup {x})
<1>1. /\ s \in Seq(Img) /\ Len(s) \in Nat /\ \A i \in 1 .. Len(s) : s[i] \in Img
  BY LenProperties, ElementOfSeq DEF Shows, Lined
<1>2. /\ \A i, j \in 1 .. Len(s) : i < j => Before(s[i], s[j])
      /\ \A i, j \in 1 .. Len(s) : s[i].id = s[j].id => i = j
      /\ \A i \in 1 .. Len(s) : s[i].id # x.id
      /\ \A r : r \in rows <=> \E i \in 1 .. Len(s) : s[i] = r
  BY DEF Shows, Lined
<1>3. PICK T : T = {i \in 1 .. Len(s) + 1 : i = Len(s) + 1 \/ Before(x, s[i])}
  OBVIOUS
<1>4. PICK n \in T : \A k \in T : n <= k
  <2>1. T \subseteq Nat /\ Len(s) + 1 \in T
    BY <1>1, <1>3
  <2> QED BY <2>1, LeastNumber
<1>5. /\ n \in 1 .. Len(s) + 1 /\ \A k \in 1 .. Len(s) : k < n => ~Before(x, s[k])
      /\ n # Len(s) + 1 => Before(x, s[n])
  BY <1>1, <1>3, <1>4
<1>6. PICK t : t = [i \in 1 .. Len(s) + 1 |-> IF i < n THEN s[i] ELSE IF i = n THEN x ELSE s[i - 1]]
  OBVIOUS
<1>7. \A i \in 1 .. Len(s) + 1 : t[i] \in Img
  BY <1>1, <1>5, <1>6
<1>8. t \in Seq(Img) /\ Len(t) = Len(s) + 1
  BY <1>1, <1>6, <1>7
<1>9. \A k \in 1 .. Len(s) : k < n => Before(s[k], x)
  BY <1>1, <1>2, <1>5 DEF Before, Img
<1>10. \A k \in 1 .. Len(s) : k >= n => Before(x, s[k])
  <2>1. SUFFICES ASSUME NEW k \in 1 .. Len(s), k > n PROVE Before(x, s[k])
    BY <1>1, <1>5
  <2>2. Before(x, s[n]) /\ Before(s[n], s[k]) /\ s[n] \in Img /\ s[k] \in Img
    BY <1>1, <1>2, <1>5, <2>1
  <2> QED BY <2>2 DEF Before, Img
<1>11. ASSUME NEW i \in 1 .. Len(t), NEW j \in 1 .. Len(t), i < j PROVE Before(t[i], t[j])
  <2>1. CASE i = n
    BY <1>1, <1>5, <1>6, <1>8, <1>10, <1>11, <2>1
  <2>2. CASE j = n
    BY <1>1, <1>5, <1>6, <1>8, <1>9, <1>11, <2>2
  <2>3. CASE i # n /\ j # n
    <3>1. PICK a, b : a = (IF i < n THEN i ELSE i - 1) /\ b = (IF j < n THEN j ELSE j - 1)
      OBVIOUS
    <3>2. a \in 1 .. Len(s) /\ b \in 1 .. Len(s) /\ a < b
      BY <1>1, <1>5, <1>8, <1>11, <2>3, <3>1
    <3>3. t[i] = s[a] /\ t[j] = s[b]
      BY <1>1, <1>5, <1>6, <1>8, <2>3, <3>1
    <3> QED BY <1>2, <3>2, <3>3
  <2> QED BY <2>1, <2>2, <2>3
<1>12. ASSUME NEW i \in 1 .. Len(t), NEW j \in 1 .. Len(t), t[i].id = t[j].id PROVE i = j
  <2>1. ASSUME NEW k \in 1 .. Len(t), k # n PROVE t[k].id # x.id
    BY <1>1, <1>2, <1>5, <1>6, <1>8, <2>1
  <2>2. CASE i = n \/ j = n
    <3>1. t[n] = x
      BY <1>5, <1>6
    <3> QED BY <1>12, <2>1, <2>2, <3>1
  <2>3. CASE i # n /\ j # n
    <3>1. /\ t[i] = s[IF i < n THEN i ELSE i - 1] /\ t[j] = s[IF j < n THEN j ELSE j - 1]
          /\ (IF i < n THEN i ELSE i - 1) \in 1 .. Len(s)
          /\ (IF j < n THEN j ELSE j - 1) \in 1 .. Len(s)
      BY <1>1, <1>5, <1>6, <1>8, <2>3
    <3>2. (IF i < n THEN i ELSE i - 1) = (IF j < n THEN j ELSE j - 1)
      BY <1>2, <1>12, <3>1
    <3> QED BY <1>1, <1>5, <1>8, <2>3, <3>2
  <2> QED BY <2>2, <2>3
<1>13. ASSUME NEW r PROVE r \in rows \cup {x} <=> \E i \in 1 .. Len(t) : t[i] = r
  <2>1. ASSUME r \in rows PROVE \E i \in 1 .. Len(t) : t[i] = r
    <3>1. PICK k \in 1 .. Len(s) : s[k] = r
      BY <1>2, <2>1
    <3>2. CASE k < n
      <4>1. k \in 1 .. Len(t) /\ t[k] = r
        BY <1>1, <1>5, <1>6, <1>8, <3>1, <3>2
      <4> QED BY <4>1
    <3>3. CASE k >= n
      <4>1. k + 1 \in 1 .. Len(t) /\ t[k + 1] = r
        BY <1>1, <1>5, <1>6, <1>8, <3>1, <3>3
      <4> QED BY <4>1
    <3> QED BY <1>1, <1>5, <3>2, <3>3
  <2>2. n \in 1 .. Len(t) /\ t[n] = x
    BY <1>5, <1>6, <1>8
  <2>3. ASSUME NEW i \in 1 .. Len(t) PROVE t[i] \in rows \cup {x}
    BY <1>1, <1>2, <1>5, <1>6, <1>8
  <2> QED BY <2>1, <2>2, <2>3
<1>14. Lined(t)
  BY <1>8, <1>11, <1>12 DEF Lined
<1> QED BY <1>13, <1>14 DEF Shows

\* Every gallery can be put in order: the smallest one that could not would have a row
\* to take out and to put in its place again.
LEMMA OrderExists ==
  ASSUME NEW rows, NEW next, GalleryOf(rows, next)
  PROVE  \E s : Shows(s, rows)
<1> DEFINE Bad(S) == S \subseteq rows /\ ~\E s : Shows(s, S)
<1>1. PICK T : T = {n \in Nat : \E S \in SUBSET rows : Bad(S) /\ Cardinality(S) = n}
  OBVIOUS
<1>2. IsFiniteSet(rows) /\ rows \subseteq Img /\ \A a, b \in rows : a.id = b.id => a = b
  BY DEF GalleryOf
<1>3. \A S \in SUBSET rows : IsFiniteSet(S) /\ Cardinality(S) \in Nat
  BY <1>2, FS_Subset, FS_CardinalityType
<1>4. CASE T = {}
  <2>1. ~Bad(rows)
    BY <1>1, <1>3, <1>4
  <2> QED BY <2>1
<1>5. CASE T # {}
  <2>1. PICK n \in T : \A k \in T : n <= k
    BY <1>1, <1>5, LeastNumber
  <2>2. PICK S \in SUBSET rows : Bad(S) /\ Cardinality(S) = n
    BY <1>1, <2>1
  <2>3. S # {}
    <3>1. Shows(<<>>, {})
      BY DEF Shows, Lined
    <3> QED BY <2>2, <3>1
  <2>4. PICK x \in S : TRUE
    BY <2>3
  <2>5. PICK R : R = S \ {x}
    OBVIOUS
  <2>6. R \in SUBSET rows /\ Cardinality(R) = n - 1 /\ n \in Nat /\ Cardinality(R) \in Nat
    BY <1>3, <2>2, <2>4, <2>5, FS_RemoveElement
  <2>7. ~Bad(R)
    <3>1. ASSUME Bad(R) PROVE FALSE
      <4>1. Cardinality(R) \in T
        BY <1>1, <2>6, <3>1
      <4> QED BY <2>1, <2>6, <4>1
    <3> QED BY <3>1
  <2>8. PICK s : Shows(s, R)
    BY <2>6, <2>7
  <2>9. x \in Img /\ \A r \in R : r.id # x.id
    BY <1>2, <2>4, <2>5
  <2>10. \E t : Shows(t, R \cup {x})
    BY <2>8, <2>9, PlaceInOrder
  <2>11. R \cup {x} = S
    BY <2>4, <2>5
  <2> QED BY <2>2, <2>10, <2>11
<1> QED BY <1>4, <1>5

\* Display gives the list that shows the rows.
LEMMA DisplayShows ==
  ASSUME NEW rows, NEW next, GalleryOf(rows, next)
  PROVE  Shows(Display(rows), rows) /\ \A s : Shows(s, rows) => s = Display(rows)
<1>1. PICK s : Shows(s, rows)
  BY OrderExists
<1>2. /\ s \in Seq(Img) /\ Len(s) \in Nat /\ DOMAIN s = 1 .. Len(s)
      /\ \A i \in 1 .. Len(s) : s[i] \in rows
  BY <1>1, LenProperties DEF Shows, Lined
<1>3. /\ \A i, j \in 1 .. Len(s) : i < j => Before(s[i], s[j])
      /\ \A i, j \in 1 .. Len(s) : s[i] = s[j] => i = j
      /\ \A r \in rows : \E i \in 1 .. Len(s) : s[i] = r
  BY <1>1 DEF Shows, Lined
<1>4. IsFiniteSet(rows) /\ rows \subseteq Img /\ \A a, b \in rows : a.id = b.id => a = b
  BY DEF GalleryOf
<1>5. Cardinality(rows) = Len(s)
  <2>1. s \in [1 .. Len(s) -> rows]
    BY <1>2, LenProperties
  <2>2. s \in Bijection(1 .. Len(s), rows)
    BY <1>3, <2>1 DEF Bijection, Injection, Surjection, IsInjective
  <2>3. ExistsBijection(1 .. Len(s), rows)
    BY <2>2 DEF ExistsBijection
  <2>4. IsFiniteSet(1 .. Len(s)) /\ Cardinality(1 .. Len(s)) = Len(s)
    BY <1>2, FS_Interval
  <2> QED BY <2>3, <2>4, FS_Bijection
<1>6. PICK F : F = [1 .. Cardinality(rows) -> rows]
  OBVIOUS
<1>7. s \in F /\ \A i, j \in DOMAIN s : i < j => Before(s[i], s[j])
  BY <1>2, <1>3, <1>5, <1>6, LenProperties
<1>8. Display(rows) = CHOOSE t \in F : \A i, j \in DOMAIN t : i < j => Before(t[i], t[j])
  BY <1>6 DEF Display
<1>9. PICK t : t = Display(rows)
  OBVIOUS
<1>10. t \in F /\ \A i, j \in DOMAIN t : i < j => Before(t[i], t[j])
  BY <1>7, <1>8, <1>9
<1>11. /\ t \in [1 .. Len(s) -> rows] /\ DOMAIN t = 1 .. Len(s)
       /\ \A i \in 1 .. Len(s) : t[i] \in rows /\ t[i] \in Img
  BY <1>4, <1>5, <1>6, <1>10
<1>12. \A i, j \in 1 .. Len(s) : t[i] = t[j] => i = j
  <2>1. \A a \in Img : ~Before(a, a)
    BY DEF Before, Img
  <2>2. SUFFICES ASSUME NEW i \in 1 .. Len(s), NEW j \in 1 .. Len(s), t[i] = t[j], i < j
                 PROVE  FALSE
    BY <1>2
  <2> QED BY <1>10, <1>11, <2>1, <2>2
<1>13. \A r \in rows : \E i \in 1 .. Len(s) : t[i] = r
  <2>1. t \in Injection(1 .. Len(s), rows)
    BY <1>11, <1>12 DEF Injection, IsInjective
  <2>2. Cardinality(1 .. Len(s)) = Cardinality(rows)
    <3>1. IsFiniteSet(1 .. Len(s)) /\ Cardinality(1 .. Len(s)) = Len(s)
      BY <1>2, FS_Interval
    <3> QED BY <1>5, <3>1
  <2>3. t \in Surjection(1 .. Len(s), rows)
    BY <1>4, <2>1, <2>2, FS_Injection
  <2> QED BY <2>3 DEF Surjection
<1>14. t \in Seq(Img) /\ Len(t) = Len(s)
  BY <1>2, <1>11
<1>15. Shows(t, rows)
  BY <1>4, <1>10, <1>11, <1>12, <1>13, <1>14 DEF Shows, Lined
<1> QED BY <1>9, <1>15, OneOrder

\* A tile is taken out of a list.
LEMMA TileOut ==
  ASSUME NEW s \in Seq(Img), NEW n \in 1 .. Len(s)
  PROVE  /\ RemoveAt(s, n) \in Seq(Img) /\ Len(RemoveAt(s, n)) = Len(s) - 1
         /\ \A i \in 1 .. Len(s) - 1 : RemoveAt(s, n)[i] = s[IF i < n THEN i ELSE i + 1]
<1>1. Len(s) \in Nat /\ \A i \in 1 .. Len(s) : s[i] \in Img
  BY LenProperties, ElementOfSeq
<1>2. PICK a, b : a = SubSeq(s, 1, n - 1) /\ b = SubSeq(s, n + 1, Len(s))
  OBVIOUS
<1>3. /\ a \in Seq(Img) /\ Len(a) = n - 1 /\ \A i \in 1 .. n - 1 : a[i] = s[i]
  <2>1. \A i \in 1 .. n - 1 : s[i] \in Img
    BY <1>1
  <2>2. 1 \in Int /\ n - 1 \in Int
    BY <1>1
  <2>3. /\ SubSeq(s, 1, n - 1) \in Seq(Img)
        /\ Len(SubSeq(s, 1, n - 1)) = IF 1 <= n - 1 THEN n - 1 - 1 + 1 ELSE 0
        /\ \A i \in 1 .. n - 1 - 1 + 1 : SubSeq(s, 1, n - 1)[i] = s[1 + i - 1]
    BY <2>1, <2>2, SubSeqProperties
  <2> QED BY <1>1, <1>2, <2>3
<1>4. /\ b \in Seq(Img) /\ Len(b) = Len(s) - n /\ \A i \in 1 .. Len(s) - n : b[i] = s[n + i]
  <2>1. \A i \in n + 1 .. Len(s) : s[i] \in Img
    BY <1>1
  <2>2. n + 1 \in Int /\ Len(s) \in Int
    BY <1>1
  <2>3. /\ SubSeq(s, n + 1, Len(s)) \in Seq(Img)
        /\ Len(SubSeq(s, n + 1, Len(s))) = IF n + 1 <= Len(s) THEN Len(s) - (n + 1) + 1 ELSE 0
        /\ \A i \in 1 .. Len(s) - (n + 1) + 1 : SubSeq(s, n + 1, Len(s))[i] = s[n + 1 + i - 1]
    BY <2>1, <2>2, SubSeqProperties
  <2> QED BY <1>1, <1>2, <2>3
<1>5. PICK w : w = a \o b /\ w = RemoveAt(s, n)
  BY <1>2 DEF RemoveAt
<1>6. /\ w \in Seq(Img) /\ Len(w) = Len(a) + Len(b)
      /\ \A i \in 1 .. Len(a) + Len(b) : w[i] = IF i <= Len(a) THEN a[i] ELSE b[i - Len(a)]
  <2>1. /\ a \o b \in Seq(Img) /\ Len(a \o b) = Len(a) + Len(b)
        /\ \A i \in 1 .. Len(a) + Len(b) :
             (a \o b)[i] = IF i <= Len(a) THEN a[i] ELSE b[i - Len(a)]
    BY <1>3, <1>4, ConcatProperties
  <2> QED BY <1>5, <2>1
<1>7. ASSUME NEW i \in 1 .. Len(s) - 1
      PROVE  w[i] = s[IF i < n THEN i ELSE i + 1]
  <2>1. CASE i < n
    <3>1. i \in 1 .. Len(a) + Len(b) /\ i <= Len(a) /\ i \in 1 .. n - 1
      BY <1>1, <1>3, <1>4, <2>1
    <3>2. w[i] = a[i] /\ a[i] = s[i]
      BY <1>3, <1>6, <3>1
    <3> QED BY <2>1, <3>2
  <2>2. CASE i >= n
    <3>1. i - (n - 1) \in 1 .. Len(s) - n /\ n + (i - (n - 1)) = i + 1
      BY <1>1, <2>2
    <3>2. b[i - (n - 1)] = s[i + 1]
      BY <1>4, <3>1
    <3>3. i \in 1 .. Len(a) + Len(b) /\ ~(i <= Len(a)) /\ i - Len(a) = i - (n - 1)
      BY <1>1, <1>3, <1>4, <2>2
    <3>4. w[i] = b[i - Len(a)]
      BY <1>6, <3>3
    <3>5. w[i] = s[i + 1] /\ ~(i < n)
      BY <1>1, <2>2, <3>2, <3>3, <3>4
    <3> QED BY <3>5
  <2> QED BY <1>1, <2>1, <2>2
<1> QED BY <1>1, <1>3, <1>4, <1>5, <1>6, <1>7

\* ... and put into one.
LEMMA TileIn ==
  ASSUME NEW s \in Seq(Img), NEW n \in 1 .. Len(s) + 1, NEW e \in Img
  PROVE  /\ InsertAt(s, n, e) \in Seq(Img) /\ Len(InsertAt(s, n, e)) = Len(s) + 1
         /\ \A i \in 1 .. Len(s) + 1 :
              InsertAt(s, n, e)[i] = IF i < n THEN s[i] ELSE IF i = n THEN e ELSE s[i - 1]
<1>1. Len(s) \in Nat /\ \A i \in 1 .. Len(s) : s[i] \in Img
  BY LenProperties, ElementOfSeq
<1>2. PICK a, b, c : a = SubSeq(s, 1, n - 1) /\ b = SubSeq(s, n, Len(s)) /\ c = <<e>>
  OBVIOUS
<1>3. /\ a \in Seq(Img) /\ Len(a) = n - 1 /\ \A i \in 1 .. n - 1 : a[i] = s[i]
  <2>1. \A i \in 1 .. n - 1 : s[i] \in Img
    BY <1>1
  <2>2. 1 \in Int /\ n - 1 \in Int
    BY <1>1
  <2>3. /\ SubSeq(s, 1, n - 1) \in Seq(Img)
        /\ Len(SubSeq(s, 1, n - 1)) = IF 1 <= n - 1 THEN n - 1 - 1 + 1 ELSE 0
        /\ \A i \in 1 .. n - 1 - 1 + 1 : SubSeq(s, 1, n - 1)[i] = s[1 + i - 1]
    BY <2>1, <2>2, SubSeqProperties
  <2> QED BY <1>1, <1>2, <2>3
<1>4. /\ b \in Seq(Img) /\ Len(b) = Len(s) - n + 1
      /\ \A i \in 1 .. Len(s) - n + 1 : b[i] = s[n + i - 1]
  <2>1. \A i \in n .. Len(s) : s[i] \in Img
    BY <1>1
  <2>2. n \in Int /\ Len(s) \in Int
    BY <1>1
  <2>3. /\ SubSeq(s, n, Len(s)) \in Seq(Img)
        /\ Len(SubSeq(s, n, Len(s))) = IF n <= Len(s) THEN Len(s) - n + 1 ELSE 0
        /\ \A i \in 1 .. Len(s) - n + 1 : SubSeq(s, n, Len(s))[i] = s[n + i - 1]
    BY <2>1, <2>2, SubSeqProperties
  <2> QED BY <1>1, <1>2, <2>3
<1>5. c \in Seq(Img) /\ Len(c) = 1 /\ c[1] = e
  BY <1>2
<1>6. PICK d : d = a \o c
  OBVIOUS
<1>7. /\ d \in Seq(Img) /\ Len(d) = n
      /\ \A i \in 1 .. n : d[i] = IF i < n THEN s[i] ELSE e
  <2>1. /\ d \in Seq(Img) /\ Len(d) = Len(a) + Len(c)
        /\ \A i \in 1 .. Len(a) + Len(c) : d[i] = IF i <= Len(a) THEN a[i] ELSE c[i - Len(a)]
    <3>1. /\ a \o c \in Seq(Img) /\ Len(a \o c) = Len(a) + Len(c)
          /\ \A i \in 1 .. Len(a) + Len(c) :
               (a \o c)[i] = IF i <= Len(a) THEN a[i] ELSE c[i - Len(a)]
      BY <1>3, <1>5, ConcatProperties
    <3> QED BY <1>6, <3>1
  <2>2. ASSUME NEW i \in 1 .. n PROVE d[i] = IF i < n THEN s[i] ELSE e
    <3>1. CASE i < n
      BY <1>1, <1>3, <1>5, <2>1, <3>1
    <3>2. CASE i = n
      <4>1. i - Len(a) = 1 /\ ~(i <= Len(a)) /\ i \in 1 .. Len(a) + Len(c)
        BY <1>1, <1>3, <1>5, <3>2
      <4>2. d[i] = c[i - Len(a)]
        BY <2>1, <4>1
      <4>3. d[i] = e /\ ~(i < n)
        BY <1>1, <1>5, <3>2, <4>1, <4>2
      <4> QED BY <4>3
    <3> QED BY <1>1, <3>1, <3>2
  <2> QED BY <1>1, <1>3, <1>5, <2>1, <2>2
<1>8. PICK w : w = d \o b /\ w = InsertAt(s, n, e)
  BY <1>2, <1>6 DEF InsertAt
<1>9. /\ w \in Seq(Img) /\ Len(w) = Len(d) + Len(b)
      /\ \A i \in 1 .. Len(d) + Len(b) : w[i] = IF i <= Len(d) THEN d[i] ELSE b[i - Len(d)]
  <2>1. d \in Seq(Img) /\ b \in Seq(Img)
    BY <1>4, <1>7
  <2>2. /\ d \o b \in Seq(Img) /\ Len(d \o b) = Len(d) + Len(b)
        /\ \A i \in 1 .. Len(d) + Len(b) :
             (d \o b)[i] = IF i <= Len(d) THEN d[i] ELSE b[i - Len(d)]
    BY <2>1, ConcatProperties
  <2> QED BY <1>8, <2>2
<1>10. ASSUME NEW i \in 1 .. Len(s) + 1
       PROVE  w[i] = IF i < n THEN s[i] ELSE IF i = n THEN e ELSE s[i - 1]
  <2>1. CASE i <= n
    <3>1. i \in 1 .. Len(d) + Len(b) /\ i <= Len(d) /\ i \in 1 .. n
      BY <1>1, <1>4, <1>7, <2>1
    <3>2. w[i] = d[i] /\ d[i] = IF i < n THEN s[i] ELSE e
      BY <1>7, <1>9, <3>1
    <3> QED BY <1>1, <2>1, <3>2
  <2>2. CASE i > n
    <3>1. i - n \in 1 .. Len(s) - n + 1 /\ n + (i - n) - 1 = i - 1
      BY <1>1, <2>2
    <3>2. b[i - n] = s[i - 1]
      BY <1>4, <3>1
    <3>3. /\ i \in 1 .. Len(d) + Len(b) /\ ~(i <= Len(d)) /\ i - Len(d) = i - n
          /\ ~(i < n) /\ i # n
      BY <1>1, <1>4, <1>7, <2>2
    <3>4. w[i] = b[i - Len(d)]
      BY <1>9, <3>3
    <3> QED BY <3>2, <3>3, <3>4
  <2> QED BY <1>1, <2>1, <2>2
<1> QED BY <1>1, <1>4, <1>7, <1>8, <1>9, <1>10

\* A tile is moved: where each tile of the new list was before.
Was(i, from, to) ==
    IF i = to THEN from
    ELSE IF (IF i < to THEN i ELSE i - 1) < from THEN (IF i < to THEN i ELSE i - 1)
    ELSE (IF i < to THEN i ELSE i - 1) + 1

LEMMA TileMoved ==
  ASSUME NEW s \in Seq(Img), NEW from \in 1 .. Len(s), NEW to \in 1 .. Len(s)
  PROVE  /\ Moved(s, from, to) \in Seq(Img) /\ Len(Moved(s, from, to)) = Len(s)
         /\ \A i \in 1 .. Len(s) : Was(i, from, to) \in 1 .. Len(s)
                                   /\ Moved(s, from, to)[i] = s[Was(i, from, to)]
<1>1. Len(s) \in Nat /\ \A i \in 1 .. Len(s) : s[i] \in Img
  BY LenProperties, ElementOfSeq
<1>2. PICK t : t = RemoveAt(s, from)
  OBVIOUS
<1>3. /\ t \in Seq(Img) /\ Len(t) = Len(s) - 1
      /\ \A i \in 1 .. Len(s) - 1 : t[i] = s[IF i < from THEN i ELSE i + 1]
  BY <1>2, TileOut
<1>4. PICK e : e = s[from]
  OBVIOUS
<1>5. e \in Img /\ to \in 1 .. Len(t) + 1
  BY <1>1, <1>3, <1>4
<1>6. PICK u : u = InsertAt(t, to, e)
  OBVIOUS
<1>7. /\ u \in Seq(Img) /\ Len(u) = Len(t) + 1
      /\ \A i \in 1 .. Len(t) + 1 : u[i] = IF i < to THEN t[i] ELSE IF i = to THEN e ELSE t[i - 1]
  <2>1. t \in Seq(Img) /\ to \in 1 .. Len(t) + 1 /\ e \in Img
    BY <1>3, <1>5
  <2>2. /\ InsertAt(t, to, e) \in Seq(Img) /\ Len(InsertAt(t, to, e)) = Len(t) + 1
        /\ \A i \in 1 .. Len(t) + 1 :
             InsertAt(t, to, e)[i] = IF i < to THEN t[i] ELSE IF i = to THEN e ELSE t[i - 1]
    BY <2>1, TileIn
  <2> QED BY <1>6, <2>2
<1>8. Moved(s, from, to) = u
  BY <1>2, <1>4, <1>6 DEF Moved
<1>9. ASSUME NEW i \in 1 .. Len(s)
      PROVE  Was(i, from, to) \in 1 .. Len(s) /\ u[i] = s[Was(i, from, to)]
  <2>1. CASE i = to
    BY <1>1, <1>3, <1>4, <1>7, <2>1 DEF Was
  <2>2. CASE i # to
    <3>1. PICK k : k = IF i < to THEN i ELSE i - 1
      OBVIOUS
    <3>2. k \in 1 .. Len(s) - 1 /\ u[i] = t[k]
      BY <1>1, <1>3, <1>7, <2>2, <3>1
    <3>3. Was(i, from, to) = IF k < from THEN k ELSE k + 1
      BY <2>2, <3>1 DEF Was
    <3> QED BY <1>1, <1>3, <3>2, <3>3
  <2> QED BY <2>1, <2>2
<1> QED BY <1>1, <1>3, <1>7, <1>8, <1>9

\* What a list that shows the rows says of them.
LEMMA ShownRows ==
  ASSUME NEW s, NEW rows, Shows(s, rows)
  PROVE  /\ s \in Seq(Img) /\ Len(s) \in Nat /\ DOMAIN s = 1 .. Len(s)
         /\ \A i \in 1 .. Len(s) : s[i] \in Img /\ s[i] \in rows
         /\ \A i, j \in 1 .. Len(s) : i < j => Before(s[i], s[j])
         /\ \A i, j \in 1 .. Len(s) : s[i].id = s[j].id => i = j
         /\ \A r \in rows : \E i \in 1 .. Len(s) : s[i] = r
<1>1. s \in Seq(Img)
  BY DEF Shows, Lined
<1>2. Len(s) \in Nat /\ DOMAIN s = 1 .. Len(s) /\ \A i \in 1 .. Len(s) : s[i] \in Img
  BY <1>1, LenProperties, ElementOfSeq
<1> QED BY <1>1, <1>2 DEF Shows, Lined

\* A list with the facts of ShownRows shows the rows.
LEMMA ShownIf ==
  ASSUME NEW s, NEW rows, s \in Seq(Img),
         \A i, j \in 1 .. Len(s) : i < j => Before(s[i], s[j]),
         \A i, j \in 1 .. Len(s) : s[i].id = s[j].id => i = j,
         \A i \in 1 .. Len(s) : s[i] \in rows,
         \A r \in rows : \E i \in 1 .. Len(s) : s[i] = r
  PROVE  Shows(s, rows)
BY DEF Shows, Lined

\* The row of an upload: a new id, and a number after all others.
NewRow(rows, next) ==
    [id |-> next, cap |-> "none",
     ord |-> IF {r.ord : r \in rows} = {} THEN 0
             ELSE (CHOOSE m \in {r.ord : r \in rows} : \A o \in {r.ord : r \in rows} : o <= m) + 1]

LEMMA NewRowIsLast ==
  ASSUME NEW rows, NEW next \in Nat, GalleryOf(rows, next), NEW s, Shows(s, rows)
  PROVE  /\ NewRow(rows, next) \in Img
         /\ \A r \in rows : Before(r, NewRow(rows, next)) /\ r.id # NewRow(rows, next).id
<1>1. /\ Len(s) \in Nat /\ \A i \in 1 .. Len(s) : s[i] \in Img /\ s[i] \in rows
      /\ \A i, j \in 1 .. Len(s) : i < j => Before(s[i], s[j])
      /\ \A r \in rows : \E i \in 1 .. Len(s) : s[i] = r
  BY ShownRows
<1>2. rows \subseteq Img /\ \A r \in rows : r.id < next
  BY DEF GalleryOf
<1>3. PICK last : last = {r.ord : r \in rows}
  OBVIOUS
<1>4. PICK row : row = NewRow(rows, next)
  OBVIOUS
<1>5. CASE last = {}
  <2>1. row = [id |-> next, cap |-> "none", ord |-> 0] /\ rows = {}
    BY <1>3, <1>4, <1>5 DEF NewRow
  <2> QED BY <1>4, <2>1 DEF Img, Captions
<1>6. CASE last # {}
  <2>1. rows # {}
    BY <1>3, <1>6
  <2>2. Len(s) \in 1 .. Len(s)
    BY <1>1, <2>1
  <2>3. s[Len(s)].ord \in last
    BY <1>1, <1>3, <2>2
  <2>4. \A r \in rows : r.ord <= s[Len(s)].ord
    <3>1. SUFFICES ASSUME NEW r \in rows PROVE r.ord <= s[Len(s)].ord
      OBVIOUS
    <3>2. PICK i \in 1 .. Len(s) : s[i] = r
      BY <1>1
    <3>3. CASE i = Len(s)
      BY <1>1, <2>2, <3>2, <3>3 DEF Img
    <3>4. CASE i < Len(s)
      BY <1>1, <2>2, <3>2, <3>4 DEF Img, Before
    <3> QED BY <1>1, <3>3, <3>4
  <2>5. \A o \in last : o <= s[Len(s)].ord
    BY <1>3, <2>4
  <2>6. PICK m : m = CHOOSE k \in last : \A o \in last : o <= k
    OBVIOUS
  <2>7. m \in last /\ \A o \in last : o <= m
    BY <2>3, <2>5, <2>6
  <2>8. m \in Nat /\ \A r \in rows : r.ord <= m
    BY <1>2, <1>3, <2>7 DEF Img
  <2>9. row = [id |-> next, cap |-> "none", ord |-> m + 1]
    BY <1>3, <1>4, <1>6, <2>6 DEF NewRow
  <2>10. row \in Img
    BY <2>8, <2>9 DEF Img, Captions
  <2>11. \A r \in rows : Before(r, row) /\ r.id # row.id
    BY <1>2, <2>8, <2>9 DEF Img, Before
  <2> QED BY <1>4, <2>10, <2>11
<1> QED BY <1>5, <1>6

\* Uploading keeps the list in order, and the gallery a gallery.
LEMMA UploadShows ==
  ASSUME NEW rows, NEW next \in Nat, GalleryOf(rows, next), NEW s, Shows(s, rows),
         NEW row, row = NewRow(rows, next)
  PROVE  /\ row \in Img /\ Shows(Append(s, row), rows \cup {row})
         /\ GalleryOf(rows \cup {row}, next + 1)
<1>1. /\ s \in Seq(Img) /\ Len(s) \in Nat
      /\ \A i \in 1 .. Len(s) : s[i] \in Img /\ s[i] \in rows
      /\ \A i, j \in 1 .. Len(s) : i < j => Before(s[i], s[j])
      /\ \A i, j \in 1 .. Len(s) : s[i].id = s[j].id => i = j
      /\ \A r \in rows : \E i \in 1 .. Len(s) : s[i] = r
  BY ShownRows
<1>2. row \in Img /\ \A r \in rows : Before(r, row) /\ r.id # row.id
  BY NewRowIsLast
<1>3. PICK t : t = Append(s, row)
  OBVIOUS
<1>4. /\ t \in Seq(Img) /\ Len(t) = Len(s) + 1 /\ t[Len(s) + 1] = row
      /\ \A i \in 1 .. Len(s) : t[i] = s[i]
  BY <1>1, <1>2, <1>3, AppendProperties
<1>5. ASSUME NEW i \in 1 .. Len(t), NEW j \in 1 .. Len(t), i < j PROVE Before(t[i], t[j])
  <2>1. i \in 1 .. Len(s) /\ (j = Len(s) + 1 \/ j \in 1 .. Len(s))
    BY <1>1, <1>4, <1>5
  <2> QED BY <1>1, <1>2, <1>4, <1>5, <2>1
<1>6. ASSUME NEW i \in 1 .. Len(t), NEW j \in 1 .. Len(t), t[i].id = t[j].id PROVE i = j
  <2>1. (i = Len(s) + 1 \/ i \in 1 .. Len(s)) /\ (j = Len(s) + 1 \/ j \in 1 .. Len(s))
    BY <1>1, <1>4
  <2> QED BY <1>1, <1>2, <1>4, <1>6, <2>1
<1>7. \A i \in 1 .. Len(t) : t[i] \in rows \cup {row}
  <2>1. \A i \in 1 .. Len(t) : i = Len(s) + 1 \/ i \in 1 .. Len(s)
    BY <1>1, <1>4
  <2> QED BY <1>1, <1>4, <2>1
<1>8. ASSUME NEW r \in rows \cup {row} PROVE \E i \in 1 .. Len(t) : t[i] = r
  <2>1. Len(s) + 1 \in 1 .. Len(t) /\ \A i \in 1 .. Len(s) : i \in 1 .. Len(t)
    BY <1>1, <1>4
  <2>2. CASE r = row
    BY <1>4, <2>1, <2>2
  <2>3. CASE r \in rows
    <3>1. PICK i \in 1 .. Len(s) : s[i] = r
      BY <1>1, <2>3
    <3> QED BY <1>4, <2>1, <3>1
  <2> QED BY <2>2, <2>3
<1>9. Shows(t, rows \cup {row})
  BY <1>4, <1>5, <1>6, <1>7, <1>8, ShownIf
<1>10. GalleryOf(rows \cup {row}, next + 1)
  <2>1. /\ IsFiniteSet(rows) /\ rows \subseteq Img /\ \A a, b \in rows : a.id = b.id => a = b
        /\ \A a \in rows : a.id < next
    BY DEF GalleryOf
  <2>2. IsFiniteSet(rows \cup {row})
    BY <2>1, FS_AddElement
  <2>3. row.id = next
    BY DEF NewRow
  <2>4. rows \cup {row} \subseteq Img /\ \A a \in rows \cup {row} : a.id < next + 1
    BY <1>2, <2>1, <2>3 DEF Img
  <2>5. \A a, b \in rows \cup {row} : a.id = b.id => a = b
    BY <1>2, <2>1
  <2> QED BY <2>2, <2>4, <2>5 DEF GalleryOf
<1> QED BY <1>2, <1>3, <1>9, <1>10

\* A row is rewritten: the rows but for the one of the id.
Others(rows, id) == {r \in rows : r.id # id}

\* A row of a gallery is rewritten or deleted.
LEMMA RowsRewritten ==
  ASSUME NEW rows, NEW next, GalleryOf(rows, next), NEW r \in rows, NEW q \in Img, q.id = r.id
  PROVE  /\ GalleryOf(Others(rows, r.id), next)
         /\ GalleryOf(Others(rows, r.id) \cup {q}, next)
         /\ rows \ {p \in rows : p.id = r.id} = Others(rows, r.id)
         /\ {p \in rows : p.id = r.id} = {r}
<1>1. /\ IsFiniteSet(rows) /\ rows \subseteq Img /\ \A a, b \in rows : a.id = b.id => a = b
      /\ \A a \in rows : a.id < next
  BY DEF GalleryOf
<1>2. PICK O : O = Others(rows, r.id)
  OBVIOUS
<1>3. O \subseteq rows /\ (\A a \in O : a.id # r.id) /\ IsFiniteSet(O)
  <2>1. O \subseteq rows /\ \A a \in O : a.id # r.id
    BY <1>2 DEF Others
  <2> QED BY <1>1, <2>1, FS_Subset
<1>4. IsFiniteSet(O \cup {q})
  BY <1>3, FS_AddElement
<1>5. GalleryOf(O, next)
  BY <1>1, <1>3 DEF GalleryOf
<1>6. O \cup {q} \subseteq Img /\ (\A a \in O \cup {q} : a.id < next)
      /\ \A a, b \in O \cup {q} : a.id = b.id => a = b
  BY <1>1, <1>3
<1>7. GalleryOf(O \cup {q}, next)
  BY <1>4, <1>6 DEF GalleryOf
<1>8. {p \in rows : p.id = r.id} = {r}
  BY <1>1
<1>9. rows \ {p \in rows : p.id = r.id} = Others(rows, r.id)
  BY DEF Others
<1> QED BY <1>2, <1>5, <1>7, <1>8, <1>9

\* A caption does not move the tile.
LEMMA CaptionShows ==
  ASSUME NEW rows, NEW s, Shows(s, rows), NEW r \in rows, NEW q \in Img, q.id = r.id,
         q.ord = r.ord
  PROVE  Shows(Captioned(s, r.id, q), Others(rows, r.id) \cup {q})
<1>1. /\ s \in Seq(Img) /\ Len(s) \in Nat /\ DOMAIN s = 1 .. Len(s)
      /\ \A i \in 1 .. Len(s) : s[i] \in Img /\ s[i] \in rows
      /\ \A i, j \in 1 .. Len(s) : i < j => Before(s[i], s[j])
      /\ \A i, j \in 1 .. Len(s) : s[i].id = s[j].id => i = j
      /\ \A a \in rows : \E i \in 1 .. Len(s) : s[i] = a
  BY ShownRows
<1>2. PICK n \in 1 .. Len(s) : s[n] = r
  BY <1>1
<1>3. PICK t : t = Captioned(s, r.id, q)
  OBVIOUS
<1>4. t = [i \in 1 .. Len(s) |-> IF i = n THEN q ELSE s[i]]
  BY <1>1, <1>2, <1>3 DEF Captioned
<1>5. t \in Seq(Img) /\ Len(t) = Len(s)
  <2>1. \A i \in 1 .. Len(s) : t[i] \in Img
    BY <1>1, <1>4
  <2> QED BY <1>1, <1>4, <2>1
<1>6. \A i \in 1 .. Len(s) : t[i].id = s[i].id /\ t[i].ord = s[i].ord
  BY <1>2, <1>4
<1>7. \A i, j \in 1 .. Len(t) : i < j => Before(t[i], t[j])
  BY <1>1, <1>5, <1>6 DEF Before
<1>8. \A i, j \in 1 .. Len(t) : t[i].id = t[j].id => i = j
  BY <1>1, <1>5, <1>6
<1>9. \A i \in 1 .. Len(t) : t[i] \in Others(rows, r.id) \cup {q}
  BY <1>1, <1>2, <1>4, <1>5 DEF Others
<1>10. ASSUME NEW a \in Others(rows, r.id) \cup {q} PROVE \E i \in 1 .. Len(t) : t[i] = a
  <2>1. CASE a = q
    BY <1>2, <1>4, <1>5, <2>1
  <2>2. CASE a \in Others(rows, r.id)
    <3>1. a \in rows /\ a.id # r.id
      BY <2>2 DEF Others
    <3>2. PICK i \in 1 .. Len(s) : s[i] = a
      BY <1>1, <3>1
    <3>3. t[i] = a
      BY <1>2, <1>4, <3>1, <3>2
    <3> QED BY <1>5, <3>2, <3>3
  <2> QED BY <2>1, <2>2
<1>11. Shows(t, Others(rows, r.id) \cup {q})
  BY <1>5, <1>7, <1>8, <1>9, <1>10, ShownIf
<1> QED BY <1>3, <1>11

\* A deletion leaves the others in order.
LEMMA RemovalShows ==
  ASSUME NEW rows, NEW s, Shows(s, rows), NEW r \in rows
  PROVE  Shows(WithoutTile(s, r.id), Others(rows, r.id))
<1>1. /\ s \in Seq(Img) /\ Len(s) \in Nat /\ DOMAIN s = 1 .. Len(s)
      /\ \A i \in 1 .. Len(s) : s[i] \in Img /\ s[i] \in rows
      /\ \A i, j \in 1 .. Len(s) : i < j => Before(s[i], s[j])
      /\ \A i, j \in 1 .. Len(s) : s[i].id = s[j].id => i = j
      /\ \A a \in rows : \E i \in 1 .. Len(s) : s[i] = a
  BY ShownRows
<1>2. PICK m \in 1 .. Len(s) : s[m] = r
  BY <1>1
<1>3. PICK n : n = CHOOSE i \in DOMAIN s : s[i].id = r.id
  OBVIOUS
<1>4. n = m /\ n \in 1 .. Len(s) /\ s[n] = r
  <2>1. m \in DOMAIN s /\ s[m].id = r.id
    BY <1>1, <1>2
  <2>2. n \in DOMAIN s /\ s[n].id = r.id
    BY <1>3, <2>1
  <2> QED BY <1>1, <1>2, <2>1, <2>2
<1>5. r.id \in ToSet(Ids(s))
  <2>1. DOMAIN Ids(s) = DOMAIN s /\ Ids(s)[m] = r.id
    BY <1>1, <1>2 DEF Ids
  <2> QED BY <1>1, <1>2, <2>1 DEF ToSet
<1>6. PICK t : t = RemoveAt(s, n) /\ t = WithoutTile(s, r.id)
  <2>1. WithoutTile(s, r.id) = RemoveAt(s, CHOOSE i \in DOMAIN s : s[i].id = r.id)
    BY <1>5 DEF WithoutTile
  <2> QED BY <1>3, <2>1
<1>7. /\ t \in Seq(Img) /\ Len(t) = Len(s) - 1
      /\ \A i \in 1 .. Len(s) - 1 : t[i] = s[IF i < n THEN i ELSE i + 1]
  <2>1. /\ RemoveAt(s, n) \in Seq(Img) /\ Len(RemoveAt(s, n)) = Len(s) - 1
        /\ \A i \in 1 .. Len(s) - 1 : RemoveAt(s, n)[i] = s[IF i < n THEN i ELSE i + 1]
    BY <1>1, <1>4, TileOut
  <2> QED BY <1>6, <2>1
<1>8. PICK F : F = [i \in 1 .. Len(s) - 1 |-> IF i < n THEN i ELSE i + 1]
  OBVIOUS
<1>9. /\ \A i \in 1 .. Len(t) : F[i] \in 1 .. Len(s) /\ F[i] # n /\ t[i] = s[F[i]]
      /\ \A i, j \in 1 .. Len(t) : i < j => F[i] < F[j]
      /\ \A i, j \in 1 .. Len(t) : F[i] = F[j] => i = j
  BY <1>1, <1>4, <1>7, <1>8
<1>10. ASSUME NEW i \in 1 .. Len(t), NEW j \in 1 .. Len(t), i < j
       PROVE  Before(t[i], t[j])
  <2>1. F[i] \in 1 .. Len(s) /\ F[j] \in 1 .. Len(s) /\ F[i] < F[j]
    BY <1>9, <1>10
  <2>2. Before(s[F[i]], s[F[j]])
    BY <1>1, <2>1
  <2> QED BY <1>9, <2>2
<1>11. ASSUME NEW i \in 1 .. Len(t), NEW j \in 1 .. Len(t), t[i].id = t[j].id
       PROVE  i = j
  <2>1. F[i] \in 1 .. Len(s) /\ F[j] \in 1 .. Len(s) /\ s[F[i]].id = s[F[j]].id
    BY <1>9, <1>11
  <2>2. F[i] = F[j]
    BY <1>1, <2>1
  <2> QED BY <1>9, <2>2
<1>12. \A i \in 1 .. Len(t) : t[i] \in Others(rows, r.id)
  BY <1>1, <1>4, <1>9 DEF Others
<1>13. ASSUME NEW a \in Others(rows, r.id) PROVE \E i \in 1 .. Len(t) : t[i] = a
  <2>1. a \in rows /\ a.id # r.id
    BY DEF Others
  <2>2. PICK k \in 1 .. Len(s) : s[k] = a
    BY <1>1, <2>1
  <2>3. k # n
    BY <1>4, <2>1, <2>2
  <2>4. PICK i : i = IF k < n THEN k ELSE k - 1
    OBVIOUS
  <2>5. i \in 1 .. Len(t) /\ F[i] = k
    BY <1>1, <1>4, <1>7, <1>8, <2>3, <2>4
  <2> QED BY <1>9, <2>2, <2>5
<1>14. Shows(t, Others(rows, r.id))
  <2>1. t \in Seq(Img) /\ \A a \in Others(rows, r.id) : \E i \in 1 .. Len(t) : t[i] = a
    BY <1>7, <1>13
  <2> QED BY <1>10, <1>11, <1>12, <2>1, ShownIf
<1> QED BY <1>6, <1>14

\* ... and where each tile of the old list is now.
Now(k, from, to) ==
    IF k = from THEN to
    ELSE IF (IF k < from THEN k ELSE k - 1) < to THEN (IF k < from THEN k ELSE k - 1)
    ELSE (IF k < from THEN k ELSE k - 1) + 1

LEMMA WasOnce ==
  ASSUME NEW n \in Nat, NEW from \in 1 .. n, NEW to \in 1 .. n
  PROVE  /\ \A i, j \in 1 .. n : Was(i, from, to) = Was(j, from, to) => i = j
         /\ \A k \in 1 .. n : Now(k, from, to) \in 1 .. n /\ Was(Now(k, from, to), from, to) = k
<1>1. \A i, j \in 1 .. n : Was(i, from, to) = Was(j, from, to) => i = j
  BY DEF Was
<1>2. \A k \in 1 .. n : Now(k, from, to) \in 1 .. n /\ Was(Now(k, from, to), from, to) = k
  BY DEF Was, Now
<1> QED BY <1>1, <1>2

\* The grid moveTo shows at once: the same images, numbered from the front.
LEMMA GridRenumbered ==
  ASSUME NEW s, Lined(s), NEW from \in 1 .. Len(s), NEW to \in 1 .. Len(s), NEW g,
         g = Renumbered(Moved(s, from, to))
  PROVE  /\ Lined(g) /\ Len(g) = Len(s) /\ Len(s) \in Nat /\ DOMAIN g = 1 .. Len(s)
         /\ \A i \in 1 .. Len(s) :
              /\ Was(i, from, to) \in 1 .. Len(s) /\ s[Was(i, from, to)] \in Img
              /\ g[i] = [id |-> s[Was(i, from, to)].id, cap |-> s[Was(i, from, to)].cap,
                         ord |-> i - 1]
<1>1. /\ s \in Seq(Img) /\ Len(s) \in Nat /\ \A i \in 1 .. Len(s) : s[i] \in Img
  BY LenProperties, ElementOfSeq DEF Lined
<1>2. \A i, j \in 1 .. Len(s) : s[i].id = s[j].id => i = j
  BY DEF Lined
<1>3. PICK m : m = Moved(s, from, to)
  OBVIOUS
<1>4. /\ m \in Seq(Img) /\ Len(m) = Len(s)
      /\ \A i \in 1 .. Len(s) : Was(i, from, to) \in 1 .. Len(s) /\ m[i] = s[Was(i, from, to)]
  BY <1>1, <1>3, TileMoved
<1>5. DOMAIN m = 1 .. Len(s)
  BY <1>4, LenProperties
<1>6. g = [i \in 1 .. Len(s) |-> [m[i] EXCEPT !.ord = i - 1]]
  BY <1>3, <1>5 DEF Renumbered
<1>7. ASSUME NEW i \in 1 .. Len(s)
      PROVE  /\ Was(i, from, to) \in 1 .. Len(s) /\ s[Was(i, from, to)] \in Img
             /\ g[i] = [id |-> s[Was(i, from, to)].id, cap |-> s[Was(i, from, to)].cap,
                        ord |-> i - 1]
  <2>1. Was(i, from, to) \in 1 .. Len(s) /\ s[Was(i, from, to)] \in Img
    BY <1>1, <1>4
  <2>2. PICK r : r = s[Was(i, from, to)]
    OBVIOUS
  <2>3. g[i] = [r EXCEPT !.ord = i - 1] /\ r \in Img
    BY <1>4, <1>6, <2>1, <2>2
  <2>4. g[i] = [id |-> r.id, cap |-> r.cap, ord |-> i - 1]
    BY <2>3 DEF Img
  <2> QED BY <2>1, <2>2, <2>4
<1>8. ASSUME NEW i \in 1 .. Len(s)
      PROVE  g[i] \in Img /\ g[i].ord = i - 1 /\ g[i].id = s[Was(i, from, to)].id
  <2>1. PICK r : r = s[Was(i, from, to)]
    OBVIOUS
  <2>2. r \in Img /\ g[i] = [id |-> r.id, cap |-> r.cap, ord |-> i - 1]
    BY <1>7, <2>1
  <2>3. i - 1 \in Nat
    BY <1>1
  <2> QED BY <2>1, <2>2, <2>3 DEF Img
<1>9. g \in Seq(Img) /\ Len(g) = Len(s) /\ DOMAIN g = 1 .. Len(s)
  <2>1. g = [i \in 1 .. Len(s) |-> g[i]] /\ \A i \in 1 .. Len(s) : g[i] \in Img
    BY <1>6, <1>8
  <2>2. g \in [1 .. Len(s) -> Img]
    BY <2>1
  <2> QED BY <1>1, <2>2
<1>10. \A i, j \in 1 .. Len(g) : i < j => Before(g[i], g[j])
  BY <1>1, <1>8, <1>9 DEF Before
<1>11. ASSUME NEW i \in 1 .. Len(g), NEW j \in 1 .. Len(g), g[i].id = g[j].id PROVE i = j
  <2>1. i \in 1 .. Len(s) /\ j \in 1 .. Len(s)
    BY <1>9
  <2>2. s[Was(i, from, to)].id = s[Was(j, from, to)].id
    BY <1>8, <1>11, <2>1
  <2>3. Was(i, from, to) = Was(j, from, to)
    BY <1>2, <1>7, <2>1, <2>2
  <2> QED BY <1>1, <2>1, <2>3, WasOnce
<1> QED BY <1>1, <1>7, <1>9, <1>10, <1>11 DEF Lined

\* The number an image had.
LEMMA OrdOf ==
  ASSUME NEW s, Lined(s), NEW k \in 1 .. Len(s)
  PROVE  OrdIn(s, s[k].id) = s[k].ord
<1>1. s \in Seq(Img) /\ DOMAIN s = 1 .. Len(s)
  BY LenProperties DEF Lined
<1>2. \A i, j \in 1 .. Len(s) : s[i].id = s[j].id => i = j
  BY DEF Lined
<1>3. PICK n : n = CHOOSE i \in DOMAIN s : s[i].id = s[k].id
  OBVIOUS
<1>4. n \in DOMAIN s /\ s[n].id = s[k].id
  BY <1>1, <1>3
<1>5. n = k
  BY <1>1, <1>2, <1>4
<1>6. OrdIn(s, s[k].id) = s[n].ord
  BY <1>3 DEF OrdIn
<1> QED BY <1>5, <1>6

\* A move to another place always has a number to write: the tile that was moved and
\* the one that took its place cannot both have had theirs.
LEMMA MoveWrites ==
  ASSUME NEW s, Lined(s), NEW from \in 1 .. Len(s), NEW to \in 1 .. Len(s), from # to, NEW id
  PROVE  Changed(s, Renumbered(Moved(s, from, to)), id) # {}
<1>1. PICK g : g = Renumbered(Moved(s, from, to))
  OBVIOUS
<1>2. /\ Len(g) = Len(s) /\ Len(s) \in Nat /\ DOMAIN g = 1 .. Len(s)
      /\ \A i \in 1 .. Len(s) :
           /\ Was(i, from, to) \in 1 .. Len(s) /\ s[Was(i, from, to)] \in Img
           /\ g[i] = [id |-> s[Was(i, from, to)].id, cap |-> s[Was(i, from, to)].cap,
                      ord |-> i - 1]
  BY <1>1, GridRenumbered
<1>3. SUFFICES ASSUME Changed(s, g, id) = {} PROVE FALSE
  BY <1>1
<1>4. ASSUME NEW i \in 1 .. Len(s) PROVE s[Was(i, from, to)].ord = i - 1
  <2>1. g[i] \in ToSet(g)
    BY <1>2 DEF ToSet
  <2>2. OrdIn(s, g[i].id) = g[i].ord
    BY <1>3, <2>1 DEF Changed
  <2>3. g[i].id = s[Was(i, from, to)].id /\ g[i].ord = i - 1 /\ Was(i, from, to) \in 1 .. Len(s)
    BY <1>2
  <2>4. OrdIn(s, s[Was(i, from, to)].id) = s[Was(i, from, to)].ord
    BY <2>3, OrdOf
  <2> QED BY <2>2, <2>3, <2>4
<1>5. s[from].ord = to - 1
  <2>1. Was(to, from, to) = from
    BY DEF Was
  <2> QED BY <1>4, <2>1
<1>6. \A i, j \in 1 .. Len(s) : i < j => Before(s[i], s[j])
  BY DEF Lined
<1>7. CASE from < to
  <2>1. Was(from, from, to) = from + 1 /\ from + 1 \in 1 .. Len(s)
    BY <1>2, <1>7 DEF Was
  <2>2. s[from + 1].ord = from - 1
    BY <1>4, <2>1
  <2>3. Before(s[from], s[from + 1])
    BY <1>2, <1>6, <2>1
  <2> QED BY <1>2, <1>5, <1>7, <2>2, <2>3 DEF Before
<1>8. CASE to < from
  <2>1. Was(from, from, to) = from - 1 /\ from - 1 \in 1 .. Len(s)
    BY <1>2, <1>8 DEF Was
  <2>2. s[from - 1].ord = from - 1
    BY <1>4, <2>1
  <2>3. Before(s[from - 1], s[from])
    BY <1>2, <1>6, <2>1
  <2> QED BY <1>2, <1>5, <1>8, <2>2, <2>3 DEF Before
<1> QED BY <1>2, <1>7, <1>8

\* The row that is written next is one of those to write.
LEMMA NextRowIsOne ==
  ASSUME NEW todo, todo \subseteq Img, todo # {}
  PROVE  NextRow(todo) \in todo
<1>1. PICK T : T = {r.ord : r \in todo}
  OBVIOUS
<1>2. T \subseteq Nat /\ T # {}
  BY <1>1 DEF Img
<1>3. PICK n \in T : \A k \in T : n <= k
  BY <1>2, LeastNumber
<1>4. PICK r \in todo : r.ord = n
  BY <1>1, <1>3
<1>5. \A q \in todo : r.ord <= q.ord
  BY <1>1, <1>3, <1>4
<1>6. \E a \in todo : \A q \in todo : a.ord <= q.ord
  BY <1>4, <1>5
<1> QED BY <1>6 DEF NextRow

\* A move begins: what is still to be written is all that differs.
LEMMA MoveBegins ==
  ASSUME NEW rows, NEW s, Shows(s, rows), NEW from \in 1 .. Len(s), NEW to \in 1 .. Len(s),
         from # to, NEW g, g = Renumbered(Moved(s, from, to)), NEW id, NEW c,
         c.st = "sent", c.todo = Changed(s, g, id), c.snap = s
  PROVE  Lined(g) /\ MoveTrue(c, g, rows)
<1>1. /\ s \in Seq(Img) /\ Len(s) \in Nat
      /\ \A i \in 1 .. Len(s) : s[i] \in Img /\ s[i] \in rows
      /\ \A r \in rows : \E i \in 1 .. Len(s) : s[i] = r
  BY ShownRows
<1>2. Lined(s)
  BY DEF Shows
<1>3. /\ Lined(g) /\ Len(g) = Len(s) /\ DOMAIN g = 1 .. Len(s)
      /\ \A i \in 1 .. Len(s) :
           /\ Was(i, from, to) \in 1 .. Len(s) /\ s[Was(i, from, to)] \in Img
           /\ g[i] = [id |-> s[Was(i, from, to)].id, cap |-> s[Was(i, from, to)].cap,
                      ord |-> i - 1]
  BY <1>2, GridRenumbered
<1>4. c.todo # {}
  BY <1>2, MoveWrites
<1>5. \A x \in c.todo : \E i \in 1 .. Len(g) : x = g[i]
  BY <1>3 DEF Changed, ToSet
<1>6. Unwritten(c) = c.todo
  BY DEF Unwritten
<1>7. ASSUME NEW r \in rows
      PROVE  \E i \in 1 .. Len(g) :
               /\ r.id = g[i].id /\ r.cap = g[i].cap
               /\ g[i] \notin Unwritten(c) => r = g[i]
  <2>1. PICK k \in 1 .. Len(s) : s[k] = r
    BY <1>1
  <2>2. PICK i \in 1 .. Len(s) : Was(i, from, to) = k
    <3>1. Now(k, from, to) \in 1 .. Len(s) /\ Was(Now(k, from, to), from, to) = k
      BY <1>1, WasOnce
    <3> QED BY <3>1
  <2>3. g[i] = [id |-> r.id, cap |-> r.cap, ord |-> i - 1] /\ r \in Img
    BY <1>1, <1>3, <2>1, <2>2
  <2>4. ASSUME g[i] \notin Unwritten(c) PROVE r = g[i]
    <3>1. g[i] \in ToSet(g)
      BY <1>3 DEF ToSet
    <3>2. OrdIn(s, g[i].id) = g[i].ord
      BY <1>6, <2>4, <3>1 DEF Changed
    <3>3. OrdIn(s, s[k].id) = s[k].ord
      BY <1>2, OrdOf
    <3>4. r.ord = i - 1
      BY <2>1, <2>3, <3>2, <3>3
    <3> QED BY <2>3, <3>4 DEF Img
  <2>5. i \in 1 .. Len(g) /\ r.id = g[i].id /\ r.cap = g[i].cap
    BY <1>3, <2>3
  <2> QED BY <2>4, <2>5
<1>8. ASSUME NEW i \in 1 .. Len(g) PROVE \E r \in rows : r.id = g[i].id
  <2>1. i \in 1 .. Len(s)
    BY <1>3
  <2>2. s[Was(i, from, to)] \in rows /\ s[Was(i, from, to)].id = g[i].id
    <3>1. PICK w : w = Was(i, from, to)
      OBVIOUS
    <3>2. w \in 1 .. Len(s) /\ g[i] = [id |-> s[w].id, cap |-> s[w].cap, ord |-> i - 1]
      BY <1>3, <2>1, <3>1
    <3>3. s[w] \in rows /\ s[w].id = g[i].id
      BY <1>1, <3>2
    <3> QED BY <3>1, <3>3
  <2> QED BY <2>2
<1> QED BY <1>3, <1>4, <1>5, <1>7, <1>8 DEF MoveTrue

\* One more number is written.
LEMMA MoveRowWritten ==
  ASSUME NEW rows, NEW next, GalleryOf(rows, next), NEW g, Lined(g), NEW c, c.st = "sent",
         MoveTrue(c, g, rows), NEW nr, nr = NextRow(c.todo), NEW r \in rows, r.id = nr.id,
         NEW q, q = [r EXCEPT !.ord = nr.ord], NEW d, d.st = "done", d.todo = c.todo
  PROVE  q \in Img /\ q.id = r.id /\ MoveTrue(d, g, Others(rows, r.id) \cup {q})
<1>1. /\ g \in Seq(Img) /\ \A i \in 1 .. Len(g) : g[i] \in Img
      /\ \A i, j \in 1 .. Len(g) : g[i].id = g[j].id => i = j
  BY LenProperties, ElementOfSeq DEF Lined
<1>2. /\ c.todo # {} /\ \A x \in c.todo : \E i \in 1 .. Len(g) : x = g[i]
      /\ \A a \in rows : \E i \in 1 .. Len(g) :
           /\ a.id = g[i].id /\ a.cap = g[i].cap
           /\ g[i] \notin Unwritten(c) => a = g[i]
      /\ \A i \in 1 .. Len(g) : \E a \in rows : a.id = g[i].id
  BY DEF MoveTrue
<1>3. c.todo \subseteq Img
  BY <1>1, <1>2
<1>4. nr \in c.todo
  BY <1>2, <1>3, NextRowIsOne
<1>5. PICK k \in 1 .. Len(g) : nr = g[k]
  BY <1>2, <1>4
<1>6. Unwritten(c) = c.todo /\ Unwritten(d) = c.todo \ {nr}
  BY DEF Unwritten
<1>7. r \in Img /\ nr \in Img
  BY <1>3, <1>4 DEF GalleryOf
<1>8. q = [id |-> r.id, cap |-> r.cap, ord |-> nr.ord] /\ q \in Img
  BY <1>7 DEF Img
<1>9. q = nr
  <2>1. PICK i \in 1 .. Len(g) : r.id = g[i].id /\ r.cap = g[i].cap
    BY <1>2
  <2>2. i = k
    BY <1>1, <1>5, <2>1
  <2>3. r.cap = nr.cap
    BY <1>5, <2>1, <2>2
  <2> QED BY <1>7, <1>8, <2>3 DEF Img
<1>10. ASSUME NEW a \in Others(rows, r.id) \cup {q}
       PROVE  \E i \in 1 .. Len(g) :
                /\ a.id = g[i].id /\ a.cap = g[i].cap
                /\ g[i] \notin Unwritten(d) => a = g[i]
  <2>1. CASE a = q
    BY <1>5, <1>9, <2>1
  <2>2. CASE a \in Others(rows, r.id)
    <3>1. a \in rows /\ a.id # nr.id
      BY <2>2 DEF Others
    <3>2. PICK i \in 1 .. Len(g) :
            /\ a.id = g[i].id /\ a.cap = g[i].cap
            /\ g[i] \notin Unwritten(c) => a = g[i]
      BY <1>2, <3>1
    <3>3. g[i] # nr
      BY <3>1, <3>2
    <3> QED BY <1>6, <3>2, <3>3
  <2> QED BY <2>1, <2>2
<1>11. ASSUME NEW i \in 1 .. Len(g) PROVE \E a \in Others(rows, r.id) \cup {q} : a.id = g[i].id
  <2>1. PICK a \in rows : a.id = g[i].id
    BY <1>2
  <2>2. CASE a.id = r.id
    BY <1>8, <2>1, <2>2
  <2>3. CASE a.id # r.id
    <3>1. a \in Others(rows, r.id)
      BY <2>3 DEF Others
    <3> QED BY <2>1, <3>1
  <2> QED BY <2>2, <2>3
<1> QED BY <1>2, <1>8, <1>10, <1>11 DEF MoveTrue

\* Once the last number is written, the rows are those of the grid.
LEMMA MoveEnds ==
  ASSUME NEW rows, NEW g, Lined(g), NEW c, MoveTrue(c, g, rows), Unwritten(c) = {}
  PROVE  Shows(g, rows)
<1>1. /\ \A i, j \in 1 .. Len(g) : g[i].id = g[j].id => i = j
      /\ \A a \in rows : \E i \in 1 .. Len(g) : a = g[i]
      /\ \A i \in 1 .. Len(g) : \E a \in rows : a.id = g[i].id
  BY DEF Lined, MoveTrue
<1>2. ASSUME NEW i \in 1 .. Len(g) PROVE g[i] \in rows
  <2>1. PICK a \in rows : a.id = g[i].id
    BY <1>1
  <2>2. PICK j \in 1 .. Len(g) : a = g[j]
    BY <1>1
  <2> QED BY <1>1, <2>1, <2>2
<1> QED BY <1>1, <1>2 DEF Shows

\* A change is begun: if it is the only one, it begins from what the server has.
LEMMA StartKeeps ==
  ASSUME GalleryInv, NEW q, gp' = q, TabShape(q), ~q.over => ~gp.over /\ gpnet = {},
         q.lost = gp.lost /\ q.half = gp.half, NEW c, gpnet' = gpnet \cup {c},
         gprow' = gprow, TabCall(c),
         Shows(gp.grid, gprow.imgs) /\ gp.theme = gprow.theme =>
           Lined(q.grid) /\ CallTrue(c, q, gprow)
  PROVE  GalleryInv'
<1>1. SUFFICES ASSUME ~q.over, ~q.lost, ~q.half PROVE TabTrue(q, gprow, {c})
  BY DEF GalleryInv
<1>2. TabTrue(gp, gprow, {}) /\ gpnet = {}
  BY <1>1 DEF GalleryInv
<1>3. Shows(gp.grid, gprow.imgs) /\ gp.theme = gprow.theme
  BY <1>2 DEF TabTrue
<1> QED BY <1>2, <1>3 DEF TabTrue

\* A call goes on, or ends (D is what is left of it).
LEMMA CallKeeps ==
  ASSUME GalleryInv, NEW c \in gpnet, NEW q, gp' = q, TabShape(q), q.over = gp.over,
         ~q.lost => ~gp.lost, ~q.half => ~gp.half, NEW row, gprow' = row,
         NEW D, gpnet' = (gpnet \ {c}) \cup D,
         TabTrue(gp, gprow, {c}) /\ ~q.lost /\ ~q.half => TabTrue(q, row, D)
  PROVE  GalleryInv'
<1>1. SUFFICES ASSUME ~q.over, ~q.lost, ~q.half PROVE TabTrue(q, row, gpnet')
  BY DEF GalleryInv
<1>2. TabTrue(gp, gprow, gpnet)
  BY <1>1 DEF GalleryInv
<1>3. gpnet = {c}
  BY <1>2 DEF TabTrue
<1>4. TabTrue(gp, gprow, {c}) /\ gpnet' = D
  BY <1>2, <1>3
<1> QED BY <1>1, <1>4

\* What is left of a call that is over, and of one that goes on.
LEMMA CallOver ==
  ASSUME NEW q, NEW row, row = [imgs |-> row.imgs, theme |-> row.theme, next |-> row.next],
         row.next \in Nat, GalleryOf(row.imgs, row.next), Shows(q.grid, row.imgs),
         q.theme = row.theme
  PROVE  TabTrue(q, row, {})
BY DEF TabTrue, Shows

LEMMA CallGoesOn ==
  ASSUME NEW q, NEW row, row = [imgs |-> row.imgs, theme |-> row.theme, next |-> row.next],
         row.next \in Nat, GalleryOf(row.imgs, row.next), Lined(q.grid), NEW d, TabCall(d),
         CallTrue(d, q, row)
  PROVE  TabTrue(q, row, {d})
BY DEF TabTrue

LEMMA CallFacts ==
  ASSUME NEW c, NEW p, NEW row, TabTrue(p, row, {c})
  PROVE  /\ row = [imgs |-> row.imgs, theme |-> row.theme, next |-> row.next]
         /\ row.next \in Nat /\ GalleryOf(row.imgs, row.next) /\ Lined(p.grid)
         /\ TabCall(c) /\ CallTrue(c, p, row)
BY DEF TabTrue

LEMMA GalleryInit == GPInit => GalleryInv
<1> SUFFICES ASSUME GPInit PROVE GalleryInv
  OBVIOUS
<1>1. PICK imgs \in FirstGalleries :
        /\ gprow = [imgs |-> imgs, theme |-> "sea", next |-> Cardinality(imgs) + 1]
        /\ gp = [grid |-> Display(imgs), theme |-> "sea", busy |-> 0, uploading |-> FALSE,
                 calls |-> 0, over |-> FALSE, lost |-> FALSE, half |-> FALSE]
  BY DEF GPInit
<1>2. gpnet = {}
  BY DEF GPInit
<1>3. GalleryOf(imgs, Cardinality(imgs) + 1)
  BY <1>1, GalleryAssumption
<1>4. Shows(Display(imgs), imgs)
  BY <1>3, DisplayShows
<1>5. Cardinality(imgs) + 1 \in Nat
  BY <1>3, FS_CardinalityType DEF GalleryOf
<1>6. TabShape(gp)
  BY <1>1 DEF TabShape
<1>7. TabTrue(gp, gprow, {})
  BY <1>1, <1>3, <1>4, <1>5, CallOver
<1> QED BY <1>2, <1>6, <1>7 DEF GalleryInv

\* The tab of a change that was begun.
LEMMA StartedTab ==
  ASSUME TabShape(gp)
  PROVE  \E k, o : /\ Started(gp) = [gp EXCEPT !.calls = k, !.over = o]
                   /\ ~o => ~gp.over /\ gpnet = {}
<1>1. PICK o : o = (gp.over \/ gpnet # {})
  OBVIOUS
<1>2. PICK k : k = gp.calls + 1
  OBVIOUS
<1>3. Started(gp) = [gp EXCEPT !.calls = k, !.over = o]
  BY <1>1, <1>2 DEF Started
<1>4. ~o => ~gp.over /\ gpnet = {}
  BY <1>1
<1> QED BY <1>3, <1>4

\* Upload, caption, deletion and palette are begun from the list of the click.
LEMMA GalleryStarts ==
  ASSUME GalleryInv,
         \/ \E n \in 1 .. 2 : UploadFiles(n)
         \/ \E id : RemoveImage(id) \/ \E text \in Captions : SaveCaption(id, text)
         \/ \E p \in Palettes : SelectPalette(p)
  PROVE  GalleryInv'
<1> DEFINE Going(q, t, c, kind) ==
      /\ TabShape(q) /\ q.grid = gp.grid /\ q.theme = t /\ q.lost = gp.lost /\ q.half = gp.half
      /\ ~q.over => ~gp.over /\ gpnet = {}
      /\ gpnet' = gpnet \cup {c} /\ gprow' = gprow
      /\ TabCall(c) /\ c.kind = kind /\ c.st = "sent"
<1>1. TabShape(gp)
  BY DEF GalleryInv
<1>2. PICK k, o : /\ Started(gp) = [gp EXCEPT !.calls = k, !.over = o]
                  /\ ~o => ~gp.over /\ gpnet = {}
  BY <1>1, StartedTab
<1>4. ASSUME NEW n, UploadFiles(n) PROVE GalleryInv'
  <2>1. PICK td : td = IF n <= MaxImages - Len(gp.grid) THEN n ELSE MaxImages - Len(gp.grid)
    OBVIOUS
  <2>2. PICK c : c = [kind |-> "upload", id |-> 0, snap |-> gp.grid, todo |-> td,
                      added |-> <<>>, st |-> "sent", v |-> Nothing, n |-> gp.calls]
    OBVIOUS
  <2>3. PICK q : q = [gp EXCEPT !.calls = k, !.over = o, !.uploading = TRUE]
    OBVIOUS
  <2>a. gp' = q /\ gpnet' = gpnet \cup {c} /\ gprow' = gprow
    BY <1>2, <1>4, <2>1, <2>2, <2>3 DEF UploadFiles, Begin
  <2>b. /\ TabShape(q) /\ q.grid = gp.grid /\ q.over = o /\ q.lost = gp.lost /\ q.half = gp.half
        /\ q.theme = gp.theme
    BY <1>1, <2>3 DEF TabShape
  <2>c. TabCall(c)
    BY <2>2 DEF TabCall
  <2>4. gp' = q /\ Going(q, gp.theme, c, "upload")
    BY <1>2, <2>2, <2>a, <2>b, <2>c
  <2>5. ASSUME Shows(gp.grid, gprow.imgs), gp.theme = gprow.theme
        PROVE  Lined(q.grid) /\ CallTrue(c, q, gprow)
    <3>1. gp.grid \in Seq(Img) /\ Lined(gp.grid)
      BY <2>5 DEF Shows, Lined
    <3>2. gp.grid \o <<>> = gp.grid
      BY <3>1
    <3>3. UploadTrue(c, gp.grid, gprow.imgs)
      BY <2>2, <2>5, <3>2 DEF UploadTrue
    <3> QED BY <2>2, <2>b, <2>5, <3>1, <3>3 DEF CallTrue
  <2> QED BY <2>4, <2>5, StartKeeps
<1>5. ASSUME NEW id, RemoveImage(id) PROVE GalleryInv'
  <2>2. PICK c : c = [kind |-> "remove", id |-> id, snap |-> gp.grid, todo |-> <<>>,
                      added |-> <<>>, st |-> "sent", v |-> Nothing, n |-> gp.calls]
    OBVIOUS
  <2>3. PICK q : q = [gp EXCEPT !.calls = k, !.over = o, !.busy = id]
    OBVIOUS
  <2>a. gp' = q /\ gpnet' = gpnet \cup {c} /\ gprow' = gprow
    BY <1>2, <1>5, <2>2, <2>3 DEF RemoveImage, Begin
  <2>b. /\ TabShape(q) /\ q.grid = gp.grid /\ q.over = o /\ q.lost = gp.lost /\ q.half = gp.half
        /\ q.theme = gp.theme
    BY <1>1, <2>3 DEF TabShape
  <2>c. TabCall(c)
    BY <2>2 DEF TabCall
  <2>4. gp' = q /\ Going(q, gp.theme, c, "remove")
    BY <1>2, <2>2, <2>a, <2>b, <2>c
  <2>5. ASSUME Shows(gp.grid, gprow.imgs), gp.theme = gprow.theme
        PROVE  Lined(q.grid) /\ CallTrue(c, q, gprow)
    BY <2>2, <2>b, <2>5 DEF CallTrue, RemoveTrue, Shows
  <2> QED BY <2>4, <2>5, StartKeeps
<1>6. ASSUME NEW id, NEW text \in Captions, SaveCaption(id, text) PROVE GalleryInv'
  <2>2. PICK c : c = [kind |-> "caption", id |-> id, snap |-> gp.grid, todo |-> text,
                      added |-> <<>>, st |-> "sent", v |-> Nothing, n |-> gp.calls]
    OBVIOUS
  <2>3. PICK q : q = [gp EXCEPT !.calls = k, !.over = o, !.busy = id]
    OBVIOUS
  <2>a. gp' = q /\ gpnet' = gpnet \cup {c} /\ gprow' = gprow
    BY <1>2, <1>6, <2>2, <2>3 DEF SaveCaption, Begin
  <2>b. /\ TabShape(q) /\ q.grid = gp.grid /\ q.over = o /\ q.lost = gp.lost /\ q.half = gp.half
        /\ q.theme = gp.theme
    BY <1>1, <2>3 DEF TabShape
  <2>c. TabCall(c)
    BY <2>2 DEF TabCall
  <2>4. gp' = q /\ Going(q, gp.theme, c, "caption")
    BY <1>2, <2>2, <2>a, <2>b, <2>c
  <2>5. ASSUME Shows(gp.grid, gprow.imgs), gp.theme = gprow.theme
        PROVE  Lined(q.grid) /\ CallTrue(c, q, gprow)
    BY <2>2, <2>b, <2>5 DEF CallTrue, CaptionTrue, Shows
  <2> QED BY <2>4, <2>5, StartKeeps
<1>7. ASSUME NEW p, SelectPalette(p) PROVE GalleryInv'
  <2>2. PICK c : c = [kind |-> "palette", id |-> 0, snap |-> gp.theme, todo |-> p,
                      added |-> <<>>, st |-> "sent", v |-> Nothing, n |-> gp.calls]
    OBVIOUS
  <2>3. PICK q : q = [gp EXCEPT !.calls = k, !.over = o, !.theme = p]
    OBVIOUS
  <2>a. gp' = q /\ gpnet' = gpnet \cup {c} /\ gprow' = gprow
    BY <1>2, <1>7, <2>2, <2>3 DEF SelectPalette
  <2>b. /\ TabShape(q) /\ q.grid = gp.grid /\ q.over = o /\ q.lost = gp.lost /\ q.half = gp.half
        /\ q.theme = p
    BY <1>1, <2>3 DEF TabShape
  <2>c. TabCall(c)
    BY <2>2 DEF TabCall
  <2>4. gp' = q /\ Going(q, p, c, "palette")
    BY <1>2, <2>2, <2>a, <2>b, <2>c
  <2>5. ASSUME Shows(gp.grid, gprow.imgs), gp.theme = gprow.theme
        PROVE  Lined(q.grid) /\ CallTrue(c, q, gprow)
    BY <2>2, <2>b, <2>5 DEF CallTrue, PaletteTrue, Shows
  <2> QED BY <2>4, <2>5, StartKeeps
<1> QED BY <1>4, <1>5, <1>6, <1>7

\* moveTo.
LEMMA GalleryMoves ==
  ASSUME GalleryInv, NEW from, NEW to, MoveTo(from, to)
  PROVE  GalleryInv'
<1>1. PICK n : n = gp.calls + 1
  OBVIOUS
<1>2. TabShape(gp)
  BY DEF GalleryInv
<1>3. PICK k, o : /\ Started(gp) = [gp EXCEPT !.calls = k, !.over = o]
                  /\ ~o => ~gp.over /\ gpnet = {}
  BY <1>2, StartedTab
<1>4. PICK id, g : id = gp.grid[from].id /\ g = Renumbered(Moved(gp.grid, from, to))
  OBVIOUS
<1>5. PICK todo : todo = Changed(gp.grid, g, id)
  OBVIOUS
<1>6. from \in DOMAIN gp.grid /\ to \in DOMAIN gp.grid /\ from # to /\ gprow' = gprow
  BY DEF MoveTo
<1>7. CASE todo = {}
  <2>1. gp' = [gp EXCEPT !.grid = g, !.calls = n] /\ gpnet' = gpnet
    BY <1>1, <1>4, <1>5, <1>7 DEF MoveTo
  <2>2. PICK q : q = [gp EXCEPT !.grid = g, !.calls = n]
    OBVIOUS
  <2>3. gp' = q /\ TabShape(q) /\ q.over = gp.over /\ q.lost = gp.lost /\ q.half = gp.half
    BY <1>2, <2>1, <2>2 DEF TabShape
  <2>4. ASSUME ~gp.over, ~gp.lost, ~gp.half PROVE FALSE
    <3>1. Lined(gp.grid)
      BY <2>4 DEF GalleryInv, TabTrue
    <3>2. DOMAIN gp.grid = 1 .. Len(gp.grid)
      BY <3>1, LenProperties DEF Lined
    <3>3. from \in 1 .. Len(gp.grid) /\ to \in 1 .. Len(gp.grid)
      BY <1>6, <3>2
    <3>4. todo # {}
      BY <1>4, <1>5, <1>6, <3>1, <3>3, MoveWrites
    <3> QED BY <1>7, <3>4
  <2> QED BY <2>3, <2>4 DEF GalleryInv
<1>8. CASE todo # {}
  <2>1. PICK c : c = [kind |-> "move", id |-> id, snap |-> gp.grid, todo |-> todo,
                      added |-> <<>>, st |-> "sent", v |-> Nothing, n |-> gp.calls]
    OBVIOUS
  <2>2. gp' = [Started(gp) EXCEPT !.grid = g, !.busy = id] /\ gpnet' = gpnet \cup {c}
    BY <1>4, <1>5, <1>8, <2>1 DEF MoveTo, Begin
  <2>3. PICK q : q = [gp EXCEPT !.calls = k, !.over = o, !.grid = g, !.busy = id]
    OBVIOUS
  <2>a. gp' = q
    BY <1>3, <2>2, <2>3
  <2>b. /\ TabShape(q) /\ q.over = o /\ q.lost = gp.lost /\ q.half = gp.half
        /\ q.theme = gp.theme /\ q.grid = g
    BY <1>2, <2>3 DEF TabShape
  <2>4. /\ gp' = q /\ TabShape(q) /\ (~q.over => ~gp.over /\ gpnet = {})
        /\ q.lost = gp.lost /\ q.half = gp.half
    BY <1>3, <2>a, <2>b
  <2>5. TabCall(c)
    BY <2>1 DEF TabCall
  <2>6. ASSUME Shows(gp.grid, gprow.imgs), gp.theme = gprow.theme
        PROVE  Lined(q.grid) /\ CallTrue(c, q, gprow)
    <3>1. DOMAIN gp.grid = 1 .. Len(gp.grid)
      BY <2>6, ShownRows
    <3>2. from \in 1 .. Len(gp.grid) /\ to \in 1 .. Len(gp.grid)
      BY <1>6, <3>1
    <3>3. c.st = "sent" /\ c.todo = Changed(gp.grid, g, id) /\ c.snap = gp.grid
      BY <1>5, <2>1
    <3>4. Lined(g) /\ MoveTrue(c, g, gprow.imgs)
      BY <1>4, <1>6, <2>6, <3>2, <3>3, MoveBegins
    <3> QED BY <2>1, <2>b, <2>6, <3>4 DEF CallTrue
  <2> QED BY <1>6, <2>2, <2>4, <2>5, <2>6, StartKeeps
<1> QED BY <1>7, <1>8

\* The list of an upload grows at its end.
LEMMA ConcatAppend ==
  ASSUME NEW s \in Seq(Img), NEW t \in Seq(Img), NEW e \in Img
  PROVE  s \o Append(t, e) = Append(s \o t, e)
<1>1. <<e>> \in Seq(Img) /\ s \o t \in Seq(Img)
  BY ConcatProperties
<1>2. Append(t, e) = t \o <<e>> /\ Append(s \o t, e) = (s \o t) \o <<e>>
  BY <1>1, AppendIsConcat
<1>3. s \o (t \o <<e>>) = (s \o t) \o <<e>>
  BY <1>1, ConcatAssociative
<1> QED BY <1>2, <1>3

\* POST /api/booking/images.
LEMMA GalleryUploadLands ==
  ASSUME GalleryInv, NEW c \in gpnet, UploadLands(c)
  PROVE  GalleryInv'
<1>1. TabShape(gp)
  BY DEF GalleryInv
<1>2. PICK row : row = NewRow(gprow.imgs, gprow.next)
  OBVIOUS
<1>3. PICK w : w = gprow'
  OBVIOUS
<1>4. PICK d : d = [c EXCEPT !.st = "done", !.v = row]
  OBVIOUS
<1>5. /\ c.kind = "upload" /\ c.st = "sent" /\ gp' = gp
      /\ w = [gprow EXCEPT !.imgs = @ \cup {row}, !.next = @ + 1]
      /\ gpnet' = (gpnet \ {c}) \cup {d}
  BY <1>2, <1>3, <1>4 DEF UploadLands, Progress, NewRow
<1>6. ASSUME TabTrue(gp, gprow, {c}) PROVE TabTrue(gp, w, {d})
  <2>1. /\ gprow = [imgs |-> gprow.imgs, theme |-> gprow.theme, next |-> gprow.next]
        /\ gprow.next \in Nat /\ GalleryOf(gprow.imgs, gprow.next) /\ Lined(gp.grid)
        /\ TabCall(c) /\ CallTrue(c, gp, gprow)
    BY <1>6, CallFacts
  <2>2. /\ gp.theme = gprow.theme /\ gp.grid = c.snap /\ c.added \in Seq(Img)
        /\ Shows(c.snap \o c.added, gprow.imgs)
    BY <1>5, <2>1 DEF CallTrue, UploadTrue
  <2>3. /\ row \in Img /\ Shows(Append(c.snap \o c.added, row), gprow.imgs \cup {row})
        /\ GalleryOf(gprow.imgs \cup {row}, gprow.next + 1)
    BY <1>2, <2>1, <2>2, UploadShows
  <2>4. PICK im, nx : im = gprow.imgs \cup {row} /\ nx = gprow.next + 1
    OBVIOUS
  <2>5. w = [imgs |-> im, theme |-> gprow.theme, next |-> nx] /\ nx \in Nat
    <3>1. w = [gprow EXCEPT !.imgs = im, !.next = nx]
      BY <1>5, <2>4
    <3>2. nx \in Nat
      BY <2>1, <2>4
    <3> QED BY <2>1, <3>1, <3>2
  <2>6. c.snap \in Seq(Img)
    BY <2>1, <2>2 DEF Lined
  <2>7. Shows(c.snap \o Append(c.added, row), im)
    BY <2>2, <2>3, <2>4, <2>6, ConcatAppend
  <2>8. /\ d.kind = "upload" /\ d.st = "done" /\ d.v = row /\ d.snap = c.snap
        /\ d.added = c.added /\ TabCall(d)
    BY <1>4, <1>5, <2>1 DEF TabCall
  <2>9. UploadTrue(d, gp.grid, im)
    BY <2>2, <2>3, <2>7, <2>8 DEF UploadTrue
  <2>10. w.imgs = im /\ w.theme = gprow.theme /\ w.next = nx
    BY <2>5
  <2>11. CallTrue(d, gp, w)
    BY <2>2, <2>8, <2>9, <2>10 DEF CallTrue
  <2> QED BY <2>1, <2>3, <2>4, <2>5, <2>8, <2>10, <2>11, CallGoesOn
<1> QED BY <1>1, <1>3, <1>5, <1>6, CallKeeps

LEMMA GalleryUploadAnswered ==
  ASSUME GalleryInv, NEW c \in gpnet, UploadAnswered(c)
  PROVE  GalleryInv'
<1>1. TabShape(gp)
  BY DEF GalleryInv
<1>2. PICK more, td : more = Append(c.added, c.v) /\ td = c.todo - 1
  OBVIOUS
<1>3. PICK d : d = [c EXCEPT !.added = more, !.todo = td, !.st = "sent", !.v = Nothing]
  OBVIOUS
<1>4. PICK e : e = [c EXCEPT !.added = Append(@, c.v), !.todo = @ - 1, !.st = "sent",
                             !.v = Nothing]
  OBVIOUS
<1>5. e = d
  BY <1>2, <1>3, <1>4
<1>6. c.kind = "upload" /\ c.st = "done" /\ gprow' = gprow
  BY DEF UploadAnswered
<1>7. ASSUME TabTrue(gp, gprow, {c})
      PROVE  /\ gprow = [imgs |-> gprow.imgs, theme |-> gprow.theme, next |-> gprow.next]
             /\ gprow.next \in Nat /\ GalleryOf(gprow.imgs, gprow.next) /\ Lined(gp.grid)
             /\ TabCall(c) /\ gp.theme = gprow.theme /\ gp.grid = c.snap
             /\ more \in Seq(Img) /\ Shows(c.snap \o more, gprow.imgs)
  <2>1. /\ gprow = [imgs |-> gprow.imgs, theme |-> gprow.theme, next |-> gprow.next]
        /\ gprow.next \in Nat /\ GalleryOf(gprow.imgs, gprow.next) /\ Lined(gp.grid)
        /\ TabCall(c) /\ CallTrue(c, gp, gprow)
    BY <1>7, CallFacts
  <2>2. /\ gp.theme = gprow.theme /\ gp.grid = c.snap /\ c.added \in Seq(Img) /\ c.v \in Img
        /\ Shows(c.snap \o Append(c.added, c.v), gprow.imgs)
    BY <1>6, <2>1 DEF CallTrue, UploadTrue
  <2>3. more \in Seq(Img)
    BY <1>2, <2>2, AppendProperties
  <2> QED BY <1>2, <2>1, <2>2, <2>3
<1>8. CASE d.todo > 0
  <2>1. gpnet' = (gpnet \ {c}) \cup {d} /\ gp' = gp
    BY <1>4, <1>5, <1>8 DEF UploadAnswered, Progress
  <2>2. ASSUME TabTrue(gp, gprow, {c}) PROVE TabTrue(gp, gprow, {d})
    <3>1. /\ d.kind = "upload" /\ d.st = "sent" /\ d.snap = c.snap /\ d.added = more /\ TabCall(d)
      BY <1>3, <1>6, <1>7, <2>2 DEF TabCall
    <3>2. UploadTrue(d, gp.grid, gprow.imgs)
      BY <1>7, <2>2, <3>1 DEF UploadTrue
    <3>3. CallTrue(d, gp, gprow)
      BY <1>7, <2>2, <3>1, <3>2 DEF CallTrue
    <3> QED BY <1>7, <2>2, <3>1, <3>3, CallGoesOn
  <2> QED BY <1>1, <1>6, <2>1, <2>2, CallKeeps
<1>9. CASE ~(d.todo > 0)
  <2>1. /\ gpnet' = gpnet \ {c}
        /\ gp' = [gp EXCEPT !.uploading = FALSE, !.grid = c.snap \o e.added]
    BY <1>4, <1>5, <1>9 DEF UploadAnswered, Finish
  <2>2. e.added = more \/ ~TabCall(c)
    BY <1>3, <1>5 DEF TabCall
  <2>3. PICK g : g = c.snap \o e.added
    OBVIOUS
  <2>4. PICK q : q = [gp EXCEPT !.uploading = FALSE, !.grid = g]
    OBVIOUS
  <2>5. /\ gp' = q /\ TabShape(q) /\ q.over = gp.over /\ q.lost = gp.lost /\ q.half = gp.half
        /\ q.theme = gp.theme /\ q.grid = g
    BY <1>1, <2>1, <2>3, <2>4 DEF TabShape
  <2>6. ASSUME TabTrue(gp, gprow, {c}) PROVE TabTrue(q, gprow, {})
    <3>1. g = c.snap \o more
      BY <1>7, <2>2, <2>3, <2>6
    <3> QED BY <1>7, <2>5, <2>6, <3>1, CallOver
  <2>7. gpnet' = (gpnet \ {c}) \cup {}
    BY <2>1
  <2> QED BY <1>6, <2>5, <2>6, <2>7, CallKeeps
<1> QED BY <1>8, <1>9

LEMMA GalleryUploadFails ==
  ASSUME GalleryInv, NEW c \in gpnet, UploadFails(c)
  PROVE  GalleryInv'
<1>1. TabShape(gp)
  BY DEF GalleryInv
<1>2. PICK g : g = IF c.added = <<>> THEN gp.grid ELSE c.snap \o c.added
  OBVIOUS
<1>3. PICK l : l = (gp.lost \/ c.st = "done")
  OBVIOUS
<1>4. PICK q : q = [gp EXCEPT !.uploading = FALSE, !.lost = l, !.grid = g]
  OBVIOUS
<1>5. c.kind = "upload" /\ gp' = q /\ gprow' = gprow /\ gpnet' = (gpnet \ {c}) \cup {}
  BY <1>2, <1>3, <1>4 DEF UploadFails, Finish
<1>6. /\ TabShape(q) /\ q.over = gp.over /\ q.lost = l /\ q.half = gp.half
      /\ q.theme = gp.theme /\ q.grid = g
  BY <1>1, <1>4 DEF TabShape
<1>7. ASSUME TabTrue(gp, gprow, {c}), ~q.lost PROVE TabTrue(q, gprow, {})
  <2>1. /\ gprow = [imgs |-> gprow.imgs, theme |-> gprow.theme, next |-> gprow.next]
        /\ gprow.next \in Nat /\ GalleryOf(gprow.imgs, gprow.next) /\ Lined(gp.grid)
        /\ TabCall(c) /\ CallTrue(c, gp, gprow)
    BY <1>7, CallFacts
  <2>2. c.st = "sent"
    BY <1>3, <1>6, <1>7, <2>1 DEF TabCall
  <2>3. /\ gp.theme = gprow.theme /\ gp.grid = c.snap /\ c.added \in Seq(Img)
        /\ Shows(c.snap \o c.added, gprow.imgs)
    BY <1>5, <2>1, <2>2 DEF CallTrue, UploadTrue
  <2>4. c.added = <<>> => c.snap \o c.added = gp.grid
    <3>1. c.snap \in Seq(Img)
      BY <2>1, <2>3 DEF Lined
    <3> QED BY <2>3, <3>1
  <2>5. Shows(g, gprow.imgs)
    BY <1>2, <2>3, <2>4
  <2> QED BY <1>6, <2>1, <2>3, <2>5, CallOver
<1>8. ~q.lost => ~gp.lost
  BY <1>3, <1>6
<1> QED BY <1>5, <1>6, <1>7, <1>8, CallKeeps

\* PATCH and DELETE /api/booking/images/{id}.
LEMMA GalleryImageLands ==
  ASSUME GalleryInv, NEW c \in gpnet, ImageLands(c)
  PROVE  GalleryInv'
<1>1. TabShape(gp)
  BY DEF GalleryInv
<1>2. PICK id : id = IF c.kind = "move" THEN NextRow(c.todo).id ELSE c.id
  OBVIOUS
<1>3. PICK hit : hit = RowOf(id)
  OBVIOUS
<1>4. PICK new :
        new = CASE c.kind = "caption" -> {[r EXCEPT !.cap = c.todo] : r \in RowOf(id)}
                [] c.kind = "move" -> {[r EXCEPT !.ord = NextRow(c.todo).ord] : r \in RowOf(id)}
                [] OTHER -> {}
  OBVIOUS
<1>5. PICK im, d : im = (gprow.imgs \ hit) \cup new /\ d = [c EXCEPT !.st = "done", !.v = new]
  OBVIOUS
<1>6. PICK w : w = [gprow EXCEPT !.imgs = im]
  OBVIOUS
<1>7. /\ c.kind \in {"caption", "remove", "move"} /\ c.st = "sent" /\ gp' = gp
      /\ hit # {} /\ gprow' = w /\ gpnet' = (gpnet \ {c}) \cup {d}
  <2>1. c.kind \in {"caption", "remove", "move"} /\ c.st = "sent" /\ gp' = gp
    BY DEF ImageLands
  <2>2. /\ RowOf(id) # {} /\ gprow' = [gprow EXCEPT !.imgs = (@ \ RowOf(id)) \cup new]
        /\ Progress(c, [c EXCEPT !.st = "done", !.v = new])
    BY <1>2, <1>4 DEF ImageLands
  <2> QED BY <1>3, <1>5, <1>6, <2>1, <2>2 DEF Progress
<1>8. PICK r \in gprow.imgs : r.id = id
  BY <1>3, <1>7 DEF RowOf
<1>9. ASSUME TabTrue(gp, gprow, {c}) PROVE TabTrue(gp, w, {d})
  <2>1. /\ gprow = [imgs |-> gprow.imgs, theme |-> gprow.theme, next |-> gprow.next]
        /\ gprow.next \in Nat /\ GalleryOf(gprow.imgs, gprow.next) /\ Lined(gp.grid)
        /\ TabCall(c) /\ CallTrue(c, gp, gprow)
    BY <1>9, CallFacts
  <2>2. /\ w = [imgs |-> w.imgs, theme |-> w.theme, next |-> w.next]
        /\ w.imgs = im /\ w.theme = gprow.theme /\ w.next = gprow.next
    BY <1>6, <2>1
  <2>3. /\ d.kind = c.kind /\ d.st = "done" /\ d.v = new /\ d.snap = c.snap /\ d.id = c.id
        /\ d.todo = c.todo /\ TabCall(d)
    BY <1>5, <2>1 DEF TabCall
  <2>4. r \in Img /\ gp.theme = gprow.theme
    BY <1>7, <2>1 DEF CallTrue, GalleryOf
  <2>5. /\ GalleryOf(Others(gprow.imgs, r.id), gprow.next)
        /\ gprow.imgs \ hit = Others(gprow.imgs, r.id) /\ hit = {r}
    <3>1. hit = {p \in gprow.imgs : p.id = r.id}
      BY <1>3, <1>8 DEF RowOf
    <3> QED BY <2>1, <2>4, <3>1, RowsRewritten
  <2>6. CASE c.kind = "caption"
    <3>1. PICK q : q = [r EXCEPT !.cap = c.todo]
      OBVIOUS
    <3>2. gp.grid = c.snap /\ c.todo \in Captions /\ Shows(c.snap, gprow.imgs)
      BY <1>7, <2>1, <2>6 DEF CallTrue, CaptionTrue
    <3>3. q \in Img /\ q.id = r.id /\ q.ord = r.ord
      BY <2>4, <3>1, <3>2 DEF Img
    <3>4. id = c.id
      BY <1>2, <2>6
    <3>5. new = {[p EXCEPT !.cap = c.todo] : p \in hit}
      BY <1>3, <1>4, <2>6
    <3>6. new = {q}
      BY <2>5, <3>1, <3>5
    <3>7. im = Others(gprow.imgs, r.id) \cup {q}
      BY <1>5, <2>5, <3>6
    <3>8. Shows(Captioned(c.snap, r.id, q), im)
      BY <3>2, <3>3, <3>7, CaptionShows
    <3>9. GalleryOf(im, gprow.next)
      BY <2>1, <3>3, <3>7, RowsRewritten
    <3>10. CaptionTrue(d, gp.grid, im)
      BY <1>8, <2>3, <3>2, <3>4, <3>6, <3>8 DEF CaptionTrue
    <3>11. CallTrue(d, gp, w)
      BY <2>2, <2>3, <2>4, <2>6, <3>10 DEF CallTrue
    <3> QED BY <2>1, <2>2, <2>3, <3>9, <3>11, CallGoesOn
  <2>7. CASE c.kind = "remove"
    <3>1. gp.grid = c.snap /\ Shows(c.snap, gprow.imgs)
      BY <1>7, <2>1, <2>7 DEF CallTrue, RemoveTrue
    <3>2. id = c.id /\ new = {}
      BY <1>2, <1>4, <2>7
    <3>3. im = Others(gprow.imgs, r.id)
      BY <1>5, <2>5, <3>2
    <3>4. Shows(WithoutTile(c.snap, r.id), im)
      BY <3>1, <3>3, RemovalShows
    <3>5. RemoveTrue(d, gp.grid, im)
      BY <1>8, <2>3, <3>1, <3>2, <3>4 DEF RemoveTrue
    <3>6. CallTrue(d, gp, w)
      BY <2>2, <2>3, <2>4, <2>7, <3>5 DEF CallTrue
    <3> QED BY <2>1, <2>2, <2>3, <2>5, <3>3, <3>6, CallGoesOn
  <2>8. CASE c.kind = "move"
    <3>a. PICK nr : nr = NextRow(c.todo)
      OBVIOUS
    <3>1. PICK q : q = [r EXCEPT !.ord = nr.ord]
      OBVIOUS
    <3>2. MoveTrue(c, gp.grid, gprow.imgs)
      BY <2>1, <2>8 DEF CallTrue
    <3>3. id = nr.id
      BY <1>2, <2>8, <3>a
    <3>4. new = {[p EXCEPT !.ord = nr.ord] : p \in hit}
      BY <1>3, <1>4, <2>8, <3>a
    <3>5. new = {q}
      BY <2>5, <3>1, <3>4
    <3>6. im = Others(gprow.imgs, r.id) \cup {q}
      BY <1>5, <2>5, <3>5
    <3>7. r.id = nr.id /\ nr = NextRow(c.todo)
      BY <1>8, <3>3, <3>a
    <3>8. q \in Img /\ q.id = r.id /\ MoveTrue(d, gp.grid, Others(gprow.imgs, r.id) \cup {q})
      BY <1>7, <2>1, <2>3, <3>1, <3>2, <3>7, MoveRowWritten
    <3>9. GalleryOf(im, gprow.next)
      BY <2>1, <3>6, <3>8, RowsRewritten
    <3>10. CallTrue(d, gp, w)
      BY <2>2, <2>3, <2>4, <2>8, <3>6, <3>8 DEF CallTrue
    <3> QED BY <2>1, <2>2, <2>3, <3>9, <3>10, CallGoesOn
  <2> QED BY <1>7, <2>6, <2>7, <2>8
<1> QED BY <1>1, <1>7, <1>9, CallKeeps

\* The answers of caption and deletion put the list of the click back, changed.
LEMMA GalleryImageAnswered ==
  ASSUME GalleryInv, NEW c \in gpnet, CaptionAnswered(c) \/ RemoveAnswered(c)
  PROVE  GalleryInv'
<1>1. TabShape(gp)
  BY DEF GalleryInv
<1>2. CASE CaptionAnswered(c)
  <2>1. PICK row : row = CHOOSE r \in c.v : TRUE
    OBVIOUS
  <2>2. PICK g : g = Captioned(c.snap, c.id, row)
    OBVIOUS
  <2>3. PICK q : q = [gp EXCEPT !.busy = 0, !.grid = g]
    OBVIOUS
  <2>4. /\ c.kind = "caption" /\ c.st = "done" /\ gp' = q /\ gprow' = gprow
        /\ gpnet' = (gpnet \ {c}) \cup {}
    BY <1>2, <2>1, <2>2, <2>3 DEF CaptionAnswered, Finish, Captioned
  <2>5. /\ TabShape(q) /\ q.over = gp.over /\ q.lost = gp.lost /\ q.half = gp.half
        /\ q.theme = gp.theme /\ q.grid = g
    BY <1>1, <2>3 DEF TabShape
  <2>6. ASSUME TabTrue(gp, gprow, {c}) PROVE TabTrue(q, gprow, {})
    <3>1. /\ gprow = [imgs |-> gprow.imgs, theme |-> gprow.theme, next |-> gprow.next]
          /\ gprow.next \in Nat /\ GalleryOf(gprow.imgs, gprow.next) /\ CallTrue(c, gp, gprow)
      BY <2>6, CallFacts
    <3>2. gp.theme = gprow.theme /\ CaptionTrue(c, gp.grid, gprow.imgs)
      BY <2>4, <3>1 DEF CallTrue
    <3>3. PICK r : c.v = {r} /\ Shows(Captioned(c.snap, c.id, r), gprow.imgs)
      BY <2>4, <3>2 DEF CaptionTrue
    <3>4. row = r
      BY <2>1, <3>3
    <3> QED BY <2>2, <2>5, <3>1, <3>2, <3>3, <3>4, CallOver
  <2> QED BY <2>4, <2>5, <2>6, CallKeeps
<1>3. CASE RemoveAnswered(c)
  <2>1. PICK g : g = WithoutTile(c.snap, c.id)
    OBVIOUS
  <2>2. PICK q : q = [gp EXCEPT !.busy = 0, !.grid = g]
    OBVIOUS
  <2>3. /\ c.kind = "remove" /\ c.st = "done" /\ gp' = q /\ gprow' = gprow
        /\ gpnet' = (gpnet \ {c}) \cup {}
    BY <1>3, <2>1, <2>2 DEF RemoveAnswered, Finish
  <2>4. /\ TabShape(q) /\ q.over = gp.over /\ q.lost = gp.lost /\ q.half = gp.half
        /\ q.theme = gp.theme /\ q.grid = g
    BY <1>1, <2>2 DEF TabShape
  <2>5. ASSUME TabTrue(gp, gprow, {c}) PROVE TabTrue(q, gprow, {})
    <3>1. /\ gprow = [imgs |-> gprow.imgs, theme |-> gprow.theme, next |-> gprow.next]
          /\ gprow.next \in Nat /\ GalleryOf(gprow.imgs, gprow.next) /\ CallTrue(c, gp, gprow)
      BY <2>5, CallFacts
    <3>2. gp.theme = gprow.theme /\ Shows(g, gprow.imgs)
      BY <2>1, <2>3, <3>1 DEF CallTrue, RemoveTrue
    <3> QED BY <2>4, <3>1, <3>2, CallOver
  <2> QED BY <2>3, <2>4, <2>5, CallKeeps
<1> QED BY <1>2, <1>3

\* Moves: the next number, the end, or the list of the click again.
LEMMA GalleryMoveAnswered ==
  ASSUME GalleryInv, NEW c \in gpnet, MoveAnswered(c) \/ MoveFails(c)
  PROVE  GalleryInv'
<1>1. TabShape(gp)
  BY DEF GalleryInv
<1>2. ASSUME TabTrue(gp, gprow, {c}), c.kind = "move"
      PROVE  /\ gprow = [imgs |-> gprow.imgs, theme |-> gprow.theme, next |-> gprow.next]
             /\ gprow.next \in Nat /\ GalleryOf(gprow.imgs, gprow.next) /\ Lined(gp.grid)
             /\ TabCall(c) /\ gp.theme = gprow.theme /\ MoveTrue(c, gp.grid, gprow.imgs)
  BY <1>2, CallFacts DEF CallTrue
<1>3. PICK rest : rest = c.todo \ {NextRow(c.todo)}
  OBVIOUS
<1>4. CASE MoveAnswered(c) /\ rest # {}
  <2>1. PICK d : d = [c EXCEPT !.todo = rest, !.st = "sent", !.added = <<NextRow(c.todo)>>]
    OBVIOUS
  <2>2. /\ c.kind = "move" /\ c.st = "done" /\ gp' = gp /\ gprow' = gprow
        /\ gpnet' = (gpnet \ {c}) \cup {d}
    BY <1>3, <1>4, <2>1 DEF MoveAnswered, Progress
  <2>3. ASSUME TabTrue(gp, gprow, {c}) PROVE TabTrue(gp, gprow, {d})
    <3>1. /\ d.kind = "move" /\ d.st = "sent" /\ d.todo = rest /\ TabCall(d)
          /\ d.added # <<>>
      BY <1>2, <2>1, <2>2, <2>3 DEF TabCall
    <3>2. Unwritten(d) = Unwritten(c) /\ rest \subseteq c.todo
      BY <1>3, <2>2, <3>1 DEF Unwritten
    <3>3. MoveTrue(d, gp.grid, gprow.imgs)
      BY <1>2, <1>4, <2>2, <2>3, <3>1, <3>2 DEF MoveTrue
    <3>4. CallTrue(d, gp, gprow)
      BY <1>2, <2>2, <2>3, <3>1, <3>3 DEF CallTrue
    <3> QED BY <1>2, <2>2, <2>3, <3>1, <3>4, CallGoesOn
  <2> QED BY <1>1, <2>2, <2>3, CallKeeps
<1>5. CASE MoveAnswered(c) /\ rest = {}
  <2>1. PICK q : q = [gp EXCEPT !.busy = 0]
    OBVIOUS
  <2>2. /\ c.kind = "move" /\ c.st = "done" /\ gp' = q /\ gprow' = gprow
        /\ gpnet' = (gpnet \ {c}) \cup {}
    BY <1>3, <1>5, <2>1 DEF MoveAnswered, Finish
  <2>3. /\ TabShape(q) /\ q.over = gp.over /\ q.lost = gp.lost /\ q.half = gp.half
        /\ q.theme = gp.theme /\ q.grid = gp.grid
    BY <1>1, <2>1 DEF TabShape
  <2>4. ASSUME TabTrue(gp, gprow, {c}) PROVE TabTrue(q, gprow, {})
    <3>1. Unwritten(c) = {}
      BY <1>3, <1>5, <2>2 DEF Unwritten
    <3>2. Shows(gp.grid, gprow.imgs)
      BY <1>2, <2>2, <2>4, <3>1, MoveEnds
    <3> QED BY <1>2, <2>2, <2>3, <2>4, <3>2, CallOver
  <2> QED BY <2>2, <2>3, <2>4, CallKeeps
<1>6. CASE MoveFails(c)
  <2>1. PICK l, h : l = (gp.lost \/ c.st = "done") /\ h = (gp.half \/ c.added # <<>>)
    OBVIOUS
  <2>2. PICK q : q = [gp EXCEPT !.busy = 0, !.grid = c.snap, !.lost = l, !.half = h]
    OBVIOUS
  <2>3. c.kind = "move" /\ gp' = q /\ gprow' = gprow /\ gpnet' = (gpnet \ {c}) \cup {}
    BY <1>6, <2>1, <2>2 DEF MoveFails, Finish
  <2>4. /\ TabShape(q) /\ q.over = gp.over /\ q.lost = l /\ q.half = h
        /\ q.theme = gp.theme /\ q.grid = c.snap
    BY <1>1, <2>2 DEF TabShape
  <2>5. ASSUME TabTrue(gp, gprow, {c}), ~q.lost, ~q.half PROVE TabTrue(q, gprow, {})
    <3>1. c.st = "sent" /\ c.added = <<>>
      BY <1>2, <2>1, <2>3, <2>4, <2>5 DEF TabCall
    <3>2. Shows(c.snap, gprow.imgs)
      BY <1>2, <2>3, <2>5, <3>1 DEF MoveTrue
    <3> QED BY <1>2, <2>3, <2>4, <2>5, <3>2, CallOver
  <2>6. (~q.lost => ~gp.lost) /\ (~q.half => ~gp.half)
    BY <2>1, <2>4
  <2> QED BY <2>3, <2>4, <2>5, <2>6, CallKeeps
<1> QED BY <1>4, <1>5, <1>6

\* A caption or a deletion that fails leaves the list as it is.
LEMMA GalleryImageFails ==
  ASSUME GalleryInv, NEW c \in gpnet, ImageCallFails(c)
  PROVE  GalleryInv'
<1>1. TabShape(gp)
  BY DEF GalleryInv
<1>2. PICK l : l = (gp.lost \/ c.st = "done")
  OBVIOUS
<1>3. PICK q : q = [gp EXCEPT !.busy = 0, !.lost = l]
  OBVIOUS
<1>4. /\ c.kind \in {"caption", "remove"} /\ gp' = q /\ gprow' = gprow
      /\ gpnet' = (gpnet \ {c}) \cup {}
  BY <1>2, <1>3 DEF ImageCallFails, Finish
<1>5. /\ TabShape(q) /\ q.over = gp.over /\ q.lost = l /\ q.half = gp.half
      /\ q.theme = gp.theme /\ q.grid = gp.grid
  BY <1>1, <1>3 DEF TabShape
<1>6. ASSUME TabTrue(gp, gprow, {c}), ~q.lost PROVE TabTrue(q, gprow, {})
  <2>1. /\ gprow = [imgs |-> gprow.imgs, theme |-> gprow.theme, next |-> gprow.next]
        /\ gprow.next \in Nat /\ GalleryOf(gprow.imgs, gprow.next)
        /\ TabCall(c) /\ CallTrue(c, gp, gprow)
    BY <1>6, CallFacts
  <2>2. c.st = "sent"
    BY <1>2, <1>5, <1>6, <2>1 DEF TabCall
  <2>3. gp.theme = gprow.theme /\ Shows(gp.grid, gprow.imgs)
    BY <1>4, <2>1, <2>2 DEF CallTrue, CaptionTrue, RemoveTrue
  <2> QED BY <1>5, <2>1, <2>3, CallOver
<1>7. ~q.lost => ~gp.lost
  BY <1>2, <1>5
<1> QED BY <1>4, <1>5, <1>6, <1>7, CallKeeps

\* The palette.
LEMMA GalleryPalette ==
  ASSUME GalleryInv, NEW c \in gpnet,
         PaletteLands(c) \/ PaletteAnswered(c) \/ PaletteFails(c) \/ PaletteRefusedInDemo(c)
  PROVE  GalleryInv'
<1>1. TabShape(gp)
  BY DEF GalleryInv
<1>2. ASSUME TabTrue(gp, gprow, {c}), c.kind = "palette"
      PROVE  /\ gprow = [imgs |-> gprow.imgs, theme |-> gprow.theme, next |-> gprow.next]
             /\ gprow.next \in Nat /\ GalleryOf(gprow.imgs, gprow.next) /\ Lined(gp.grid)
             /\ TabCall(c) /\ PaletteTrue(c, gp, gprow)
  BY <1>2, CallFacts DEF CallTrue
<1>3. CASE PaletteLands(c)
  <2>1. PICK d : d = [c EXCEPT !.st = "done", !.v = Display(gprow.imgs)]
    OBVIOUS
  <2>2. PICK w : w = [gprow EXCEPT !.theme = c.todo]
    OBVIOUS
  <2>3. /\ c.kind = "palette" /\ gp' = gp /\ gprow' = w
        /\ gpnet' = (gpnet \ {c}) \cup {d}
    BY <1>3, <2>1, <2>2 DEF PaletteLands, Progress
  <2>4. ASSUME TabTrue(gp, gprow, {c}) PROVE TabTrue(gp, w, {d})
    <3>1. /\ w = [imgs |-> w.imgs, theme |-> w.theme, next |-> w.next]
          /\ w.imgs = gprow.imgs /\ w.theme = c.todo /\ w.next = gprow.next
      BY <1>2, <2>2, <2>3, <2>4
    <3>2. PICK v : v = Display(gprow.imgs)
      OBVIOUS
    <3>3. d = [c EXCEPT !.st = "done", !.v = v]
      BY <2>1, <3>2
    <3>4. d.kind = "palette" /\ d.st = "done" /\ d.todo = c.todo /\ d.v = v /\ TabCall(d)
      BY <1>2, <2>3, <2>4, <3>3 DEF TabCall
    <3>5. gp.theme = c.todo /\ Shows(gp.grid, gprow.imgs)
      BY <1>2, <2>3, <2>4 DEF PaletteTrue
    <3>6. v = gp.grid
      BY <1>2, <2>3, <2>4, <3>2, <3>5, DisplayShows
    <3>7. CallTrue(d, gp, w)
      BY <3>1, <3>4, <3>5, <3>6 DEF CallTrue, PaletteTrue
    <3> QED BY <1>2, <2>3, <2>4, <3>1, <3>4, <3>7, CallGoesOn
  <2> QED BY <1>1, <2>3, <2>4, CallKeeps
<1>4. CASE PaletteAnswered(c)
  <2>1. PICK q : q = [gp EXCEPT !.theme = c.todo, !.grid = c.v]
    OBVIOUS
  <2>2. /\ c.kind = "palette" /\ c.st = "done" /\ gp' = q /\ gprow' = gprow
        /\ gpnet' = (gpnet \ {c}) \cup {}
    BY <1>4, <2>1 DEF PaletteAnswered, Finish
  <2>3. /\ TabShape(q) /\ q.over = gp.over /\ q.lost = gp.lost /\ q.half = gp.half
        /\ q.theme = c.todo
        /\ q.grid = c.v
    BY <1>1, <2>1 DEF TabShape
  <2>4. ASSUME TabTrue(gp, gprow, {c}) PROVE TabTrue(q, gprow, {})
    <3>1. q.theme = gprow.theme /\ Shows(q.grid, gprow.imgs)
      BY <1>2, <2>2, <2>3, <2>4 DEF PaletteTrue
    <3> QED BY <1>2, <2>2, <2>4, <3>1, CallOver
  <2> QED BY <2>2, <2>3, <2>4, CallKeeps
<1>5. CASE PaletteFails(c)
  <2>1. PICK l : l = (gp.lost \/ c.st = "done")
    OBVIOUS
  <2>2. PICK q : q = [gp EXCEPT !.theme = c.snap, !.lost = l]
    OBVIOUS
  <2>3. c.kind = "palette" /\ gp' = q /\ gprow' = gprow /\ gpnet' = (gpnet \ {c}) \cup {}
    BY <1>5, <2>1, <2>2 DEF PaletteFails, Finish
  <2>4. /\ TabShape(q) /\ q.over = gp.over /\ q.lost = l /\ q.half = gp.half
        /\ q.theme = c.snap
        /\ q.grid = gp.grid
    BY <1>1, <2>2 DEF TabShape
  <2>5. ASSUME TabTrue(gp, gprow, {c}), ~q.lost PROVE TabTrue(q, gprow, {})
    <3>1. c.st = "sent"
      BY <1>2, <2>1, <2>3, <2>4, <2>5 DEF TabCall
    <3>2. q.theme = gprow.theme /\ Shows(q.grid, gprow.imgs)
      BY <1>2, <2>3, <2>4, <2>5, <3>1 DEF PaletteTrue
    <3> QED BY <1>2, <2>3, <2>5, <3>2, CallOver
  <2>6. ~q.lost => ~gp.lost
    BY <2>1, <2>4
  <2> QED BY <2>3, <2>4, <2>5, <2>6, CallKeeps
<1>6. CASE PaletteRefusedInDemo(c)
  <2>1. gp' = [gp EXCEPT !.lost = TRUE]
    BY <1>6 DEF PaletteRefusedInDemo
  <2>2. TabShape(gp') /\ gp'.lost
    BY <1>1, <2>1 DEF TabShape
  <2> QED BY <2>2 DEF GalleryInv
<1> QED BY <1>3, <1>4, <1>5, <1>6

LEMMA GalleryNext == GalleryInv /\ [GPNext]_gpvars => GalleryInv'
<1> SUFFICES ASSUME GalleryInv, [GPNext]_gpvars PROVE GalleryInv'
  OBVIOUS
<1>1. CASE GPNext
  <2>1. ASSUME \/ \E n \in 1 .. 2 : UploadFiles(n)
               \/ \E id \in 1 .. gprow.next - 1 :
                    RemoveImage(id) \/ \E text \in Captions : SaveCaption(id, text)
               \/ \E p \in Palettes : SelectPalette(p)
        PROVE  GalleryInv'
    <3>1. \/ \E n \in 1 .. 2 : UploadFiles(n)
          \/ \E id : RemoveImage(id) \/ \E text \in Captions : SaveCaption(id, text)
          \/ \E p \in Palettes : SelectPalette(p)
      BY <2>1
    <3> QED BY <3>1, GalleryStarts
  <2>2. ASSUME NEW from, NEW to, MoveTo(from, to) PROVE GalleryInv'
    BY <2>2, GalleryMoves
  <2>3. ASSUME NEW c \in gpnet,
               \/ UploadLands(c) \/ UploadAnswered(c) \/ UploadFails(c) \/ ImageLands(c)
               \/ CaptionAnswered(c) \/ RemoveAnswered(c) \/ MoveAnswered(c)
               \/ ImageCallFails(c) \/ MoveFails(c) \/ PaletteLands(c) \/ PaletteAnswered(c)
               \/ PaletteFails(c) \/ PaletteRefusedInDemo(c)
        PROVE  GalleryInv'
    BY <2>3, GalleryUploadLands, GalleryUploadAnswered, GalleryUploadFails, GalleryImageLands,
       GalleryImageAnswered, GalleryMoveAnswered, GalleryImageFails, GalleryPalette
  <2> QED BY <1>1, <2>1, <2>2, <2>3 DEF GPNext
<1>2. CASE UNCHANGED gpvars
  BY <1>2 DEF gpvars, GalleryInv
<1> QED BY <1>1, <1>2

-----------------------------------------------------------------------------
(* The theorems *)

\* A step of the app is a step of every page's machine, or leaves it alone.
LEMMA PageSteps ==
  ASSUME [Next]_<<page, me, pagevars>>
  PROVE  [CHNext]_chvars /\ [SVNext]_svvars /\ [LDNext]_ldvars /\ [BKNext]_bkvars
         /\ [PBNext]_pbvars /\ [PMNext]_pmvars /\ [TMNext]_tmvars /\ [CVNext]_cvvars
         /\ [ADNext]_advars /\ [DTNext]_dtvars /\ [GPNext]_gpvars
<1>1. CASE PageStep
  BY <1>1 DEF PageStep
<1>2. ASSUME NEW m, MeAnswered(m)
      PROVE  UNCHANGED <<chvars, svvars, ldvars, bkvars, pbvars, pmvars, tmvars, cvvars, advars,
                         dtvars, gpvars>>
  BY <1>2 DEF MeAnswered, pagevars
<1>3. CASE UNCHANGED <<page, me, pagevars>>
  BY <1>3 DEF pagevars
<1> QED BY <1>1, <1>2, <1>3 DEF Next

\* ChatPanel keeps the owner's own message on the screen until the transcript holds
\* it, whatever a poll that was sent earlier brings back.
THEOREM BubbleAlwaysStays == Spec => []BubbleStays
<1>1. Init => ChatInv
  BY ChatInit DEF Init
<1>2. ChatInv /\ [Next]_<<page, me, pagevars>> => ChatInv'
  BY PageSteps, ChatNext
<1>3. ChatInv => BubbleStays
  BY DEF ChatInv
<1> QED BY <1>1, <1>2, <1>3, PTL DEF Spec

\* ConversationCard closes a conversation only after the outcome of the lead it shows
\* is on the server, or it shows none, whichever of its calls fail and whatever leads
\* the bot starts meanwhile.
THEOREM OutcomeAlwaysRecorded == Spec => []OutcomeRecorded
<1>1. Init => ChatInv
  BY ChatInit DEF Init
<1>2. ChatInv /\ [Next]_<<page, me, pagevars>> => ChatInv'
  BY PageSteps, ChatNext
<1>3. ChatInv => OutcomeRecorded
  BY DEF ChatInv, Marked, OutcomeRecorded
<1> QED BY <1>1, <1>2, <1>3, PTL DEF Spec

\* ServicesEditor shows the server's services once its calls are answered, however
\* the changes overlapped, unless two reloads did or a call failed.
THEOREM ServicesAlwaysSettle == Spec => []ServicesSettle
<1>1. Init => ServicesInv
  BY ServicesInit DEF Init
<1>2. ServicesInv /\ [Next]_<<page, me, pagevars>> => ServicesInv'
  BY PageSteps, ServicesNext
<1>3. ServicesInv => ServicesSettle
  BY DEF ServicesInv, ServicesSettle, Reloads, Landed
<1> QED BY <1>1, <1>2, <1>3, PTL DEF Spec

\* LeadsPage and the bookings panel show the server's list for the filter above it
\* once nothing is on its way, for any number of rows, filters and changes.
THEOREM ListsAlwaysFollow == Spec => []ListsFollow
<1>1. Init => LeadsInv /\ BookingsInv
  BY LeadsInit, BookingsInit DEF Init
<1>2. LeadsInv /\ BookingsInv /\ [Next]_<<page, me, pagevars>> => LeadsInv' /\ BookingsInv'
  BY PageSteps, LeadsNext, BookingsNext
<1>3. LeadsInv /\ BookingsInv => ListsFollow
  BY DEF LeadsInv, BookingsInv, ListsFollow, LeadsFollow, BookingsFollow, NothingLanded,
         LeadsOf, BookingsOf
<1> QED BY <1>1, <1>2, <1>3, PTL DEF Spec

\* The time in the summary of BookingFlow is one the business offers for the service
\* and the day above it, for any offer and any order of picks and answers, unless the
\* refetch after a 409 has answered for a choice that was left meanwhile.
THEOREM TimeAlwaysBelongsToChoice == Spec => []TimeBelongsToChoice
<1>1. Init => VisitInv
  BY VisitInit DEF Init
<1>2. VisitInv /\ [Next]_<<page, me, pagevars>> => VisitInv'
  BY PageSteps, VisitNext
<1>3. VisitInv => TimeBelongsToChoice
  BY DEF VisitInv, Offered, TimeBelongsToChoice, Flow
<1> QED BY <1>1, <1>2, <1>3, PTL DEF Spec

\* A visit whose answer is not lost makes at most one booking and confirms it, and
\* the page behind the link of a booking shows the change the server made.
THEOREM CustomerAlwaysTold == Spec => []CustomerIsTold
<1>1. Init => VisitInv /\ LinkInv
  BY VisitInit, LinkInit DEF Init
<1>2. VisitInv /\ LinkInv /\ [Next]_<<page, me, pagevars>> => VisitInv' /\ LinkInv'
  BY PageSteps, VisitNext, LinkNext
<1>3. VisitInv /\ LinkInv => CustomerIsTold
  <2> SUFFICES ASSUME VisitInv, LinkInv PROVE CustomerIsTold
    OBVIOUS
  <2>1. ~pb.lost => \E x : pbrow.mine = {} \/ pbrow.mine = {x}
    BY DEF VisitInv, Told
  <2>2. ASSUME NEW x PROVE Cardinality({}) = 0 /\ Cardinality({x}) = 1
    BY FS_EmptySet, FS_Singleton
  <2>3. ASSUME ~pb.lost PROVE Cardinality(pbrow.mine) <= 1
    <3>1. PICK x : pbrow.mine = {} \/ pbrow.mine = {x}
      BY <2>1, <2>3
    <3>2. Cardinality(pbrow.mine) = 0 \/ Cardinality(pbrow.mine) = 1
      BY <2>2, <3>1
    <3> QED BY <3>2
  <2>4. ~pb.lost /\ {c \in pbnet : c.kind = "create"} = {} =>
          pbrow.mine = IF pb.flow.result = Nothing THEN {} ELSE {pb.flow.result.v}
    BY DEF VisitInv, Told, Creates
  <2>5. pm.done # Nothing =>
          /\ pmrow.on = (pm.done.v[1] = "move")
          /\ pm.done.v[1] = "move" => pmrow.slot = pm.done.v[2]
    BY DEF LinkInv, Became
  <2> QED BY <2>3, <2>4, <2>5 DEF CustomerIsTold, Flow
<1> QED BY <1>1, <1>2, <1>3, PTL DEF Spec

\* TryMePage holds the state of the conversation on screen: the transcript shows each
\* turn of the bot once and in order and none of a conversation that was dropped.
THEOREM TrialAlwaysInStep == Spec => []InStep
<1>1. Init => TryInv
  BY TryInit DEF Init
<1>2. TryInv /\ [Next]_<<page, me, pagevars>> => TryInv'
  BY PageSteps, TryNext
<1>3. TryInv => InStep
  BY DEF TryInv, TurnsShown, InStep
<1> QED BY <1>1, <1>2, <1>3, PTL DEF Spec

\* ConversationsPage shows the conversations of its tab with the status and the unread
\* mark the server has once nothing is on its way, for any number of conversations and
\* any order of tabs, rows and answers, unless a load raced with another call or a
\* call failed.
THEOREM ConversationsAlwaysFollow == Spec => []ConversationsFollow
<1>1. Init => ChatsInv
  BY ChatsInit DEF Init
<1>2. ChatsInv /\ [Next]_<<page, me, pagevars>> => ChatsInv'
  BY PageSteps, ChatsNext
<1>3. ChatsInv => ConversationsFollow
  <2> SUFFICES ASSUME ChatsInv, cvnet = {}, ~cv.raced, ~cv.failed
               PROVE  cv.list = Listed(cv.tab)
    BY DEF ConversationsFollow
  <2>1. ListTrue(cv.tab, cv.list, cvrow, cvnet)
    BY DEF ChatsInv, FollowsTab
  <2>2. ASSUME NEW r \in cv.list PROVE r \in Listed(cv.tab)
    <3>1. RowTrue(r, cv.tab, cvrow, cvnet)
      BY <2>1 DEF ListTrue
    <3>2. /\ r = [id |-> r.id, status |-> cvrow[r.id].status, unread |-> cvrow[r.id].unread]
          /\ r.id \in DOMAIN cvrow /\ cvrow[r.id].status = cv.tab
      BY <3>1 DEF RowTrue
    <3> QED BY <3>2 DEF Listed
  <2>3. ASSUME NEW x \in Listed(cv.tab) PROVE x \in cv.list
    <3>1. PICK i \in DOMAIN cvrow :
            /\ cvrow[i].status = cv.tab
            /\ x = [id |-> i, status |-> cvrow[i].status, unread |-> cvrow[i].unread]
      BY DEF Listed
    <3>2. PICK r \in cv.list : r.id = i
      BY <2>1, <3>1 DEF ListTrue
    <3>3. RowTrue(r, cv.tab, cvrow, cvnet)
      BY <2>1 DEF ListTrue
    <3>4. r = x
      BY <3>1, <3>2, <3>3 DEF RowTrue
    <3> QED BY <3>4
  <2> QED BY <2>2, <2>3
<1> QED BY <1>1, <1>2, <1>3, PTL DEF Spec

\* The operator's board shows every business where the pipeline has it, and an open
\* panel its log, once the calls are over; the page of a business shows what is kept
\* of it, or has left when it is deleted.
THEOREM BackofficeAlwaysFollows == Spec => []BackofficeFollows
<1>1. Init => BoardInv /\ BusinessInv
  BY BoardInit, BusinessInit DEF Init
<1>2. BoardInv /\ BusinessInv /\ [Next]_<<page, me, pagevars>> => (BoardInv /\ BusinessInv)'
  BY PageSteps, BoardNext, BusinessNext
<1>3. BoardInv /\ BusinessInv => BackofficeFollows
  <2> SUFFICES ASSUME BoardInv, BusinessInv PROVE BackofficeFollows
    OBVIOUS
  <2>1. ASSUME adnet = {}, ~ad.over, ~ad.lost, ad.state = "ready"
        PROVE  /\ \A b \in Cards : ad.cards[b] = Card(adrow[b])
               /\ InPanel => ad.notes = adrow[ad.open].notes
    BY <2>1 DEF BoardInv, StagesTrue, NotesTrue, InPanel
  <2>2. ASSUME ~dt.lost, dt.state \in {"ready", "left"}, dtnet.delete = Nothing
        PROVE  dtrow.exists = (dt.state = "ready")
    BY <2>2 DEF BusinessInv, BusinessShape, Nothing
  <2>3. ASSUME ~dt.lost, dt.state = "ready", NEW p \in Panels, dtnet[p] = Nothing
        PROVE  dt.page[p] = dtrow[p]
    <3>1. p = "subscription" \/ p = "crm"
      BY DEF Panels
    <3> QED BY <2>3, <3>1 DEF BusinessInv, PanelTrue, Nothing
  <2> QED BY <2>1, <2>2, <2>3 DEF BackofficeFollows
<1> QED BY <1>1, <1>2, <1>3, PTL DEF Spec

\* The photos tab shows the images, captions, order, numbers and palette the visitors
\* see once a change is over, for galleries of any size and any mix of uploads,
\* captions, moves, deletions and failures, unless changes overlapped, the answer of
\* one that took effect was lost, or a move failed after some of its rows were written.
THEOREM GalleryAlwaysSettles == Spec => []GallerySettles
<1>1. Init => GalleryInv
  BY GalleryInit DEF Init
<1>2. GalleryInv /\ [Next]_<<page, me, pagevars>> => GalleryInv'
  BY PageSteps, GalleryNext
<1>3. GalleryInv => GallerySettles
  <2> SUFFICES ASSUME GalleryInv, gpnet = {}, ~gp.over, ~gp.lost, ~gp.half
               PROVE  gp.grid = Display(gprow.imgs) /\ gp.theme = gprow.theme
    BY DEF GallerySettles
  <2>1. /\ GalleryOf(gprow.imgs, gprow.next) /\ Shows(gp.grid, gprow.imgs)
        /\ gp.theme = gprow.theme
    BY DEF GalleryInv, TabTrue
  <2> QED BY <2>1, DisplayShows
<1> QED BY <1>1, <1>2, <1>3, PTL DEF Spec
=============================================================================
