------------------------------- MODULE Delivery -------------------------------
(***************************************************************************)
(* The messages of one gateway session (gateway/src/session.js, contract.js,*)
(* webhook.js, routes.js): what happens to a message the socket emits, the  *)
(* storing of its attachment by the backend, the bot's replies and the      *)
(* owner's messages through the one send chain of the session.              *)
(*                                                                          *)
(* Every emitted message is handled by an async function of its own and     *)
(* WhatsApp may emit a message again after a reconnect, so several handlers *)
(* run at once, also for the same message.                                  *)
(***************************************************************************)
EXTENDS Integers, Sequences, FiniteSets, SequencesExt

CONSTANTS Msg,          \* the messages WhatsApp emits, records of Message
          Handler,      \* bound: handleInbound calls in all
          MaxOwner,     \* bound: POST /send-bot calls
          MaxReplies,   \* replies of one bot turn
          SentCap,      \* SENT_ID_CAP
          MaxFaults,    \* bound: failed calls and lost connections
          MaxClock,     \* bound: ticks of SEND_MIN_GAP_MS
          MaxEchoes,    \* bound: own messages that are taken for a customer's
          None

ASSUME DeliveryConstants ==
    /\ MaxOwner \in Nat /\ MaxReplies \in Nat /\ SentCap \in Nat \ {0}
    /\ MaxFaults \in Nat /\ MaxClock \in Nat /\ MaxEchoes \in Nat
    /\ None \notin Handler /\ "owner" \notin Handler

\* What the contract reads of a message: its wrappers, its content, the size and
\* type the sender declares and the size the download turns out to have.
Message == [id : Nat, notify : BOOLEAN, fromMe : BOOLEAN, self : BOOLEAN, wraps : 0..6,
            body : {"none", "text", "image", "document", "video"}, caption : BOOLEAN,
            declared : {"small", "big"}, real : {"empty", "small", "big"}, mime : BOOLEAN]

VARIABLES
    conn,     \* the socket is up and the status is "connected"
    hs,       \* the handlers
    chain,    \* sendChain: sends that are not over; the head is the one that runs
    flying,   \* its sendMessage has put it on the wire and is awaited
    wire,     \* external: what WhatsApp got, in order
    sent,     \* sentMessageIds, oldest first
    acked,    \* the places on the wire whose sendMessage resolved, in that order
    last,     \* lastSentAt
    files,    \* lead_files: the file id stored for a message
    bot,      \* the payloads the backend's webhook was given
    owner,    \* POST /send-bot calls made
    looped,   \* own messages that were handled as a customer's
    clock, faults

vars == <<conn, hs, chain, flying, wire, sent, acked, last, files, bot, owner, looped, clock,
          faults>>

Free == [pc |-> "free", m |-> None, file |-> None, replies |-> 0]

Init ==
    /\ conn = FALSE
    /\ hs = [h \in Handler |-> Free]
    /\ chain = <<>> /\ flying = FALSE /\ wire = <<>> /\ sent = <<>> /\ acked = <<>>
    /\ last = -1 /\ clock = 0
    /\ files = [m \in Msg |-> None]
    /\ bot = {} /\ looped = {}
    /\ owner = 0 /\ faults = 0

Fault == faults < MaxFaults /\ faults' = faults + 1

-----------------------------------------------------------------------------
(* contract.js *)

\* unwrapMessage peels five wrappers at most; what is below stays hidden.
Unwrapped(m) == IF m.wraps <= 5 THEN m.body ELSE "none"

\* extractText: the text of a text message, the caption of an attachment.
ExtractText(m) == \/ Unwrapped(m) = "text"
                  \/ Unwrapped(m) \in {"image", "document", "video"} /\ m.caption

ExtractMedia(m) == Unwrapped(m) \in {"image", "document"}

\* The guard before the download looks at what the sender declares.
CheckMediaAllowed(m) == m.declared = "small" /\ m.mime

-----------------------------------------------------------------------------
(* handleInbound *)

\* Whether a message is handled at all: its echo is known, or it is the owner's
\* own message in a customer's chat, or it has neither text nor attachment.
Handled(m, known) ==
    /\ ~known
    /\ m.fromMe => m.self
    /\ ExtractMedia(m) \/ ExtractText(m)

\* messages.upsert: a handler starts and runs up to its first await.
Upsert(h, m) ==
    /\ hs[h] = Free /\ conn
    /\ m.notify /\ Handled(m, m.id \in Range(sent))
    /\ hs' = [hs EXCEPT ![h] =
                [pc |-> IF ~ExtractMedia(m) THEN "forward"
                        ELSE IF CheckMediaAllowed(m) THEN "download" ELSE "reply",
                 m |-> m, file |-> None,
                 replies |-> IF ExtractMedia(m) /\ ~CheckMediaAllowed(m) THEN 1 ELSE 0]]
    /\ UNCHANGED <<conn, chain, flying, wire, sent, acked, last,
                   files, bot, owner, looped, clock, faults>>

\* The customer is told why and the message goes no further.
Refuse(h) == hs' = [hs EXCEPT ![h].pc = "reply", ![h].replies = 1]

\* Fault: the size of the download itself is not looked at.
DownloadUnchecked(h) ==
    /\ hs[h].pc = "download"
    /\ \/ /\ IF hs[h].m.real = "empty" THEN Refuse(h) ELSE hs' = [hs EXCEPT ![h].pc = "probe"]
          /\ UNCHANGED faults
       \/ Fault /\ Refuse(h)
    /\ UNCHANGED <<conn, chain, flying, wire, sent, acked, last,
                   files, bot, owner, looped, clock>>

\* The download; its length is what counts, not the declared one.
Download(h) ==
    /\ hs[h].pc = "download"
    /\ \/ /\ IF hs[h].m.real # "small" THEN Refuse(h) ELSE hs' = [hs EXCEPT ![h].pc = "probe"]
          /\ UNCHANGED faults
       \/ Fault /\ Refuse(h)
    /\ UNCHANGED <<conn, chain, flying, wire, sent, acked, last,
                   files, bot, owner, looped, clock>>

\* POST /internal/wa/media: a file stored under this message id is answered again.
UploadProbe(h) ==
    /\ hs[h].pc = "probe"
    /\ hs' = [hs EXCEPT ![h].pc = IF files[hs[h].m] # None THEN "forward" ELSE "insert",
                        ![h].file = files[hs[h].m]]
    /\ UNCHANGED <<conn, chain, flying, wire, sent, acked, last,
                   files, bot, owner, looped, clock, faults>>

\* Fault: the loser of the insert answers with the id of its own copy.
UploadInsertOwnId(h) ==
    /\ hs[h].pc = "insert"
    /\ files' = [files EXCEPT ![hs[h].m] = IF @ = None THEN h ELSE @]
    /\ hs' = [hs EXCEPT ![h].pc = "forward", ![h].file = h]
    /\ UNCHANGED <<conn, chain, flying, wire, sent, acked, last,
                   bot, owner, looped, clock, faults>>

\* The insert: of two copies of a message the loser answers with the winner's id.
UploadInsert(h) ==
    /\ hs[h].pc = "insert"
    /\ files' = [files EXCEPT ![hs[h].m] = IF @ = None THEN h ELSE @]
    /\ hs' = [hs EXCEPT ![h].pc = "forward", ![h].file = files'[hs[h].m]]
    /\ UNCHANGED <<conn, chain, flying, wire, sent, acked, last,
                   bot, owner, looped, clock, faults>>

\* The upload is rejected, or its answer is lost before or after the insert.
UploadFails(h) ==
    /\ hs[h].pc \in {"probe", "insert"}
    /\ Fault
    /\ Refuse(h)
    /\ files' \in {files, [files EXCEPT ![hs[h].m] = IF @ = None THEN h ELSE @]}
    /\ UNCHANGED <<conn, chain, flying, wire, sent, acked, last, bot, owner, looped, clock>>

\* buildWebhookPayload and forwardToBackend: the bot runs a turn.
Forward(h) ==
    /\ hs[h].pc = "forward"
    /\ bot' = bot \cup {[m |-> hs[h].m, file |-> hs[h].file, by |-> h]}
    /\ \E n \in 0..MaxReplies : hs' = [hs EXCEPT ![h].pc = "reply", ![h].replies = n]
    /\ UNCHANGED <<conn, chain, flying, wire, sent, acked, last,
                   files, owner, looped, clock, faults>>

\* The call fails or times out, whether or not the bot has run.
ForwardFails(h) ==
    /\ hs[h].pc = "forward"
    /\ Fault
    /\ bot' \in {bot, bot \cup {[m |-> hs[h].m, file |-> hs[h].file, by |-> h]}}
    /\ hs' = [hs EXCEPT ![h].pc = "done"]
    /\ UNCHANGED <<conn, chain, flying, wire, sent, acked, last,
                   files, owner, looped, clock>>

\* sendReplies: the next reply, or the end; a reply is dropped when not connected.
NextReply(h) ==
    /\ hs[h].pc = "reply"
    /\ IF hs[h].replies = 0 THEN hs' = [hs EXCEPT ![h].pc = "done"] /\ UNCHANGED chain
       ELSE IF ~conn THEN hs' = [hs EXCEPT ![h].replies = @ - 1] /\ UNCHANGED chain
       ELSE /\ chain' = Append(chain, [by |-> h, left |-> hs[h].replies])
            /\ hs' = [hs EXCEPT ![h].pc = "sending", ![h].replies = @ - 1]
    /\ UNCHANGED <<conn, flying, wire, sent, acked, last,
                   files, bot, owner, looped, clock, faults>>

-----------------------------------------------------------------------------
(* The send chain *)

\* POST /send-bot, refused with 503 when the session is not connected.
SendBot ==
    /\ owner < MaxOwner
    /\ owner' = owner + 1
    /\ chain' = IF conn THEN Append(chain, [by |-> "owner", left |-> owner']) ELSE chain
    /\ UNCHANGED <<conn, hs, flying, wire, sent, acked, last,
                   files, bot, looped, clock, faults>>

Resume(x) == IF x.by \in Handler THEN [hs EXCEPT ![x.by].pc = "reply"] ELSE hs

\* Fault: the newest id is forgotten when the set is full.
RememberOldest(id) == IF Len(sent) >= SentCap THEN sent ELSE Append(sent, id)

\* Fault: nothing is ever forgotten.
RememberAll(id) == Append(sent, id)

\* rememberSentMessage: the oldest id is forgotten when the set is full.
Remember(id) == LET s == Append(sent, id) IN IF Len(s) > SentCap THEN Tail(s) ELSE s

OwnId(n) == 1000 + n

\* Fault: the gap is measured when the send is queued, not when it runs.
SendAtOnce ==
    /\ chain # <<>> /\ ~flying /\ conn
    /\ wire' = Append(wire, [x |-> Head(chain), at |-> clock])
    /\ flying' = TRUE
    /\ UNCHANGED <<conn, hs, chain, sent, acked, last,
                   files, bot, owner, looped, clock, faults>>

\* The head of the chain, once the gap since the last attempt is over: sendMessage
\* puts it on the wire and is awaited.
Send ==
    /\ chain # <<>> /\ ~flying /\ conn /\ clock > last
    /\ wire' = Append(wire, [x |-> Head(chain), at |-> clock])
    /\ flying' = TRUE
    /\ UNCHANGED <<conn, hs, chain, sent, acked, last,
                   files, bot, owner, looped, clock, faults>>

\* The call is over: the chain goes on to its next send, the caller to what follows.
LeaveChain ==
    /\ last' = clock /\ flying' = FALSE
    /\ chain' = Tail(chain) /\ hs' = Resume(Head(chain))

\* sendMessage resolves; only now is the id remembered.
SendResolves ==
    /\ flying
    /\ LeaveChain
    /\ sent' = Remember(OwnId(Len(wire))) /\ acked' = Append(acked, Len(wire))
    /\ UNCHANGED <<conn, wire, files, bot, owner, looped, clock, faults>>

\* sendMessage rejects: without a connection, or with one, before or after the
\* message is on the wire.
Rejects ==
    /\ chain # <<>> /\ (flying \/ clock > last)
    /\ IF conn THEN Fault ELSE UNCHANGED faults

\* Fault: the caller of a send that throws is left waiting.
SendFailsSilently ==
    /\ Rejects
    /\ last' = clock /\ flying' = FALSE
    /\ chain' = Tail(chain)
    /\ UNCHANGED <<conn, hs, wire, sent, acked, files, bot, owner, looped, clock>>

\* A send that throws resolves the chain all the same.
SendFails ==
    /\ Rejects
    /\ LeaveChain
    /\ UNCHANGED <<conn, wire, sent, acked, files, bot, owner, looped, clock>>

\* A reply to the owner's own test message goes to the self-chat.
ToSelf(x) == x.by \in Handler /\ hs[x.by].m.self

\* WhatsApp emits one of the session's own messages again: in a customer's chat it is
\* dropped for what it is, in the self-chat when its id is known; any other is taken
\* for a customer's.
Echo(n) ==
    /\ conn /\ n \in DOMAIN wire
    /\ OwnId(n) \notin Range(sent) /\ ToSelf(wire[n].x)
    /\ Cardinality(looped) < MaxEchoes
    /\ looped' = looped \cup {[n |-> n, acks |-> Len(acked)]}
    /\ UNCHANGED <<conn, hs, chain, flying, wire, sent, acked, last,
                   files, bot, owner, clock, faults>>

-----------------------------------------------------------------------------
Connect == ~conn /\ conn' = TRUE
           /\ UNCHANGED <<hs, chain, flying, wire, sent, acked, last,
                          files, bot, owner, looped, clock, faults>>

Disconnect == conn /\ Fault /\ conn' = FALSE
              /\ UNCHANGED <<hs, chain, flying, wire, sent, acked, last,
                             files, bot, owner, looped, clock>>

\* A second passes; more than one is needed only while a send waits for its gap.
Tick == clock < MaxClock /\ clock = last /\ clock' = clock + 1
        /\ UNCHANGED <<conn, hs, chain, flying, wire, sent, acked, last,
                       files, bot, owner, looped, faults>>

Step(h) == \/ Download(h) \/ UploadProbe(h) \/ UploadInsert(h) \/ Forward(h) \/ NextReply(h)

Next ==
    \/ \E h \in Handler : \/ Step(h) \/ UploadFails(h) \/ ForwardFails(h)
                          \/ \E m \in Msg : Upsert(h, m)
    \/ SendBot \/ Send \/ SendResolves \/ SendFails \/ Connect \/ Disconnect \/ Tick
    \/ \E n \in 1..MaxClock : Echo(n)

Spec == Init /\ [][Next]_vars

\* Awaited calls return, the session reconnects and time passes.
FairSpec ==
    /\ Spec
    /\ \A h \in Handler : WF_vars(Step(h))
    /\ WF_vars(Send) /\ WF_vars(SendResolves) /\ WF_vars(~conn /\ SendFails)
    /\ WF_vars(Connect) /\ WF_vars(Tick)

-----------------------------------------------------------------------------
(* Properties *)

\* Every variable has its type.
TypeOK ==
    /\ conn \in BOOLEAN /\ flying \in BOOLEAN
    /\ \A h \in Handler :
         /\ hs[h].pc \in {"free", "download", "probe", "insert", "forward", "reply",
                          "sending", "done"}
         /\ hs[h].m \in Msg \cup {None} /\ hs[h].file \in Handler \cup {None}
         /\ hs[h].replies \in 0..(MaxReplies + 1)
    /\ \A i \in DOMAIN chain : chain[i].by \in Handler \cup {"owner"}
    /\ Len(sent) <= SentCap
    /\ files \in [Msg -> Handler \cup {None}]
    /\ last \in -1..clock /\ clock \in 0..MaxClock

\* What the session sends goes out one message per second at most, and the replies
\* of one bot turn in the order the bot gave them, whatever other handlers and the
\* owner queue in between and whichever sends fail.
PacedInOrder ==
    \A i, j \in DOMAIN wire : i < j =>
      /\ wire[i].at < wire[j].at
      /\ wire[i].x.by = wire[j].x.by /\ wire[i].x.by # "owner"
         => wire[i].x.left > wire[j].x.left

\* A message emitted again, also while the first copy is still being stored, gives
\* the bot the same file.
SameFileForCopies ==
    \A p, q \in bot : p.m = q.m => p.file = q.file

\* The bot never runs a turn for an attachment that was refused: one that is too
\* big in truth or as declared, of a type not allowed, or that could not be stored.
RefusedStaysOut ==
    \A p \in bot : ExtractMedia(p.m) =>
      p.file # None /\ p.m.declared = "small" /\ p.m.real = "small" /\ p.m.mime

\* A message whose sendMessage has resolved is never taken for a customer's before
\* SentCap others have, whatever was sent, failed or came back in between.
NoEchoLoop ==
    \A e \in looped : \A i \in 1..e.acks : acked[i] = e.n => e.acks - i >= SentCap

\* Every handler comes to its end: a send that fails does not block the chain.
HandlersFinish ==
    \A h \in Handler : hs[h].pc # "free" ~> hs[h].pc = "done"
=============================================================================
