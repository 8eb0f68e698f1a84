---------------------------- MODULE DeliveryProofs ----------------------------
(***************************************************************************)
(* Theorems about module Delivery, for any set of messages and handlers,   *)
(* any capacity of the set of sent ids and any number of faults, replies   *)
(* and echoes.                                                             *)
(***************************************************************************)
EXTENDS Delivery, TLAPS

-----------------------------------------------------------------------------
(* The inductive invariant *)

FileId == Handler \cup {None}
PC == {"free", "download", "probe", "insert", "forward", "reply", "sending", "done"}
HandlerRec == [pc : PC, m : Msg \cup {None}, file : FileId,
               replies : 0..(MaxReplies + 1)]
Entry == [by : Handler \cup {"owner"}, left : Nat]
Sending == [x : Entry, at : Nat]

\* The types of the variables, with the shapes the proofs need.
Types ==
    /\ conn \in BOOLEAN /\ flying \in BOOLEAN
    /\ hs \in [Handler -> HandlerRec]
    /\ chain \in Seq(Entry)
    /\ wire \in Seq(Sending)
    /\ sent \in Seq(Nat) /\ acked \in Seq(Nat)
    /\ files \in [Msg -> Handler \cup {None}]
    /\ last \in Int /\ clock \in Nat /\ owner \in Nat
    /\ -1 <= last /\ last <= clock /\ clock <= MaxClock

\* A reply that waits in the chain is the one its handler waits for; the send that is
\* awaited stays at its head.
QueueInv ==
    /\ flying => chain # <<>>
    /\ \A i \in DOMAIN chain : chain[i].by \in Handler =>
         /\ hs[chain[i].by].pc = "sending"
         /\ hs[chain[i].by].replies < chain[i].left
    /\ \A i, j \in DOMAIN chain : i < j /\ chain[i].by \in Handler => chain[i].by # chain[j].by

\* What is on the wire was sent by the last attempt at the latest, or just now, and is
\* a reply that its handler gave before those it waits for and those it still has.
WireInv ==
    \A i \in DOMAIN wire :
      /\ wire[i].at <= IF flying THEN clock ELSE last
      /\ wire[i].x.by \in Handler =>
           /\ hs[wire[i].x.by].pc \in {"reply", "sending", "done"}
           /\ hs[wire[i].x.by].replies < wire[i].x.left
           /\ \A j \in DOMAIN chain : chain[j].by = wire[i].x.by =>
                chain[j].left < wire[i].x.left \/ (flying /\ j = 1)

\* An attachment goes past a check only when it passes it, and what is forwarded
\* has the file stored under its message, which is never replaced.
Passed(m) == m.declared = "small" /\ m.mime /\ m.real = "small"
Stored(m, f) == IF ExtractMedia(m) THEN Passed(m) /\ f = files[m] /\ f # None ELSE f = None

FileInv ==
    /\ \A h \in Handler :
         /\ hs[h].pc # "free" => hs[h].m \in Msg
         /\ hs[h].pc = "download" => ExtractMedia(hs[h].m) /\ CheckMediaAllowed(hs[h].m)
         /\ hs[h].pc \in {"probe", "insert"} => ExtractMedia(hs[h].m) /\ Passed(hs[h].m)
         /\ hs[h].pc = "forward" => Stored(hs[h].m, hs[h].file)
    /\ \A p \in bot : p.m \in Msg /\ Stored(p.m, p.file)

\* The ids that are remembered are those of the last sends that resolved.
SentInv ==
    /\ Len(sent) <= SentCap
    /\ Len(sent) = SentCap \/ Len(sent) = Len(acked)
    /\ Len(sent) <= Len(acked)
    /\ \A i \in 1..Len(sent) : sent[i] = OwnId(acked[Len(acked) - Len(sent) + i])
    /\ \A e \in looped :
         /\ e.acks \in Nat /\ e.acks <= Len(acked)
         /\ \A i \in 1..e.acks : acked[i] = e.n => e.acks - i >= SentCap

IInv == Types /\ QueueInv /\ WireInv /\ PacedInOrder /\ FileInv /\ SentInv

-----------------------------------------------------------------------------
(* Types *)

\* The initial state has the invariant.
LEMMA InitInv == Init => IInv
<1> SUFFICES ASSUME Init PROVE IInv
  OBVIOUS
<1>1. Types
  <2>1. Free \in HandlerRec
    BY DeliveryConstants DEF Free, HandlerRec, FileId, PC
  <2>2. chain \in Seq(Entry) /\ wire \in Seq(Sending) /\ sent \in Seq(Nat) /\ acked \in Seq(Nat)
    BY DEF Init
  <2>4. conn \in BOOLEAN /\ flying \in BOOLEAN
    BY DEF Init
  <2>3. hs \in [Handler -> HandlerRec] /\ files \in [Msg -> Handler \cup {None}]
    BY <2>1 DEF Init
  <2> QED BY <2>2, <2>3, <2>4, DeliveryConstants DEF Init, Types
<1>2. QueueInv /\ WireInv /\ PacedInOrder
  BY DEF Init, QueueInv, WireInv, PacedInOrder
<1>3. FileInv
  BY DEF Init, FileInv, Free
<1>4. SentInv
  BY DeliveryConstants DEF Init, SentInv
<1> QED BY <1>1, <1>2, <1>3, <1>4 DEF IInv

-----------------------------------------------------------------------------
(* What the steps of a handler do to its record *)

\* A step that gives no handler but h a new record.
Became(h) ==
    /\ hs' \in [Handler -> HandlerRec]
    /\ hs'[h] \in HandlerRec
    /\ \A g \in Handler : g # h => hs'[g] = hs[g]

\* A record written at one handler.
LEMMA Written ==
  ASSUME Types, NEW h \in Handler, NEW r \in HandlerRec, hs' = [hs EXCEPT ![h] = r]
  PROVE  Became(h) /\ hs'[h] = r
BY DEF Types, Became

\* A handler whose pc moves on.
LEMMA PcSet ==
  ASSUME Types, NEW h \in Handler, NEW p \in PC, hs' = [hs EXCEPT ![h].pc = p]
  PROVE  /\ Became(h)
         /\ hs'[h].pc = p /\ hs'[h].m = hs[h].m /\ hs'[h].file = hs[h].file
         /\ hs'[h].replies = hs[h].replies
<1>1. hs[h] \in HandlerRec /\ hs \in [Handler -> HandlerRec]
  BY DEF Types
<1>2. PICK r : r = [hs[h] EXCEPT !.pc = p]
  OBVIOUS
<1>3. r \in HandlerRec /\ r.pc = p /\ r.m = hs[h].m /\ r.file = hs[h].file
      /\ r.replies = hs[h].replies
  BY <1>1, <1>2 DEF HandlerRec
<1>4. hs' = [hs EXCEPT ![h] = r]
  BY <1>1, <1>2
<1> QED BY <1>3, <1>4, Written

\* A handler that is given its file as well.
LEMMA FileSet ==
  ASSUME Types, NEW h \in Handler, NEW p \in PC, NEW f \in FileId,
         hs' = [hs EXCEPT ![h].pc = p, ![h].file = f]
  PROVE  /\ Became(h)
         /\ hs'[h].pc = p /\ hs'[h].m = hs[h].m /\ hs'[h].file = f
<1>1. hs[h] \in HandlerRec /\ hs \in [Handler -> HandlerRec]
  BY DEF Types
<1>2. PICK r : r = [[hs[h] EXCEPT !.pc = p] EXCEPT !.file = f]
  OBVIOUS
<1>3. r \in HandlerRec /\ r.pc = p /\ r.m = hs[h].m /\ r.file = f
  BY <1>1, <1>2 DEF HandlerRec
<1>4. hs' = [hs EXCEPT ![h] = r]
  BY <1>1, <1>2
<1> QED BY <1>3, <1>4, Written

\* A handler that is given replies to send.
LEMMA RepliesSet ==
  ASSUME Types, NEW h \in Handler, NEW p \in PC, NEW n \in 0..(MaxReplies + 1),
         hs' = [hs EXCEPT ![h].pc = p, ![h].replies = n]
  PROVE  /\ Became(h)
         /\ hs'[h].pc = p /\ hs'[h].m = hs[h].m /\ hs'[h].replies = n
<1>1. hs[h] \in HandlerRec /\ hs \in [Handler -> HandlerRec]
  BY DEF Types
<1>2. PICK r : r = [[hs[h] EXCEPT !.pc = p] EXCEPT !.replies = n]
  OBVIOUS
<1>3. r \in HandlerRec /\ r.pc = p /\ r.m = hs[h].m /\ r.replies = n
  BY <1>1, <1>2 DEF HandlerRec
<1>4. hs' = [hs EXCEPT ![h] = r]
  BY <1>1, <1>2
<1> QED BY <1>3, <1>4, Written

\* A handler that drops one reply.
LEMMA RepliesDropped ==
  ASSUME Types, NEW h \in Handler, NEW n \in 0..(MaxReplies + 1),
         hs' = [hs EXCEPT ![h].replies = n]
  PROVE  /\ Became(h)
         /\ hs'[h].pc = hs[h].pc /\ hs'[h].m = hs[h].m /\ hs'[h].replies = n
<1>1. hs[h] \in HandlerRec /\ hs \in [Handler -> HandlerRec]
  BY DEF Types
<1>2. PICK r : r = [hs[h] EXCEPT !.replies = n]
  OBVIOUS
<1>3. r \in HandlerRec /\ r.pc = hs[h].pc /\ r.m = hs[h].m /\ r.replies = n
  BY <1>1, <1>2 DEF HandlerRec
<1>4. hs' = [hs EXCEPT ![h] = r]
  BY <1>1, <1>2
<1> QED BY <1>3, <1>4, Written

\* A refused attachment: one reply, and the message goes no further.
LEMMA RefuseShape ==
  ASSUME Types, NEW h \in Handler, Refuse(h)
  PROVE  Became(h) /\ hs'[h].pc = "reply" /\ hs'[h].m = hs[h].m
<1>1. 1 \in 0..(MaxReplies + 1) /\ "reply" \in PC
  BY DeliveryConstants DEF PC
<1>2. hs' = [hs EXCEPT ![h].pc = "reply", ![h].replies = 1]
  BY DEF Refuse
<1> QED BY <1>1, <1>2, RepliesSet

\* The steps of a handler, one shape each: an attachment that is handled up to the
\* call of the backend ...
Inbound(h) == Download(h) \/ UploadProbe(h) \/ UploadInsert(h) \/ UploadFails(h)
              \/ \E m \in Msg : Upsert(h, m)

\* ... the call, and the replies.
Outbound(h) == Forward(h) \/ ForwardFails(h) \/ NextReply(h)

Early == {"free", "download", "probe", "insert", "forward"}

\* Before its replies a handler touches nothing the chain knows of.
Quiet == UNCHANGED <<conn, chain, flying, wire, sent, acked, last, owner, looped, clock>>

\* What the invariant says of a record.
RecOK(r, fs) ==
    /\ r.pc # "free" => r.m \in Msg
    /\ r.pc = "download" => ExtractMedia(r.m) /\ CheckMediaAllowed(r.m)
    /\ r.pc \in {"probe", "insert"} => ExtractMedia(r.m) /\ Passed(r.m)
    /\ r.pc = "forward" =>
         IF ExtractMedia(r.m) THEN Passed(r.m) /\ r.file = fs[r.m] /\ r.file # None
         ELSE r.file = None

\* A file that is stored is never replaced.
Kept == /\ files' \in [Msg -> Handler \cup {None}]
        /\ \A m \in Msg : files[m] # None => files'[m] = files[m]

\* messages.upsert.
LEMMA UpsertShape ==
  ASSUME Types, FileInv, NEW h \in Handler, NEW m \in Msg, Upsert(h, m)
  PROVE  Became(h) /\ RecOK(hs'[h], files) /\ hs[h].pc = "free" /\ UNCHANGED files
<1> DEFINE r == [pc |-> IF ~ExtractMedia(m) THEN "forward"
                        ELSE IF CheckMediaAllowed(m) THEN "download" ELSE "reply",
                 m |-> m, file |-> None,
                 replies |-> IF ExtractMedia(m) /\ ~CheckMediaAllowed(m) THEN 1 ELSE 0]
<1>1. r \in HandlerRec
  BY DeliveryConstants DEF HandlerRec, FileId, PC
<1>2. RecOK(r, files)
  BY DEF RecOK
<1>3. hs' = [hs EXCEPT ![h] = r] /\ hs[h].pc = "free" /\ UNCHANGED files
  BY DEF Upsert, Free
<1> HIDE DEF r
<1>4. Became(h) /\ hs'[h] = r
  BY <1>1, <1>3, Written
<1> QED BY <1>2, <1>3, <1>4

\* The download.
LEMMA DownloadShape ==
  ASSUME Types, FileInv, NEW h \in Handler, Download(h)
  PROVE  Became(h) /\ RecOK(hs'[h], files) /\ hs[h].pc = "download" /\ UNCHANGED files
<1>1. hs[h].pc = "download" /\ UNCHANGED files
  BY DEF Download
<1>2. hs[h].m \in Msg /\ ExtractMedia(hs[h].m) /\ CheckMediaAllowed(hs[h].m)
  BY <1>1 DEF FileInv
<1>3. CASE Refuse(h)
  <2>1. Became(h) /\ hs'[h].pc = "reply" /\ hs'[h].m = hs[h].m
    BY <1>3, RefuseShape
  <2> QED BY <1>1, <1>2, <2>1 DEF RecOK
<1>4. CASE hs[h].m.real = "small" /\ hs' = [hs EXCEPT ![h].pc = "probe"]
  <2>1. "probe" \in PC
    BY DEF PC
  <2>2. Became(h) /\ hs'[h].pc = "probe" /\ hs'[h].m = hs[h].m
    BY <1>4, <2>1, PcSet
  <2> QED BY <1>1, <1>2, <1>4, <2>2 DEF RecOK, CheckMediaAllowed, Passed
<1> QED BY <1>3, <1>4 DEF Download

\* The look at the files of the message.
LEMMA ProbeShape ==
  ASSUME Types, FileInv, NEW h \in Handler, UploadProbe(h)
  PROVE  Became(h) /\ RecOK(hs'[h], files) /\ hs[h].pc = "probe" /\ UNCHANGED files
<1>1. hs[h].pc = "probe" /\ UNCHANGED files
  BY DEF UploadProbe
<1>2. hs[h].m \in Msg /\ ExtractMedia(hs[h].m) /\ Passed(hs[h].m)
  BY <1>1 DEF FileInv
<1>3. PICK f \in FileId : f = files[hs[h].m]
  BY <1>2 DEF Types, FileId
<1>4. PICK p \in PC : p = IF files[hs[h].m] # None THEN "forward" ELSE "insert"
  BY DEF PC
<1>5. hs' = [hs EXCEPT ![h].pc = p, ![h].file = f]
  BY <1>3, <1>4 DEF UploadProbe
<1>6. Became(h) /\ hs'[h].pc = p /\ hs'[h].m = hs[h].m /\ hs'[h].file = f
  BY <1>5, FileSet
<1> QED BY <1>1, <1>2, <1>3, <1>4, <1>6 DEF RecOK

\* The row of the file: written once per message.
LEMMA InsertKeeps ==
  ASSUME Types, NEW h \in Handler, NEW m \in Msg,
         files' = [files EXCEPT ![m] = IF @ = None THEN h ELSE @]
  PROVE  Kept /\ files'[m] # None /\ files'[m] \in Handler
<1>1. files \in [Msg -> Handler \cup {None}] /\ h # None
  BY DeliveryConstants DEF Types
<1>2. files' = [files EXCEPT ![m] = IF files[m] = None THEN h ELSE files[m]]
  OBVIOUS
<1>3. files' \in [Msg -> Handler \cup {None}]
      /\ \A k \in Msg : files'[k] = IF k = m /\ files[k] = None THEN h ELSE files[k]
  BY <1>1, <1>2
<1> QED BY <1>1, <1>3 DEF Kept

\* The insert.
LEMMA InsertShape ==
  ASSUME Types, FileInv, NEW h \in Handler, UploadInsert(h)
  PROVE  Became(h) /\ RecOK(hs'[h], files') /\ hs[h].pc = "insert" /\ Kept
<1>1. hs[h].pc = "insert" /\ files' = [files EXCEPT ![hs[h].m] = IF @ = None THEN h ELSE @]
  BY DEF UploadInsert
<1>2. hs[h].m \in Msg /\ ExtractMedia(hs[h].m) /\ Passed(hs[h].m)
  BY <1>1 DEF FileInv
<1>3. Kept /\ files'[hs[h].m] # None /\ files'[hs[h].m] \in Handler
  BY <1>1, <1>2, InsertKeeps
<1>4. "forward" \in PC
  BY DEF PC
<1>5. PICK f \in FileId : f = files'[hs[h].m]
  BY <1>3 DEF FileId
<1>6. hs' = [hs EXCEPT ![h].pc = "forward", ![h].file = f]
  BY <1>5 DEF UploadInsert
<1>7. Became(h) /\ hs'[h].pc = "forward" /\ hs'[h].m = hs[h].m /\ hs'[h].file = f
  BY <1>4, <1>6, FileSet
<1> QED BY <1>1, <1>2, <1>3, <1>5, <1>7 DEF RecOK

\* An upload that fails, before or after the insert.
LEMMA UploadFailsShape ==
  ASSUME Types, FileInv, NEW h \in Handler, UploadFails(h)
  PROVE  Became(h) /\ RecOK(hs'[h], files') /\ hs[h].pc \in {"probe", "insert"} /\ Kept
<1>1. hs[h].pc \in {"probe", "insert"} /\ Refuse(h)
  BY DEF UploadFails
<1>2. hs[h].m \in Msg
  BY <1>1 DEF FileInv
<1>3. Kept
  <2>1. CASE files' = files
    BY <2>1 DEF Kept, Types
  <2>2. CASE files' = [files EXCEPT ![hs[h].m] = IF @ = None THEN h ELSE @]
    BY <1>2, <2>2, InsertKeeps
  <2> QED BY <2>1, <2>2 DEF UploadFails
<1>4. Became(h) /\ hs'[h].pc = "reply" /\ hs'[h].m = hs[h].m
  BY <1>1, RefuseShape
<1> QED BY <1>1, <1>2, <1>3, <1>4 DEF RecOK

\* Up to the call of the backend, in one: the record a handler gets is in order,
\* and no stored file is replaced.
LEMMA InboundShape ==
  ASSUME Types, FileInv, NEW h \in Handler, Inbound(h)
  PROVE  /\ Quiet /\ UNCHANGED bot /\ Kept
         /\ Became(h) /\ RecOK(hs'[h], files') /\ hs[h].pc \in Early
<1> DEFINE Goal == Kept /\ Became(h) /\ RecOK(hs'[h], files') /\ hs[h].pc \in Early
<1>1. ASSUME UNCHANGED files, RecOK(hs'[h], files) PROVE Kept /\ RecOK(hs'[h], files')
  BY <1>1 DEF Kept, Types
<1>2. ASSUME NEW m \in Msg, Upsert(h, m) PROVE Goal
  BY <1>1, <1>2, UpsertShape DEF Early
<1>3. ASSUME Download(h) PROVE Goal
  BY <1>1, <1>3, DownloadShape DEF Early
<1>4. ASSUME UploadProbe(h) PROVE Goal
  BY <1>1, <1>4, ProbeShape DEF Early
<1>5. ASSUME UploadInsert(h) PROVE Goal
  BY <1>5, InsertShape DEF Early
<1>6. ASSUME UploadFails(h) PROVE Goal
  BY <1>6, UploadFailsShape DEF Early
<1>7. Quiet /\ UNCHANGED bot
  BY DEF Inbound, Upsert, Download, UploadProbe, UploadInsert, UploadFails, Quiet
<1> QED BY <1>2, <1>3, <1>4, <1>5, <1>6, <1>7 DEF Inbound

\* The call of the backend, answered or not.
LEMMA ForwardShape ==
  ASSUME Types, FileInv, NEW h \in Handler, Forward(h) \/ ForwardFails(h)
  PROVE  /\ Quiet /\ UNCHANGED files
         /\ Became(h) /\ hs'[h].m = hs[h].m /\ hs'[h].pc \in {"reply", "done"}
         /\ hs[h].pc = "forward"
         /\ bot' \in {bot, bot \cup {[m |-> hs[h].m, file |-> hs[h].file, by |-> h]}}
<1>1. CASE Forward(h)
  <2>1. PICK n \in 0..MaxReplies : hs' = [hs EXCEPT ![h].pc = "reply", ![h].replies = n]
    BY <1>1 DEF Forward
  <2>2. n \in 0..(MaxReplies + 1) /\ "reply" \in PC
    BY DeliveryConstants DEF PC
  <2>3. Became(h) /\ hs'[h].pc = "reply" /\ hs'[h].m = hs[h].m
    BY <2>1, <2>2, RepliesSet
  <2>4. Quiet /\ UNCHANGED files /\ hs[h].pc = "forward"
        /\ bot' = bot \cup {[m |-> hs[h].m, file |-> hs[h].file, by |-> h]}
    BY <1>1 DEF Forward, Quiet
  <2> QED BY <2>3, <2>4
<1>2. CASE ForwardFails(h)
  <2>1. "done" \in PC /\ hs' = [hs EXCEPT ![h].pc = "done"]
    BY <1>2 DEF ForwardFails, PC
  <2>2. Became(h) /\ hs'[h].pc = "done" /\ hs'[h].m = hs[h].m
    BY <2>1, PcSet
  <2>3. Quiet /\ UNCHANGED files /\ hs[h].pc = "forward"
        /\ bot' \in {bot, bot \cup {[m |-> hs[h].m, file |-> hs[h].file, by |-> h]}}
    BY <1>2 DEF ForwardFails, Quiet
  <2> QED BY <2>2, <2>3
<1> QED BY <1>1, <1>2

\* sendReplies.
LEMMA NextReplyShape ==
  ASSUME Types, NEW h \in Handler, NextReply(h)
  PROVE  /\ UNCHANGED <<conn, flying, wire, sent, acked, last, files, bot, owner, looped, clock>>
         /\ hs[h].pc = "reply" /\ Became(h) /\ hs'[h].m = hs[h].m
         /\ \/ /\ chain' = chain
               /\ hs'[h].pc \in {"reply", "done"} /\ hs'[h].replies <= hs[h].replies
            \/ /\ chain' = Append(chain, [by |-> h, left |-> hs[h].replies])
               /\ hs'[h].pc = "sending" /\ hs'[h].replies < hs[h].replies
<1>0. hs[h].pc = "reply" /\ hs[h] \in HandlerRec
      /\ UNCHANGED <<conn, flying, wire, sent, acked, last, files, bot, owner, looped, clock>>
  BY DEF NextReply, Types
<1>1. hs[h].replies \in 0..(MaxReplies + 1)
  BY <1>0 DEF HandlerRec
<1>2. CASE hs[h].replies = 0
  <2>1. "done" \in PC /\ hs' = [hs EXCEPT ![h].pc = "done"] /\ chain' = chain
    BY <1>2 DEF NextReply, PC
  <2>2. Became(h) /\ hs'[h].pc = "done" /\ hs'[h].m = hs[h].m
        /\ hs'[h].replies = hs[h].replies
    BY <2>1, PcSet
  <2> QED BY <1>0, <1>1, <2>1, <2>2
<1>3. CASE hs[h].replies # 0
  <2>1. PICK n \in 0..(MaxReplies + 1) : n = hs[h].replies - 1
    BY <1>1, <1>3, DeliveryConstants
  <2>2. CASE ~conn
    <3>1. hs' = [hs EXCEPT ![h].replies = n] /\ chain' = chain
      BY <1>0, <1>3, <2>1, <2>2 DEF NextReply, Types
    <3>2. Became(h) /\ hs'[h].pc = hs[h].pc /\ hs'[h].m = hs[h].m /\ hs'[h].replies = n
      BY <3>1, RepliesDropped
    <3> QED BY <1>0, <1>1, <2>1, <3>1, <3>2
  <2>3. CASE conn
    <3>1. /\ hs' = [hs EXCEPT ![h].pc = "sending", ![h].replies = n] /\ "sending" \in PC
          /\ chain' = Append(chain, [by |-> h, left |-> hs[h].replies])
      BY <1>0, <1>3, <2>1, <2>3 DEF NextReply, Types, PC
    <3>2. Became(h) /\ hs'[h].pc = "sending" /\ hs'[h].m = hs[h].m /\ hs'[h].replies = n
      BY <3>1, RepliesSet
    <3> QED BY <1>0, <1>1, <2>1, <3>1, <3>2
  <2> QED BY <2>2, <2>3
<1> QED BY <1>2, <1>3

-----------------------------------------------------------------------------
(* The replies go out in order *)

\* A handler that has no reply in the chain and whose count of replies does not
\* grow once it has some on the wire changes nothing for the others.
LEMMA QuietQueue ==
  ASSUME IInv, NEW h \in Handler, Became(h), UNCHANGED <<chain, flying, wire, last, clock>>,
         \/ hs[h].pc \in Early
         \/ hs[h].pc = "reply" /\ hs'[h].pc \in {"reply", "done"} /\ hs'[h].replies <= hs[h].replies
  PROVE  (QueueInv /\ WireInv /\ PacedInOrder)'
<1>0. Types /\ QueueInv /\ WireInv /\ PacedInOrder
  BY DEF IInv
<1>1. \A i \in DOMAIN chain : chain[i].by # h
  BY <1>0 DEF QueueInv, Early
<1>2. \A i \in DOMAIN chain : chain[i].by \in Handler => hs'[chain[i].by] = hs[chain[i].by]
  BY <1>1 DEF Became
<1>3. QueueInv'
  BY <1>0, <1>2 DEF QueueInv
<1>4. ASSUME NEW i \in DOMAIN wire, wire[i].x.by \in Handler
      PROVE  /\ hs'[wire[i].x.by].pc \in {"reply", "sending", "done"}
             /\ hs'[wire[i].x.by].replies < wire[i].x.left
  <2>1. /\ hs[wire[i].x.by].pc \in {"reply", "sending", "done"}
        /\ hs[wire[i].x.by].replies < wire[i].x.left
    BY <1>0, <1>4 DEF WireInv
  <2>2. CASE wire[i].x.by # h
    BY <1>4, <2>1, <2>2 DEF Became
  <2>3. CASE wire[i].x.by = h
    <3>1. wire[i] \in Sending
      BY <1>0 DEF Types
    <3>2. wire[i].x.left \in Nat /\ hs'[h].replies \in Nat /\ hs[h].replies \in Nat
      BY <1>0, <3>1, DeliveryConstants DEF Types, Became, HandlerRec, Entry, Sending
    <3>3. hs'[h].pc \in {"reply", "done"} /\ hs'[h].replies <= hs[h].replies
      BY <2>1, <2>3 DEF Early
    <3> QED BY <2>1, <2>3, <3>2, <3>3
  <2> QED BY <2>2, <2>3
<1>5. WireInv'
  BY <1>0, <1>4 DEF WireInv
<1>6. PacedInOrder'
  BY <1>0 DEF PacedInOrder
<1> QED BY <1>3, <1>5, <1>6

\* A reply that is queued.
LEMMA QueueReply ==
  ASSUME IInv, NEW h \in Handler, Became(h), UNCHANGED <<flying, wire, last, clock>>,
         hs[h].pc = "reply", hs'[h].pc = "sending", hs'[h].replies < hs[h].replies,
         chain' = Append(chain, [by |-> h, left |-> hs[h].replies])
  PROVE  (QueueInv /\ WireInv /\ PacedInOrder)' /\ chain' \in Seq(Entry)
<1>0. Types /\ QueueInv /\ WireInv /\ PacedInOrder
  BY DEF IInv
<1> DEFINE e == [by |-> h, left |-> hs[h].replies]
<1>1. e \in Entry /\ e.by = h /\ e.left = hs[h].replies /\ hs[h].replies \in Nat
      /\ hs'[h].replies \in Nat
  BY <1>0, DeliveryConstants DEF Types, HandlerRec, Entry, Became
<1> HIDE DEF e
<1>2. /\ chain' \in Seq(Entry) /\ Len(chain') = Len(chain) + 1 /\ Len(chain) \in Nat
      /\ chain'[Len(chain) + 1] = e
      /\ \A i \in 1..Len(chain) : chain'[i] = chain[i]
      /\ DOMAIN chain = 1..Len(chain) /\ DOMAIN chain' = 1..(Len(chain) + 1)
  BY <1>0, <1>1 DEF Types, e
<1>3. \A i \in DOMAIN chain : chain[i].by # h
  BY <1>0 DEF QueueInv
<1>4. \A i \in DOMAIN chain : chain[i].by \in Handler => hs'[chain[i].by] = hs[chain[i].by]
  BY <1>3 DEF Became
<1>6. ASSUME NEW i \in DOMAIN chain', chain'[i].by \in Handler
      PROVE  hs'[chain'[i].by].pc = "sending" /\ hs'[chain'[i].by].replies < chain'[i].left
  <2>1. CASE i = Len(chain) + 1
    BY <1>1, <1>2, <2>1
  <2>2. CASE i \in DOMAIN chain
    BY <1>0, <1>2, <1>4, <1>6, <2>2 DEF QueueInv
  <2> QED BY <1>2, <2>1, <2>2
<1>7. ASSUME NEW i \in DOMAIN chain', NEW j \in DOMAIN chain', i < j, chain'[i].by \in Handler
      PROVE  chain'[i].by # chain'[j].by
  <2>1. i \in DOMAIN chain /\ chain'[i] = chain[i]
    BY <1>2, <1>7
  <2>2. CASE j = Len(chain) + 1
    BY <1>1, <1>2, <1>3, <2>1, <2>2
  <2>3. CASE j \in DOMAIN chain
    BY <1>0, <1>2, <1>7, <2>1, <2>3 DEF QueueInv
  <2> QED BY <1>2, <2>2, <2>3
<1>8. QueueInv'
  BY <1>2, <1>6, <1>7 DEF QueueInv
<1>9. ASSUME NEW i \in DOMAIN wire, wire[i].x.by \in Handler
      PROVE  /\ hs'[wire[i].x.by].pc \in {"reply", "sending", "done"}
             /\ hs'[wire[i].x.by].replies < wire[i].x.left
             /\ \A j \in DOMAIN chain' : chain'[j].by = wire[i].x.by =>
                  chain'[j].left < wire[i].x.left \/ (flying /\ j = 1)
  <2>1. /\ hs[wire[i].x.by].pc \in {"reply", "sending", "done"}
        /\ hs[wire[i].x.by].replies < wire[i].x.left
        /\ \A j \in DOMAIN chain : chain[j].by = wire[i].x.by =>
             chain[j].left < wire[i].x.left \/ (flying /\ j = 1)
    BY <1>0, <1>9 DEF WireInv
  <2>2. wire[i] \in Sending
    BY <1>0 DEF Types
  <2>3. wire[i].x.left \in Nat
    BY <2>2 DEF Entry, Sending
  <2>4. /\ hs'[wire[i].x.by].pc \in {"reply", "sending", "done"}
        /\ hs'[wire[i].x.by].replies < wire[i].x.left
    <3>1. CASE wire[i].x.by = h
      BY <1>1, <2>1, <2>3, <3>1
    <3>2. CASE wire[i].x.by # h
      BY <1>9, <2>1, <3>2 DEF Became
    <3> QED BY <3>1, <3>2
  <2>5. ASSUME NEW j \in DOMAIN chain', chain'[j].by = wire[i].x.by
        PROVE  chain'[j].left < wire[i].x.left \/ (flying /\ j = 1)
    <3>1. CASE j = Len(chain) + 1
      BY <1>1, <1>2, <2>1, <2>5, <3>1
    <3>2. CASE j \in DOMAIN chain
      BY <1>2, <2>1, <2>5, <3>2
    <3> QED BY <1>2, <3>1, <3>2
  <2> QED BY <2>4, <2>5
<1>10. WireInv'
  BY <1>0, <1>9 DEF WireInv
<1>11. PacedInOrder'
  BY <1>0 DEF PacedInOrder
<1> QED BY <1>2, <1>8, <1>10, <1>11

\* A message of the owner that is queued.
LEMMA QueueOwner ==
  ASSUME IInv, SendBot
  PROVE  (QueueInv /\ WireInv /\ PacedInOrder)' /\ chain' \in Seq(Entry) /\ owner' \in Nat
<1>0. Types /\ QueueInv /\ WireInv /\ PacedInOrder
  BY DEF IInv
<1>1. owner' = owner + 1 /\ owner' \in Nat /\ UNCHANGED <<hs, flying, wire, last, clock>>
  BY <1>0 DEF SendBot, Types
<1>2. CASE ~conn
  <2>1. chain' = chain
    BY <1>2 DEF SendBot
  <2> QED BY <1>0, <1>1, <2>1 DEF Types, QueueInv, WireInv, PacedInOrder
<1>3. CASE conn
  <2> DEFINE e == [by |-> "owner", left |-> owner']
  <2>1. e \in Entry /\ e.by = "owner" /\ e.by \notin Handler
    BY <1>1, DeliveryConstants DEF Entry
  <2>2. chain' = Append(chain, e)
    BY <1>3 DEF SendBot
  <2> HIDE DEF e
  <2>3. /\ chain' \in Seq(Entry) /\ Len(chain) \in Nat
        /\ chain'[Len(chain) + 1] = e
        /\ \A i \in 1..Len(chain) : chain'[i] = chain[i]
        /\ DOMAIN chain = 1..Len(chain) /\ DOMAIN chain' = 1..(Len(chain) + 1)
    BY <1>0, <2>1, <2>2 DEF Types
  <2>4. \A i \in DOMAIN chain' : chain'[i].by \in Handler =>
          i \in DOMAIN chain /\ chain'[i] = chain[i]
    BY <2>1, <2>3
  <2>5. QueueInv'
    <3>1. ASSUME NEW i \in DOMAIN chain', NEW j \in DOMAIN chain', i < j, chain'[i].by \in Handler
          PROVE  chain'[i].by # chain'[j].by
      <4>1. i \in DOMAIN chain /\ chain'[i] = chain[i]
        BY <2>4, <3>1
      <4>2. CASE j = Len(chain) + 1
        BY <2>1, <2>3, <3>1, <4>2
      <4>3. CASE j \in DOMAIN chain
        BY <1>0, <2>3, <3>1, <4>1, <4>3 DEF QueueInv
      <4> QED BY <2>3, <4>2, <4>3
    <3>2. ASSUME NEW i \in DOMAIN chain', chain'[i].by \in Handler
          PROVE  hs[chain'[i].by].pc = "sending" /\ hs[chain'[i].by].replies < chain'[i].left
      BY <1>0, <2>4, <3>2 DEF QueueInv
    <3> QED BY <1>1, <2>3, <3>1, <3>2 DEF QueueInv
  <2>6. WireInv'
    <3>1. ASSUME NEW i \in DOMAIN wire, wire[i].x.by \in Handler,
                 NEW j \in DOMAIN chain', chain'[j].by = wire[i].x.by
          PROVE  chain'[j].left < wire[i].x.left \/ (flying /\ j = 1)
      BY <1>0, <2>4, <3>1 DEF WireInv
    <3> QED BY <1>0, <1>1, <3>1 DEF WireInv
  <2>7. PacedInOrder'
    BY <1>0, <1>1 DEF PacedInOrder
  <2> QED BY <1>1, <2>3, <2>5, <2>6, <2>7
<1> QED BY <1>2, <1>3

\* The head of the chain leaves it and its handler goes on.
LEMMA HeadLeaves ==
  ASSUME IInv, chain # <<>>, hs' = Resume(Head(chain)), chain' = Tail(chain)
  PROVE  /\ Head(chain) \in Entry /\ chain' \in Seq(Entry) /\ hs' \in [Handler -> HandlerRec]
         /\ \A g \in Handler :
              /\ hs'[g].replies = hs[g].replies /\ hs'[g].m = hs[g].m /\ hs'[g].file = hs[g].file
              /\ hs'[g].pc = IF g = Head(chain).by THEN "reply" ELSE hs[g].pc
         /\ \A i \in DOMAIN chain' : i + 1 \in DOMAIN chain /\ chain'[i] = chain[i + 1]
         /\ \A i \in DOMAIN chain' : chain'[i].by \in Handler => chain'[i].by # Head(chain).by
<1>0. Types /\ QueueInv
  BY DEF IInv
<1>1. /\ Head(chain) \in Entry /\ chain' \in Seq(Entry) /\ Head(chain) = chain[1]
      /\ Len(chain) \in Nat \ {0} /\ DOMAIN chain = 1..Len(chain)
      /\ DOMAIN chain' = 1..(Len(chain) - 1)
      /\ \A i \in 1..(Len(chain) - 1) : chain'[i] = chain[i + 1]
  BY <1>0 DEF Types
<1>2. \A i \in DOMAIN chain' : i + 1 \in DOMAIN chain /\ chain'[i] = chain[i + 1]
  BY <1>1
<1>3. \A i \in DOMAIN chain' : chain'[i].by \in Handler => chain'[i].by # Head(chain).by
  <2>1. ASSUME NEW i \in DOMAIN chain', chain'[i].by \in Handler, chain'[i].by = chain[1].by
        PROVE  FALSE
    <3>1. i + 1 \in DOMAIN chain /\ 1 \in DOMAIN chain /\ 1 < i + 1 /\ chain'[i] = chain[i + 1]
      BY <1>1
    <3> QED BY <1>0, <2>1, <3>1 DEF QueueInv
  <2> QED BY <1>1, <2>1
<1>4. CASE Head(chain).by \in Handler
  <2>1. PICK h \in Handler : h = Head(chain).by
    BY <1>4
  <2>2. hs' = [hs EXCEPT ![h].pc = "reply"] /\ "reply" \in PC
    BY <1>4, <2>1 DEF Resume, PC
  <2>3. /\ Became(h) /\ hs'[h].pc = "reply" /\ hs'[h].m = hs[h].m
        /\ hs'[h].file = hs[h].file /\ hs'[h].replies = hs[h].replies
    BY <1>0, <2>2, PcSet
  <2> QED BY <1>1, <1>2, <1>3, <2>1, <2>3 DEF Became
<1>5. CASE Head(chain).by \notin Handler
  <2>1. hs' = hs
    BY <1>5 DEF Resume
  <2> QED BY <1>0, <1>1, <1>2, <1>3, <1>5, <2>1 DEF Types
<1> QED BY <1>4, <1>5

\* What stays in the chain when its head leaves.
LEMMA QueueShorter ==
  ASSUME IInv, chain # <<>>, hs' = Resume(Head(chain)), chain' = Tail(chain), ~flying'
  PROVE  QueueInv'
<1>0. QueueInv
  BY DEF IInv
<1>1. /\ \A g \in Handler :
           /\ hs'[g].replies = hs[g].replies
           /\ hs'[g].pc = IF g = Head(chain).by THEN "reply" ELSE hs[g].pc
      /\ \A i \in DOMAIN chain' : i + 1 \in DOMAIN chain /\ chain'[i] = chain[i + 1]
      /\ \A i \in DOMAIN chain' : chain'[i].by \in Handler => chain'[i].by # Head(chain).by
  BY HeadLeaves
<1>2. \A i \in DOMAIN chain' : i \in Nat
  BY HeadLeaves
<1>3. ASSUME NEW i \in DOMAIN chain', chain'[i].by \in Handler
      PROVE  hs'[chain'[i].by].pc = "sending" /\ hs'[chain'[i].by].replies < chain'[i].left
  <2>1. i + 1 \in DOMAIN chain /\ chain'[i] = chain[i + 1] /\ chain'[i].by # Head(chain).by
    BY <1>1, <1>3
  <2>2. hs[chain'[i].by].pc = "sending" /\ hs[chain'[i].by].replies < chain'[i].left
    BY <1>0, <1>3, <2>1 DEF QueueInv
  <2> QED BY <1>1, <1>3, <2>1, <2>2
<1>4. ASSUME NEW i \in DOMAIN chain', NEW j \in DOMAIN chain', i < j, chain'[i].by \in Handler
      PROVE  chain'[i].by # chain'[j].by
  <2>1. /\ i + 1 \in DOMAIN chain /\ chain'[i] = chain[i + 1]
        /\ j + 1 \in DOMAIN chain /\ chain'[j] = chain[j + 1]
    BY <1>1
  <2>2. i + 1 < j + 1
    BY <1>2, <1>4
  <2> QED BY <1>0, <1>4, <2>1, <2>2 DEF QueueInv
<1> QED BY <1>3, <1>4 DEF QueueInv

\* What was on the wire before stays in order with the handlers.
LEMMA WireKept ==
  ASSUME IInv, chain # <<>>, hs' = Resume(Head(chain)), chain' = Tail(chain),
         NEW i \in DOMAIN wire, wire[i].x.by \in Handler
  PROVE  /\ hs'[wire[i].x.by].pc \in {"reply", "sending", "done"}
         /\ hs'[wire[i].x.by].replies < wire[i].x.left
         /\ \A j \in DOMAIN chain' : chain'[j].by = wire[i].x.by => chain'[j].left < wire[i].x.left
<1>0. WireInv
  BY DEF IInv
<1>1. /\ \A g \in Handler :
           /\ hs'[g].replies = hs[g].replies
           /\ hs'[g].pc = IF g = Head(chain).by THEN "reply" ELSE hs[g].pc
      /\ \A j \in DOMAIN chain' :
           j + 1 \in DOMAIN chain /\ chain'[j] = chain[j + 1] /\ j + 1 # 1
  <2>1. chain' \in Seq(Entry)
    BY HeadLeaves
  <2>2. \A j \in DOMAIN chain' : j + 1 # 1
    BY <2>1
  <2> QED BY <2>2, HeadLeaves
<1>2. /\ hs[wire[i].x.by].pc \in {"reply", "sending", "done"}
      /\ hs[wire[i].x.by].replies < wire[i].x.left
      /\ \A j \in DOMAIN chain : chain[j].by = wire[i].x.by =>
           chain[j].left < wire[i].x.left \/ (flying /\ j = 1)
  BY <1>0 DEF WireInv
<1>3. hs'[wire[i].x.by].pc \in {"reply", "sending", "done"}
  BY <1>1, <1>2
<1>4. hs'[wire[i].x.by].replies < wire[i].x.left
  BY <1>1, <1>2
<1> QED BY <1>1, <1>2, <1>3, <1>4

\* A send that is over, whether it resolved or threw.
LEMMA LeaveKeeps ==
  ASSUME IInv, chain # <<>>, LeaveChain, UNCHANGED <<wire, clock>>
  PROVE  (QueueInv /\ WireInv /\ PacedInOrder)'
<1>0. Types /\ WireInv /\ PacedInOrder
  BY DEF IInv
<1>1. /\ hs' = Resume(Head(chain)) /\ chain' = Tail(chain)
      /\ wire' = wire /\ last' = clock /\ flying' = FALSE
  BY DEF LeaveChain
<1>2. QueueInv'
  BY <1>1, QueueShorter
<1>3. ASSUME NEW i \in DOMAIN wire PROVE wire[i].at <= last'
  <2>1. wire[i] \in Sending /\ wire[i].at <= (IF flying THEN clock ELSE last)
    BY <1>0 DEF Types, WireInv
  <2> QED BY <1>0, <1>1, <2>1 DEF Types, Sending
<1>4. WireInv'
  BY <1>1, <1>3, WireKept DEF WireInv
<1> QED BY <1>0, <1>1, <1>2, <1>4 DEF PacedInOrder

\* A send that reaches WhatsApp is later than all before it, and is its handler's
\* next reply.
LEMMA SendKeeps ==
  ASSUME IInv, Send
  PROVE  (QueueInv /\ WireInv /\ PacedInOrder)' /\ wire' \in Seq(Sending)
<1>0. Types /\ QueueInv /\ WireInv /\ PacedInOrder
  BY DEF IInv
<1> DEFINE w == [x |-> Head(chain), at |-> clock]
<1>1. /\ chain # <<>> /\ ~flying /\ flying' = TRUE /\ wire' = Append(wire, w)
      /\ last < clock /\ UNCHANGED <<hs, chain, last, clock>>
  BY DEF Send
<1>2. Head(chain) \in Entry /\ Head(chain) = chain[1] /\ 1 \in DOMAIN chain
      /\ \A j \in DOMAIN chain : j = 1 \/ 1 < j
  BY <1>0, <1>1 DEF Types
<1>3. w \in Sending /\ w.x = chain[1] /\ w.at = clock
  BY <1>0, <1>2 DEF Types, Sending
<1> HIDE DEF w
<1>4. /\ wire' \in Seq(Sending) /\ Len(wire) \in Nat
      /\ wire'[Len(wire) + 1] = w
      /\ \A i \in 1..Len(wire) : wire'[i] = wire[i]
      /\ DOMAIN wire = 1..Len(wire) /\ DOMAIN wire' = 1..(Len(wire) + 1)
  BY <1>0, <1>1, <1>3 DEF Types
<1>5. QueueInv'
  BY <1>0, <1>1 DEF QueueInv
<1>6. ASSUME NEW i \in DOMAIN wire PROVE wire[i].at < clock
  <2>1. wire[i] \in Sending /\ wire[i].at <= last
    BY <1>0, <1>1 DEF Types, WireInv
  <2> QED BY <1>0, <1>1, <2>1 DEF Types, Sending
<1>7. ASSUME NEW i \in DOMAIN wire', wire'[i].x.by \in Handler
      PROVE  /\ hs[wire'[i].x.by].pc \in {"reply", "sending", "done"}
             /\ hs[wire'[i].x.by].replies < wire'[i].x.left
             /\ \A j \in DOMAIN chain : chain[j].by = wire'[i].x.by =>
                  chain[j].left < wire'[i].x.left \/ j = 1
  <2>1. CASE i \in DOMAIN wire
    BY <1>0, <1>1, <1>4, <1>7, <2>1 DEF WireInv
  <2>2. CASE i = Len(wire) + 1
    <3>1. wire'[i].x = chain[1] /\ chain[1].by \in Handler
      BY <1>3, <1>4, <1>7, <2>2
    <3>2. hs[chain[1].by].pc = "sending" /\ hs[chain[1].by].replies < chain[1].left
      BY <1>0, <1>2, <3>1 DEF QueueInv
    <3>3. \A j \in DOMAIN chain : chain[j].by = chain[1].by => j = 1
      BY <1>0, <1>2, <3>1 DEF QueueInv
    <3> QED BY <3>1, <3>2, <3>3
  <2> QED BY <1>4, <2>1, <2>2
<1>8. ASSUME NEW i \in DOMAIN wire' PROVE wire'[i].at <= clock
  <2>1. CASE i \in DOMAIN wire
    <3>1. wire[i] \in Sending
      BY <1>0, <2>1 DEF Types
    <3> QED BY <1>0, <1>4, <1>6, <2>1, <3>1 DEF Types, Sending
  <2>2. CASE i = Len(wire) + 1
    BY <1>0, <1>3, <1>4, <2>2 DEF Types
  <2> QED BY <1>4, <2>1, <2>2
<1>9. WireInv'
  BY <1>1, <1>7, <1>8 DEF WireInv
<1>10. ASSUME NEW i \in DOMAIN wire', NEW j \in DOMAIN wire', i < j
       PROVE  /\ wire'[i].at < wire'[j].at
              /\ wire'[i].x.by = wire'[j].x.by /\ wire'[i].x.by # "owner"
                 => wire'[i].x.left > wire'[j].x.left
  <2>1. i \in DOMAIN wire /\ wire'[i] = wire[i]
    BY <1>4, <1>10
  <2>2. CASE j \in DOMAIN wire
    BY <1>0, <1>4, <1>10, <2>1, <2>2 DEF PacedInOrder
  <2>3. CASE j = Len(wire) + 1
    <3>1. wire'[j].x = chain[1] /\ wire'[j].at = clock
      BY <1>3, <1>4, <2>3
    <3>2. wire'[i].at < wire'[j].at
      BY <1>6, <2>1, <3>1
    <3>3. ASSUME wire[i].x.by = chain[1].by, wire[i].x.by # "owner"
          PROVE  chain[1].left < wire[i].x.left
      <4>1. chain[1].by \in Handler
        BY <1>2, <3>3 DEF Entry
      <4> QED BY <1>0, <1>1, <1>2, <2>1, <3>3, <4>1 DEF WireInv
    <3>4. wire[i] \in Sending
      BY <1>0, <2>1 DEF Types
    <3> QED BY <1>2, <2>1, <3>1, <3>2, <3>3, <3>4 DEF Sending, Entry
  <2> QED BY <1>4, <2>2, <2>3
<1>11. PacedInOrder'
  BY <1>10 DEF PacedInOrder
<1> QED BY <1>4, <1>5, <1>9, <1>11

-----------------------------------------------------------------------------
(* The ids of the messages the session sent *)

\* rememberSentMessage: the id of the send that has resolved pushes out the oldest.
LEMMA SendRemembers ==
  ASSUME IInv, SendResolves
  PROVE  SentInv' /\ sent' \in Seq(Nat) /\ acked' \in Seq(Nat)
<1>0. Types /\ SentInv /\ SentCap \in Nat \ {0}
  BY DeliveryConstants DEF IInv
<1>1. /\ acked' = Append(acked, Len(wire)) /\ looped' = looped
      /\ sent' = Remember(OwnId(Len(wire)))
  BY DEF SendResolves
<1>2. /\ acked \in Seq(Nat) /\ acked' \in Seq(Nat) /\ Len(acked) \in Nat
      /\ Len(acked') = Len(acked) + 1 /\ acked'[Len(acked) + 1] = Len(wire)
      /\ \A i \in 1..Len(acked) : acked'[i] = acked[i]
  BY <1>0, <1>1 DEF Types
<1>3. PICK id \in Nat : id = OwnId(Len(wire))
  BY <1>0 DEF OwnId, Types
<1>4. PICK s : s = Append(sent, id)
  OBVIOUS
<1>5. sent \in Seq(Nat) /\ Len(sent) \in Nat /\ Len(s) = Len(sent) + 1 /\ s \in Seq(Nat)
      /\ s[Len(sent) + 1] = id /\ \A i \in 1..Len(sent) : s[i] = sent[i]
  BY <1>0, <1>4 DEF Types
<1>6. sent' = IF Len(s) > SentCap THEN Tail(s) ELSE s
  BY <1>1, <1>3, <1>4 DEF Remember
<1>7. ASSUME NEW i \in 1..Len(s) PROVE s[i] = OwnId(acked'[Len(acked') - Len(s) + i])
  <2>1. CASE i = Len(sent) + 1
    <3>1. Len(acked') - Len(s) + i = Len(acked) + 1
      BY <1>2, <1>5, <2>1
    <3> QED BY <1>2, <1>3, <1>5, <2>1, <3>1
  <2>2. CASE i \in 1..Len(sent)
    <3>1. s[i] = OwnId(acked[Len(acked) - Len(sent) + i])
      BY <1>0, <1>5, <2>2 DEF SentInv
    <3>a. \A a, b, c \in Int : \E k \in Int : k = a - b + c
      OBVIOUS
    <3>b. i \in Int /\ Len(acked) \in Int /\ Len(sent) \in Int
      BY <1>2, <1>5, <2>2
    <3>2. PICK k \in Int : k = Len(acked) - Len(sent) + i
      BY <3>a, <3>b
    <3>3. k \in 1..Len(acked) /\ k = Len(acked') - Len(s) + i
      BY <1>0, <1>2, <1>5, <2>2, <3>2 DEF SentInv
    <3> QED BY <1>2, <3>1, <3>2, <3>3
  <2> QED BY <1>5, <2>1, <2>2
<1>8. ASSUME NEW e \in looped
      PROVE  /\ e.acks \in Nat /\ e.acks <= Len(acked')
             /\ \A i \in 1..e.acks : acked'[i] = e.n => e.acks - i >= SentCap
  <2>1. /\ e.acks \in Nat /\ e.acks <= Len(acked)
        /\ \A i \in 1..e.acks : acked[i] = e.n => e.acks - i >= SentCap
    BY <1>0 DEF SentInv
  <2>2. \A i \in 1..e.acks : acked'[i] = acked[i]
    BY <1>2, <2>1
  <2> QED BY <1>2, <2>1, <2>2
<1>9. CASE Len(s) > SentCap
  <2>1. /\ sent' = Tail(s) /\ Len(sent') = Len(s) - 1 /\ sent' \in Seq(Nat)
        /\ \A i \in 1..(Len(s) - 1) : sent'[i] = s[i + 1]
    BY <1>5, <1>6, <1>9
  <2>2. Len(sent) = SentCap /\ Len(sent') = SentCap /\ Len(sent) <= Len(acked)
    BY <1>0, <1>5, <1>9, <2>1 DEF SentInv
  <2>3. ASSUME NEW i \in 1..Len(sent')
        PROVE  sent'[i] = OwnId(acked'[Len(acked') - Len(sent') + i])
    <3>1. i + 1 \in 1..Len(s) /\ i \in 1..(Len(s) - 1)
      BY <1>5, <2>1
    <3>2. sent'[i] = OwnId(acked'[Len(acked') - Len(s) + (i + 1)])
      BY <1>7, <2>1, <3>1
    <3>3. Len(acked') - Len(s) + (i + 1) = Len(acked') - Len(sent') + i
      <4>1. Len(acked') \in Int /\ Len(s) \in Int /\ i \in Int /\ Len(sent') = Len(s) - 1
        BY <1>2, <1>5, <2>1, <3>1
      <4> QED BY <4>1
    <3> QED BY <3>2, <3>3
  <2>4. Len(sent') <= SentCap /\ Len(sent') <= Len(acked')
    BY <1>0, <1>2, <2>2
  <2> QED BY <1>1, <1>2, <1>8, <2>1, <2>2, <2>3, <2>4 DEF SentInv, OwnId
<1>10. CASE ~(Len(s) > SentCap)
  <2>1. sent' = s
    BY <1>6, <1>10
  <2>2. Len(sent') <= SentCap /\ Len(sent') <= Len(acked')
        /\ (Len(sent') = SentCap \/ Len(sent') = Len(acked'))
    BY <1>0, <1>2, <1>5, <1>10, <2>1 DEF SentInv
  <2>3. \A i \in 1..Len(sent') : sent'[i] = OwnId(acked'[Len(acked') - Len(sent') + i])
    BY <1>7, <2>1
  <2> QED BY <1>1, <1>2, <1>5, <1>8, <2>1, <2>2, <2>3 DEF SentInv, OwnId
<1> QED BY <1>9, <1>10

\* An own message that comes back and is not known has been pushed out, or its send
\* has not resolved.
LEMMA EchoKeeps ==
  ASSUME IInv, NEW n \in 1..MaxClock, Echo(n)
  PROVE  SentInv'
<1>0. Types /\ SentInv /\ SentCap \in Nat \ {0}
  BY DeliveryConstants DEF IInv
<1>1. /\ UNCHANGED <<sent, acked>>
      /\ \/ looped' = looped
         \/ /\ OwnId(n) \notin Range(sent)
            /\ looped' = looped \cup {[n |-> n, acks |-> Len(acked)]}
  BY DEF Echo
<1>2. Len(acked) \in Nat /\ Len(sent) \in Nat /\ DOMAIN sent = 1..Len(sent)
  BY <1>0 DEF Types
<1>3. ASSUME OwnId(n) \notin Range(sent), NEW i \in 1..Len(acked), acked[i] = n
      PROVE  Len(acked) - i >= SentCap
  <2>1. SUFFICES ASSUME Len(acked) - i < SentCap PROVE FALSE
    BY <1>0, <1>2
  <2>2. PICK k \in Int : k = i - (Len(acked) - Len(sent))
    BY <1>2
  <2>3. k \in 1..Len(sent)
    <3>1. CASE Len(sent) = Len(acked)
      BY <1>2, <2>2, <3>1
    <3>2. CASE Len(sent) = SentCap
      BY <1>0, <1>2, <2>1, <2>2, <3>2
    <3> QED BY <1>0, <3>1, <3>2 DEF SentInv
  <2>4. Len(acked) - Len(sent) + k = i
    BY <1>2, <2>2
  <2>5. sent[k] = OwnId(n)
    BY <1>0, <1>3, <2>3, <2>4 DEF SentInv
  <2> QED BY <1>2, <1>3, <2>3, <2>5 DEF Range
<1>4. ASSUME NEW e \in looped'
      PROVE  /\ e.acks \in Nat /\ e.acks <= Len(acked)
             /\ \A i \in 1..e.acks : acked[i] = e.n => e.acks - i >= SentCap
  <2>1. CASE e \in looped
    BY <1>0, <2>1 DEF SentInv
  <2>2. CASE e = [n |-> n, acks |-> Len(acked)] /\ OwnId(n) \notin Range(sent)
    BY <1>2, <1>3, <2>2
  <2> QED BY <1>1, <1>4, <2>1, <2>2
<1> QED BY <1>0, <1>1, <1>4 DEF SentInv, OwnId

-----------------------------------------------------------------------------
(* The files *)

\* The invariant of the files says of each record what RecOK does.
LEMMA FileInvRec == FileInv <=> /\ \A h \in Handler : RecOK(hs[h], files)
                                /\ \A p \in bot : p.m \in Msg /\ Stored(p.m, p.file)
BY DEF FileInv, RecOK, Stored

\* A record that is in order stays so when no stored file is replaced.
LEMMA RecStays ==
  ASSUME Kept, NEW r, RecOK(r, files)
  PROVE  RecOK(r, files')
BY DEF Kept, RecOK

\* The steps up to the call.
LEMMA InboundFiles ==
  ASSUME IInv, NEW h \in Handler, Inbound(h)
  PROVE  FileInv'
<1>0. Types /\ FileInv
  BY DEF IInv
<1>1. Kept /\ Became(h) /\ RecOK(hs'[h], files') /\ UNCHANGED bot
  BY <1>0, InboundShape
<1>2. ASSUME NEW g \in Handler PROVE RecOK(hs'[g], files')
  <2>1. CASE g = h
    BY <1>1, <2>1
  <2>2. CASE g # h
    <3>1. hs'[g] = hs[g] /\ RecOK(hs[g], files)
      BY <1>0, <1>1, <2>2, FileInvRec DEF Became
    <3> QED BY <1>1, <3>1, RecStays
  <2> QED BY <2>1, <2>2
<1>3. ASSUME NEW p \in bot PROVE p.m \in Msg /\ Stored(p.m, p.file)'
  <2>1. p.m \in Msg /\ Stored(p.m, p.file)
    BY <1>0 DEF FileInv
  <2> QED BY <1>1, <2>1 DEF Kept, Stored
<1> QED BY <1>1, <1>2, <1>3 DEF FileInv, RecOK, Stored

\* The call: the bot gets the file its handler has.
LEMMA ForwardFiles ==
  ASSUME IInv, NEW h \in Handler, Forward(h) \/ ForwardFails(h)
  PROVE  FileInv'
<1>0. Types /\ FileInv
  BY DEF IInv
<1>1. /\ UNCHANGED files /\ Became(h) /\ hs'[h].m = hs[h].m
      /\ hs'[h].pc \in {"reply", "done"} /\ hs[h].pc = "forward"
      /\ bot' \in {bot, bot \cup {[m |-> hs[h].m, file |-> hs[h].file, by |-> h]}}
  BY <1>0, ForwardShape
<1>2. hs[h].m \in Msg /\ Stored(hs[h].m, hs[h].file)
  BY <1>0, <1>1 DEF FileInv
<1>3. ASSUME NEW g \in Handler PROVE RecOK(hs'[g], files)
  <2>1. CASE g = h
    BY <1>1, <1>2, <2>1 DEF RecOK
  <2>2. CASE g # h
    BY <1>0, <1>1, <2>2, FileInvRec DEF Became
  <2> QED BY <2>1, <2>2
<1>4. ASSUME NEW p \in bot' PROVE p.m \in Msg /\ Stored(p.m, p.file)
  <2>1. CASE p \in bot
    BY <1>0, <2>1 DEF FileInv
  <2>2. CASE p = [m |-> hs[h].m, file |-> hs[h].file, by |-> h]
    BY <1>2, <2>2
  <2> QED BY <1>1, <1>4, <2>1, <2>2
<1> QED BY <1>1, <1>3, <1>4 DEF FileInv, RecOK, Stored

\* The replies and the chain touch neither message nor file of a handler.
LEMMA QuietFiles ==
  ASSUME IInv, UNCHANGED <<files, bot>>,
         \A g \in Handler : hs'[g] = hs[g] \/ (/\ hs[g].pc # "free" /\ hs'[g].m = hs[g].m
                                              /\ hs'[g].pc \in {"reply", "sending", "done"})
  PROVE  FileInv'
<1>0. FileInv
  BY DEF IInv
<1>1. ASSUME NEW g \in Handler PROVE RecOK(hs'[g], files)
  <2>1. CASE hs'[g] = hs[g]
    BY <1>0, <2>1, FileInvRec
  <2>2. CASE /\ hs[g].pc # "free" /\ hs'[g].m = hs[g].m
             /\ hs'[g].pc \in {"reply", "sending", "done"}
    BY <1>0, <2>2 DEF FileInv, RecOK
  <2> QED BY <2>1, <2>2
<1> QED BY <1>0, <1>1 DEF FileInv, RecOK, Stored

-----------------------------------------------------------------------------
(* The theorems *)

\* A step of a handler keeps the invariant.
LEMMA HandlerKeeps ==
  ASSUME IInv, NEW h \in Handler,
         Step(h) \/ UploadFails(h) \/ ForwardFails(h) \/ \E m \in Msg : Upsert(h, m)
  PROVE  IInv'
<1>0. Types /\ SentInv /\ FileInv
  BY DEF IInv
<1>1. CASE Inbound(h)
  <2>1. Quiet /\ Kept /\ Became(h) /\ hs[h].pc \in Early
    BY <1>0, <1>1, InboundShape
  <2>2. (QueueInv /\ WireInv /\ PacedInOrder)'
    BY <2>1, QuietQueue DEF Quiet
  <2>3. Types' /\ SentInv'
    BY <1>0, <2>1 DEF Types, SentInv, Quiet, Became, Kept, OwnId
  <2> QED BY <1>1, <2>2, <2>3, InboundFiles DEF IInv
<1>2. CASE Forward(h) \/ ForwardFails(h)
  <2>1. Quiet /\ UNCHANGED files /\ Became(h) /\ hs[h].pc \in Early
    BY <1>0, <1>2, ForwardShape DEF Early
  <2>2. (QueueInv /\ WireInv /\ PacedInOrder)'
    BY <2>1, QuietQueue DEF Quiet
  <2>3. Types' /\ SentInv'
    BY <1>0, <2>1 DEF Types, SentInv, Quiet, Became, OwnId
  <2> QED BY <1>2, <2>2, <2>3, ForwardFiles DEF IInv
<1>3. CASE NextReply(h)
  <2>1. /\ UNCHANGED <<conn, flying, wire, sent, acked, last, files, bot, owner, looped, clock>>
        /\ hs[h].pc = "reply" /\ Became(h) /\ hs'[h].m = hs[h].m
        /\ \/ /\ chain' = chain
              /\ hs'[h].pc \in {"reply", "done"} /\ hs'[h].replies <= hs[h].replies
           \/ /\ chain' = Append(chain, [by |-> h, left |-> hs[h].replies])
              /\ hs'[h].pc = "sending" /\ hs'[h].replies < hs[h].replies
    BY <1>0, <1>3, NextReplyShape
  <2>2. (QueueInv /\ WireInv /\ PacedInOrder)' /\ chain' \in Seq(Entry)
    <3>1. CASE chain' = chain /\ hs'[h].pc \in {"reply", "done"}
               /\ hs'[h].replies <= hs[h].replies
      BY <1>0, <2>1, <3>1, QuietQueue DEF Types
    <3>2. CASE /\ chain' = Append(chain, [by |-> h, left |-> hs[h].replies])
               /\ hs'[h].pc = "sending" /\ hs'[h].replies < hs[h].replies
      BY <2>1, <3>2, QueueReply
    <3> QED BY <2>1, <3>1, <3>2
  <2>3. Types' /\ SentInv'
    BY <1>0, <2>1, <2>2 DEF Types, SentInv, Became, OwnId
  <2>4. FileInv'
    BY <2>1, QuietFiles DEF Became
  <2> QED BY <2>2, <2>3, <2>4 DEF IInv
<1> QED BY <1>1, <1>2, <1>3 DEF Step, Inbound

\* So does every step of the chain.
LEMMA ChainKeeps ==
  ASSUME IInv, SendBot \/ Send \/ SendResolves \/ SendFails
  PROVE  IInv'
<1>0. Types /\ SentInv /\ FileInv /\ QueueInv
  BY DEF IInv
<1>1. CASE SendBot
  <2>1. UNCHANGED <<conn, hs, flying, wire, sent, acked, last, files, bot, looped, clock>>
    BY <1>1 DEF SendBot
  <2>2. (QueueInv /\ WireInv /\ PacedInOrder)' /\ chain' \in Seq(Entry) /\ owner' \in Nat
    BY <1>1, QueueOwner
  <2>3. Types' /\ SentInv'
    BY <1>0, <2>1, <2>2 DEF Types, SentInv, OwnId
  <2>4. FileInv'
    BY <2>1, QuietFiles
  <2> QED BY <2>2, <2>3, <2>4 DEF IInv
<1>2. ASSUME chain # <<>>, hs' = Resume(Head(chain)), chain' = Tail(chain), UNCHANGED <<files, bot>>
      PROVE  FileInv' /\ hs' \in [Handler -> HandlerRec] /\ chain' \in Seq(Entry)
  <2>1. /\ hs' \in [Handler -> HandlerRec] /\ chain' \in Seq(Entry)
        /\ \A g \in Handler : hs'[g].m = hs[g].m /\ hs'[g].file = hs[g].file
              /\ hs'[g].pc = IF g = Head(chain).by THEN "reply" ELSE hs[g].pc
    BY <1>2, HeadLeaves
  <2>2. ASSUME NEW g \in Handler PROVE RecOK(hs'[g], files)
    <3>1. RecOK(hs[g], files)
      BY <1>0, FileInvRec
    <3>2. CASE g # Head(chain).by
      BY <2>1, <3>1, <3>2 DEF RecOK
    <3>3. CASE g = Head(chain).by
      <4>1. Head(chain) = chain[1] /\ 1 \in DOMAIN chain
        BY <1>0, <1>2 DEF Types
      <4>2. hs[g].pc = "sending"
        BY <3>3, <4>1 DEF IInv, QueueInv
      <4> QED BY <2>1, <3>1, <3>3, <4>2 DEF RecOK
    <3> QED BY <3>2, <3>3
  <2>3. FileInv'
    BY <1>0, <1>2, <2>2 DEF FileInv, RecOK, Stored
  <2> QED BY <2>1, <2>3
<1>3. CASE Send
  <2>1. /\ flying' = TRUE
        /\ UNCHANGED <<conn, hs, chain, sent, acked, last, files, bot, owner, looped, clock>>
    BY <1>3 DEF Send
  <2>2. (QueueInv /\ WireInv /\ PacedInOrder)' /\ wire' \in Seq(Sending)
    BY <1>3, SendKeeps
  <2>3. FileInv'
    BY <2>1, QuietFiles
  <2>4. Types' /\ SentInv'
    BY <1>0, <2>1, <2>2 DEF Types, SentInv, OwnId
  <2> QED BY <2>2, <2>3, <2>4 DEF IInv
<1>4. CASE SendResolves
  <2>1. /\ chain # <<>> /\ LeaveChain /\ UNCHANGED <<conn, wire, files, bot, owner, clock>>
    BY <1>0, <1>4 DEF SendResolves, QueueInv
  <2>2. (QueueInv /\ WireInv /\ PacedInOrder)'
    BY <2>1, LeaveKeeps
  <2>3. SentInv' /\ sent' \in Seq(Nat) /\ acked' \in Seq(Nat)
    BY <1>4, SendRemembers
  <2>4. FileInv' /\ hs' \in [Handler -> HandlerRec] /\ chain' \in Seq(Entry)
    BY <1>2, <2>1 DEF LeaveChain
  <2>a. last' = clock /\ flying' = FALSE /\ looped' = looped
    BY <1>4, <2>1 DEF LeaveChain, SendResolves
  <2>b. conn' \in BOOLEAN /\ flying' \in BOOLEAN
    BY <1>0, <2>1, <2>a DEF Types
  <2>c. -1 <= last' /\ last' <= clock' /\ clock' <= MaxClock /\ last' \in Int
    BY <1>0, <2>1, <2>a DEF Types
  <2>d. wire' \in Seq(Sending) /\ owner' \in Nat /\ clock' \in Nat
        /\ files' \in [Msg -> Handler \cup {None}]
    BY <1>0, <2>1 DEF Types
  <2>5. Types'
    BY <2>3, <2>4, <2>b, <2>c, <2>d DEF Types
  <2> QED BY <2>2, <2>3, <2>4, <2>5 DEF IInv
<1>5. CASE SendFails
  <2>1. /\ chain # <<>> /\ LeaveChain
        /\ UNCHANGED <<conn, wire, sent, acked, files, bot, owner, looped, clock>>
    BY <1>5 DEF SendFails, Rejects
  <2>2. (QueueInv /\ WireInv /\ PacedInOrder)'
    BY <2>1, LeaveKeeps
  <2>3. FileInv' /\ hs' \in [Handler -> HandlerRec] /\ chain' \in Seq(Entry)
    BY <1>2, <2>1 DEF LeaveChain
  <2>a. /\ last' = clock /\ flying' = FALSE
        /\ UNCHANGED <<conn, wire, sent, acked, files, bot, owner, looped, clock>>
    BY <2>1 DEF LeaveChain
  <2>c. conn' \in BOOLEAN /\ flying' \in BOOLEAN
    BY <1>0, <2>a DEF Types
  <2>d. -1 <= last' /\ last' <= clock' /\ clock' <= MaxClock /\ last' \in Int
    BY <1>0, <2>a DEF Types
  <2>e. wire' \in Seq(Sending) /\ owner' \in Nat /\ clock' \in Nat
        /\ files' \in [Msg -> Handler \cup {None}] /\ sent' \in Seq(Nat) /\ acked' \in Seq(Nat)
    BY <1>0, <2>a DEF Types
  <2>b. Types'
    BY <2>3, <2>c, <2>d, <2>e DEF Types
  <2>4. SentInv'
    BY <1>0, <2>a DEF SentInv, OwnId
  <2> QED BY <2>2, <2>3, <2>b, <2>4 DEF IInv
<1> QED BY <1>1, <1>3, <1>4, <1>5

\* The invariant is inductive.
LEMMA Inductive == IInv /\ [Next]_vars => IInv'
<1> SUFFICES ASSUME IInv, [Next]_vars PROVE IInv'
  OBVIOUS
<1>0. Types /\ SentInv /\ FileInv /\ QueueInv /\ WireInv /\ PacedInOrder
  BY DEF IInv
<1>1. ASSUME NEW h \in Handler,
             Step(h) \/ UploadFails(h) \/ ForwardFails(h) \/ \E m \in Msg : Upsert(h, m)
      PROVE  IInv'
  BY <1>1, HandlerKeeps
<1>2. CASE SendBot \/ Send \/ SendResolves \/ SendFails
  BY <1>2, ChainKeeps
<1>3. ASSUME UNCHANGED <<hs, chain, flying, wire, last, files, bot>>, clock' \in {clock, clock + 1}
      PROVE  (QueueInv /\ WireInv /\ PacedInOrder /\ FileInv)'
  <2>1. (QueueInv /\ WireInv /\ PacedInOrder)'
    <3>1. \A i \in DOMAIN wire : wire[i].at <= IF flying THEN clock' ELSE last
      <4>1. \A i \in DOMAIN wire : wire[i] \in Sending
        BY <1>0 DEF Types
      <4>2. \A i \in DOMAIN wire : wire[i].at \in Nat
        BY <4>1 DEF Sending
      <4> QED BY <1>0, <1>3, <4>2 DEF WireInv, Types
    <3> QED BY <1>0, <1>3, <3>1 DEF QueueInv, WireInv, PacedInOrder
  <2> QED BY <1>3, <2>1, QuietFiles
<1>4. ASSUME NEW n \in 1..MaxClock, Echo(n) PROVE IInv'
  <2>1. UNCHANGED <<conn, hs, chain, flying, wire, sent, acked, last, files, bot, owner, clock>>
    BY <1>4 DEF Echo
  <2>2. Types'
    BY <1>0, <2>1 DEF Types
  <2> QED BY <1>3, <1>4, <2>1, <2>2, EchoKeeps DEF IInv
<1>5. ASSUME conn' \in BOOLEAN,
             UNCHANGED <<hs, chain, flying, wire, sent, acked, last, files, bot, owner, looped,
                         clock>>
      PROVE  IInv'
  <2>1. Types' /\ SentInv'
    BY <1>0, <1>5 DEF Types, SentInv, OwnId
  <2> QED BY <1>3, <1>5, <2>1 DEF IInv
<1>6. CASE Connect \/ Disconnect
  <2>1. /\ conn' \in BOOLEAN
        /\ UNCHANGED <<hs, chain, flying, wire, sent, acked, last, files, bot, owner, looped,
                       clock>>
    BY <1>6 DEF Connect, Disconnect
  <2> QED BY <1>5, <2>1
<1>7. CASE Tick
  <2>1. /\ clock < MaxClock /\ clock' = clock + 1
        /\ UNCHANGED <<conn, hs, chain, flying, wire, sent, acked, last, files, bot, owner,
                       looped>>
    BY <1>7 DEF Tick
  <2>2. Types' /\ SentInv'
    BY <1>0, <2>1, DeliveryConstants DEF Types, SentInv, OwnId
  <2> QED BY <1>3, <2>1, <2>2 DEF IInv
<1>8. CASE UNCHANGED vars
  BY <1>0, <1>5, <1>8 DEF vars, Types
<1> QED BY <1>1, <1>2, <1>4, <1>6, <1>7, <1>8 DEF Next

\* It holds in every state.
LEMMA InvariantHolds == Spec => []IInv
BY InitInv, Inductive, PTL DEF Spec

\* Every variable of the session keeps its type, whatever messages, replies,
\* echoes and faults there are.
THEOREM TypeCorrect == Spec => []TypeOK
<1>1. IInv => TypeOK
  <2> SUFFICES ASSUME IInv PROVE TypeOK
    OBVIOUS
  <2>1. Types /\ SentInv
    BY DEF IInv
  <2>2. ASSUME NEW h \in Handler
        PROVE  /\ hs[h].pc \in PC
               /\ hs[h].m \in Msg \cup {None} /\ hs[h].file \in Handler \cup {None}
               /\ hs[h].replies \in 0..(MaxReplies + 1)
    <3>1. hs[h] \in HandlerRec
      BY <2>1 DEF Types
    <3> QED BY <3>1 DEF HandlerRec, FileId
  <2>3. \A i \in DOMAIN chain : chain[i].by \in Handler \cup {"owner"}
    <3>1. \A i \in DOMAIN chain : chain[i] \in Entry
      BY <2>1 DEF Types
    <3> QED BY <3>1 DEF Entry
  <2>4. last \in -1..clock /\ clock \in 0..MaxClock
    BY <2>1, DeliveryConstants DEF Types
  <2> QED BY <2>1, <2>2, <2>3, <2>4 DEF TypeOK, Types, SentInv, PC
<1> QED BY <1>1, InvariantHolds, PTL

\* The session sends one message per second at most, and the replies of a turn in
\* the order the bot gave them, however many handlers and owner messages share the
\* chain and whichever sends fail.
THEOREM RepliesPacedInOrder == Spec => []PacedInOrder
<1>1. IInv => PacedInOrder
  BY DEF IInv
<1> QED BY <1>1, InvariantHolds, PTL

\* Any number of copies of a message, handled at once, give the bot one file.
THEOREM CopiesShareTheirFile == Spec => []SameFileForCopies
<1>1. IInv => SameFileForCopies
  BY DEF IInv, FileInv, Stored, SameFileForCopies
<1> QED BY <1>1, InvariantHolds, PTL

\* No attachment that a check refuses or that is not stored reaches the bot.
THEOREM RefusedNeverReachesBot == Spec => []RefusedStaysOut
<1>1. IInv => RefusedStaysOut
  BY DEF IInv, FileInv, Stored, Passed, RefusedStaysOut
<1> QED BY <1>1, InvariantHolds, PTL

\* An own message that comes back after its send has resolved is recognised until
\* SENT_ID_CAP later ones have, also when sends in between fail on the wire.
THEOREM EchoesRecognised == Spec => []NoEchoLoop
<1>1. IInv => NoEchoLoop
  BY DEF IInv, SentInv, NoEchoLoop
<1> QED BY <1>1, InvariantHolds, PTL
=============================================================================
