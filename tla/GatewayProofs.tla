---------------------------- MODULE GatewayProofs ----------------------------
(***************************************************************************)
(* Theorems about module Gateway, for any number of businesses, numbers,   *)
(* reports, scans and failures.                                            *)
(***************************************************************************)
EXTENDS Gateway, TLAPS

-----------------------------------------------------------------------------
(* The inductive invariant *)

\* A session that awaits inside start(), or waits for its reconnect timer, has no
\* open socket: start() is entered once at a time and only without one.  A save is
\* due only for a blob that was loaded.
SocketOK(s) ==
    /\ s.pc # "idle" => s.timer = "none" /\ ~HasSocket(s)
    /\ s.timer # "none" => ~HasSocket(s)
    /\ s.save => s.mem # None

\* A session the manager has never started, or that a crash has wiped out.
Inert(s) == s.pc = "idle" /\ s.timer = "none" /\ ~HasSocket(s)

\* An open socket runs on a link that was scanned, and the session has its number.
OwnOK(s) ==
    s.sock = "open" =>
      s.mem \in Link /\ links[s.mem].state # "unused" /\ s.own = links[s.mem].num

\* The manager stops a session only when its business is deleted, and then for good:
\* what a stopped session leaves running is never met by a new session.
PollOK(b) ==
    /\ sess[b].up \/ b \in sync.desired => row[b].listed # "no"
    /\ sess[b].up /\ sync.some /\ b \notin sync.desired => row[b].listed = "deleted"
    /\ ~sess[b].up => Inert(sess[b]) \/ (row[b].listed = "deleted" /\ b \notin sync.desired)

SessionInv ==
    \A b \in Biz : SocketOK(sess[b]) /\ OwnOK(sess[b]) /\ PollOK(b)

IInv == TypeOK /\ SessionInv /\ NoOrphanSocket

-----------------------------------------------------------------------------
(* Steps of one session *)

\* What every step of a session but its start and stop may make of it.
MayBecome(b, s, t) ==
    /\ t \in Session /\ SocketOK(t) /\ OwnOK(t)
    /\ t.up = s.up
    /\ Inert(s) => Inert(t)

\* Such a step keeps what is known of the sessions.
LEMMA SessionStep ==
  ASSUME IInv, NEW b \in Biz, NEW t, MayBecome(b, sess[b], t),
         sess' = [sess EXCEPT ![b] = t], UNCHANGED <<row, sync, links>>
  PROVE  sess' \in [Biz -> Session] /\ SessionInv'
<1>0. sess \in [Biz -> Session]
  BY DEF IInv, TypeOK
<1>1. sess' \in [Biz -> Session]
  BY <1>0 DEF MayBecome
<1>2. \A a \in Biz : sess'[a] = IF a = b THEN t ELSE sess[a]
  BY <1>0
<1>3. \A a \in Biz : SocketOK(sess[a]) /\ OwnOK(sess[a]) /\ PollOK(a)
  BY DEF IInv, SessionInv
<1>4. ASSUME NEW a \in Biz PROVE (SocketOK(sess[a]) /\ OwnOK(sess[a]) /\ PollOK(a))'
  <2>1. CASE a = b
    <3>1. SocketOK(sess'[a]) /\ OwnOK(sess[a])'
      BY <1>2, <2>1 DEF MayBecome, OwnOK
    <3>2. PollOK(a)'
      BY <1>2, <1>3, <2>1 DEF MayBecome, PollOK
    <3> QED BY <3>1, <3>2 DEF SocketOK, HasSocket
  <2>2. CASE a # b
    BY <1>2, <1>3, <2>2 DEF SocketOK, HasSocket, OwnOK, PollOK, Inert
  <2> QED BY <2>1, <2>2
<1>5. SessionInv'
  BY <1>4 DEF SessionInv
<1> QED BY <1>1, <1>5

\* The rest of stop().
LEMMA StopEndUpdate ==
  ASSUME NEW b \in Biz, NEW s \in Session, SocketOK(s), OwnOK(s)
  PROVE  MayBecome(b, s, [s EXCEPT !.ending = FALSE, !.save = FALSE,
                               !.sock = IF HasSocket(s) THEN "closed" ELSE @])
<1> DEFINE t == [s EXCEPT !.ending = FALSE, !.save = FALSE,
                               !.sock = IF HasSocket(s) THEN "closed" ELSE @]
<1>1. t \in Session
  BY DEF Session
<1> QED BY <1>1 DEF MayBecome, SocketOK, OwnOK, Inert, HasSocket, Session

\* The reconnect timer after a logout.
LEMMA TimerFreshUpdate ==
  ASSUME NEW b \in Biz, NEW s \in Session, SocketOK(s), OwnOK(s),
         s.pc = "idle", s.timer # "none"
  PROVE  MayBecome(b, s, [s EXCEPT !.timer = "none", !.pc = "wipe", !.own = None])
<1> DEFINE t == [s EXCEPT !.timer = "none", !.pc = "wipe", !.own = None]
<1>1. t \in Session
  BY DEF Session
<1> QED BY <1>1 DEF MayBecome, SocketOK, OwnOK, Inert, HasSocket, Session

\* The reconnect timer after any other end.
LEMMA TimerKeepUpdate ==
  ASSUME NEW b \in Biz, NEW s \in Session, SocketOK(s), OwnOK(s),
         s.pc = "idle", s.timer # "none", NEW pc \in {"load", "flush"}
  PROVE  MayBecome(b, s, [s EXCEPT !.timer = "none", !.pc = pc])
<1> DEFINE t == [s EXCEPT !.timer = "none", !.pc = pc]
<1>1. t \in Session
  BY DEF Session
<1> QED BY <1>1 DEF MayBecome, SocketOK, OwnOK, Inert, HasSocket, Session

\* A wipe or a flush is over.
LEMMA ToLoadUpdate ==
  ASSUME NEW b \in Biz, NEW s \in Session, SocketOK(s), OwnOK(s),
         s.pc \in {"wipe", "flush"}
  PROVE  MayBecome(b, s, [s EXCEPT !.pc = "load"])
<1> DEFINE t == [s EXCEPT !.pc = "load"]
<1>1. t \in Session
  BY DEF Session
<1> QED BY <1>1 DEF MayBecome, SocketOK, OwnOK, Inert, HasSocket, Session

\* The blob is loaded.
LEMMA LoadUpdate ==
  ASSUME NEW b \in Biz, NEW s \in Session, SocketOK(s), OwnOK(s),
         s.pc = "load", NEW m \in Cred, m # None
  PROVE  MayBecome(b, s, [s EXCEPT !.pc = "make", !.mem = m])
<1> DEFINE t == [s EXCEPT !.pc = "make", !.mem = m]
<1>1. t \in Session
  BY DEF Session
<1> QED BY <1>1 DEF MayBecome, SocketOK, OwnOK, Inert, HasSocket, Session

\* The socket is made.
LEMMA MakeUpdate ==
  ASSUME NEW b \in Biz, NEW s \in Session, SocketOK(s), OwnOK(s),
         s.pc = "make"
  PROVE  MayBecome(b, s, [s EXCEPT !.pc = "idle", !.sock = "connecting"])
<1> DEFINE t == [s EXCEPT !.pc = "idle", !.sock = "connecting"]
<1>1. t \in Session
  BY DEF Session
<1> QED BY <1>1 DEF MayBecome, SocketOK, OwnOK, Inert, HasSocket, Session

\* A QR code is emitted.
LEMMA EmitUpdate ==
  ASSUME NEW b \in Biz, NEW s \in Session, SocketOK(s), OwnOK(s)
  PROVE  MayBecome(b, s, [s EXCEPT !.qr = TRUE])
<1> DEFINE t == [s EXCEPT !.qr = TRUE]
<1>1. t \in Session
  BY DEF Session
<1> QED BY <1>1 DEF MayBecome, SocketOK, OwnOK, Inert, HasSocket, Session

\* It is drawn.
LEMMA DrawnUpdate ==
  ASSUME NEW b \in Biz, NEW s \in Session, SocketOK(s), OwnOK(s)
  PROVE  MayBecome(b, s, [s EXCEPT !.qr = FALSE, !.status = "qr_pending"])
<1> DEFINE t == [s EXCEPT !.qr = FALSE, !.status = "qr_pending"]
<1>1. t \in Session
  BY DEF Session, Status
<1> QED BY <1>1 DEF MayBecome, SocketOK, OwnOK, Inert, HasSocket, Session

\* The debounce timer is set or fires.
LEMMA SaveUpdate ==
  ASSUME NEW b \in Biz, NEW s \in Session, SocketOK(s), OwnOK(s), NEW v \in BOOLEAN,
         v => s.mem # None
  PROVE  MayBecome(b, s, [s EXCEPT !.save = v])
<1> DEFINE t == [s EXCEPT !.save = v]
<1>1. t \in Session
  BY DEF Session
<1> QED BY <1>1 DEF MayBecome, SocketOK, OwnOK, Inert, HasSocket, Session

\* The socket is open.
LEMMA OpenUpdate ==
  ASSUME NEW b \in Biz, NEW s \in Session, SocketOK(s), OwnOK(s),
         s.sock = "connecting", Alive(s.mem), links[s.mem].num \in Number \cup {None}
  PROVE  MayBecome(b, s, [s EXCEPT !.sock = "open", !.status = "connected",
                               !.own = links[s.mem].num])
<1> DEFINE t == [s EXCEPT !.sock = "open", !.status = "connected",
                               !.own = links[s.mem].num]
<1>1. t \in Session
  BY DEF Session, Status
<1> QED BY <1>1 DEF MayBecome, SocketOK, OwnOK, Inert, HasSocket, Session, Alive

\* A session is closed by WhatsApp or by the network.
LEMMA ClosedUpdate ==
  ASSUME NEW b \in Biz, NEW s \in Session, SocketOK(s), OwnOK(s), HasSocket(s),
         NEW st \in {"logged_out", "disconnected"}, NEW fresh \in BOOLEAN
  PROVE  /\ MayBecome(b, s, [s EXCEPT !.sock = "closed"])
         /\ [s EXCEPT !.sock = "closed", !.status = st] \in Session
         /\ MayBecome(b, s, Restart([s EXCEPT !.sock = "closed", !.status = st], fresh))
<1>1. [s EXCEPT !.sock = "closed"] \in Session
  BY DEF Session
<1>2. MayBecome(b, s, [s EXCEPT !.sock = "closed"])
  BY <1>1 DEF MayBecome, SocketOK, OwnOK, Inert, HasSocket, Session
<1> DEFINE c == [s EXCEPT !.sock = "closed", !.status = st]
<1>3. c \in Session /\ c.pc = s.pc /\ c.up = s.up /\ c.mem = s.mem /\ c.save = s.save
      /\ c.sock = "closed"
  BY DEF Session, Status
<1>4. Restart(c, fresh) \in {c, [c EXCEPT !.timer = "fresh"], [c EXCEPT !.timer = "keep"]}
  BY DEF Restart
<1> HIDE DEF c
<1>5. ASSUME NEW k \in {"none", "fresh", "keep"} PROVE [c EXCEPT !.timer = k] \in Session
  BY <1>3 DEF Session
<1>6. s.pc = "idle"
  BY DEF SocketOK
<1>7. MayBecome(b, s, Restart(c, fresh))
  BY <1>3, <1>4, <1>5, <1>6 DEF MayBecome, SocketOK, OwnOK, Inert, HasSocket, Session
<1> QED BY <1>2, <1>3, <1>7 DEF c

\* start() gives up after a failed load.
LEMMA FailedUpdate ==
  ASSUME NEW b \in Biz, NEW s \in Session, SocketOK(s), OwnOK(s), s.pc = "load"
  PROVE  MayBecome(b, s, Restart([s EXCEPT !.pc = "idle", !.status = "disconnected"], FALSE))
<1> DEFINE c == [s EXCEPT !.pc = "idle", !.status = "disconnected"]
<1>1. c \in Session /\ c.pc = "idle" /\ c.up = s.up /\ c.mem = s.mem /\ c.save = s.save
      /\ c.sock = s.sock
  BY DEF Session, Status
<1>2. Restart(c, FALSE) \in {c, [c EXCEPT !.timer = "keep"]}
  BY DEF Restart
<1> HIDE DEF c
<1>3. [c EXCEPT !.timer = "keep"] \in Session
  BY <1>1 DEF Session
<1>4. ~HasSocket(s) /\ s.sock # "open" /\ (s.save => s.mem # None)
  BY DEF SocketOK, HasSocket
<1>5. MayBecome(b, s, c)
  BY <1>1, <1>4 DEF MayBecome, SocketOK, OwnOK, Inert, HasSocket, c
<1>6. MayBecome(b, s, [c EXCEPT !.timer = "keep"])
  BY <1>1, <1>3, <1>4 DEF MayBecome, SocketOK, OwnOK, Inert, HasSocket, Session
<1>7. MayBecome(b, s, Restart(c, FALSE))
  BY <1>2, <1>5, <1>6
<1> QED BY <1>7 DEF c

\* A report carries the state of its session.
LEMMA ReportedType ==
  ASSUME reports \in SUBSET Report, NEW b \in Biz, NEW s \in Session, Reported(b, s)
  PROVE  reports' \in SUBSET Report
<1>1. [b |-> b, status |-> s.status, phone |-> s.own, step |-> "sent"] \in Report
  BY DEF Session, Report
<1> QED BY <1>1 DEF Reported

-----------------------------------------------------------------------------
(* Every step *)

\* What is known of one session before a step.
LEMMA OneSession ==
  ASSUME IInv, NEW b \in Biz
  PROVE  /\ sess[b] \in Session /\ SocketOK(sess[b]) /\ OwnOK(sess[b]) /\ PollOK(b)
         /\ row[b] \in Row /\ stored[b] \in Cred \cup {None}
BY DEF IInv, TypeOK, SessionInv

\* A step of one session keeps the invariant when the rest keeps its type.
LEMMA SessionKeeps ==
  ASSUME IInv, NEW b \in Biz, NEW t, MayBecome(b, sess[b], t),
         sess' = [sess EXCEPT ![b] = t], UNCHANGED <<row, sync, links, orphan>>,
         stored' \in [Biz -> Cred \cup {None}], puts' \in SUBSET Put,
         reports' \in SUBSET Report, faults' \in 0..MaxFaults, drops' \in 0..MaxDrops
  PROVE  IInv'
BY SessionStep DEF IInv, TypeOK, NoOrphanSocket

\* A step that leaves sessions and polls alone and deletes no number of a link.
LEMMA OtherKeeps ==
  ASSUME IInv, UNCHANGED <<sess, sync, orphan>>,
         row' \in [Biz -> Row], stored' \in [Biz -> Cred \cup {None}],
         puts' \in SUBSET Put, reports' \in SUBSET Report,
         faults' \in 0..MaxFaults, drops' \in 0..MaxDrops,
         links' \in [Link -> [state : {"unused", "alive", "dead"}, num : Number \cup {None}]],
         \A b \in Biz : /\ row'[b].listed = "no" => row[b].listed = "no"
                        /\ row[b].listed = "deleted" => row'[b].listed = "deleted",
         \A l \in Link : /\ links'[l].num = links[l].num
                         /\ links'[l].state = "unused" => links[l].state = "unused"
  PROVE  IInv'
<1>1. ASSUME NEW b \in Biz PROVE (SocketOK(sess[b]) /\ OwnOK(sess[b]) /\ PollOK(b))'
  <2>1. OwnOK(sess[b])'
    BY OneSession DEF OwnOK
  <2>2. SocketOK(sess[b])' /\ PollOK(b)'
    BY OneSession DEF SocketOK, HasSocket, PollOK, Inert
  <2> QED BY <2>1, <2>2
<1>2. SessionInv'
  BY <1>1 DEF SessionInv
<1> QED BY <1>2 DEF IInv, TypeOK, NoOrphanSocket

\* A failure is counted within its bound.
LEMMA FaultType == ASSUME IInv, Fault PROVE faults' \in 0..MaxFaults
BY GatewayConstants DEF IInv, TypeOK, Fault

\* The steps of one session.
LEMMA SessionActions ==
  ASSUME IInv, NEW b \in Biz,
         \/ StopEnd(b) \/ ReconnectTimer(b) \/ WipeCreds(b) \/ FlushCreds(b) \/ LoadCreds(b)
         \/ LoadGarbled(b) \/ LoadFails(b) \/ MakeSocket(b) \/ EmitQr(b) \/ QrDrawn(b) \/ Open(b)
         \/ LoggedOut(b) \/ RestartRequired(b) \/ Drop(b) \/ CredsUpdate(b) \/ SaveTimer(b)
  PROVE  IInv'
<1> DEFINE s == sess[b]
<1>s. s \in Session /\ SocketOK(s) /\ OwnOK(s)
  BY OneSession
<1>t. /\ sess \in [Biz -> Session] /\ stored \in [Biz -> Cred \cup {None}]
      /\ puts \in SUBSET Put /\ reports \in SUBSET Report
      /\ faults \in 0..MaxFaults /\ drops \in 0..MaxDrops
      /\ links \in [Link -> [state : {"unused", "alive", "dead"}, num : Number \cup {None}]]
      /\ orphan = {}
  BY DEF IInv, TypeOK, NoOrphanSocket
<1>m. s.save => s.mem \in Cred
  BY <1>s DEF Session, SocketOK
<1> HIDE DEF s
<1>1. CASE StopEnd(b)
  <2> DEFINE t == [s EXCEPT !.ending = FALSE, !.save = FALSE,
                            !.sock = IF HasSocket(s) THEN "closed" ELSE @]
  <2>1. sess' = [sess EXCEPT ![b] = t]
    BY <1>1, <1>t DEF StopEnd, s
  <2>2. MayBecome(b, s, t)
    BY <1>s, StopEndUpdate
  <2>3. puts' \in SUBSET Put
    <3>1. s.save => [b |-> b, cred |-> s.mem, last |-> FALSE] \in Put
      BY <1>m DEF Put
    <3> QED BY <1>1, <1>t, <3>1 DEF StopEnd, s
  <2> QED BY <1>1, <1>t, <2>1, <2>2, <2>3, SessionKeeps DEF StopEnd, s
<1>2. CASE ReconnectTimer(b)
  <2>1. CASE s.timer = "fresh"
    <3>1. sess' = [sess EXCEPT ![b] = [s EXCEPT !.timer = "none", !.pc = "wipe", !.own = None]]
      BY <1>2, <1>t, <2>1 DEF ReconnectTimer, s
    <3>2. MayBecome(b, s, [s EXCEPT !.timer = "none", !.pc = "wipe", !.own = None])
      BY <1>2, <1>s, TimerFreshUpdate DEF ReconnectTimer, s
    <3> QED BY <1>2, <1>t, <3>1, <3>2, SessionKeeps DEF ReconnectTimer, s
  <2>2. CASE s.timer # "fresh"
    <3>1. PICK pc \in {"load", "flush"} :
            sess' = [sess EXCEPT ![b] = [s EXCEPT !.timer = "none", !.pc = pc]]
      BY <1>2, <1>t, <2>2 DEF ReconnectTimer, s
    <3>2. MayBecome(b, s, [s EXCEPT !.timer = "none", !.pc = pc])
      BY <1>2, <1>s, TimerKeepUpdate DEF ReconnectTimer, s
    <3> QED BY <1>2, <1>t, <3>1, <3>2, SessionKeeps DEF ReconnectTimer, s
  <2> QED BY <2>1, <2>2
<1>3. CASE WipeCreds(b)
  <2> DEFINE t == [s EXCEPT !.pc = "load"]
  <2>1. sess' = [sess EXCEPT ![b] = t]
    BY <1>3, <1>t DEF WipeCreds, s
  <2>2. MayBecome(b, s, t)
    BY <1>3, <1>s, ToLoadUpdate DEF WipeCreds, s
  <2>3. puts' \in SUBSET Put
    <3>1. [b |-> b, cred |-> Unreg, last |-> FALSE] \in Put
      BY DEF Put, Cred
    <3> QED BY <1>3, <1>t, <3>1 DEF WipeCreds
  <2>4. stored' \in [Biz -> Cred \cup {None}]
    BY <1>3, <1>t DEF WipeCreds, Cred
  <2>5. faults' \in 0..MaxFaults
    BY <1>3, <1>t, FaultType DEF WipeCreds
  <2> QED BY <1>3, <1>t, <2>1, <2>2, <2>3, <2>4, <2>5, SessionKeeps DEF WipeCreds, s
<1>4. CASE FlushCreds(b)
  <2> DEFINE t == [s EXCEPT !.pc = "load"]
  <2>1. sess' = [sess EXCEPT ![b] = t]
    BY <1>4, <1>t DEF FlushCreds, s
  <2>2. MayBecome(b, s, t)
    BY <1>4, <1>s, ToLoadUpdate DEF FlushCreds, s
  <2> QED BY <1>4, <1>t, <2>1, <2>2, SessionKeeps DEF FlushCreds, s
<1>5. CASE LoadCreds(b)
  <2> DEFINE m == IF stored[b] = None THEN Unreg ELSE stored[b]
             t == [s EXCEPT !.pc = "make", !.mem = m]
  <2>1. sess' = [sess EXCEPT ![b] = t]
    BY <1>5, <1>t DEF LoadCreds, s
  <2>2. m \in Cred /\ m # None
    BY <1>t, GatewayConstants DEF Cred, Unreg, Link
  <2> HIDE DEF m
  <2>3. MayBecome(b, s, t)
    BY <1>5, <1>s, <2>2, LoadUpdate DEF LoadCreds, s
  <2> QED BY <1>5, <1>t, <2>1, <2>3, SessionKeeps DEF LoadCreds, s
<1>g. CASE LoadGarbled(b)
  <2> DEFINE t == [s EXCEPT !.pc = "make", !.mem = Unreg]
  <2>1. sess' = [sess EXCEPT ![b] = t]
    BY <1>g, <1>t DEF LoadGarbled, s
  <2>2. Unreg \in Cred /\ Unreg # None
    BY GatewayConstants DEF Cred, Unreg
  <2>3. MayBecome(b, s, t)
    BY <1>g, <1>s, <2>2, LoadUpdate DEF LoadGarbled, s
  <2>4. faults' \in 0..MaxFaults
    BY <1>g, FaultType DEF LoadGarbled
  <2> QED BY <1>g, <1>t, <2>1, <2>3, <2>4, SessionKeeps DEF LoadGarbled, s
<1>6. CASE LoadFails(b)
  <2> DEFINE t == Restart([s EXCEPT !.pc = "idle", !.status = "disconnected"], FALSE)
  <2>1. sess' = [sess EXCEPT ![b] = t]
    BY <1>6, <1>t DEF LoadFails, s
  <2>2. MayBecome(b, s, t)
    BY <1>6, <1>s, FailedUpdate DEF LoadFails, s
  <2>3. faults' \in 0..MaxFaults
    BY <1>6, FaultType DEF LoadFails
  <2> QED BY <1>6, <1>t, <2>1, <2>2, <2>3, SessionKeeps DEF LoadFails, s
<1>7. CASE MakeSocket(b)
  <2> DEFINE t == [s EXCEPT !.pc = "idle", !.sock = "connecting"]
  <2>1. sess' = [sess EXCEPT ![b] = t]
    BY <1>7, <1>t DEF MakeSocket, s
  <2>2. MayBecome(b, s, t)
    BY <1>7, <1>s, MakeUpdate DEF MakeSocket, s
  <2>3. orphan' = orphan
    BY <1>7, <1>s DEF MakeSocket, SocketOK, s
  <2> QED BY <1>7, <1>t, <2>1, <2>2, <2>3, SessionKeeps DEF MakeSocket, s
<1>8. CASE EmitQr(b)
  <2> DEFINE t == [s EXCEPT !.qr = TRUE]
  <2>1. sess' = [sess EXCEPT ![b] = t]
    BY <1>8, <1>t DEF EmitQr, s
  <2>2. MayBecome(b, s, t)
    BY <1>8, <1>s, EmitUpdate DEF EmitQr, s
  <2> QED BY <1>8, <1>t, <2>1, <2>2, SessionKeeps DEF EmitQr, s
<1>9. CASE QrDrawn(b)
  <2> DEFINE t == [s EXCEPT !.qr = FALSE, !.status = "qr_pending"]
  <2>1. sess' = [sess EXCEPT ![b] = t]
    BY <1>9, <1>t DEF QrDrawn, s
  <2>2. MayBecome(b, s, t)
    BY <1>9, <1>s, DrawnUpdate DEF QrDrawn, s
  <2>3. reports' \in SUBSET Report
    <3>1. sess'[b] \in Session /\ Reported(b, sess'[b])
      BY <1>9, <1>t, <2>1, <2>2 DEF QrDrawn, MayBecome
    <3> QED BY <1>t, <3>1, ReportedType
  <2> QED BY <1>9, <1>t, <2>1, <2>2, <2>3, SessionKeeps DEF QrDrawn, s
<1>10. CASE Open(b)
  <2> DEFINE t == [s EXCEPT !.sock = "open", !.status = "connected",
                            !.own = links[s.mem].num]
  <2>1. sess' = [sess EXCEPT ![b] = t]
    BY <1>10, <1>t DEF Open, s
  <2>2. s.sock = "connecting" /\ Alive(s.mem)
    BY <1>10 DEF Open, s
  <2>3. links[s.mem].num \in Number \cup {None}
    BY <1>t, <2>2 DEF Alive
  <2>4. MayBecome(b, s, t)
    BY <1>s, <2>2, <2>3, OpenUpdate
  <2>5. sess'[b] \in Session /\ Reported(b, sess'[b])
    BY <1>10, <1>t, <2>1, <2>4 DEF Open, MayBecome
  <2>6. reports' \in SUBSET Report
    BY <1>t, <2>5, ReportedType
  <2> QED BY <1>10, <1>t, <2>1, <2>4, <2>6, SessionKeeps DEF Open, s
<1>11. ASSUME NEW out \in BOOLEAN, HasSocket(s), Closed(b, out),
              UNCHANGED <<row, stored, orphan, sync, puts, links>>,
              faults' \in 0..MaxFaults, drops' \in 0..MaxDrops
       PROVE  IInv'
  <2> DEFINE st == IF out THEN "logged_out" ELSE "disconnected"
             c == [s EXCEPT !.sock = "closed", !.status = st]
  <2>0. st \in {"logged_out", "disconnected"}
    OBVIOUS
  <2>1. CASE s.stopped
    <3>1. sess' = [sess EXCEPT ![b] = [s EXCEPT !.sock = "closed"]] /\ reports' = reports
      BY <1>11, <1>t, <2>1 DEF Closed, s
    <3>2. MayBecome(b, s, [s EXCEPT !.sock = "closed"])
      BY <1>11, <1>s, <2>0, ClosedUpdate
    <3> QED BY <1>11, <1>t, <3>1, <3>2, SessionKeeps DEF s
  <2>2. CASE ~s.stopped
    <3>1. sess' = [sess EXCEPT ![b] = Restart(c, out)] /\ Reported(b, c)
      BY <1>11, <1>t, <2>2 DEF Closed, s
    <3> HIDE DEF st
    <3>2. c \in Session /\ MayBecome(b, s, Restart(c, out))
      BY <1>11, <1>s, <2>0, ClosedUpdate
    <3>3. reports' \in SUBSET Report
      BY <1>t, <3>1, <3>2, ReportedType
    <3> QED BY <1>11, <1>t, <3>1, <3>2, <3>3, SessionKeeps DEF s
  <2> QED BY <2>1, <2>2
<1>12. CASE LoggedOut(b)
  BY <1>11, <1>12, <1>t DEF LoggedOut, HasSocket, s
<1>13. CASE RestartRequired(b)
  BY <1>11, <1>13, <1>t DEF RestartRequired, HasSocket, s
<1>14. CASE Drop(b)
  <2>1. drops' \in 0..MaxDrops
    BY <1>14, <1>t, GatewayConstants DEF Drop
  <2> QED BY <1>11, <1>14, <1>t, <2>1 DEF Drop, HasSocket, s
<1>15. CASE CredsUpdate(b)
  <2>1. sess' = [sess EXCEPT ![b] = [s EXCEPT !.save = TRUE]]
    BY <1>15, <1>t DEF CredsUpdate, s
  <2>2. s.mem # None
    BY <1>15, <1>s, GatewayConstants DEF CredsUpdate, OwnOK, Link, s
  <2>3. MayBecome(b, s, [s EXCEPT !.save = TRUE])
    BY <1>s, <2>2, SaveUpdate
  <2> QED BY <1>15, <1>t, <2>1, <2>3, SessionKeeps DEF CredsUpdate, s
<1>16. CASE SaveTimer(b)
  <2>1. sess' = [sess EXCEPT ![b] = [s EXCEPT !.save = FALSE]]
    BY <1>16, <1>t DEF SaveTimer, s
  <2>2. MayBecome(b, s, [s EXCEPT !.save = FALSE])
    BY <1>s, SaveUpdate
  <2>3. puts' \in SUBSET Put
    <3>1. [b |-> b, cred |-> s.mem, last |-> TRUE] \in Put
      BY <1>16, <1>m DEF Put, SaveTimer, s
    <3>2. \A q \in Put : [q EXCEPT !.last = q.last /\ q.b # b] \in Put
      BY DEF Put
    <3> QED BY <1>16, <1>t, <3>1, <3>2 DEF SaveTimer, s
  <2> QED BY <1>16, <1>t, <2>1, <2>2, <2>3, SessionKeeps DEF SaveTimer, s
<1> QED
  BY <1>1, <1>g, <1>2, <1>3, <1>4, <1>5, <1>6, <1>7, <1>8, <1>9, <1>10, <1>12, <1>13,
     <1>14, <1>15, <1>16

\* The manager's poll: it starts a session only where nothing is left of an old one.
LEMMA PollActions ==
  ASSUME IInv, SyncList \/ SyncSessions \/ Crash
  PROVE  IInv'
<1>t. TypeOK /\ orphan = {}
  BY DEF IInv, NoOrphanSocket
<1>b. \A b \in Biz : SocketOK(sess[b]) /\ OwnOK(sess[b]) /\ PollOK(b) /\ sess[b] \in Session
  BY OneSession
<1>n. NewSession \in Session /\ NoSession \in Session
  <2>1. NewSession \in Session
    BY DEF NewSession, Session, Status
  <2> QED BY <2>1 DEF NoSession, Session
<1>f. /\ SocketOK(NewSession) /\ NewSession.sock = "none" /\ NewSession.up
      /\ SocketOK(NoSession) /\ NoSession.sock = "none" /\ ~NoSession.up /\ Inert(NoSession)
      /\ NewSession.mem = None /\ NoSession.mem = None
  BY DEF NewSession, NoSession, SocketOK, HasSocket, Inert
<1>1. CASE SyncList
  <2>0. faults' \in 0..MaxFaults
    BY <1>1, <1>t, FaultType DEF SyncList, TypeOK
  <2>1. sync' \in [busy : BOOLEAN, some : BOOLEAN, desired : SUBSET Biz]
    <3>1. PICK v \in BOOLEAN, d \in SUBSET Biz :
            sync' = [busy |-> TRUE, some |-> v, desired |-> d]
      <4> DEFINE listed == {b \in Biz : row[b].listed = "yes"}
      <4>1. listed \in SUBSET Biz /\ (listed # {} \/ Held # {}) \in BOOLEAN
        OBVIOUS
      <4>2. \/ sync' = [busy |-> TRUE, some |-> listed # {} \/ Held # {}, desired |-> listed]
            \/ sync' = [busy |-> TRUE, some |-> FALSE, desired |-> {}]
        BY <1>1 DEF SyncList
      <4> HIDE DEF listed
      <4> QED BY <4>1, <4>2, Zenon
    <3> QED BY <3>1
  <2>2. \A b \in Biz : /\ b \in sync'.desired => row[b].listed = "yes"
                       /\ sync'.some /\ b \notin sync'.desired => row[b].listed # "yes"
    BY <1>1 DEF SyncList
  <2>3. UNCHANGED <<row, stored, sess, orphan, puts, reports, links, drops>>
    BY <1>1 DEF SyncList
  <2>4. ASSUME NEW b \in Biz PROVE (SocketOK(sess[b]) /\ OwnOK(sess[b]) /\ PollOK(b))'
    <3>1. row[b].listed \in {"no", "yes", "deleted"}
      BY <1>t DEF TypeOK, Row
    <3>2. PollOK(b)'
      BY <1>b, <2>2, <2>3, <3>1 DEF PollOK, Inert, HasSocket
    <3> QED BY <1>b, <2>3, <3>2 DEF SocketOK, OwnOK, HasSocket
  <2>5. SessionInv'
    BY <2>4 DEF SessionInv
  <2> QED BY <1>t, <2>0, <2>1, <2>3, <2>5 DEF IInv, TypeOK, NoOrphanSocket
<1>2. CASE SyncSessions
  <2>1. \A b \in Biz : sess'[b] = IF ToStart(b) THEN NewSession
                                  ELSE IF ToStop(b) THEN Stopped(sess[b]) ELSE sess[b]
    BY <1>2 DEF SyncSessions
  <2>2. ASSUME NEW b \in Biz
        PROVE  /\ Stopped(sess[b]) \in Session /\ ~Stopped(sess[b]).up
               /\ SocketOK(Stopped(sess[b])) /\ Stopped(sess[b]).mem = sess[b].mem
               /\ (Stopped(sess[b]).sock = "open" =>
                     sess[b].sock = "open" /\ Stopped(sess[b]).own = sess[b].own)
    <3> DEFINE s == sess[b]
    <3>1. s \in Session /\ SocketOK(s)
      BY <1>b
    <3> HIDE DEF s
    <3>2. Stopped(s) \in Session
      BY <3>1 DEF Stopped, Session
    <3>3. /\ ~Stopped(s).up /\ SocketOK(Stopped(s)) /\ Stopped(s).mem = s.mem
          /\ (Stopped(s).sock = "open" => s.sock = "open" /\ Stopped(s).own = s.own)
      BY <3>1 DEF Stopped, SocketOK, HasSocket, Session
    <3> QED BY <3>2, <3>3 DEF s
  <2>3. sess' \in [Biz -> Session]
    <3>1. sess' = [b \in Biz |-> IF ToStart(b) THEN NewSession
                                 ELSE IF ToStop(b) THEN Stopped(sess[b]) ELSE sess[b]]
      BY <1>2 DEF SyncSessions
    <3> QED BY <1>b, <1>n, <2>2, <3>1
  <2>4. orphan' = {}
    <3>1. \A b \in Biz : ToStart(b) => ~HasSocket(sess[b])
      BY <1>b DEF ToStart, PollOK, Inert
    <3> QED BY <1>2, <1>t, <3>1 DEF SyncSessions
  <2>5. sync' = [busy |-> FALSE, some |-> FALSE, desired |-> {}]
        /\ UNCHANGED <<row, stored, puts, reports, links, faults, drops>>
    BY <1>2 DEF SyncSessions
  <2>6. ASSUME NEW b \in Biz PROVE (SocketOK(sess[b]) /\ OwnOK(sess[b]) /\ PollOK(b))'
    <3>1. CASE ToStart(b)
      <4>1. sess'[b] = NewSession
        BY <2>1, <3>1
      <4>2. row'[b].listed # "no"
        BY <1>b, <2>5, <3>1 DEF ToStart, PollOK
      <4> QED BY <1>f, <2>5, <4>1, <4>2 DEF SocketOK, HasSocket, OwnOK, PollOK
    <3>2. CASE ~ToStart(b) /\ ToStop(b)
      <4>1. sess'[b] = Stopped(sess[b])
        BY <2>1, <3>2
      <4>2. row'[b].listed = "deleted"
        BY <1>b, <2>5, <3>2 DEF ToStop, PollOK
      <4>3. OwnOK(sess[b])'
        BY <1>b, <2>2, <2>5, <4>1 DEF OwnOK
      <4> QED BY <2>2, <2>5, <4>1, <4>2, <4>3 DEF SocketOK, HasSocket, PollOK
    <3>3. CASE ~ToStart(b) /\ ~ToStop(b)
      <4>1. sess'[b] = sess[b]
        BY <2>1, <3>3
      <4> QED BY <1>b, <2>5, <4>1 DEF SocketOK, HasSocket, OwnOK, PollOK, Inert
    <3> QED BY <3>1, <3>2, <3>3
  <2>7. SessionInv'
    BY <2>6 DEF SessionInv
  <2>8. TypeOK'
    BY <1>t, <2>3, <2>4, <2>5 DEF TypeOK
  <2> QED BY <1>f, <2>1, <2>2, <2>4, <2>7, <2>8 DEF IInv, NoOrphanSocket
<1>3. CASE Crash
  <2>1. sess' \in [Biz -> Session] /\ (\A b \in Biz : sess'[b] = NoSession)
    BY <1>3, <1>n DEF Crash
  <2>2. puts' \in SUBSET Put
    <3>1. \A q \in Put : [q EXCEPT !.last = FALSE] \in Put
      BY DEF Put
    <3> QED BY <1>3, <1>t, <3>1 DEF Crash, TypeOK
  <2>3. /\ sync' = [busy |-> FALSE, some |-> FALSE, desired |-> {}] /\ orphan' = {}
        /\ faults' \in 0..MaxFaults /\ UNCHANGED <<row, stored, reports, links, drops>>
    BY <1>3, FaultType DEF Crash
  <2>4. SessionInv'
    BY <1>f, <2>1, <2>3 DEF SessionInv, SocketOK, OwnOK, PollOK, Inert, HasSocket
  <2>5. TypeOK'
    BY <1>t, <2>1, <2>2, <2>3 DEF TypeOK
  <2> QED BY <1>f, <2>1, <2>3, <2>4, <2>5 DEF IInv, NoOrphanSocket
<1> QED BY <1>1, <1>2, <1>3

\* The scan: a link that nobody has used before is taken.
LEMMA ScanKeeps ==
  ASSUME IInv, NEW b \in Biz, NEW n \in Number, Scan(b, n)
  PROVE  IInv'
<1> DEFINE s == sess[b]
<1>s. s \in Session /\ SocketOK(s) /\ PollOK(b)
  BY OneSession
<1>t. TypeOK
  BY DEF IInv
<1>1. PICK l \in Link :
        /\ links[l].state = "unused"
        /\ links' = [links EXCEPT ![l] = [state |-> "alive", num |-> n]]
        /\ sess' = [sess EXCEPT ![b].mem = l, ![b].own = n, ![b].save = TRUE,
                                ![b].sock = "paired"]
  BY DEF Scan
<1>2. s.sock = "connecting" /\ UNCHANGED <<row, stored, orphan, sync, puts, reports, faults, drops>>
  BY DEF Scan
<1> HIDE DEF s
<1> DEFINE t == [s EXCEPT !.mem = l, !.own = n, !.save = TRUE, !.sock = "paired"]
<1>3. t \in Session
  BY <1>s DEF Session, Cred
<1>4. /\ t.up = s.up /\ t.mem = l /\ t.sock = "paired" /\ t.save
      /\ t.pc = s.pc /\ t.timer = s.timer
  BY <1>s DEF Session
<1>5. l # None /\ l # Unreg
  BY GatewayConstants DEF Link, Unreg
<1>6. sess' = [sess EXCEPT ![b] = t]
  BY <1>1, <1>t DEF TypeOK, s
<1> HIDE DEF t
<1>7. sess' \in [Biz -> Session] /\ (\A a \in Biz : sess'[a] = IF a = b THEN t ELSE sess[a])
  BY <1>3, <1>6, <1>t DEF TypeOK
<1>8. links' \in [Link -> [state : {"unused", "alive", "dead"}, num : Number \cup {None}]]
      /\ (\A k \in Link : k # l => links'[k] = links[k])
  BY <1>1, <1>t DEF TypeOK
<1>9. ASSUME NEW a \in Biz PROVE (SocketOK(sess[a]) /\ OwnOK(sess[a]) /\ PollOK(a))'
  <2>1. CASE a = b
    <3>1. sess'[a] = t
      BY <1>7, <2>1
    <3>2. SocketOK(t) /\ t.sock # "open"
      BY <1>2, <1>4, <1>5, <1>s DEF SocketOK, HasSocket
    <3>3. PollOK(a)'
      <4>1. ~Inert(s)
        BY <1>2 DEF Inert, HasSocket
      <4> QED BY <1>2, <1>4, <1>s, <2>1, <3>1, <4>1 DEF PollOK, s
    <3> QED BY <3>1, <3>2, <3>3 DEF SocketOK, HasSocket, OwnOK
  <2>2. CASE a # b
    <3>1. sess'[a] = sess[a] /\ SocketOK(sess[a]) /\ OwnOK(sess[a]) /\ PollOK(a)
      BY <1>7, <2>2, OneSession
    <3>2. OwnOK(sess[a])'
      BY <1>1, <1>8, <3>1 DEF OwnOK
    <3> QED BY <1>2, <3>1, <3>2 DEF SocketOK, HasSocket, PollOK, Inert
  <2> QED BY <2>1, <2>2
<1>10. SessionInv'
  BY <1>9 DEF SessionInv
<1>11. TypeOK'
  BY <1>2, <1>7, <1>8, <1>t DEF TypeOK
<1> QED BY <1>2, <1>4, <1>5, <1>7, <1>10, <1>11 DEF IInv, NoOrphanSocket

\* What the backend, the owner and the phones do touches no session.
LEMMA OtherActions ==
  ASSUME IInv,
         \/ \E b \in Biz : EnsureSession(b) \/ DeleteBusiness(b)
         \/ \E l \in Link : Unlink(l)
         \/ \E p \in puts : PutLands(p) \/ PutFails(p)
         \/ \E r \in reports : \/ ProbeConflict(r) \/ UpsertConnection(r)
                               \/ ConflictAnswer(r) \/ ReportLost(r)
  PROVE  IInv'
<1>t. /\ row \in [Biz -> Row] /\ stored \in [Biz -> Cred \cup {None}]
      /\ puts \in SUBSET Put /\ reports \in SUBSET Report
      /\ faults \in 0..MaxFaults /\ drops \in 0..MaxDrops
      /\ links \in [Link -> [state : {"unused", "alive", "dead"}, num : Number \cup {None}]]
  BY DEF IInv, TypeOK
<1>r. \A q \in Report : q.b \in Biz /\ q.status \in Status /\ q.phone \in Number \cup {None}
  BY DEF Report
<1>w. \A q \in Report, st \in {"clear", "refused"} : [q EXCEPT !.step = st] \in Report
  BY DEF Report
<1>d. ASSUME NEW l \in Link, links' = [links EXCEPT ![l].state = "dead"]
      PROVE  /\ links' \in [Link -> [state : {"unused", "alive", "dead"}, num : Number \cup {None}]]
             /\ \A k \in Link : /\ links'[k].num = links[k].num
                                /\ links'[k].state = "unused" => links[k].state = "unused"
  BY <1>t, <1>d
<1>1. ASSUME NEW b \in Biz, EnsureSession(b) PROVE IInv'
  <2>1. row' \in [Biz -> Row]
    BY <1>1, <1>t DEF EnsureSession, Row
  <2>2. \A a \in Biz : /\ row'[a].listed = "no" => row[a].listed = "no"
                       /\ row[a].listed = "deleted" => row'[a].listed = "deleted"
    BY <1>1, <1>t DEF EnsureSession, Row
  <2> QED BY <1>1, <1>t, <2>1, <2>2, OtherKeeps DEF EnsureSession
<1>2. ASSUME NEW b \in Biz, DeleteBusiness(b) PROVE IInv'
  <2>1. row' \in [Biz -> Row] /\ stored' \in [Biz -> Cred \cup {None}]
    BY <1>2, <1>t DEF DeleteBusiness, Row
  <2>2. \A a \in Biz : /\ row'[a].listed = "no" => row[a].listed = "no"
                       /\ row[a].listed = "deleted" => row'[a].listed = "deleted"
    BY <1>2, <1>t DEF DeleteBusiness, Row
  <2> QED BY <1>2, <1>t, <2>1, <2>2, OtherKeeps DEF DeleteBusiness
<1>3. ASSUME NEW l \in Link, Unlink(l) PROVE IInv'
  <2>1. drops' \in 0..MaxDrops
    BY <1>3, <1>t, GatewayConstants DEF Unlink
  <2>2. links' = [links EXCEPT ![l].state = "dead"]
    BY <1>3 DEF Unlink
  <2> QED BY <1>3, <1>t, <1>d, <2>1, <2>2, OtherKeeps DEF Unlink
<1>4. ASSUME NEW p \in puts, PutLands(p) PROVE IInv'
  <2>1. p.b \in Biz /\ p.cred \in Cred
    BY <1>t DEF Put
  <2>2. stored' \in [Biz -> Cred \cup {None}] /\ puts' \in SUBSET Put
    BY <1>4, <1>t, <2>1 DEF PutLands
  <2> QED BY <1>4, <1>t, <2>2, OtherKeeps DEF PutLands
<1>5. ASSUME NEW p \in puts, PutFails(p) PROVE IInv'
  <2>1. [p EXCEPT !.last = FALSE] \in Put
    BY <1>t DEF Put
  <2>2. puts' \in SUBSET Put
    BY <1>5, <1>t, <2>1 DEF PutFails
  <2>3. faults' \in 0..MaxFaults
    BY <1>5, FaultType DEF PutFails
  <2> QED BY <1>5, <1>t, <2>2, <2>3, OtherKeeps DEF PutFails
<1>6. ASSUME NEW r \in reports, ProbeConflict(r) PROVE IInv'
  <2>1. row' \in [Biz -> Row]
    BY <1>6, <1>t DEF ProbeConflict, Row
  <2>2. \A a \in Biz : row'[a].listed = row[a].listed
    BY <1>6, <1>t DEF ProbeConflict, Row
  <2>3. reports' \in SUBSET Report
    <3>1. PICK st \in {"clear", "refused"} :
            reports' = (reports \ {r}) \cup {[r EXCEPT !.step = st]}
      BY <1>6 DEF ProbeConflict
    <3> QED BY <1>t, <1>w, <3>1
  <2> QED BY <1>6, <1>t, <2>1, <2>2, <2>3, OtherKeeps DEF ProbeConflict
<1>7. ASSUME NEW r \in reports, UpsertConnection(r) PROVE IInv'
  <2>1. [listed |-> "yes", status |-> r.status, phone |-> r.phone] \in Row
    BY <1>r, <1>t DEF Row
  <2>2. row' \in [Biz -> Row]
    BY <1>7, <1>t, <2>1 DEF UpsertConnection
  <2>3. \A a \in Biz : /\ row'[a].listed = "no" => row[a].listed = "no"
                       /\ row[a].listed = "deleted" => row'[a].listed = "deleted"
    BY <1>7, <1>t DEF UpsertConnection
  <2> QED BY <1>7, <1>t, <2>2, <2>3, OtherKeeps DEF UpsertConnection
<1>8. ASSUME NEW r \in reports, ConflictAnswer(r) PROVE IInv'
  <2>1. CASE links' = links
    BY <1>8, <1>t, <2>1, OtherKeeps DEF ConflictAnswer
  <2>2. CASE links' # links
    <3>1. PICK l \in Link : links' = [links EXCEPT ![l].state = "dead"]
      BY <1>8, <2>2 DEF ConflictAnswer, Alive
    <3> QED BY <1>8, <1>t, <1>d, <3>1, OtherKeeps DEF ConflictAnswer
  <2> QED BY <2>1, <2>2
<1>9. ASSUME NEW r \in reports, ReportLost(r) PROVE IInv'
  <2>1. faults' \in 0..MaxFaults
    BY <1>9, <1>t, FaultType DEF ReportLost
  <2> QED BY <1>9, <1>t, <2>1, OtherKeeps DEF ReportLost
<1> QED BY <1>1, <1>2, <1>3, <1>4, <1>5, <1>6, <1>7, <1>8, <1>9

\* A gateway that has just been set up.
LEMMA InitHolds == Init => IInv
<1> SUFFICES ASSUME Init PROVE IInv
  OBVIOUS
<1>1. NoSession \in Session /\ ~NoSession.up /\ Inert(NoSession) /\ SocketOK(NoSession)
      /\ NoSession.sock = "none"
  <2>1. NewSession \in Session
    BY DEF NewSession, Session, Status
  <2> QED BY <2>1 DEF NoSession, NewSession, Session, Inert, SocketOK, HasSocket
<1>2. TypeOK
  <2>1. sess \in [Biz -> Session]
    BY <1>1 DEF Init
  <2>2. row \in [Biz -> Row]
    BY DEF Init, Row
  <2> QED BY <2>1, <2>2, GatewayConstants DEF Init, TypeOK
<1>3. SessionInv
  BY <1>1 DEF Init, SessionInv, PollOK, OwnOK
<1> QED BY <1>2, <1>3 DEF Init, IInv, NoOrphanSocket

\* Every step of the gateway, the backend, the owner and WhatsApp.
LEMMA NextKeeps == ASSUME IInv, [Next]_vars PROVE IInv'
<1>1. CASE Next
  BY <1>1, SessionActions, PollActions, ScanKeeps, OtherActions
     DEF Next, Work, Environment, ReportStep
<1>2. CASE UNCHANGED vars
  BY <1>2, OtherKeeps DEF vars, IInv, TypeOK
<1> QED BY <1>1, <1>2

-----------------------------------------------------------------------------
(* Theorems *)

LEMMA Invariance == Spec => []IInv
<1>1. IInv /\ [Next]_vars => IInv'
  BY NextKeeps
<1> QED BY <1>1, InitHolds, PTL DEF Spec

\* Rows, credentials, sessions, saves and reports are well formed in every reachable
\* state.
THEOREM TypeCorrect == Spec => []TypeOK
<1>1. IInv => TypeOK
  BY DEF IInv
<1> QED BY <1>1, Invariance, PTL

\* No poll, restart, failed load, crash or stop that overtakes a start ever leaves a
\* socket behind that no session refers to.
THEOREM NoSocketIsOrphaned == Spec => []NoOrphanSocket
<1>1. IInv => NoOrphanSocket
  BY DEF IInv
<1> QED BY <1>1, Invariance, PTL

\* A connected session reports the number of the link its socket runs on.
THEOREM OwnNumberIsReported == Spec => []ReportsOwnNumber
<1>1. IInv => ReportsOwnNumber
  BY DEF IInv, SessionInv, OwnOK, ReportsOwnNumber
<1> QED BY <1>1, Invariance, PTL
=============================================================================
