------------------------------- MODULE Gateway -------------------------------
(***************************************************************************)
(* The WhatsApp gateway (gateway/src): a manager that keeps one session    *)
(* per listed business, the session's socket life cycle with its timers,   *)
(* the debounced credential store behind it, and the status reports by     *)
(* which the backend learns which number a business has linked.            *)
(*                                                                         *)
(* A credentials blob is abstracted to the device link it belongs to:      *)
(* Unreg for a blob that was never scanned, a link otherwise.  WhatsApp    *)
(* and the phones (scan, unlink, dropped connections) are external.        *)
(***************************************************************************)
EXTENDS Naturals, FiniteSets

CONSTANTS Biz,        \* businesses
          Number,     \* phone numbers that can be linked
          Held,       \* numbers already recorded for businesses outside the instance
          None,       \* null
          MaxLinks,   \* bound: QR codes scanned in all
          MaxFaults,  \* bound: failed or late calls and gateway crashes
          MaxReports, \* bound: status reports of a business on their way
          MaxDrops,   \* bound: connections WhatsApp or the network closes
          MayDelete,  \* TRUE: a business may be deleted with its row
          Serial      \* TRUE: the backend handles one status report at a time

ASSUME GatewayConstants ==
    /\ None \notin Number /\ None \notin Nat /\ Held \subseteq Number
    /\ MaxLinks \in Nat /\ MaxFaults \in Nat /\ MaxDrops \in Nat /\ MaxReports \in Nat
    /\ MayDelete \in BOOLEAN /\ Serial \in BOOLEAN

Link == 1..MaxLinks
Unreg == 0
Cred == Link \cup {Unreg}

VARIABLES
    row,      \* whatsapp_connections, one row per business
    stored,   \* whatsapp_credentials, None before the first save
    sess,     \* the session object of a business in the gateway
    orphan,   \* businesses with an open socket no session refers to
    sync,     \* the reply of listSessions the manager is about to apply
    puts,     \* credential saves on their way that nobody waits for
    reports,  \* status reports on their way
    links,    \* external: the device links WhatsApp knows of
    faults, drops

vars == <<row, stored, sess, orphan, sync, puts, reports, links, faults, drops>>

Status == {"starting", "qr_pending", "connected", "disconnected", "logged_out"}

Row == [listed : {"no", "yes", "deleted"},
        status : Status \cup {"none", "connecting", "conflict"},
        phone : Number \cup {None}]

Session == [up : BOOLEAN,            \* in the manager's map
            pc : {"idle", "wipe", "flush", "load", "make"},   \* where start() awaits
            status : Status, own : Number \cup {None},
            timer : {"none", "keep", "fresh"}, stopped : BOOLEAN, ending : BOOLEAN,
            mem : Cred \cup {None},  \* authStore's blob, None before the first load
            save : BOOLEAN,          \* its debounce timer is set
            sock : {"none", "connecting", "paired", "open", "closed"},
            qr : BOOLEAN]            \* a QR code is being drawn

Put == [b : Biz, cred : Cred, last : BOOLEAN]

Report == [b : Biz, status : Status, phone : Number \cup {None},
           step : {"sent", "clear", "refused"}]

NewSession == [up |-> TRUE, pc |-> "load", status |-> "starting", own |-> None,
               timer |-> "none", stopped |-> FALSE, ending |-> FALSE, mem |-> None,
               save |-> FALSE, sock |-> "none", qr |-> FALSE]

NoSession == [NewSession EXCEPT !.up = FALSE, !.pc = "idle"]

Alive(l) == l \in Link /\ links[l].state = "alive"
Dead(l) == l \in Link /\ links[l].state = "dead"
HasSocket(s) == s.sock \in {"connecting", "paired", "open"}

Init ==
    /\ row = [b \in Biz |-> [listed |-> "no", status |-> "none", phone |-> None]]
    /\ stored = [b \in Biz |-> None]
    /\ sess = [b \in Biz |-> NoSession]
    /\ orphan = {}
    /\ sync = [busy |-> FALSE, some |-> FALSE, desired |-> {}]
    /\ puts = {} /\ reports = {}
    /\ links = [l \in Link |-> [state |-> "unused", num |-> None]]
    /\ faults = 0 /\ drops = 0

Fault == faults < MaxFaults /\ faults' = faults + 1

-----------------------------------------------------------------------------
(* The owner and the manager *)

\* POST /api/whatsapp/link: the row that makes the manager open a session.
EnsureSession(b) ==
    /\ row[b].listed # "deleted"
    /\ row[b].status \notin {"connected", "connecting"}
    /\ row' = [row EXCEPT ![b].listed = "yes", ![b].status = "connecting"]
    /\ UNCHANGED <<stored, sess, orphan, sync, puts, reports, links, faults, drops>>

\* The business is deleted and its rows with it.
DeleteBusiness(b) ==
    /\ MayDelete /\ row[b].listed = "yes"
    /\ row' = [row EXCEPT ![b] = [listed |-> "deleted", status |-> "none", phone |-> None]]
    /\ stored' = [stored EXCEPT ![b] = None]
    /\ UNCHANGED <<sess, orphan, sync, puts, reports, links, faults, drops>>

\* A tick of the poll: skipped while the previous one is running.
SyncList ==
    /\ ~sync.busy
    /\ \/ /\ LET listed == {b \in Biz : row[b].listed = "yes"} IN
             sync' = [busy |-> TRUE, some |-> listed # {} \/ Held # {}, desired |-> listed]
          /\ UNCHANGED faults
       \/ \* listSessions answers [] on any failure
          /\ Fault
          /\ sync' = [busy |-> TRUE, some |-> FALSE, desired |-> {}]
    /\ UNCHANGED <<row, stored, sess, orphan, puts, reports, links, drops>>

\* Fault: the poll does not look whether the business has a session.
ToStartAnyway(b) == b \in sync.desired

ToStart(b) == b \in sync.desired /\ ~sess[b].up
ToStop(b) == sync.some /\ b \notin sync.desired /\ sess[b].up

\* stop() up to its first await; StopEnd is the rest.
Stopped(s) == [s EXCEPT !.up = FALSE, !.stopped = TRUE, !.timer = "none", !.ending = TRUE]

SyncSessions ==
    /\ sync.busy
    /\ sync' = [busy |-> FALSE, some |-> FALSE, desired |-> {}]
    /\ sess' = [b \in Biz |-> IF ToStart(b) THEN NewSession
                              ELSE IF ToStop(b) THEN Stopped(sess[b]) ELSE sess[b]]
    /\ orphan' = orphan \cup {b \in Biz : ToStart(b) /\ HasSocket(sess[b])}
    /\ UNCHANGED <<row, stored, puts, reports, links, faults, drops>>

\* Fault: stop() saves the blob whether or not a save is due.
StopEndAlwaysSaves(b) ==
    /\ sess[b].ending
    /\ sess' = [sess EXCEPT ![b].ending = FALSE, ![b].save = FALSE, ![b].sock = "closed"]
    /\ puts' = puts \cup {[b |-> b, cred |-> sess[b].mem, last |-> FALSE]}
    /\ UNCHANGED <<row, stored, orphan, sync, reports, links, faults, drops>>

StopEnd(b) ==
    /\ sess[b].ending
    /\ sess' = [sess EXCEPT ![b].ending = FALSE, ![b].save = FALSE,
                            ![b].sock = IF HasSocket(sess[b]) THEN "closed" ELSE @]
    /\ puts' = IF sess[b].save
               THEN puts \cup {[b |-> b, cred |-> sess[b].mem, last |-> FALSE]} ELSE puts
    /\ UNCHANGED <<row, stored, orphan, sync, reports, links, faults, drops>>

\* The process dies: the sessions, their timers and sockets are gone.
Crash ==
    /\ Fault
    /\ sess' = [b \in Biz |-> NoSession]
    /\ orphan' = {}
    /\ sync' = [busy |-> FALSE, some |-> FALSE, desired |-> {}]
    /\ puts' = {[p EXCEPT !.last = FALSE] : p \in puts}
    /\ UNCHANGED <<row, stored, reports, links, drops>>

-----------------------------------------------------------------------------
(* start() and restart() *)

\* Fault: a logged-out session reconnects on its dead blob.
RestartKeepsCreds(s, fresh) ==
    IF s.stopped \/ s.timer # "none" THEN s ELSE [s EXCEPT !.timer = "keep"]

Restart(s, fresh) ==
    IF s.stopped \/ s.timer # "none" THEN s
    ELSE [s EXCEPT !.timer = IF fresh THEN "fresh" ELSE "keep"]

\* The reconnect timer, at least three seconds, fires after the debounce timer
\* of 0.8 seconds and after the drawing of a QR code.
ReconnectTimer(b) ==
    /\ sess[b].timer # "none" /\ sess[b].pc = "idle"
    /\ ~sess[b].save /\ ~sess[b].qr
    /\ sess' = [sess EXCEPT ![b] =
                  IF sess[b].timer = "fresh"
                  THEN [sess[b] EXCEPT !.timer = "none", !.pc = "wipe", !.own = None]
                  ELSE [sess[b] EXCEPT !.timer = "none",
                                       !.pc = IF sess[b].mem = None THEN "load" ELSE "flush"]]
    /\ UNCHANGED <<row, stored, orphan, sync, puts, reports, links, faults, drops>>

\* saveCreds swallows its errors: a wipe that failed or is late is not noticed.
WipeCreds(b) ==
    /\ sess[b].pc = "wipe"
    /\ sess' = [sess EXCEPT ![b].pc = "load"]
    /\ \/ /\ stored' = [stored EXCEPT ![b] = IF row[b].listed = "deleted" THEN @ ELSE Unreg]
          /\ UNCHANGED <<puts, faults>>
       \/ /\ Fault
          /\ puts' \in {puts, puts \cup {[b |-> b, cred |-> Unreg, last |-> FALSE]}}
          /\ UNCHANGED stored
    /\ UNCHANGED <<row, orphan, sync, reports, links, drops>>

\* flush(): the reload waits for the last save that was sent.
FlushCreds(b) ==
    /\ sess[b].pc = "flush"
    /\ ~\E p \in puts : p.b = b /\ p.last
    /\ sess' = [sess EXCEPT ![b].pc = "load"]
    /\ UNCHANGED <<row, stored, orphan, sync, puts, reports, links, faults, drops>>

\* useDbAuthState: a business without a blob starts on a fresh one.
LoadCreds(b) ==
    /\ sess[b].pc = "load"
    /\ sess' = [sess EXCEPT ![b].pc = "make",
                            ![b].mem = IF stored[b] = None THEN Unreg ELSE stored[b]]
    /\ UNCHANGED <<row, stored, orphan, sync, puts, reports, links, faults, drops>>

\* A 200 whose body is cut, late or unreadable counts as "no credentials yet":
\* _json swallows the error, and the session starts on a fresh blob.
LoadGarbled(b) ==
    /\ sess[b].pc = "load"
    /\ Fault
    /\ sess' = [sess EXCEPT ![b].pc = "make", ![b].mem = Unreg]
    /\ UNCHANGED <<row, stored, orphan, sync, puts, reports, links, drops>>

\* A load that is refused or gets no answer throws: start() gives up and tries again later.
LoadFails(b) ==
    /\ sess[b].pc = "load"
    /\ Fault
    /\ sess' = [sess EXCEPT ![b] =
                  Restart([sess[b] EXCEPT !.pc = "idle", !.status = "disconnected"], FALSE)]
    /\ UNCHANGED <<row, stored, orphan, sync, puts, reports, links, drops>>

\* makeWASocket; `stopped` is not looked at again after the awaits.
MakeSocket(b) ==
    /\ sess[b].pc = "make"
    /\ orphan' = IF HasSocket(sess[b]) THEN orphan \cup {b} ELSE orphan
    /\ sess' = [sess EXCEPT ![b].pc = "idle", ![b].sock = "connecting"]
    /\ UNCHANGED <<row, stored, sync, puts, reports, links, faults, drops>>

-----------------------------------------------------------------------------
(* The events of the socket *)

\* report() with the state as it is when it is called.
Reported(b, s) ==
    /\ reports' = reports \cup {[b |-> b, status |-> s.status, phone |-> s.own, step |-> "sent"]}
    /\ Cardinality({r \in reports' : r.b = b}) <= MaxReports

EmitQr(b) ==
    /\ sess[b].sock = "connecting" /\ sess[b].mem = Unreg /\ ~sess[b].qr
    /\ sess' = [sess EXCEPT ![b].qr = TRUE]
    /\ UNCHANGED <<row, stored, orphan, sync, puts, reports, links, faults, drops>>

QrDrawn(b) ==
    /\ sess[b].qr
    /\ sess' = [sess EXCEPT ![b].qr = FALSE, ![b].status = "qr_pending"]
    /\ Reported(b, sess'[b])
    /\ UNCHANGED <<row, stored, orphan, sync, puts, links, faults, drops>>

\* The owner scans the code with number n: WhatsApp creates a link, the socket
\* emits creds.update and is then closed with "restart required".
Scan(b, n) ==
    /\ sess[b].sock = "connecting" /\ sess[b].mem = Unreg
    /\ sess[b].status = "qr_pending" /\ ~sess[b].qr
    /\ \E l \in Link :
         /\ links[l].state = "unused" /\ \A k \in 1..(l - 1) : links[k].state # "unused"
         /\ links' = [links EXCEPT ![l] = [state |-> "alive", num |-> n]]
         /\ sess' = [sess EXCEPT ![b].mem = l, ![b].own = n, ![b].save = TRUE,
                                 ![b].sock = "paired"]
    /\ UNCHANGED <<row, stored, orphan, sync, puts, reports, faults, drops>>

\* Fault: the own number is not read again when the socket opens.
OpenKeepsNumber(b) ==
    /\ sess[b].sock = "connecting" /\ Alive(sess[b].mem)
    /\ sess' = [sess EXCEPT ![b].sock = "open", ![b].status = "connected"]
    /\ Reported(b, sess'[b])
    /\ UNCHANGED <<row, stored, orphan, sync, puts, links, faults, drops>>

\* connection === 'open'
Open(b) ==
    /\ sess[b].sock = "connecting" /\ Alive(sess[b].mem)
    /\ sess' = [sess EXCEPT ![b].sock = "open", ![b].status = "connected",
                            ![b].own = links[sess[b].mem].num]
    /\ Reported(b, sess'[b])
    /\ UNCHANGED <<row, stored, orphan, sync, puts, links, faults, drops>>

\* connection === 'close'
Closed(b, loggedOut) ==
    LET c == [sess[b] EXCEPT !.sock = "closed"]
        s == [c EXCEPT !.status = IF loggedOut THEN "logged_out" ELSE "disconnected"]
    IN IF c.stopped
       THEN sess' = [sess EXCEPT ![b] = c] /\ UNCHANGED reports
       ELSE sess' = [sess EXCEPT ![b] = Restart(s, loggedOut)] /\ Reported(b, s)

\* WhatsApp refuses a dead link, or ends the socket of a link that dies.
LoggedOut(b) ==
    /\ sess[b].sock \in {"connecting", "open"} /\ Dead(sess[b].mem)
    /\ Closed(b, TRUE)
    /\ UNCHANGED <<row, stored, orphan, sync, puts, links, faults, drops>>

RestartRequired(b) ==
    /\ sess[b].sock = "paired"
    /\ Closed(b, FALSE)
    /\ UNCHANGED <<row, stored, orphan, sync, puts, links, faults, drops>>

Drop(b) ==
    /\ sess[b].sock \in {"connecting", "open"} /\ drops < MaxDrops
    /\ drops' = drops + 1
    /\ Closed(b, FALSE)
    /\ UNCHANGED <<row, stored, orphan, sync, puts, links, faults>>

\* The device is removed on the phone.
Unlink(l) ==
    /\ Alive(l) /\ drops < MaxDrops
    /\ drops' = drops + 1
    /\ links' = [links EXCEPT ![l].state = "dead"]
    /\ UNCHANGED <<row, stored, sess, orphan, sync, puts, reports, faults>>

-----------------------------------------------------------------------------
(* The debounced save *)

\* creds.update or keys.set on an open socket.
CredsUpdate(b) ==
    /\ sess[b].sock = "open" /\ ~sess[b].save
    /\ sess' = [sess EXCEPT ![b].save = TRUE]
    /\ UNCHANGED <<row, stored, orphan, sync, puts, reports, links, faults, drops>>

\* The timer fires: the blob as it is now is sent; only the newest is waited for.
SaveTimer(b) ==
    /\ sess[b].save
    /\ sess' = [sess EXCEPT ![b].save = FALSE]
    /\ puts' = {[p EXCEPT !.last = p.last /\ p.b # b] : p \in puts}
               \cup {[b |-> b, cred |-> sess[b].mem, last |-> TRUE]}
    /\ UNCHANGED <<row, stored, orphan, sync, reports, links, faults, drops>>

\* PUT /internal/wa/creds
PutLands(p) ==
    /\ puts' = puts \ {p}
    /\ stored' = [stored EXCEPT ![p.b] = IF row[p.b].listed = "deleted" THEN @ ELSE p.cred]
    /\ UNCHANGED <<row, sess, orphan, sync, reports, links, faults, drops>>

\* A save fails, or outlives its timeout and is still on its way.
PutFails(p) ==
    /\ Fault
    /\ \/ puts' = puts \ {p}
       \/ p.last /\ puts' = (puts \ {p}) \cup {[p EXCEPT !.last = FALSE]}
    /\ UNCHANGED <<row, stored, sess, orphan, sync, reports, links, drops>>

-----------------------------------------------------------------------------
(* POST /internal/wa/status *)

HeldByOther(r) == r.phone \in Held \/ \E b \in Biz \ {r.b} : row[b].phone = r.phone

NeedsProbe(r) == r.status = "connected" /\ r.phone # None

\* The probe of a connected report; a refusal is recorded without the number.
ProbeConflict(r) ==
    /\ r.step = "sent" /\ NeedsProbe(r)
    /\ row[r.b].listed # "deleted"
    /\ Serial => \A q \in reports : q.step # "clear"
    /\ IF HeldByOther(r)
       THEN /\ row' = [row EXCEPT ![r.b].status = "conflict", ![r.b].phone = None]
            /\ reports' = (reports \ {r}) \cup {[r EXCEPT !.step = "refused"]}
       ELSE /\ reports' = (reports \ {r}) \cup {[r EXCEPT !.step = "clear"]}
            /\ UNCHANGED row
    /\ UNCHANGED <<stored, sess, orphan, sync, puts, links, faults, drops>>

\* upsert_connection
UpsertConnection(r) ==
    /\ r.step = "clear" \/ (r.step = "sent" /\ ~NeedsProbe(r))
    /\ row[r.b].listed # "deleted"
    /\ row' = [row EXCEPT ![r.b] = [listed |-> "yes", status |-> r.status, phone |-> r.phone]]
    /\ reports' = reports \ {r}
    /\ UNCHANGED <<stored, sess, orphan, sync, puts, links, faults, drops>>

\* The refusal reaches the session: its current socket is logged out.
ConflictAnswer(r) ==
    /\ r.step = "refused"
    /\ reports' = reports \ {r}
    /\ links' = IF sess[r.b].sock = "open" /\ Alive(sess[r.b].mem)
                THEN [links EXCEPT ![sess[r.b].mem].state = "dead"] ELSE links
    /\ UNCHANGED <<row, stored, sess, orphan, sync, puts, faults, drops>>

\* A report is lost, or its answer is; one for a deleted business fails.
ReportLost(r) ==
    /\ reports' = reports \ {r}
    /\ IF row[r.b].listed = "deleted" THEN UNCHANGED faults ELSE Fault
    /\ UNCHANGED <<row, stored, sess, orphan, sync, puts, links, drops>>

ReportStep(r) ==
    \/ ProbeConflict(r) \/ UpsertConnection(r) \/ ConflictAnswer(r)
    \/ row[r.b].listed = "deleted" /\ ReportLost(r)

-----------------------------------------------------------------------------
\* Steps the gateway, the backend and WhatsApp take by themselves.
Work ==
    \/ SyncList \/ SyncSessions
    \/ \E b \in Biz : \/ StopEnd(b) \/ ReconnectTimer(b) \/ WipeCreds(b) \/ FlushCreds(b)
                      \/ LoadCreds(b) \/ MakeSocket(b) \/ EmitQr(b) \/ QrDrawn(b) \/ Open(b)
                      \/ LoggedOut(b) \/ RestartRequired(b) \/ SaveTimer(b)
    \/ \E p \in puts : PutLands(p)
    \/ \E r \in reports : ReportStep(r)

\* Steps of the owner, and what goes wrong.
Environment ==
    \/ Crash
    \/ \E b \in Biz : \/ EnsureSession(b) \/ DeleteBusiness(b) \/ LoadFails(b)
                      \/ LoadGarbled(b) \/ Drop(b) \/ CredsUpdate(b)
                      \/ \E n \in Number : Scan(b, n)
    \/ \E l \in Link : Unlink(l)
    \/ \E p \in puts : PutFails(p)
    \/ \E r \in reports : row[r.b].listed # "deleted" /\ ReportLost(r)

Next == Work \/ Environment

Spec == Init /\ [][Next]_vars

\* Timers fire, the manager polls, saves land and WhatsApp answers a socket.
FairSpec ==
    /\ Spec
    /\ WF_vars(SyncList) /\ WF_vars(SyncSessions)
    /\ \A b \in Biz :
         /\ WF_vars(ReconnectTimer(b)) /\ WF_vars(WipeCreds(b)) /\ WF_vars(FlushCreds(b))
         /\ WF_vars(LoadCreds(b)) /\ WF_vars(MakeSocket(b))
         /\ WF_vars(EmitQr(b)) /\ WF_vars(QrDrawn(b)) /\ WF_vars(Open(b))
         /\ WF_vars(LoggedOut(b)) /\ WF_vars(RestartRequired(b)) /\ WF_vars(SaveTimer(b))
         /\ WF_vars(\E p \in puts : p.b = b /\ PutLands(p))
         /\ WF_vars(\E r \in reports : r.b = b /\ ReportStep(r))

-----------------------------------------------------------------------------
(* Properties *)

\* Every variable has its type.
TypeOK ==
    /\ row \in [Biz -> Row]
    /\ stored \in [Biz -> Cred \cup {None}]
    /\ sess \in [Biz -> Session]
    /\ orphan \in SUBSET Biz
    /\ sync \in [busy : BOOLEAN, some : BOOLEAN, desired : SUBSET Biz]
    /\ puts \in SUBSET Put
    /\ reports \in SUBSET Report
    /\ links \in [Link -> [state : {"unused", "alive", "dead"}, num : Number \cup {None}]]
    /\ faults \in 0..MaxFaults /\ drops \in 0..MaxDrops

\* However polls, restarts, failed loads and conflict logouts interleave, a
\* session never opens a second socket while its first is still open: nobody
\* would hold a reference to close the first, and both would answer customers.
NoOrphanSocket == orphan = {}

\* While a session counts as connected, the number it reports is the one of the
\* link its socket runs on, also after a re-link with another phone.
ReportsOwnNumber ==
    \A b \in Biz : sess[b].status = "connected" /\ sess[b].sock = "open"
                   => sess[b].own = links[sess[b].mem].num

\* One number, one business: no two rows record the same number.
OneNumberOneBusiness ==
    \A a, b \in Biz : a # b /\ row[a].phone = row[b].phone => row[a].phone = None

\* A listed business comes back to a QR code or a connection after every logout,
\* drop, failed load, late save or crash.
SessionsComeBack ==
    \A b \in Biz : row[b].listed = "yes"
                   ~> (sess[b].status \in {"qr_pending", "connected"} \/ row[b].listed = "deleted")
=============================================================================
