------------------------------- MODULE Frontend -------------------------------
(***************************************************************************)
(* The web app: the router, the session it asks for when it starts, and    *)
(* the pages behind it.  A behaviour is one visit: the app is opened at a  *)
(* route, GET /api/me is answered, and if the gates let the visitor in one *)
(* machine of the page on that route runs.  The machines of a page share   *)
(* no state, and going to another route mounts that page anew.             *)
(***************************************************************************)
EXTENDS BotBuilder, OwnerForms, Gallery, PublicBooking, Inbox, ListPages, TryMe, Backoffice

VARIABLES
  page,  \* the machine this visit is about
  me     \* what GET /api/me has said

pagevars == <<bbvars, sfvars, dcvars, tnvars, svvars, gpvars, pbvars, pmvars, cvvars, chvars,
              ldvars, bkvars, tmvars, advars, dtvars>>

\* The routes: without a gate, behind AuthGate, and behind AdminGate as well.
PublicPage == {"booking", "manage"}
OwnerPage == {"builder", "settings", "details", "numbers", "services", "gallery",
              "conversations", "chat", "leads", "bookings", "try me"}
AdminPage == {"board", "business"}

AuthGate == me \in {"owner", "admin"}
AdminGate == AuthGate /\ me = "admin"
Mounted ==
    \/ page \in PublicPage
    \/ page \in OwnerPage /\ AuthGate
    \/ page \in AdminPage /\ AuthGate /\ AdminGate

\* What the other pages would find on the server does not matter to this visit.
Some(S) == CHOOSE x \in S : TRUE
OthersFixed ==
    /\ page # "builder" => bbrow = Some(FirstBots)
    /\ page # "settings" => sfrow = Some(FirstSettings)
    /\ page # "details" => dcrow = Some(FirstDetails)
    /\ page # "numbers" => tnrow = Some(FirstNumbers)
    /\ page # "services" => svrow = Some(FirstServices)
    /\ page # "gallery" => gprow.imgs = Some(FirstGalleries)
    /\ page # "conversations" => [i \in DOMAIN cvrow |-> cvrow[i].status] = Some(FirstChats)
    /\ page # "chat" => chrow.status = "waiting" /\ chrow.leads = <<"open">>
    /\ page # "leads" => ldrow = Some(FirstLeads) /\ ld.f.status = "all"
    /\ page # "bookings" => bkrow = Some(FirstBookings)

Init ==
    /\ page \in PublicPage \cup OwnerPage \cup AdminPage
    /\ me = "loading"
    /\ BBInit /\ SFInit /\ DCInit /\ TNInit /\ SVInit /\ GPInit /\ PBInit /\ PMInit
    /\ CVInit /\ CHInit /\ LDInit /\ BKInit /\ TMInit /\ ADInit /\ DTInit
    /\ OthersFixed

\* refresh(): a session, an operator's session, or none (401 and any other failure).
\* Only a gate reads the answer, and only AdminGate reads the flag.
MeAnswered(m) ==
    /\ me = "loading" /\ page \notin PublicPage
    /\ m = "admin" => page \in AdminPage
    /\ me' = m
    /\ UNCHANGED <<page, pagevars>>

Running(p) == Mounted /\ page = p
PageStep ==
    /\ Mounted
    /\ IF Running("builder") THEN BBNext ELSE UNCHANGED bbvars
    /\ IF Running("settings") THEN SFNext ELSE UNCHANGED sfvars
    /\ IF Running("details") THEN DCNext ELSE UNCHANGED dcvars
    /\ IF Running("numbers") THEN TNNext ELSE UNCHANGED tnvars
    /\ IF Running("services") THEN SVNext ELSE UNCHANGED svvars
    /\ IF Running("gallery") THEN GPNext ELSE UNCHANGED gpvars
    /\ IF Running("booking") THEN PBNext ELSE UNCHANGED pbvars
    /\ IF Running("manage") THEN PMNext ELSE UNCHANGED pmvars
    /\ IF Running("conversations") THEN CVNext ELSE UNCHANGED cvvars
    /\ IF Running("chat") THEN CHNext ELSE UNCHANGED chvars
    /\ IF Running("leads") THEN LDNext ELSE UNCHANGED ldvars
    /\ IF Running("bookings") THEN BKNext ELSE UNCHANGED bkvars
    /\ IF Running("try me") THEN TMNext ELSE UNCHANGED tmvars
    /\ IF Running("board") THEN ADNext ELSE UNCHANGED advars
    /\ IF Running("business") THEN DTNext ELSE UNCHANGED dtvars
    /\ UNCHANGED <<page, me>>

Next == PageStep \/ \E m \in {"owner", "admin", "none"} : MeAnswered(m)

Spec == Init /\ [][Next]_<<page, me, pagevars>>
=============================================================================
