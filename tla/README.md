# Verification of the WhatsApp bots service

TLA+ models of the multi-tenant WhatsApp bot service in this repository
(`backend/`, FastAPI with Postgres and Redis; `gateway/`, Node with one Baileys
socket per business; `frontend/`, React). The modules are translated from the
code; TLC checks them on small instances and TLAPS proves the central facts for
every instance. `PROJECT.json` maps each definition to the lines it models.

## 1. The system

A customer writes to a business on WhatsApp. The gateway's socket posts the
message to the backend's webhook, the bot runtime runs one *turn* and returns the
replies, which the gateway sends. Owners see leads, chats and appointments in the
dashboard. Background loops in every backend process clean up what went quiet.

| component | state it keeps | operations | talks to |
|---|---|---|---|
| bot engine (`services/bot_engine.py`) | none: a pure function | `advance(config, state, message)` | called by the runtime |
| bot runtime (`services/bot_runtime.py`, `api/webhook.py`) | none between turns | `run_turn`: read status, reset, log, load, engine, transaction, save, reply, close | Redis, Postgres |
| conversation state (`services/conversation_state.py`) | Redis per chat: hash (status, engine state, lead id, last activity), transcript, unread counter; per business an index set | accessors, listing, reset, TTLs | runtime, dashboard, sweep |
| leads (`services/leads/`) | Postgres: leads, funnel events | create, update, complete, touch, set status, delete | runtime, dashboard, sweep |
| stale handoff sweep | a Redis lock with TTL | list, send closing message, mirror, close | Redis, gateway |
| abandoned sweep | a SQL function | abandon leads, then close their chats | Postgres, Redis |
| dashboard (`api/dashboard.py`) | none | chat status, reply, lead status, delete lead, read | all of the above |
| bot settings and builder | Postgres: the bot configuration | save, publish, AI drafting | runtime reads it every turn |
| appointment booking (`services/booking/`) | Postgres: services, settings, bookings; Redis: alerts | slots, create, cancel, reschedule, owner update, service and settings CRUD | calendar hook, reminders |
| booking reminders | Redis: markers and outbox, lock | sweep, one-off message | bookings |
| Google Calendar (`services/google_calendar.py`) | event id on the booking | create, patch, delete event after a commit | external |
| WhatsApp gateway (`gateway/src/`) | one session per business: socket, send queue, credentials cache, retry state | start, stop, restart, send, inbound, credential save | backend's internal API |
| WhatsApp connections (`services/whatsapp.py`, `api/internal_wa.py`) | Postgres: connection rows, credentials | link, report status, list desired sessions | gateway |
| media (`api/internal_media.py`, `services/file_storage.py`) | Postgres file rows, files on disk | upload, serve, delete | gateway, dashboard |
| web app (`frontend/src/`) | per page: what is loaded, the draft, filters, prompts, calls on their way | the owner's pages, the customer's booking pages, the operator's back office | every API above |
| auth, admin, crypto, config | sessions, rows | single-row requests | web app |

What is hard to test here: nothing serialises the turns of one chat, and a turn is
a dozen round trips to two stores without a common transaction; owners and two
sweeps write the same hashes in between; a process may die after the Postgres
commit and before the Redis write; locks carry a TTL shorter than the work they
protect; bookings are validated in one statement and inserted in another; the
calendar, the outbox and the alerts are written after the commit, one by one. The
gateway's sessions live off timers, polls, saves and reports that nobody waits for,
and its message handlers run side by side. The pages of the web app go on taking
input while their calls are on the way, and a call that timed out may have worked.
`PROJECT.json` lists these as `hazards`, each at its line.

What makes each part correct:

- engine: a questionnaire asks every question once, in order, and finishes only
  with every answer; a chat at the menu, in a flow and handed off stay apart;
- runtime and leads: an answer reaches the lead it belongs to; a completed lead
  stays complete; a closed chat starts over; a handoff is visible to the owner;
- sweeps: quiet leads and unattended chats are settled in the end, and nobody is
  told so twice;
- booking: two customers never hold the same time; the break between bookings is
  kept; the calendar shows the bookings and an event belongs to one booking; a
  customer who was told "booked" is booked; a message is sent once;
- gateway: one socket per business, a session that always comes back and, unless an
  answer of the backend was garbled, asks for a new scan only when it must, replies in
  order and paced, a file stored once, no refused file and no own message taken for a
  customer's; a number belongs to one business;
- web app: what a page says it saved is what the server keeps; a list belongs to the
  filter above it; a customer books the time that is on screen, and once; nothing is
  deleted that was not asked about.

## 2. Modules

| module | models | state |
|---|---|---|
| `BotEngine` | `bot_engine.advance` and the shape of a bot | none (operators) |
| `Conversation` | `run_turn`, the accessors of `conversation_state`, leads, dashboard writes, both sweeps | `chats` (Redis hash), `leads` (Postgres rows), `bot`, `turns`, `sweeps`, `lock`, `toClose` |
| `ConversationProofs`, `LeadProofs` | theorems about `Conversation`: types and lead ids; answers, completions, handoffs and fresh starts | - |
| `Booking` | `services/booking/`, the public and the owner's API, the calendar hook, alerts, once-markers and outbox | `bookings`, `services`, `settings`, `connected`, `reqs`, `calendar`, `alerts`, `markers`, `outbox` |
| `BookingProofs`, `CalendarProofs` | theorems about `Booking`: types, event ids and times; messages and the calendar | - |
| `Gateway` | `manager.js`, the life of a session in `session.js`, `dbAuthState.js`, status reports, `internal_wa.py` and the connection rows | `row`, `stored`, `sess`, `orphan`, `sync`, `puts`, `reports`, `links` |
| `GatewayProofs` | theorems about `Gateway` | - |
| `Delivery` | inbound and outbound messages of one session: `handleInbound`, `contract.js`, media upload, the send chain, the echo filter | `conn`, `hs`, `chain`, `flying`, `wire`, `sent`, `acked`, `files`, `bot` |
| `DeliveryProofs` | theorems about `Delivery` | - |
| `SaveForm` | abstract: a form with a save button that keeps its word | `shown`, `stored`, `note` |
| `Pages` | a call of a page: sent, done, failed (`apiClient.ts`) | none (operators) |
| `BotBuilder` | the builder page, its tabs, steps editor, assistant and publish switch, with the `bot_settings` row | `bb`, `bbrow`, `bbnet` |
| `OwnerForms` | booking settings, details card with logo, test numbers, services | four triples of page, row and calls |
| `Gallery` | the photos and design tab | `gp`, `gprow`, `gpnet` |
| `PublicBooking` | the customer's booking flow and the page behind a booking's link | `pb`..., `pm`... |
| `Inbox` | the conversations page; one opened row with outcome dialog and chat panel | `cv`..., `ch`... |
| `ListPages` | the lists of leads and of bookings | `ld`..., `bk`... |
| `TryMe` | the test chat | `tm`, `tmnet` |
| `Backoffice` | the CRM board with its panel; the page of a business | `ad`..., `dt`... |
| `Frontend` | router, gates and session; composes the ten page modules | `page`, `me` |
| `FormProofs`, `PageProofs` | theorems about `Frontend`: the forms and the builder; the lists, the chat, the gallery, the customer's pages, the test chat and the back office | - |
| `MCConversation`, `MCBooking`, `MCGateway`, `MCDelivery`, `MCFrontend` | the bots, messages, opening hours, rows and symmetries of the instances | - |

**Engine.** `Advance` has the precedence of `advance`: menu keyword, handoff
keyword, handed-off phase, flow, menu. A message is a record of the tests the
engine puts it to (is it blank, a keyword, a menu choice, which step types would
it satisfy, which media does it carry), so parsing and validation are kept as
decisions and the text itself is not.

**Turns.** `turns[w].pc` is the point a `run_turn` call has reached, and there is one
action for each Redis accessor or Postgres transaction: `ReadStatus`, `ReadActivity`,
`ResetChat`, `SilentLog` and `SilentTouch` (steps 1 and 1a), `LogMessage`,
`LoadAndAdvance`, one of `StartLead`, `RecordStep`, `FinishLead`, `BookingLead`,
`MarkWaiting` then `HandOff`, `NothingToPersist` (the transaction), `SaveState`,
`Reply`, `CloseChat`. `RejectTransaction` is the foreign key of `flow_events` refusing
an event of a deleted lead; `TurnFails` is a crash or an error at any point, and
`used.torn` remembers that one came between the commit that completes a lead and
`SaveState`. Several workers may be inside the same chat, because the code takes no
lock.

**Owner and sweeps.** `OwnerSetsStatus`, `OwnerReplies`, `OwnerSetsLeadStatus`,
`OwnerDeletesLead` and `OwnerSavesBot` are the dashboard's writes. The stale
handoff sweep takes its lock and lists (`SweepList`), then sends, mirrors and
closes chat by chat; the lock may expire at any point and is never released. The
abandoned sweep is one SQL function followed by one Redis write for each lead.

**Time.** In `Conversation` a timestamp is its age in ticks, capped just past
`Hour`: the code only ever asks whether an hour has passed. In `Booking` time is a
number, an instant of a day of `DayLen` units, because slots are arithmetic.

**Booking requests.** `reqs[r]` is one API request: `StartCreate`, `StartCancel`,
`StartMove`, `StartUpdate`; `CheckSlot` (the double-booking guard, from
`compute_slots` in `Offered`); the write (`InsertBooking`, `MoveBooking`,
`CancelBooking`, `UpdateBooking`, or `RejectInsert` and `LoseBooking`); the calendar
hook (`HookRead`, one Google call, `RecordEvent`); the alert, message or answer
(`AlertOwner`, `MarkApproved` and `PushApproved`, `Answer`). Statements of different
requests interleave as READ COMMITTED allows. Google is external: `calendar` is
what the hook's calls do to it.

**Gateway.** A session is the object `createSession` returns: `sess[b].pc` is the
`await` at which `start()` stands, `timer` the reconnect timer, `mem` and `save` the
credential store with its debounce, `sock` the socket. A credential blob is the device
link it belongs to, which WhatsApp (external) may kill. Everything that is not awaited
is in flight in a variable of its own: credential saves in `puts`, reports in
`reports`, the listing the manager is about to apply in `sync`. A load of the
credentials has three outcomes: the blob (`LoadCreds`), an error that throws
(`LoadFails`), and a 200 whose body `_json` cannot read, which counts as "no
credentials yet" (`LoadGarbled`). `Crash` is a restart of the gateway. `orphan`
records that a second socket was opened over an open one.

**Delivery.** `hs[h]` is one call of `handleInbound` and may stand at the download,
the probe or the insert of the upload, the webhook call or one of its sends; all sends
of a session go through `chain`. A send is two steps: `Send` puts the message on the
wire and awaits it (`flying`), `SendResolves` remembers its id and lets the chain go
on; `SendFails` may come instead of either, with a connection or without one. `acked`
keeps the order in which sends resolved, and an `Echo` may come at any time after the
message is on the wire. Time is counted in units of `SEND_MIN_GAP_MS`.

**The web app.** Every handler of a page is one action. A call is an element of the
page's `...net` variable: it is sent, takes effect (`...Lands`) and is answered
(`...Answered`) in three steps, so that edits and other calls come in between; or it
fails before or after it took effect. The `...row` variables are as much of the server
as the page can see. The stored flows of the builder come back in the order of their
keys (`KeyOrders`), which is what jsonb keeps of an object, while the answer to the
save has the order that was sent. The opened row of a conversation keeps the lead its
detail had when it was fetched (`DetailReads`); meanwhile `CustomerWrites` is a
message of the customer, with the bot's turn it sets off and the lead that turn may
create. `Frontend` is one visit: the app is opened at a route, `GET /api/me` is
answered, and behind the gates one machine of that page runs. The machines of a page
share no state, and another route mounts its page anew, so one machine per behaviour
loses nothing that the properties relate. `SaveForm` says what a save button promises;
the settings, the details card, the test numbers and the builder implement it under
the mappings `Settings`, `Details`, `Numbers` and `Builder`.

Definitions whose comment begins with "Fault" are plausible mistakes in the
definition that follows them. No action uses them; `PROJECT.json` pairs each with
the property that notices it when it takes the place of the original.

## 3. What the runs check

Passing runs (TLC finishes without an error):

| run | instance | shows |
|---|---|---|
| `turns_concurrent` | 2 chats, 2 overlapping turns, 4 leads, 5 messages, one crash, one deletion | `LeadPointerSound`: a saved lead id names a row of that chat and that flow, exactly while a questionnaire runs. `AnswersMatchStep`: a saved questionnaire holds the answers to the questions before its step. `CompletionIsFull`: a lead is completed only with an answer to every question of its flow |
| `turns_serial` | 1 chat, 5 messages, 1 turn at a time, 3 leads, every dashboard operation, three bots the owner saves over one another, a crash, no sweep (3.3 million states) | `TypeOK`; `FreshStartAfterClose`: after a closed chat or a stale handoff the engine starts from the greeting; `CompletedLeadKeepsAnswers`: no later message, bot edit, status change or crash takes an answer from a completed lead, unless a turn was torn between the commit that completed it and `set_state` |
| `settle` | 1 chat, 4 messages, both sweeps, one crash, fairness (476,000 states) | `LeadsSettle`: no lead stays in progress for ever; `HandoffsSettle`: no chat stays with a human for ever. While nothing has crashed, `HandoffHasLead`: a waiting chat has the lead of its request |
| `booking_serial` | 2 bookings, 2 services of 1 or 2 hours, requests one after another, changed hours and notice, Google connected or not (1.6 million states) | `NoOverlap`, `GapKept`: live bookings do not overlap and keep the break; `NoOrphanEvent`: every event is named on its booking's row; `CalendarFollows`: between requests, with an account connected and until the owner changes connection or settings, the calendar shows the live bookings, at their times, and no other |
| `booking_concurrent` | 2 overlapping requests, one failure anywhere, with Google or without, cancelled bookings moved or revived, services edited (1.7 million states) | `TypeOK`; `EventPointerSound`: the event id on a row belongs to that booking; `TouchOnce`: a customer gets one message of a kind for a booking |
| `gateway` | 1 business, 2 numbers of which one is held by another business, 2 scans, one fault, one dropped connection, deletion, fairness (434,000 states) | `TypeOK`; `NoOrphanSocket`; `ReportsOwnNumber`: a connected session reports the number of its own link; `SessionsComeBack`: a listed business gets back to a QR code or a connection |
| `delivery` | 2 handlers, 6 kinds of message (one in the self-chat), an owner's message, one fault, a set of 2 ids, one own message that is taken for a customer's, fairness (724,000 states) | `TypeOK`; `PacedInOrder`; `SameFileForCopies`; `RefusedStaysOut`; `NoEchoLoop`: a message whose send has resolved is recognised when it comes back, until 2 others have resolved after it; `HandlersFinish`: every handler ends |
| `frontend` | one visit to any page: 2 flows of 2 steps, 3 images, 2 services, chats, leads, bookings and cards, 2 to 4 edits and calls (1.4 million states) | `BuilderKeepsItsWord`, `FormsKeepTheirWord`: the forms implement `SaveForm`; `PromptIsForActiveTab`; `ServicesSettle`, `GallerySettles`, `ConversationsFollow`, `ListsFollow`, `BackofficeFollows`: once the calls are answered the page shows what the server keeps; `TimeBelongsToChoice`, `CustomerIsTold`: the customer books what is on screen, once, and is told; `BubbleStays`, `OutcomeRecorded`, `InStep`: replies, outcomes and test chats are not lost to late answers |

Runs in which the code does not keep what a comment promises (TLC finds the
behaviour; `PROJECT.json`, `findings`, quotes the lines):

| run | what happens |
|---|---|
| `takeover_race` | the owner takes a chat over while the turn that completes its lead is running; the turn closes the chat under the owner |
| `double_booking` | two customers validate the same slot before either inserts; both are booked |
| `number_conflict` | the probe for a number held by another business runs on `connected` reports only; the refused session's next report carries the number and is stored |
| `publish_lost` | the owner of a published bot flips the switch and saves; the publish call fails and the switch is rolled back, then the save lands with the value it was sent with: the page shows a published bot, and it is off the air |

The list properties of `frontend` leave out, by a flag the model sets (`raced`,
`over`, `lost`, `half`, `stray`, `failed`), exactly the overlaps for which the pages
do not keep up: two reloads of the services at once, a second gallery or card change
before the first has ended, a refresh or a fetch after a change that nothing cancels,
the refetch after a 409, an answer that is lost after its call took effect, a move of
photos that failed after some of its rows were written, and the late design of the
public page that mounts the flow anew with a booking on its way. Each of them can
leave stale data on screen; the next load puts it right. Without the flag TLC finds
that behaviour.

Disagreements met on the way that have no run of their own; the models contain the
behaviour:

- *A torn turn.* A lead is completed in Postgres and the engine state is saved to Redis
  afterwards (`bot_runtime.py:301`). When the turn crashes between the two, the
  customer's next message is taken for an answer to a flow that is over, and the
  answers of the saved state, one short, replace those of the completed lead, though
  `leads/crud.py:122-123` says a completed lead is fully captured and
  `bot_runtime.py:330-331` that its row stays for the owner to review.
  `CompletedLeadKeepsAnswers` exempts this crash (`used.torn`); without the exemption
  TLC finds the trace.
- *A QR code over a live link.* `_json` (`internalApi.js:38`) turns a 200 whose body is
  cut, late or unreadable into `null`, `loadCreds` into "no creds yet", and the session
  starts fresh (`LoadGarbled`), though `internalApi.js:63-65` says "we do NOT want to
  silently start a session with empty creds" and `dbAuthState.js:39-40` that a hard
  load failure throws.
- *An echo before the send has resolved.* `sendText` remembers the id after the awaited
  `sendMessage` (`session.js:192-193`). A reply in the self-chat that is emitted again
  in between is handled as a new message of the owner, though `session.js:103` and
  `:187` call the set the loop guard.
- *Half a move.* `moveTo` sends one PATCH per image; when a later one fails it shows
  the list it closed over (`GalleryManager.tsx:156`: "put the grid back to what the
  server still believes"), while the rows already written stay changed.
- *A lead after the row was opened.* `confirmOutcome` takes the lead of the detail
  fetched when the row was opened (`ConversationCard.tsx:142`). When the bot creates
  one afterwards, the conversation is closed and that lead stays open, though
  `:133-136` says the lead is set first whenever one is attached.
- *The order of the flows.* `lead_steps` is a `jsonb` column, which keeps keys in an
  order of its own (`bot_settings.py:104`). After the first flow is deleted and a new
  one has taken its key, the page shows the new flow last, the stored object and the
  bot's menu have it first, though `bot_engine.py:434-436` calls it "the stable order
  the owner built".
- *Two closing notices.* The sweep lock's 60 seconds expire during a pass and a second
  worker, whose listing was read before the close, sends the same message, though
  `stale_handoff_sweep.py:21-23` says a race cannot double-send.
- *A booking that is confirmed and does not exist.* `bump_safe` (`usage.py:86`) swallows
  the error of a statement that has aborted the transaction; the booking rolls back
  and the customer gets a 201, though `usage.py:75` says a counter failure never breaks
  the request.
- *A move on the board clears the reminder.* `adminClient.ts:185-186` says that omitting
  the date leaves it untouched, `models/admin.py:333-334` that it clears it. The server
  decides.
- *Handoff of a deleted lead.* `bot_runtime.py:246` sets the chat to `waiting` inside
  the transaction and before the inserts. When the lead the chat points to was
  deleted, the event's foreign key rolls the transaction back and the chat waits
  without a lead, though `bot_runtime.py:249` says a handoff always yields one.
  `HandoffHasLead` therefore holds without deletions only.
- *Abandoning an active customer.* `leads/crud.py:167-169` says every inbound message
  restarts the clock; only the silent path and answered steps do. A customer who
  moved on to the menu has the old lead abandoned, and the chat closed, while
  writing.
- *Handing a chat back.* `dashboard.py:505` sets the status to `bot` and leaves the
  engine in phase `handed_off`, which answers everything but the keywords with the
  handed-off note.
- *Moving a longer booking.* A move is validated with the service's present
  duration and keeps the booking's own (`booking/crud.py:307`). After a service was
  shortened, `NoOverlap` fails with one request at a time.
- *Reviving a booking.* A cancelled booking can be confirmed again
  (`booking/crud.py:374`) after its time was given away.
- *The pad around midnight.* `slots.py:166` reads bookings that start within six hours
  of the day, less than the longest appointment and break together; with night
  hours `GapKept` fails.
- *A booking collides with itself.* `booking/crud.py:412-413` says the moving booking
  is left out; `compute_slots`, which decides, counts it.
- *Cancelling during creation.* A cancellation whose hook runs before the creation's
  hook has stored the event id deletes nothing; the event stays on the calendar.
  `CalendarFollows` holds with one request at a time only.
- *Moving a cancelled booking.* An owner may move one (`booking/crud.py:374`), and the
  hook then puts an event for it on the calendar; `CalendarFollows` is checked without
  it.

**Bounds.** Two chats, two turns and two requests are what a race needs: every action
touches one chat, one booking and at most one other row. Five messages are a whole
questionnaire of two questions (four with the greeting) and one more to race with it
or to follow it. In `turns_serial` one of the bots has a single question, so that two
messages follow a completion: they greet and pick again in the closed chat or, when
the turn that completed it died before it closed the chat, pick a flow and answer its
question. One failure puts a crash at every point once. `Lead` and `Event`
hold as many rows as the messages or requests of the run can create, so that running
out of these ids cuts no behaviour off. `Appt` holds two: the booking properties
relate pairs, and a third booking is not attempted once both ids are used. `Hour = 1`
makes "more than an hour" two ticks. Booking instances count in hours: a day of 24,
the code's pad of 6, services of 1 or 2 hours and a break of 1, at the times where
slots of different length meet. The clock moves once at most there; a notice of nine
hours is what makes the present matter. The gateway needs one business for its own
life cycle, with a number held elsewhere for the conflict, and two only for
`number_conflict`, which handles one report at a time so that the probe's own race
does not matter. Two message handlers are what a copy and its original, or a photo and
the text behind it, need; with two replies each and an owner's message there are more
sends than the set of ids holds, and one own message that is taken for a customer's
(`MaxEchoes`) is what `NoEchoLoop` speaks of. One poll of the chat is on its way at a time
(`MaxPolls`): polls do not act on each other, only on a reply. The page
treats the two outcomes of a conversation alike; the run has one (`Outcomes`). On the pages two or
three edits or calls are enough for one call to be overtaken by another and by an
edit; every list has a row that matches the filter and one that does not.

**Fairness** (`FairSpec`). Weak fairness for the steps of a turn (the server runs it),
for the steps of each sweep and the closing of abandoned chats (loops that wake up
every few minutes and survive their exceptions), for the lock's expiry (a TTL) and for
time. In `Gateway`: timers fire, the manager polls, saves and reports that are on
their way arrive, and WhatsApp answers a socket; faults and drops are bounded and not
fair. In `Delivery`: awaited calls return, the session reconnects, time passes. No
liveness is claimed of the pages. Nothing is assumed of customers and owners: a chat
that is never answered is settled by the sweeps alone. Crashes are bounded, since a
process that dies at every step settles nothing.

## 4. What is proved

The proofs hold for every value of the constants that satisfies the named
`ASSUME`s of the modules (sizes are natural numbers, "none" is not an id, the bots
are well-formed configurations, opening hours lie within a day, no message handler is
called "owner", the bounds of the chat panel are natural numbers, the images of a
gallery have ids in the order of their upload). None of them needs
the bounds to have a particular value, but for the clock in `ApprovalsQueuedOnce`.

`ConversationProofs`

- `TypeCorrect`: `TypeOK` is invariant. The work is in the engine: `Advance` maps
  states to states for every configuration and message.
- `LeadPointerAlwaysSound`: `LeadPointerSound` is invariant, with any number of
  overlapping turns, crashes, deletions, bot edits and sweeps. It is not inductive:
  `SaveState` copies the lead id a turn carries, and by then the chat, the row and
  the bot may have changed. The inductive `PointerInv` adds `TurnSound`: a turn that
  has loaded the state holds a lead id that fits the state it loaded and, after the
  transaction, the state it will save. It is stable because a row keeps its chat
  and its flow for good, even as a deleted one.

`LeadProofs`

- `AnswersAlwaysMatchStep`, `CompletionAlwaysFull`: `AnswersMatchStep` and the action
  property `CompletionIsFull` for any overlap of turns, crashes and deletions, while the
  bot is not edited (`Unedited`; after an edit the answers in Redis are those of the old
  questions). `AnswersInv` adds to `PointerInv` that the state a turn is about to save
  has matching answers, and that a turn about to complete a lead holds every key of the
  flow of that row. Two turns that race may repeat a question, but each carries a state
  that is consistent in itself and `set_state` writes it whole.
- `SerialFreshStart`: `FreshStartAfterClose` while no two turns of one chat overlap
  (`OneTurnPerChat`, a state predicate; other chats, the sweeps and the owner
  interleave freely). The invariant says that between the reset and the load nobody
  else writes an engine state into the chat. With overlapping turns it is false.
- `HandoffAlwaysHasLead`: `HandoffHasLead` for any overlap of turns and sweeps, when the
  owner deletes no lead and sets no status by hand (`HandsOff`; section 3 has the
  behaviour with a deletion). The invariant (`OwnLeads`) is that a turn which will
  write the request holds a live lead of its own chat.
- `SerialLeadsKeepAnswers`: `CompletedLeadKeepsAnswers` under `Unedited` and
  `OneTurnPerChat`, with turns that crash anywhere but where they are torn:
  section 3 (*A torn turn*) shows that the exception is needed. `KeepInv` adds that a chat points to
  a completed lead only while the turn that completed it has not saved, and that no
  turn which still asks questions holds a completed lead.

`BookingProofs`

- `TypeCorrect`: `TypeOK` is invariant.
- `EventPointerAlwaysSound`: `EventPointerSound` is invariant under every
  interleaving and failure. `HookHoldsOwn` strengthens it: a hook between its read
  and its write holds an id of its own booking. Creating an event keeps it because
  the new id was nobody's.
- `SerialBookingsDisjoint`: `Serial /\ Spec => []NoOverlap`, where `Serial` says that
  requests do not overlap, services are not edited and cancelled bookings are not
  revived. Each of the three conditions is necessary (section 3). The invariant
  `SpacedInv(0)` adds that a booking has its service's duration and ends on the day
  it starts, and that a request between its check and its write still has its slot
  free. The arithmetic is in `OfferedDisjoint`: what `_bookings_on_local_day` does not
  read ends before the day begins or starts after it is over.
- `SerialGapKept`: the same for the break, `SpacedInv(Buffer)`, when all settings have
  one buffer (`OneBuffer`) and the pad is at least a duration plus the buffer
  (`PadCovers`). The code's six hours do not guarantee `PadCovers` for the durations
  and buffers it accepts.

`CalendarProofs`

- `ApprovalsQueuedOnce`: `TouchOnce` for any number of racing requests and failures,
  as long as the clock does not outlive a marker (`MaxTime < MarkerTTL`: the marker's
  TTL is what the code relies on). `TouchInv` says that whoever is queued or about to
  push has its marker, and that no two requests stand before the push for one booking,
  because the marker is taken in one round trip (`SET NX`).
- `SerialNoOrphanEvent`, `SerialCalendarFollows`: `NoOrphanEvent` and `CalendarFollows`
  while no call has failed and no two requests about *one* booking overlap
  (`OneRequestPerBooking`); requests about different bookings may. Both properties speak
  of the states between requests only; the invariant says what holds inside one:
  for each booking and each point of the hook, which event exists, whether the row
  names it already, and which call is still to come (`Named`, `Followed`). Moving a
  cancelled booking is left out, as in the run.

`GatewayProofs`

- `TypeCorrect`: `TypeOK` is invariant.
- `NoSocketIsOrphaned`, `OwnNumberIsReported`: `NoOrphanSocket` and `ReportsOwnNumber`
  for any number of businesses, numbers, scans and faults. The inductive `IInv` adds
  what the code nowhere checks: a session that awaits something inside `start()` or
  has its reconnect timer set has no live socket, and is in only one of the two; a
  save is due only for a blob that was loaded; an open socket runs on the link whose
  number was captured; and the manager stops a session only for a business that is
  deleted, for good, so that a `start()` that was overtaken by `stop()` meets no
  second session.

`DeliveryProofs`

- `TypeCorrect`: `TypeOK` is invariant.
- `RepliesPacedInOrder`: `PacedInOrder`. A handler has one reply in the chain at a
  time, it is the one it waits for (`QueueInv`), and what is on the wire came before it
  (`WireInv`), also when sends fail or the session is down.
- `CopiesShareTheirFile`, `RefusedNeverReachesBot`: `SameFileForCopies` and
  `RefusedStaysOut`. `FileInv` follows a file from the checks to the webhook: at each
  `await` of `handleInbound` the checks before it have been passed, and what is
  forwarded is the file stored under that message, which no later insert replaces.
- `EchoesRecognised`: `NoEchoLoop`. The ids that are remembered are exactly those of
  the last `SENT_ID_CAP` messages whose send resolved (`SentInv`), for any cap. Before
  a send has resolved its id is not remembered (section 3).

`FormProofs` (refinement)

- `FormsAlwaysKeepTheirWord`, `BuilderAlwaysKeepsItsWord`: `Frontend` implements
  `SaveForm` for each of the four forms, for any rows, bounds and order of edits and
  answers. The invariant of each form says that no call is on its way while the form
  says "saved", and that an answered save still carries what the row has: for the
  details card up to the logo, for the builder up to the published flag, which other
  calls write. For the builder the form's value is what the flows are, without their
  order (`Content`): the order is not kept (section 3).
- `PromptAlwaysForActiveTab`: the delete prompt is about the active tab, whatever
  replaces the flows.

`PageProofs` (each of the pages within `Frontend`, for any rows, filters and bounds)

Every page has an invariant of the same build: the shape of the page, the row and the
calls; what each call in flight says about page and row *now*, depending on whether it
has taken effect; and what holds when no call is about a row. The flags of section 3
are hypotheses of its last part.

- `BubbleAlwaysStays`, `OutcomeAlwaysRecorded`: the chat panel and the outcome dialog.
  One reply is under way at a time, `sending` says so, and while `pending` is set no
  poll replaces the list; a close is sent only when the lead the row has fetched has
  its outcome. A lead the bot created after that is not covered (section 3).
- `ConversationsAlwaysFollow`, `ListsAlwaysFollow`, `ServicesAlwaysSettle`: a list is
  fetched by one call at a time, for the tab or filter on screen, and the fetch
  carries the server's rows; on the services tab a change may land after it, and then
  has a reload of its own to come. A conversation's row differs from the server's only
  while the call that explains the difference is unanswered.
- `TimeAlwaysBelongsToChoice`, `CustomerAlwaysTold`: a list of slots that may still be
  shown is for the choice on screen, since another choice cancels it; one `create` at
  most is on its way, and only while `submitting` is set.
- `TrialAlwaysInStep`: one turn at most is on its way, and it continues the held state.
- `BackofficeAlwaysFollows`: `BoardInv` says of every card which call is about it: a
  card that is being moved shows the target with the row's reminder, and the call
  remembers the row's stage, so that a refusal restores it; a save shows nothing until
  it is answered. The open panel has one call about notes at a time. `BusinessInv`
  does the same for the two panels and the deletion of a business.
- `GalleryAlwaysSettles`: `GalleryInv` says, for the one change under way, which list
  shows the server's rows now: the list of the click, extended by the files that were
  answered, with the caption replaced or the tile taken out; during a move the rows
  are those of the grid but for the numbers that are still to be written. Below it are
  facts about lists: a gallery has exactly one list in display order (`OrderExists`,
  `OneOrder`), so a list that shows the rows is what `list_images` returns; and a move
  in a grid that is in order always has a number to write (`MoveWrites`), so that
  `moveTo` never changes such a grid without a call. A move whose first row fails is
  covered, one that fails after some of its rows were written is not (section 3).

That a gallery can be put in order is an induction over its size. It is proved through
the least counterexample (`LeastNumber`, from the library's `WFMin`), since the
induction rules themselves take an operator as a parameter.

Only model-checked: liveness (`LeadsSettle`, `HandoffsSettle`, `SessionsComeBack`,
`HandlersFinish`), which needs fairness and `ENABLED`, and TLAPS does not handle them
here. The definitions the proofs use say without a filter what the code does with one:
`Without` (the rolled-back bubble is one element of the list), `WithoutTile` (the tile
of a deleted image is one element of the grid), `Changed` (the rows to write are a set,
taken in the order of their numbers) and `InStep` (the positions of the bot's bubbles).

## 5. What is not modelled

- The text of messages, formatting, translations, logging, e-mail, the look of pages.
- The webhook's authentication and gates: they end before `run_turn` and only decide
  whether it is called. The demo tenant, which the sweeps skip.
- Reads without a follow-up: search, export, statistics, file download; the dashboard's
  home and the operator's reports; landing, legal and accessibility pages.
- The language model behind the assistant: it is the set `Proposals` of valid answers.
- The WhatsApp page (it polls the QR code and shows it), the settings page with the
  deletion of the account, log-in and log-out, the unread badge.
- Row level security: configuration of Postgres. Every model is one tenant's, but for
  `Gateway`, whose numbers are shared.
- Google and WhatsApp themselves: external, present as the effect of the calls.
- Local time zones: `Booking` counts in UTC, so days of 23 or 25 hours do not occur.
- In `conversation_state` the index set, the limit of the transcript and the lifetimes
  of the keys; the reminder sweep; the rate limiter; files on disk.
- A call of a page that takes effect after the page has given it up: a failed call has
  taken effect or never will. With a later effect no form could keep its word.
- Of an opened conversation: opening its row again, which fetches the detail anew; the
  hour after which a message starts a handed-off chat over.

## 6. What could come next

1. The keys of `conversation_state`: `list_conversations` against a message that
registers the chat again, `mark_read` against a new message, the 72 hour expiry that
`set_state` puts on a waiting chat.
2. The reminder sweep on top of `Booking`: a reminder at most once, and for the time
   that is booked. The rate limiter's counter and expiry in two calls.
3. Proofs: `FreshStartAfterClose` with overlapping turns under the weaker hypothesis
   that none of them has loaded before the chat was closed.
