# VoxBento: TLA+ models and proofs

VoxBento lets remote interpreters work in virtual booths: the *portal* (FastAPI,
`src/portal`) keeps each booth's live state and speaks with the interpreters'
browsers over WebSockets, MediaMTX carries the audio (WHIP in, WHEP and RTSP
out), transcription workers pull a booth's audio through ffmpeg into a
speech-to-text provider, and captions are translated, spoken and broadcast to
listeners. This directory holds models of the parts of it that are stateful
and concurrent, the TLC runs that check them, and TLAPS proofs.

Everything the portal does to live state happens in one process, on one asyncio
event loop. Code between two `await`s that suspend is atomic; what can
interleave is everything else: WebSocket handlers of several sockets, HTTP
requests, background tasks, callbacks from MediaMTX, cancellations. That is the
grain of every model here.

## 1. Inventory

Component, the state it keeps, what interacts with it, what is hard about it,
and what makes it correct.

| Component | State | Operations and callers | Hard behaviour | Correctness |
| --- | --- | --- | --- | --- |
| **Booth registry** `portal/booth_state.py` | per booth: participants with flags, active interpreter, handoff state/initiator/target, `broadcast_unlocked`, `ingest_status`, chat | join, leave, set active, initiate/accept/cancel handoff, update state, set broadcast unlocked, remove; from WebSocket handlers, REST, transcription | calls of several people in any order; departures in the middle of a handoff; re-joins; late messages after a Stop | at most one voice; the slot is never abandoned; handoffs never refer to somebody who lost or left; consent |
| **Roles** `portal/roles.py` | none (tables) | permission checks everywhere | rank and permission set must agree with use | a role may do what its set says |
| **Booth WebSocket sessions** `websockets/handlers.py`, `manager.py` | sessions: participant identifier, granted role, revoked flag; connections per booth | connect, `booth:*` messages, revocation, disconnection | a session is revoked while it is joined; identifiers outlive deleted booths; close and clean-up are separate steps | nobody speaks for a participant without a live session; whoever goes, leaves the booth |
| **State delivery** to members and listeners, `manager.py` | members per booth, listeners per booth, last state sent to listeners | broadcast, listener subscribe/notify | snapshots taken before awaits, sent after them | no listener is left with an older state |
| **Revocation and reaper** `websockets/revocation.py`, `reaper.py`, `manager.py` | revocation epochs, membership caches with TTL | push on membership change, pull on broadcast, periodic sweep | a database read started before a revocation ends after it; a socket connects while it is swept | a revoked member stops receiving within the bound |
| **Publish tickets** `portal/booth_publish.py` | ordered store of tickets | issue (WebSocket), redeem (MediaMTX auth callback) | the booth changes while the ticket waits; store at its limit; double presentation | single use, in time, for the present holder only |
| **Transcription workers** `transcription/worker.py`, `process.py` | registry of sessions, their state, asyncio task, ffmpeg process, model references | start, stop; from the REST API, Stop, booth deletion | start/stop/start overlap during a slow teardown; cancellation at any await; crash of ffmpeg or provider | one stream per booth, no orphan, capacity, references balanced, stop returns |
| **Caption aggregator** `transcription/aggregator.py` | current utterance, segment identifier, text, silence | partials, finals and chunks of providers | forced finals, duplicates, cancelled tails | nothing understood is lost, segments are distinct |
| **Speech-to-text providers** `transcription/providers/` | a chunk queue of two, consecutive drops and errors | streams | a slow provider, an end mark that meets a full queue | captions of fresh audio; a stream that ends returns |
| **Translation worker** `translations/worker.py` | per-language queue depth, two inference slots | one call per final caption | slow LLM, out-of-order completion, every step may fail | bounded depth, counters balanced |
| **Text-to-speech** `tts/worker.py` | cache of voice settings | synthesize, send | voices that never come | what is stored is played |
| **Webhook delivery** `webhooks/worker.py` | deliveries, attempts, circuit per subscription (database) | enqueue, deliver, retry | a batch that rolls back after its posts; a subscription that changes under the worker | posted again only when the answer or the transaction was lost; every delivery settles |
| **Email outbox** `notifications.py` | rows with status, attempts, lease (database) | queue, claim, send, record | crash while sending, lease expiry, a link spent while its mail waits | sent again only after a loss; every message ends |
| **Program ingest** `program_ingest.py` | credentials, reservations, relay mode per room | authorise, enable, rotate, revoke, disable, browser senders, reconcile with MediaMTX | reservation and MediaMTX disagree after failures and restarts | one owner of a floor, bounded number of floors, outsiders go |
| **Program relay** `program_relay.py`, `src/program-relay/relay.py` | desired and actual destinations, supervised FFmpegs | reconcile pass, relay requests, supervisor threads | requests that outlast their time-out, crash/restart of either side | no FFmpeg but the wanted ones; the relay converges on the desired state |
| **Meeting source, floor bot** `meeting_source.py`, `floor-bot/bot.py` | wanted, health and restarts per room; one process per room | connect, leave, recovery loop, takeover | a loop that acts on snapshots older than the lock | the two sources exclude each other; a wanted bot settles |
| **Rate limiters** `rate_limit.py`, `join_code_limit.py` | windows per key, a bounded table of addresses | check and count, sweep | windows of unequal length, table at its limit | no second allowance, no lock-out without cause |
| **Accounts, tokens, OAuth** `user_admin.py`, `routers/auth.py`, `routers/oauth.py`, `routers/developer.py` | accounts, hosting invitations and requests, apps, consent, codes, token families (database) | requests that read, decide and commit later | two requests that each checked before either wrote | a code is exchanged once, an invitation grants once, reuse ends a family |
| **Events, rooms, teams** `routers/admin.py`, `routers/api_v1.py`, `room_setup.py`, `team.py` | rows that refer to each other (database) | management pages, OAuth API, setup form | deletion under requests that read before it; several pages that write the same columns | nothing refers to what is gone; a save does what it showed |
| **HTTP routers and pages; browser clients** | the listener page's segment store | request handling, user interface | segments arrive in any order or never | the listener hears them in order |

How they meet: a WebSocket message runs a handler of `manager.py`, which calls
one registry method under the registry's lock and then broadcasts the state; an
accepted `booth:request-publish-ticket` puts a ticket in the ticket store, which
MediaMTX redeems through an HTTP callback that looks at the registry again; a
Stop locks the broadcast in the registry and then stops the booth's worker; a
worker broadcasts captions through the same manager, and on overload writes the
booth's `ingest_status`; deletion endpoints stop the worker and remove the booth
while its sockets stay open. A request that takes a role away sweeps the open
sockets, whose later broadcasts re-read it, and a reaper re-reads what is left.
MediaMTX asks the same callback about a room's floor, whose owner is either
program ingest or the meeting bot; three loops (ingest, relay, meeting) bring
MediaMTX, the relay service and the bot service to what the rooms' rows say.
Everything else meets in the database, where a request reads, decides and
commits later.

The hazards, each with its source line and the properties aimed at it, are in
`PROJECT.json`.

## 2. Modules

```
the booth                 OnAir                     what a booth promises (abstract)
                            ^ refined by
                          BoothRegistry             <- BoothProofs             uses Roles
                            ^ extended by
                            BoothConsent            <- BoothProofs             MCSocketRevocation
                            BoothSessions           <- BoothProofs             MCBoothLeaving
                              ^ beside ListenerStatus
                              BoothSockets          <- BoothProofs             MCBoothSockets
                            PublishTickets          <- PublishingProofs        MCPublishing
                          SocketRevocation          <- SocketRevocationProofs  MCSocketRevocation
speech                    TranscriptionWorkers      <- SpeechProofs            MCSpeech
                          CaptionStream             <- SpeechProofs            MCSpeech
                          TranslatedSpeech          <- SpeechProofs            MCSpeech
the floor                 FloorPublish              <- FloorProofs             MCPublishing, MCFloor
                          MeetingAgent              <- FloorProofs             MCFloor
                          RelayService              <- PublishingProofs        MCPublishing, MCRelayService
deliveries                WebhookDelivery           <- DeliveriesProofs        MCDeliveries
                          EmailOutbox               <- DeliveriesProofs        MCDeliveries
rows                      EventRows, RoomSetup      <- TenancyProofs           MCTenancy
access                    HostingAccess, OAuthGrants,
                          EventTeam, RequestLimits  <- AccessProofs            MCAccess
```

Modules that share no state are checked in one run by an MC module that extends
them and lets a behaviour choose, in `which`, the one it runs; the others stay
at one initial state. Their composition would only interleave independent steps.

### OnAir
The abstract specification: members who may hold the microphone, the one who
holds it, the ones on the air. It knows nothing of offers, requests, roles or
sockets. `OneVoice` is its promise.

### BoothRegistry
One booth of `BoothRegistry` (the class). `role[p]` is the role of a present
participant and `NoRole` for an absent one, so the keys of `booth.participants`
are `participants`; `before` holds the pairs of participants in the dict's
insertion order, on which `_pick_next_interpreter` depends. `active`, `handoff`
and `initiator` are `active_interpreter_id`, `handoff_state` and
`handoff_initiator_id`; `micActive` and `ingestConnected` are the sets of
participants with those flags, `ingestStatus` and `unlocked` the booth's own
fields, and `exists` says whether the booth is in `_booths`. One action per
method, with the early returns and errors as guards: a call that raises changes
nothing, or only creates the booth (`Touch`). Every method runs under the
registry's lock and awaits nothing while it holds it, so a method is one action.

`ReportOverload` is the assignment transcription makes from outside the
registry (`broadcast_transcription`), without the registry's lock.

Left out: chat messages (appended to a list, read by nobody but the display),
display names, languages, timestamps.

### BoothConsent
`BoothRegistry` plus one history variable, `caller`: the participant on whose behalf
the last call was made. It lets the two consent properties speak of the caller.

### BoothSessions
Any number of sockets in front of the registry: `conn`, `pid`
(`session.participant_id`), `granted` (`session.granted_role`), `revoked`. One
action per `booth:*` handler, one for each thing that ends a socket: `Revoke`
(the session loses its role at once), `CloseRevoked` (the close comes later),
`Drop` (the peer goes), `Finally` (the finally clause, later again, in which the
participant leaves). Revocation is allowed at any moment to any socket: how
authorization is decided is the matter of `SocketRevocation`. A handler does not suspend between
the revocation check and the end of its registry call (the registry's lock is
uncontended at those points because no holder of it awaits anything), so it is
one action.
`seat` is a history variable: the socket whose `booth:join` made the record.
A client may send `booth:join` again on a socket: nothing in the handler forbids it,
though the portal's own page (`interpreter-booth.js`) joins when a socket opens.

### PublishTickets
The ticket store over the whole registry: `RequestTicket` is the guard chain of
`_handle_request_publish_ticket`, `Present` is `authorize_booth_publish` (the
ticket is taken out *before* anything is checked), `Prune` the loop of `_prune`.
The store is shared by all booths, so tickets of "elsewhere" are issued and
presented too. A ticket carries the time it has left; `Tick` is
`time.monotonic()`. MediaMTX is external: `feed` is the publisher it last let in
on the booth's path. `issued`, `age`, `presented`, `honoured` are history.

### ListenerStatus
`Change` is any handler: a registry call whose result goes to
`broadcast_booth_state`, which first tells the booth's members (`members`, a stage that may
last) and then takes the booth's lock. The lock is fair (`asyncio.Lock` wakes its
waiters in order) and its entry lives as long as somebody uses it, so it is the
sequence `queue`; only its head sends. `last` is `_last_state`, `message` and
`targets` what the head is sending and to whom. A listener's socket is in `room`
from `add` on, before it is greeted. `ChangeQuietly` is what changes the status
and tells nobody: `remove_booth`, and a snapshot that creates the booth again.
`version`, `quiet`, `caughtUp` and the `version` and `fallback` fields of
messages are history.

### BoothSockets
`BoothSessions` and `ListenerStatus` beside each other, the two kinds of socket of a
booth. They share no state, and a behaviour runs the one that `which` names.

### TranscriptionWorkers
`workers` is `active_workers`; each session has `state` (its `State`), `loop`
(the await its task is at), `booth`; each request has where it is, the booth it
is about and the session it waits for. `modelRefs` counts references to the
local model. Sections under `active_workers_lock` await nothing, so each is an
action. `task.cancel()` is `Cancelled`: inside ffmpeg's context it leads through
the shielded `__aexit__` (`unwinding`), elsewhere straight to the finally clause
(`cancelled`), and a task that has not had its first step is not cancelled
(`loop_entered`) but sees `STOPPING` when it starts. The finally clause sets
`STOPPED` *before* it awaits the last webhook, so a session may be `STOPPED`
with its task unfinished: `start` may then drop it from the registry and create
another, while a `stop` still waits for the old one.

Left out: the retry counter, the providers (a stream that may end at any time or
never), which model (all sessions use the same), the signals of
`_perform_cleanup` (it ends, by SIGKILL if need be), cancellation of a waiting
request itself (a hazard listed as open).

### SocketRevocation
One booth, one account that is a member of it and one invite link. A handshake
(`ws_booth`) is a step per await: the epochs, the account or the link, the role,
the registration, which compares the epochs again. `request` is the Admin's
request: some routes push their sweep before the commit, some after it, and the
model follows each. A broadcast (`cast`) asks the cache, then the database, and
an answer that was read before a sweep may be stamped after it; the reaper reads
its rows first and closes with them later. `removedAt` is history.

### CaptionStream
One stream: a reader puts chunks into a queue of two and drops the oldest, an
inference takes them, tells the aggregator and pauses after errors; or a
streaming provider does all of it and reconnects. Text is the set of pieces it
renders, so that what is lost or repeated can be seen. `said` and `cut` are
history.

### TranslatedSpeech
One language of one booth: `depth` is the counter of `LANGUAGE_QUEUES`, `job`
what became of each segment, two inference slots, the text, then the voice; and
the listener's page: its store of segments, the one expected, the one being
played and the one timer. Between them bundles arrive in any order.

### FloorPublish
A room's columns (`row`), its reservation's age, its lock and, per MediaMTX
session, where that is. The hook that authorises a publisher, the owner's
requests, browser senders and the reconcile pass hold the room's lock; MediaMTX
moves on by itself: a session that was let in is `allowed` and goes live later.
`PassOver` is the end of a pass, which forgets the health of every room that its
listing did not show, that of a room enabled meanwhile included: such a reservation
loses its age and counts from when its feed is first missed. `Restart` forgets
what is only in the portal's memory. How long the grace is
(`program_ingest_disconnect_grace_secs`, 15 s by default) is a setting; the model
takes it to be longer than a pass and than the 15 s for which a reservation is pending.

### MeetingAgent
The meeting bot of one room: what the owner wants, the health the portal keeps,
the process of the bot service (its launching is part of `joining`), what is on the path.
MediaMTX asks the portal (`LetIn`: the answer depends on who has the floor) and makes the
publisher the path's source when it likes (`GoesLive`: the floor may be the other
one's by then); in between it is `admitted`. Of program ingest there is one session, as any
that is let in comes to the same. The loop acts on a listing, a status and paths that
were read before it took the lock; `NothingNew` is its early return, which leaves the worker
as it is. Every call to the bot service may fail before or after it was done (`faults`
bounds them). `late` is history: the publishers that were let in and have lost the floor since.

### RelayService
The rooms' destinations, the portal's reconcile pass and the relay service:
`relays` is `RelayManager.relays`, `relay` the objects with their supervisor
threads, `hand` the requests being handled, which go on after the portal gave
them up. Restarts of both sides are `breaks`.

### WebhookDelivery
The rows and the one transaction in which the worker claims, posts and settles a
batch: `work`, `seen`, `wrote` and `held` are what that transaction has that
nobody else can see, and all of it may be rolled back, the posts not.

### EmailOutbox
A message's row, the worker's step at it, and clocks as flags: due, leased,
expired, beyond retention. A crash loses the step, not the row.

### EventRows, RoomSetup, HostingAccess, OAuthGrants, EventTeam
Requests over the database, each in two steps: it reads and decides, and later
writes and commits in one transaction in which the database enforces what it
enforces (foreign keys and their cascades, unique indexes, conditional updates).
SQLite takes no lock for the reads. Two pages read twice, and a commit of another
request may come between: a save of the room setup takes what is live from one listing
(`SaveSetup`) and drops by a second one (`ApplyPlan`); the Team page finds an assignment
(`AddMember`), counts the owners (`EnsureAnotherOwner`) and looks it up again, and if it
is gone inserts it (`LookAgain`). `EventRows` has the events, rooms and booths
of the management pages and both APIs, with the row lock that the OAuth API
takes; `RoomSetup` the columns that the room setup page shows, reads back and
applies, and the other pages that write them one at a time; `HostingAccess` the
accounts with their three flags (host, admin, verified), hosting invitations and requests; `OAuthGrants` apps, consent, codes
and token families; `EventTeam` the roles for a whole event.

### RequestLimits
The sliding windows of `rate_limit.py`, swept on a timer of its own, and the
table of failed join codes, purged from its front and bounded. A key's list of
stamps is the set of them, each with its time and its number: the code appends the
present time and filters by age, so the list's order is that of the numbers. The
table is a sequence, since the code purges it from its oldest end.

### "slip" operators
Next to some definitions stands another one with `slip:` in its comment: the
definition with a plausible mistake in it. They are used by no action.
`PROJECT.json` pairs each property with the slip that breaks it, which shows the
property notices that mistake.

## 3. What TLC checks

| Run | Question | Bounds | Distinct states |
| --- | --- | --- | --- |
| `sessions` | no voice without a session; order and agreement of status updates | 2 sockets, 2 participants, 2 roles, repeated joins; 2 listeners, 2 overlapping updates, 2 statuses, 3 changes; symmetry | 524 546 |
| `leaving` | liveness: whoever is revoked or gone leaves | 2 sockets, 2 participants, 1 role | 65 781 |
| `speech` | streams, orphans, places, references; nothing understood is lost; order of what is heard; liveness of all three | 2 booths, 3 sessions, 2 requests, 1 place; 5 pieces; 3 segments (2 on a page without voices), queue of 2, store of 2 | 222 742 |
| `deliveries` | what is sent twice, what is lost, what never ends | 2 subscriptions, 1 allowed, 2 URLs, 2 deliveries, 2 attempts, 1 rollback; 2 messages, 2 attempts, 1 loss | 234 666 |
| `revocation` | who still hears after a removal; liveness: the outdated go; the registry's invariants, consent, refinement of `OnAir` | 2 sockets and 1 request, or 1 socket and 2 requests; TTL 1; 3 participants, 2 roles | 526 218 |
| `tenancy` | rows that refer to each other; what the setup page shows | 2 requests, 2 events, 2 rooms, 2 booths, 1 language; setup of 2 languages; symmetry | 624 705 |
| `publishing` | tickets; one floor; two floors for one place; two relays for one place | a ticket's time 1, store of 2, 3 tickets; 2 sessions, 1 portal restart; 2 relay objects, 2 requests | 536 379 |
| `floor` | liveness: the floor's publisher, the meeting bot | 1 room, 1 session, 2 meetings, 1 restart, 2 faults | 104 634 |
| `relay` | liveness: what is pushed in the end; nobody outlives a replacement | 1 room, 2 destinations, 2 relay objects, 2 requests, 2 breaks | 183 328 |
| `access` | who is given access, once and as decided; both limiters | 2 handlers, 2 accounts, 3 invitations, 2 requests to host, 6 requests; 2 apps, 2 organisers, 1 code, 4 tokens, 6 calls; 2 requests of the team page, 2 users; 2 keys, 3 addresses, clock to 4 | 534 014 |
| `keeps_live` | expects a violation: a save of the room setup removes a booth that is live | 2 requests, 1 event, 1 room, 2 booths, 2 languages | — |
| `last_admin` | expects a violation: two requests leave no Admin | as `access` | — |

Most checked properties are conjunctions of named parts, each with its own
comment in the module:

* `BoothInv`: `SingleVoice` (only the active interpreter is marked as speaking or
  publishing), `SlotFilled` (the slot is on somebody present, and empty only if
  nobody present could hold it), `HandoffCurrent` (an offer belongs to the holder,
  a request to somebody present who is not the holder, and neither outlives its
  parties), `PublisherReported` (while somebody publishes the booth is not
  reported disconnected, whatever transcription wrote into the status).
* `ImplementsOnAir`: refinement of `OnAir` (holder := active interpreter).
* `ConsentKept`: who may move the slot, and who may end a handoff.
* `VoiceNeedsSession`: nobody goes on the air but at the word of an open session,
  joined as them and not revoked. `GoneMeansLeft`: the participant of a revoked or
  vanished socket leaves.
* `SocketsInv` with `UpdatedListenersAgree`: when every update is through, whoever
  has received one since its greeting shows the registry's status.
  `NeverBackwards`: no listener is told an older status after a newer one, unless
  the booth has left the registry (then the update carries its caller's state).
* `WorkersSafe`: a booth is never pulled by two ffmpegs, no session runs that a
  stop would not find, places bound the ffmpegs, the stopping ones too, every
  session gives its model reference back once. `StopReturns`: a stop ends.
* `StreamInv`: what was understood is in a caption, in the utterance, or was cut by a
  reconnect; no two finals share a segment; chunks are captioned once.
  `CaptionsEnd`: a stream whose audio ends returns.
* `SpeechInv`: counters agree with segments, and the page plays them in order, none
  twice. `StoredIsPlayed`: it never waits for ever.
* `WebhookInv`, `OutboxInv`: a receiver gets again only what was lost on the way back
  or rolled back; what is recorded as taken was taken; failures are counted once;
  an open message keeps its content. `OverIsOver`: a spent link is not mailed, a
  finished message stays so. `DeliveriesEnd`: everything ends.
* `RevocationInv`: no socket of a deactivated account survives its sweep; a
  broadcast that begins later than the cache lives picks no removed member.
  `OutdatedGoes`: the reaper finds what no sweep reached.
* `RowsInv`: booths and relays stay inside their event, a room has one booth per
  language. `DeletedIsOver`: no OAuth request changes a deleted event or brings it
  back. `SetupInv`: the form shows after a save what was chosen (one
  save as one step; what comes between its two listings is for `keeps_live`).
* `TicketsInv`, `TicketsOpenRightly`: the store neither grows nor forgets a usable
  ticket, and a ticket opens the path once, in time, for the present holder.
* `FloorInv`: reservations within the limit, no credential of an owner that is not.
  `FreshFeedKept`: the loop does not cut off who came after its listing.
  `FloorSettles`: outsiders go, dead reservations end.
* `AgentInv`: who is on the floor's path, or let in to it, and is not the floor's owner was
  let in while they were; and the agent's worker goes when the floor does. `AgentSettles`:
  the bot is where it is wanted, or its restarts are spent.
* `RelayInv`: relays within the limit, none outlives its replacement.
  `RelaySettles`: what is wanted is pushed in the end, and nothing else.
* `HostingInv`, `AccessAsDecided`: one open request, one mail per outcome, nothing
  outlives its account, an invitation grants once, only the flag that was asked for
  changes. `OAuthInv`, `GrantsActRightly`: a code is exchanged once, a rotated pair
  is dead, reuse ends the family, only an exchange makes an owner.
  `GivenToRoleless`: somebody without a role gets one only from a request whose last look
  found them without, never from a change of a role that was taken away. `LimitsInv`:
  neither limiter lets more through than it says, nor refuses without reason.

Why the bounds are enough. *Registry*: a handoff has two parties; the third
participant is the bystander who may interrupt, succeed or take over. Of the four roles
it asks only whether they may go live, which all may, and whether they may set the active
interpreter, which three may: one role of each kind (`room_coordinator` and `interpreter`)
does everything the four do, and the proofs are for any table. *Sessions*:
every interaction between sockets goes through one shared identifier or through
the slot, and two sockets can share both; two updates are the fewest that overlap,
and three changes take the status there and back and there again.
*Workers*: one place with two booths makes capacity bind; a request that has
returned is used again, so two requests give a stop that waits while starts and
stops of the same booth come and go; a session that is finished and known to nobody
is used again, so three sessions (registered, waited for, closing) allow any number
of restarts. *Captions*: five pieces overflow a queue of two behind one being
transcribed and leave one for a new utterance. *Translations*: three segments are
two being translated and one that waits; a page that stores two flushes with three;
a page without voices reads whatever is next, so two are enough for it.
*Tickets*: a store of 2 with 3 tickets is full, evicts, and holds a live ticket
behind an expired one. *Requests over rows*: two are the fewest that interfere; each
module has rows enough for a second one to be created, referred to or confused with
the first. *Floors, relays*: two rooms compete for one place; more only wait longer.
*Deliveries*: two attempts are a first and a last; a batch of two is one that fails
and one that is rolled back with it.
Symmetry is used only for safety properties, over sets no constant singles out.

### Fairness
What the event loop, a thread or a timer owes, never what a client, a network or a
vendor does.
`leaving`: `CloseRevoked` and `Finally`: the event loop runs a close it has
scheduled (`close_session`, with its own time-out) and a finally clause that is
due.
`speech`: the first step of a created task, the end of `__aexit__`
(SIGTERM, a time-out, SIGKILL), the delivery of a cancellation, the last webhook
insert of a session, the steps of a request; not that an insert, a spawn or a
stream ends by itself: cancellation must get past those. Of a stream: its two tasks
run, and a call of a provider answers or fails (each has a time-out). Of a page:
it does not stand still for ever while a voice is ending (its player resolves on errors
too) or a timer running, and the socket delivers what was sent; nothing of the worker.
`deliveries`: the workers' loops go on; a transaction is not lost for ever
(`MaxRollbacks`, `MaxLosses`); SMTP and receivers answer, or time out. A batch that is
rolled back every time, by an exception that comes again with it, is thereby assumed
away: it would be posted for ever.
`revocation`: the reaper runs and a close it decided is carried out.
`floor`: the reconcile loop comes around and, tried again and again, MediaMTX and
the bot service answer sometimes (strong fairness); a handler that holds a lock goes
on; a leaving bot leaves, since the service kills it in the end.
`relay`: the supervisor threads and the service's requests go on; a pass is made
again and again and its requests sometimes answered in time (strong fairness).

### Where the code and what is said of it differ
`last_admin`: `is_last_active_admin` counts the active Admins when a request is
checked; of two requests that overlap, each still counts the other's Admin, and
afterwards there is none: nothing locks what was read (`PROJECT.json` "findings" quotes
both sides).

`keeps_live`: "Booths that are live right now are never removed", says
`apply_plan` (`room_setup.py:450`). What is live is asked before it is called, from a listing of
its own (`admin.py:1069-1071`); `apply_plan` lists again (`room_setup.py:456`) and removes
whatever the new listing has and the form has not, so a booth that goes live or is
created between the two is removed.

Seen while modelling, and left as notes: the models follow the code in each.

*Booths.*
A publisher that sends `booth:join` again gets a record with its flags down but
`ingest_status` is not refreshed: "connected" with no publisher. An `update-state`
handled after a Stop puts the publisher on the air. A second `booth:join` on one
socket leaves the first participant in the booth for ever. The guard of the v1
deletion reads `ingest_status`, which an overload report overwrites: a live booth is
deleted; and after a refused upsert (409, `api_v1.py:625`) the registry has already
forgotten the booths before the live one. A listener greeted between two changes that
cancel each other out stays with the first: both updates are skipped as repetitions
(`UpdatedListenersAgree` is about listeners that had an update, and cannot see this).
A dead session keeps its place in `active_workers` until its own booth is started or
stopped. The docstring of the sender's close promises more than the code does. Members
of a booth may see an older state last: their broadcasts have neither lock nor version,
and the state sent after a Stop was taken before the worker's teardown. The
coordination page of the documentation says a joined interpreter may select itself,
`set_active_interpreter` refuses. `reclaim` lets a socket replace a record another
socket has since made under the identifier it still remembers.
`start_transcription_worker(booth_id, event.id)` in `routers/api_v1.py:919` does not
match the function's parameters.

*Revocation.* Membership removals, invite revocations and booth deletions push their
sweep before the commit: a socket that connects in between stays until the next
broadcast's check or the reaper, which never re-reads memberships. A broadcast under
way still sends to a socket revoked after its check. `admin_setup_add_invite` changes
roles without a push.

*Speech.* The forced final of 50 words or 15 s in `handle_chunk` is in an `elif` that
is never reached; the forced final of a streaming provider is repeated by the
provider's own; chunks still queued when a stream ends are cancelled and the last
utterance is never made final. The page keeps final captions under keys it never
deletes, so that after five finals every bundle makes it flush to the oldest pending
segment, and lower ones that come later are dropped (`listener-event.js:421`); a
restarted stream numbers its captions from one while the page still expects a higher
number (`listener-event.js:378`). The settings cache of `tts/worker.py` can keep old
settings for up to five minutes when they are invalidated while being loaded.

*Deliveries.* The worker's refresh-then-write can overwrite a re-registration. A
rolled-back batch posts up to ten deliveries again, with their attempts restored.
Attempts of a mail are counted at the claim, so that one that crashes the worker can
exceed four.

*The floor.* A session authorised more than five seconds earlier, whose reservation was
cleared, can go live after a disable and is not kicked while the bot owns the floor. The
sender's 409 protection is lost with a restart and with negotiations longer than 15 s.
A relay whose destination is cleared during a pass may be started again until the next
pass; a transient `OSError` at the spawn leaves it "failed" until it is stopped. A
snapshot taken before an agent connected can schedule its restart. The log threads of a
replaced bot process may write the stage of the new one. A session of program ingest that is
let in and goes live after the bot has taken the floor is the path's source and is kicked
by nobody; the bot is turned away until it ends. A room that is enabled while a pass is on
loses its reservation's age at the pass's end.

*Access.* A grant and a decline that overlap leave hosting on with the request
declined, and both are mailed; an invitation written during a grant survives it; a
request submitted during one leaves a host with an open request; hosting can be granted
to an account deactivated meanwhile. Two overlapping refreshes of one token are both
answered; a revocation can be outrun by a refresh under way, and a reuse misses a pair
inserted at that moment. Consent is committed by its savepoint before the code. The last
two owners of an event can remove each other (the Members page does not count them). On the
Team page, an assignment that is removed between the two looks of a change is made again,
and somebody made an owner between them is changed without counting.
`redeem_auth_token` and `redeem_invite_token` read before they write.

## 4. What is proved

By `tlapm` (SMT, Zenon, LS4), for every value of the constants: every invariant and
every action property that the passing runs check. `PROJECT.json` "theorems" names each
with its property. What follows says what each proof turns on; an inductive invariant that is
stronger than the one the run checks stands at the head of the component's part of the module.

**The booth** (`BoothProofs`), for any participants, sockets and listeners, any roles and
any permission table.

* `BoothInvariance`. `BoothInv` is the conjunction of the types and the four
  invariants, each of which is inductive only with the others: the
  slot decides who may speak, so `SingleVoice` is only kept because everything
  that moves the slot lowers the flags; `SlotFilled` is only kept by a departure
  because `_pick_next_interpreter` finds anybody there is; `HandoffCurrent`
  needs the holder to be present. One lemma per method.
* `RegistryImplementsOnAir` maps each method to a step of `OnAir` or a stutter, using
  the invariant. `ConsentHolds` is `ConsentKept`, from the invariant and the history variable.
* `SessionsUseRegistry`: every step of a socket, a revocation or a deletion is a registry
  step or leaves it alone. Hence all of the above holds with any number of sockets
  (`SessionsImplementOnAir`), and `VoiceOnlyFromSession`.
* `SocketsHold`, `StatusNeverBackwards`. `StatusIInv`: only the head of the lock's queue
  sends, to listeners in the room (`HeadSends`, `TargetsInRoom`); each listener that had
  an update shows the last state sent, or is about to be sent it (`LastIsShown`); while no
  update is before the lock, that is the registry's (`LastIsCurrent`); and what is being sent
  is no older than what anybody has seen (`SendsNewest`), for the registry is read under the
  lock. The exception is a booth that has left the registry, where the code sends
  what the update was called with.

**Who publishes** (`PublishingProofs`).

* `TicketsHold`, `TicketsOpen`, over the booth's own steps: `BoothInv` comes along. The
  store is in the order of issue, with gaps where tickets were used (`InOrder`,
  `Numbered`); what a ticket has left is what its age leaves it (`Timed`, `Ages`); no
  ticket in it has been presented (`Unused`). Hence what `_prune` drops is either over
  or followed by as many tickets as the store holds, and a ticket is honoured at its first
  presentation or never.
* `RelayHolds`. The service's part of the state (`TableOK`: a supervisor that was not
  told to stop is the room's entry; used places are counted) and the portal's
  (`PortalOK`) meet in the requests only.

**The floor** (`FloorProofs`).

* `FloorHolds`, by counting the rooms that hold a reservation; a session that holds one is past
  asking, so an answer that comes late never makes a second. `FreshFeedStays`: a pass cuts
  off whom its listing showed on the path, and only if the row, read again, does not name them.
* `AgentHolds`. `AgentInv` is inductive as it stands: MediaMTX is let in by the row as it is
  when it asks, whatever changes the floor's source leaves on the path or before it only who was
  let in earlier, and ends the agent's worker in the same step; and a sweep or a pass, however old
  its snapshot, reads the row again under the lock.

**Deliveries** (`DeliveriesProofs`).

* `OutboxHolds`, `OverStaysOver`. Per message: what the worker is at is marked as being sent;
  until a message is recorded, the server has taken it only as often as that was lost; an attempt
  above `MaxSends` needs a loss.
* `WebhookHolds`. Per delivery, in the table and in the transaction: what can still be
  posted has been taken only as often as an answer or the transaction was lost. Per
  subscription: `consecutive_failures`, in the table and as the transaction will write it,
  is at most the number of its exhausted deliveries, in the table and in the batch.

**Speech** (`SpeechProofs`).

* `WorkersSafeHolds`, for any number of booths, sessions and requests (finite booths and
  sessions) and any capacity: `WorkersInv` adds to the types and
  to `NoOrphan` that a session that has not ended has a booth, that it is `STOPPED` only from its
  finally clause on (so only such a session is dropped from the registry), that a request knows the
  session it waits for and unregisters only one whose task has ended, the count of references, and
  that no more booths are occupied than there are places.
* `StreamHolds`. Of chunks: the queue is in the order of hearing, and what is held or queued
  has not been captioned (`ChunksInOrder`). Of a streaming provider, which repeats its
  utterance: what of it is in no caption is in the present utterance or was cut
  (`UtteranceKept`).
* `SpeechHolds`. What a page stores is still to be played and what it played lies before
  it (`Playable`), and its timer waits for a segment that is not stored (`TimerDue`);
  the worker's counters are the cardinalities of the jobs they count.

**Access** (`AccessProofs`) and revocation (`SocketRevocationProofs`).

* `HostingHolds`, `AccessIsAsDecided`, for any accounts, invitations, requests and
  handlers: `HostingInv` needs what each handler remembers between its read and its write.
* `OAuthHolds`, for any apps, organisers, codes and tokens: from what
  a handler remembers of its code, from a code being spent before a token comes of it and
  from a parent being spent before its child is there.
* `GrantsActAsTheyShould` adds the families. Every token has a rank, higher than its
  parent's (`Ages`), so the walk from a token to its root ends; what a request that met a
  reuse will end holds every token of that code that there was when it looked (`FamilyKnown`).
  Families may be of any length: the walk is a recursive function, of which the proof uses only the
  equation it satisfies, at a token that is oldest among those where it would fail.
* `TeamGivesToRoleless` is `GivenToRoleless`. It turns on what a commit that deletes a row does to
  the requests that have read it: they are left with a row that is gone, so that one whose
  `from` is "" did find none when it last looked.
* `LimitsHold`. The store keeps every stamp that still counts, sweeps or not (`KeyOK`). The table of
  failed codes is in the order its windows started, with one row per address (`TableOK`);
  each counts the address's failures since its window started, and whatever failed just now
  is in a window that is still on (`CountsOK`).
* `RevocationHolds`, for any number of sockets and requests and any cache time
  of at least one tick. `StaysOut` is the inductive invariant. For `NoSurvivor` it says
  that a socket of an inactive account which has passed the account's check still
  carries the epoch it noted, or is open and unmarked, only while the sweep is to come;
  for `RemovedHearsNoMore` that an answer which lets the member in was asked for no later
  than the removal, wherever the answer is by then: in the cache, on its way, or
  already applied to a broadcast that began within the cache's time of it. One lemma
  per step between two awaits.

**Rows** (`TenancyProofs`).

* `RowsHold`. What a request read and decided is still so, or what it names is gone
  (`Fits`): rooms and booths never move to another event, identifiers are not used again,
  and nobody deletes an event under the lock of an OAuth request. One lemma per
  commit. From it `DeletedIsForGood`.
* `SetupHolds`, from `SetupInv` and that a language which is enabled has a row.

What is left to TLC is liveness, `RelaySettles`, `AgentSettles`, `OutdatedGoes`,
`DeliveriesEnd`, `GoneMeansLeft`, `StoredIsPlayed`, `FloorSettles`, `CaptionsEnd` and
`StopReturns`, since it rests on fairness, and so on `ENABLED`, which no
prover installed with TLAPS handles; and the violations of `keeps_live` and
`last_admin`, which are counterexamples.

The theorems are about each component's own specification. A run that puts several
beside each other, one to a behaviour, is covered by them part by part; of these, only
`SocketsSpec` is a specification of which something is proved itself.

Assumptions of the proofs are the named `ASSUME`s:

* null values (`NoOne`, `NoSub`, `Nil`, `None`, `Absent`, the URL "none", a room's "new" and
  "gone" for a slug) are not members of the sets they stand beside: in the code they are
  `None` or a missing row;
* `Rank`, limits, capacities, windows and the bounds of a run are naturals; of the
  floor's rooms, the tickets and their lifetime, the sends of a message, and the join codes'
  budget, window and table it is at least one, as the code's constants are;
* booths, sessions of workers and deliveries are finitely many, since they are counted;
* an answer is cached for at least one tick (`RevocationAssumption`; with
  no time at all, what is decided in the tick of a removal would count as late).

## 5. Not modelled, and the plan

*Partly modelled*, with what is left out, is said per component in `PROJECT.json`. The
larger parts: chat and display names of a booth; the states that members are sent
(their order is not kept, see above); captions to listeners, which need no order
between them; the quota of anonymous listeners; the LRU eviction of epochs at 10000
entries; the signal escalation of ffmpeg; vendors' protocols; the cache of voice
settings; passwords, magic links, cookies and the stub event of the consent page, the tokens of a
verification (what they lead to, `verified`, is);
profile, branding and glossary rows, which nothing reads to decide; row ids that SQLite
may use again after an account is deleted. The page of `TranslatedSpeech` follows one
stream and one language: a language switch resets it, and without a voice to wait for
the original's captions take another path.

*Not modelled*: booth identity (formatting and parsing of identifiers), listings, forms
and templates, the rest of the browser clients (user interface), deployment.

Where a model is coarser than the code: a token family is walked in one step; the
translation worker's counter is lowered with the broadcast of the text, not after it; a
`join` in `relay.py` waits for 7 s and the model until it ends; a kick and the commit
after it are one step, since nothing reads the rows between them.

Next: the order of the states sent to a booth's members as a model of its own, should the
code give them a version (today an older snapshot may arrive last, see above); the meeting bot
and program ingest as one specification of a floor with one owner, which both implement; and a
refinement of the portal's side of the relay by the service's.
