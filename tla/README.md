# goportal in TLA+

goportal is a Discord-like community platform: servers with members, roles and
channels, messages, voice rooms with recordings, and tournaments. The back end
(`src/backend`) is a Go HTTP service over MySQL (GORM), Redis and a message
broker; a second Go service (`src/notification`) pushes events to WebSocket
clients; the front end (`src/frontend`) is React, in packages that the web and
the desktop application share.

This directory models the tournament half of the back end and most of the front
end. What makes the back end hard is one design decision seen everywhere: handlers
run concurrently, take no lock, mostly open no transaction, read a row, decide,
and save the *whole* row they read. What makes the front end hard is that every
piece of state on the screen has several writers (an effect's load, a click
handler, a socket event, another browser tab), each of which goes on after an
`await` with what it knew before it, and only some of them check, by a cancelled
flag, an attempt number or a comparison with a ref, that it is still so.

## Inventory

### Back end and notification service

| Component | State | Operations | What is hard | What makes it correct |
|---|---|---|---|---|
| Bracket generation (`tournament_service_impl.go:827-1041`) | none; participants to match rows | four formats, seed sort | power-of-two padding, byes, links, `seedA - seedB` overflow | everyone drawn once, a balanced tree, byes to the best seeds, losers drop down |
| Registration and status (`:51-428`) | tournament row, participant rows, drawn matches | create, edit, delete, status, register, bulk add, cancel, check in, seed, remove | check-then-insert, stale whole-row saves, rows re-inserted by a save, a start of several statements | phases in order, nothing ahead of its phase, size limit |
| Match play (`:571-825`) | match, participant and tournament rows | report, override, match status, advancement, completion | results applied at once, repeated results, dropped errors, byes that wait for a report | slots and standings come from results; the last result completes |
| Teams (`:430-541`) | team and member rows | create, add, remove, delete | same races as registration | team size, one team per user |
| Recording (`voice_service_impl.go`) | recording rows, LiveKit egresses | start, stop, webhooks | external service, crash between egress and row, webhook before row | one active recording per channel, no orphan egress |
| Presence (`notification/.../manager.go`) | connection maps, Redis presence, typing timers | connect, replace, disconnect, typing, close | late close of a replaced connection, timers that race | a connected user is present |
| Notification delivery (`notification_service_impl.go`, `dispatch_notification.go`, `router.go`) | notification rows, broker queues, receipts | create, publish, dispatch, receipt | redelivery, receipts out of order, presence that is stale | status never moves back, no notification lost silently |
| Membership (`server_service_impl.go`, `server_repository_impl.go`) | members, invites, join requests, roles | join, leave, invite, review | two reviewers, two joins, limited invites | one row per member, invite uses within the limit |
| Permissions (`channel_service_impl.go`, `server_permission_middleware.go`) | role masks, overrides | edit, resolve | masks summed instead of or-ed | effective mask is the union |
| Messages (`message_service_impl.go`, `message_repository_impl.go`) | messages, attachments, reactions, unread counters | send, edit, delete, react, mark read | commit before publish, attachment reuse, counter races | an attachment has one message, unread never hides a message |
| Social (`social_service_impl.go`) | relationship rows | request, answer, block | two directions at once, stale answers | one relationship per pair, a block wins |
| Users, storage, rate limiting, cache | rows, Redis keys, objects | - | little concurrency of their own | - |

The back end's components meet in the database and in the broker. The tournament
service publishes its events fire-and-forget and reads nothing back, so its
modules need no broker. `BracketGeneration` supplies the bracket that `MatchPlay`
takes as its constant `Draw`, and `Registration` says when and among whom it is
drawn.

### Front end

Paths are below `src/frontend/packages`. AppShell is `app-core/src/layout/AppShell.tsx`,
DashboardView is `features/dashboard/src/DashboardView.tsx`.

| Component | State | Operations | What is hard | What makes it correct |
|---|---|---|---|---|
| Voice channels (AppShell `:1298-1545`) | `voiceJoinAttemptRef`, in-flight and pending refs, `isVoiceConnecting`, `voiceState`, one LiveKit room per join | join, switch, leave, retry over addresses, unmount | a join has four awaits, a leave or an unmount may come at each | one room open, none forgotten, the latest press decides, the spinner ends |
| Voice activity of the sidebar (AppShell `:620-860`) | participants of each voice channel | socket updates, 30 s poll, the room's own participants, the leave handler | an old poll after a new update, a switch of servers in between, a socket that is down | it catches up |
| Session and invite links (`app-core/src/Router.tsx`, `store/src/auth.store.ts`, the two API clients, the login and register forms) | token and persisted store in localStorage, stores in memory, redirect path, pending invite | hydrate, log in, register, log out, 401, guards, open an invite | two tabs over one localStorage, 401s that reload the page | the user is the token's; an invite survives the way through login; no redirect loop |
| Messages (DashboardView `:430-1000`) | list, paging, typing | first page, older pages by offset, created and deleted events, send, delete | pages shift while messages come and go; a first page that arrives late replaces newer events | the list matches the log, without holes or repetitions |
| Reactions (`:1080`) | users, count, own mark | toggle, response, event | the response flips what the event sets | what is shown is what is stored |
| Composer (`:1190`) | text, files, answered message, draft of an edit | type, attach, send, edit, change channel | nothing is disabled while a message is sent | nothing typed is lost |
| Link previews (`:1040`) | previews, cache, runs of an effect | list changes, pages arrive | a run that is over may not show what it fetched | a link with a page has its preview |
| Unread badges (AppShell, DashboardView) | badge of each channel, focus, read marks | load channels, push, open, mark | two sockets per user, of which the service writes to one | an unread channel has a badge |
| Shell and navigation (AppShell `:900-1250`, Router) | address, active pair, rail, lists | redirect, click, create, join, leave, back | loads and handlers each navigate, handlers are never cancelled | the user lands, where the last click said |
| Dialogs (CreateServerModal and others) | step, codes, flags | open, close, resolve, create, join | dialogs stay mounted while closed | no button stays disabled for nothing |
| Server settings (ServerSettingsOverlay) | profile form, role editor, member rows | load, edit, save, upload, kick, toggle | copies that other managers overtake | others' work survives a save; rows are current |
| Tournament pages (`app-core/src/tournaments`) | detail, forms, lists | load, act, edit, create | overlapping loads, a form that outlives its page | the page is the address's; a form saves where it was filled |
| Direct messages, member panel, UI kit, mock data | - | - | presentational | - |

The parts of the front end meet in three places. The address bar is written by the
guards (`Session`) and by the shell (`Shell`); the two are separate modules since
the guards are done before the shell is mounted. The notification socket feeds
`VoiceSidebar`, `Chat`, `Reactions` and `Badges`; each models the service as far as
it can tell: events of several topics come in any order, are lost while no socket
is open, and go to the socket connected last. `VoiceSidebar` extends `Voice`, whose
rooms are one of its four writers. Everything the back end does beyond storing and
answering is left to the modules of the back end.

`PROJECT.json` lists the hazards at their lines, each with the property that
watches it or the module it would need.

## Modules

| Module | What it models |
|---|---|
| `Bracket` | The generators as pure operators on a list of participants. A bracket is a sequence of matches, links are positions, 0 is nil. The sort is the insertion sort the Go library uses for up to 12 elements, over machine-integer differences of width `IntMax`. |
| `BracketGeneration` | `generateBracket` as a transition over lists in the order the query returns them, with the bracket properties. |
| `BracketProofs` | Theorems about `BracketGeneration` for any number of participants. |
| `Registration` | The entry desk of a solo tournament. |
| `TournamentRules` | The abstract specification: the same rules as atomic steps on status, limit, entrants and check-ins. |
| `MatchPlay` | The tournament after its start. |
| `MatchPlayProofs` | Theorems about `MatchPlay`. |
| `RegistrationProofs` | Theorems about `Registration` for any number of workers, and that with one worker it implements `TournamentRules`. |
| `Voice` | Joins and leaves of voice channels as handlers that stop at each `await`; LiveKit as rooms that connect, fail, close and end. |
| `VoiceSidebar` | `Voice` with the sidebar's activity, its events and polls. |
| `Session` | Tabs, tokens, localStorage, guards, forms, invite links. |
| `Badges` | Badges with the notification service's connection map and focus. |
| `Chat` | One text channel: list, paging, events, typing. |
| `Reactions`, `Composer`, `Previews` | The other three state machines of DashboardView, which share no state with the list but its changes. |
| `Shell` | Address, active pair, lists, and the requests that navigate. |
| `TournamentPage`, `TournamentForm` | The detail page with its dialogs; the creation dialog with the two lists. |
| `ServerSettings`, `MemberList` | Profile and role editor; the members tab. |
| `Dialogs` | The dialogs of the shell. |
| `VoiceProofs` | Theorems about `Voice`. |
| `SessionProofs` | Theorems about `Session` and `Badges`. |
| `ViewProofs` | Theorems about `Previews`, `Composer`, `Reactions` and `Chat`. |
| `PageProofs` | Theorems about `Dialogs`, `TournamentPage`, `MemberList`, `TournamentForm` and `ServerSettings`. |
| `ShellProofs` | Theorems about `Shell`. |
| `MC*` | Constants, symmetry and bounds for TLC. |

**Requests as workers.** A handler is a goroutine: `req[w]` holds the step worker
`w` is at and the rows it has read. Every statement that reads or writes the
database is one action, named after what the handler does there
(`CountForRegister`, `CreateRegistered`, `SaveRow`); reading the tournament and
the guards that follow belong to the action that begins the request. A refusal
changes nothing, so it is a step only where something was done before. GORM's
`Save` writes every column and inserts a row that is gone; foreign keys, unique
keys, cascades and `ON DELETE SET NULL` come from migration 00016.

**Registration.** `tournament` is the row (status and `max_participants`),
`roster` the status of each user's participant row, `draw` the participants the
match rows name. `reached` and `everCheckedIn` are history variables. A seed edit
is a save of the participant's row with the seed itself left out.

**MatchPlay.** `match` has slots, winner and status of each match row, `entry` the
participants, `tournament` the status. `applyConfirmedResult` is the chain
`SaveResult`, `FindLoser`/`SaveLoser`, `FindNext`/`SaveNext`,
`FindLoserNext`/`SaveLoserNext`, `CountIncomplete`, `SaveCompleted`,
`FindWinner`/`SaveWinner`, whose errors the code drops: the chain goes on.
`won` and `lost` record the results that were saved.

**The front end as tasks.** JavaScript runs one task at a time, so an action is one
stretch of code between two awaits, with the effects that React flushes after it.
A request is a record in a set (`reqs`, `loads`, `jobs`, ...) that carries what its
handler closed over; the action that receives the answer asks what the code asks
then (`cancelled`, `voiceJoinAttemptRef.current !== attempt`, a ref of the active
channel) and nothing more. The backend is the part of its tables that the answer
shows, written by the user's requests and by others at any moment. Where the code
reads state through a ref, the model reads the variable as it is at that moment; where it
reads what a closure captured, the model reads the record.

**What a property excepts.** Several parts do go wrong in narrow cases that the
code accepts, and the property would be false without an exception. Each is a
variable of the module that the actions set at the very step that causes it, so
that everything else is still checked: `stale` and `outlived` in `Chat` (what a late
first page overwrote; older pages, or the news of older messages, that come after the
list was loaded anew),
`late` in `Previews` (a page that came when the run that asked for it was over goes
to the cache only), `unsure` in `Reactions`, `Badges` and `MemberList` (lost or
overtaken events, overlapping requests for one row), `crossed` in `TournamentPage`
(overlapping loads are applied as they arrive), `stuck` in `Dialogs` (going back
while an invite link is resolved leaves the flag up), `overtaken` in `Shell` (a click while
another handler is at work, or to a server that an older list is leading away from),
`strayed` and `overtaken` in `ServerSettings`, `doubled` in `TournamentForm`. The
comment of each property names them.

## What the runs check

| Run | Bounds | Shows |
|---|---|---|
| `bracket_generation` | 2 to 17 unseeded entrants (every padding up to 32), all seedings of 4 over two negative and two positive values and none, all shuffles of 5; `IntMax` 7 | `EveryoneIsDrawn`, `KnockoutIsATree`, `ByesGoToTopSeeds`, `LosersDropDown`; `SeedsAreRespected` when no seed is negative (with a negative one the overflow does draw an unseeded participant first) |
| `bracket_second_chance` | 4 entrants | counterexample to the front end's "second chance" |
| `registration` | 4 users, 2 workers, limit 2, bulk of 1 | stale saves bring phases back but never skip one; no entry, check-in or draw precedes its phase; overbooking is at most one row per other worker |
| `registration_serial` | 4 users, 1 worker, limit up to 3, bulk of 3 | the implementation of `TournamentRules`; the limit holds exactly |
| `registration_stale` | 2 users, 2 workers | counterexample to the documented status flow |
| `match_play` | 3 entrants (bye, semifinal, final), 2 workers, 4 requests | `SlotProvenance`, `StandingsEarned`, `LastResultCompletes` |
| `match_play_fair` | 3 entrants of a double elimination (5 matches), 1 worker, 2 requests beside the host's | `Finishes` |
| `voice` | 2 channels, 3 presses, 2 addresses, another user's move, a visit to another server | `NoRoomLeftBehind`, `OneRoomOpen`, `SpinnerHasACause`, `LatestPressWins`; `JoinEnds`; `SidebarCatchesUp` |
| `session` | 2 tabs, 2 invites, 2 logins, 3 addresses opened; or 2 channels with 2 moves and 3 happenings | `InviteKept`, `UserOfToken`, `PagesSettle`; `UnreadIsShown` |
| `chat` | pages of 2, up to 5 messages, 2 openings; 2 clicks and 2 changes of a reaction; 1 word and 1 file in 2 channels; 3 links, 5 runs | `ListMatchesLog`, `TwiceOnlyOwn`, `NoHoles`, `TypingEnds`; `ShownIsTrue`; `NothingTypedIsLost`; `PreviewsAreShown` |
| `shell` | 3 servers with 5 channels, 1 or 2 clicks, up to 1 trouble, 20 ways to begin | `Lands`, `LastClickCounts`, `Settles` |
| `pages` | 2 tournaments, 3 roles, 2 members, 2 servers; 3 to 5 clicks, 1 or 2 changes by others, 3 requests | `PageIsCurrent`, `FormGoesHome`, `OthersWorkSurvives`, `EditorNotBlank`, `RowsAreCurrent`, `NoIdleSpinner`, `SubmissionsAreListed` |

The five runs of the front end put parts together that share no state: a variable
of the MC module (`part`, `used`) says which of them a behaviour is about, and the
others keep still. That is sound since each part's property speaks of its own
variables, and it keeps the number of runs small.

Why the bounds are enough. Two workers are the smallest number with an
interleaving, and each property speaks of one stale reader against one writer.
Four users are one more than a limit of two plus the one row the other worker can
still insert, so that overbooking happens and its bound could be exceeded. The
bracket of three has a bye, a match with two feeders and a final; four requests report every match and repeat
one, or mix in a removal or a cancellation. `MCMatchPlay` writes that bracket out
and an assumption compares it with what `Bracket` generates.

In the front end each hazard is an answer that meets what happened since the
question. Three presses are a join, one that overtakes it and one that overtakes
that; two addresses are a failure and a retry. Two tabs are one that writes and one
that reads; two logins give a token that is stale. Pages of two with four stored
messages make two older pages, the second of which can be a page too far, and a
fifth message shifts them. Three links let one be fetched, one shown and one new;
the fifth run of the effect is reached with all three in flight. Two servers with
two channels each can be confused in both parts of the address, and a third is
there to be created or joined. Two members and three roles, one of them new, let a
toggle carry along a role that is not loaded. Where two budgets multiply too far
(clicks and troubles; openings and other managers), initial states spend one of
them in advance, so that the run covers the corners and not the whole product.

The runs let a report name only someone seated (`OutsideWinners` is `FALSE`), since
the code's freedom to name anybody multiplies the states; the proofs below cover
that case.

`MatchPlay` counts requests (`MaxRequests`), so both of its runs stop when the
requests are used up, the registration runs stop when the tournament is deleted,
and the front end rests when the budgets of the user and of the network are spent:
these configurations switch the deadlock check off.

**Fairness** (`FairPlay`, used by `Finishes` only). Weak fairness of each worker:
a goroutine that accepted a request goes on; every step it waits at is enabled.
Strong fairness of `Hosting(m)`: a host who keeps reporting a match that has
someone seated and no result is served in the end. That is an assumption about
the people, not the code, and it includes reporting byes, which the code draws as
won but counts as incomplete and never advances by itself. Nobody is removed
under `FairPlay`, since a removed finalist leaves a match nobody can be reported
for. `Finishes` is stated for one worker because it is false for two: a manual
match status (`UpdateMatchStatus`) that read the row before a winner advanced
into it saves it after, the slot is empty for good, and nothing fills it again
until the feeding match is reported once more.

The fairness of the front end is the browser's: a request is answered or fails, a
timer fires, an effect runs. The user, the other users and the network's failures
have none.

* `JoinEnds` and `SidebarCatchesUp`: weak fairness of every handler of a join or a
  leave, of LiveKit closing a room that was hung up, of the delivery of updates and of
  the poll and its answers (`SidebarFairness`). A connect that never answers is ended by
  `withTimeout`; a room that was hung up does close, as `room.disconnect()` promises.
* `PagesSettle`: weak fairness of the hydration, of the arrival at the next page, of
  the invite page and of the shell's first effects, per tab. Logins and 401s are
  not fair.
* `Settles`: weak fairness of the requests as a whole (`Respond`).
* `TypingEnds`: weak fairness of the timer, nothing else.

## Findings

* The loser of the winners' final of a double elimination has no losers' match
  to drop into (with two entrants: the first defeat is final), although the front
  end presents the format as one with a second chance
  (`frontend/packages/app-core/src/tournaments/utils.ts:17`).
* `UpdateTournament` saves the status it read. Overlapping with a status change it
  moves the tournament back along the flow that
  `docs/backend-api/tournaments/crud.md:142-144` documents.

Met while modelling and not asserted by any text of the repository: a leave that
overtakes a join leaves `isVoiceConnecting` up until the next mount, which blocks
every later join (`SpinnerHasACause` says that this is the only way, `JoinEnds`
that it needs that leave); a first page of messages that arrives late undoes
deletions and forgets new messages; an override
with another winner leaves the old winner in the next match and seats the new
one next to it; the winner of a report need not be seated in the match; a late
result completes a cancelled tournament; the double elimination of five leaves a
losers' match that two byes feed, so that the count of incomplete matches can
only reach zero if somebody not seated is reported for it.

## What is proved

`BracketProofs` proves, for lists of any length and any seeds of the machine's width,
the five properties of `BracketGeneration`. There the invariant is the easy part:
`Generated` says that the bracket is the one its format draws from a permutation
(`Order`) of the listed participants, and a generation replaces it whole. The work is in
what the generators compute.

* `SeedsComeFirst`: `Spec => []SeedsAreRespected`. The sort inserts one row after the
  other (`SortIs`); every insertion keeps the rows that were there, once each
  (`InsertArranged`), and, when keys are not negative, so that `seedA - seedB`
  cannot wrap around (`CompareIs`), their order (`InsertSorted`).
* `ByesAreForTheBest`, `WinnersAreATree` and `LosersGoOn`, for `ByesGoToTopSeeds`,
  `KnockoutIsATree` and `LosersDropDown`. The number of slots is the one power of two
  with `size / 2 < n <= size` (`BracketSizeIs`). Round r begins after position
  `size - size / 2^(r-1)`, and since a power of two is halved without remainder down to one
  (`RoundHalves`), match i leads, whatever its round, to match
  `size / 2 + (i + 1) / 2`, of the round after it (`NextIs`). The feeders of a
  match are read off that formula (`FeedersAre`); what is left over, the final and the
  odd one out among the losers, from the boundary cases of the two divisions.
* `NobodyIsLost`: `Spec => []EveryoneIsDrawn`. For knockouts and swiss rounds every
  place of the order has one seat (`Drawn`). The round robin lists the pairs row by row;
  the list after i rows has the pairs that begin up to i, once each
  (`RowPairs`), so two places share one match (`PairsMeetOnce`), and the matches of one place
  are in bijection with the other places.

Induction is over sets of numbers (`Induction`, from the well-foundedness of `<`), and
the recursive functions of the generators are shown to exist and to satisfy their
equations by it (`RecursionExists`, `PowerOf2Is`, `SortIs`, `FlattenIs`). The assumptions
are `IntMaxAssumption`, `ListAssumption` (bounds are numbers, seeds are machine
integers, the nil seed is not one) and `NoParticipantAssumption` (the nil id is no
participant's), evaluated in the run `bracket_generation`. `MaxEntrants` and
`MaxSeeded` may be any numbers; `SortBySeed` is the insertion sort at every length, while
the Go library changes its algorithm above 12 elements. Without negative seeds that
can only permute participants whose keys are equal, whose order no property depends
on; with them only `SeedsAreRespected` depends on the order, and it says nothing then.

`RegistrationProofs` proves, for every finite set of users, any set of workers and
all bounds:

* `TypeCorrect`: `Spec => []TypeOK`, with `Aimed` (a request that goes on with a
  user or is about to save a row holds one) as its strengthening.
* `PhasesNeverSkipped`: `Spec => []PhasesInOrder`, and `NothingComesEarly`:
  `Spec => []NothingAheadOfItsPhase`. Neither is inductive, because what breaks
  them is a row read long ago. `Phases` says of every request in flight that what
  it is about to write was allowed by the history (`Allowed`): a status whose
  predecessor was reached, an entry after registration, a check-in after check-in
  opened, a bracket of two who had checked in. History only grows, so a stale
  write stays allowed (`AllowedGrows`); that is the whole argument.
* `OverbookingIsBounded`: `Spec => []BoundedOverbooking`, for any finite set of at
  least one worker (`SomeWorkers`). The bound is on the rows there are, but what
  exceeds it is decided earlier, at a count. `Booked` therefore also counts what may
  still come (`RoomIsLeft`): the users a request is about to save again, whose row a
  removal may have deleted in between (`Held`), and the inserts each request may still
  make on the count it took, one of a registration, up to `BulkMax` of a bulk request
  (`Places`). An insert turns a place into a row; a save brings back somebody already
  held; and a count claims places only as far as the limit goes beyond the rows
  there are, so that all else is with the other workers, each of which
  holds one user or claims at most `Most` places (`CountKeepsRoom`, the one step with
  arithmetic). `Limited` says that a request that counts has a limit no larger than
  `MaxCap` and no more users than a bulk request may name.
* `SerialImplementsRules`: when there is one worker, `Spec => ImplementsRules`, the
  refinement of `TournamentRules`. The invariant `Serial` says that what a request has read is
  still so (`Fresh`); the write at the end of a handler is then one step of the
  rules and every other step a stutter.

The assumptions are `UsersAssumption` (finitely many users), `BoundsAssumption` and
`NoRowAssumption`, evaluated in the runs of `MCRegistration`.

`MatchPlayProofs` proves, for every bracket that satisfies `DrawAssumption`, every
set of participants, any set of workers and any number of requests:

* `TypeCorrect`: `Spec => []TypeOK`. Alone it is not inductive; `TypeInv` adds
  `Aimed`, that a worker in the middle of a request names a match, and a match to
  advance to when it is about to save one.
* `CompletionIsNotLost`: `Spec => []LastResultCompletes`. The property says
  nothing while a result is in flight, which is when it is decided. `Completion`
  adds three facts: `Settled`, only a bye or a completed match has a winner;
  `Steady`, the rows in flight agree and none puts the tournament back in
  progress; and, the heart of it, while every match is decided and the tournament
  still in progress, some worker is between its save and its completion
  (`Concluding`). The worker that decides the last match is such a one, and when
  it counts it finds nothing incomplete.
* `BracketIsSound`: `Spec => []SlotProvenance`. `Provenance` extends the property
  from the table to the copies the workers hold: every row about to be saved has
  only participants who may sit in it (`Legit`), and every participant about to
  be placed has the result that sends it (`Given`). `won` and `lost` only grow.
* `StandingsAreEarned`: `Spec => []StandingsEarned`, from the same invariant.

Each has one step per action. The assumptions are `DrawAssumption` (the bracket is
made of match rows, and only a bye has a winner) and `NoneAssumption` (`None` and 0
are not values); TLC evaluates both in the runs of `MCMatchPlay`. A bound of the
model that the proofs do not need: `MaxRequests` may be any natural number.

`VoiceProofs` proves, for any sets of channels and numbers of presses and addresses
(`VoiceAssumption`), `NobodyIsLeftBehind`, `OneRoomAtATime`, `SpinnerIsExplained` and
`TheLatestPressWins`. The first three follow from one invariant, `VoiceInv`. Alone
they are not inductive: a press that wakes up must be known to have the room it
waits for (`StepsFit`), a room that connects belongs to a handler at its connect
(`RoomsConnect`), the pending room is exactly the one the latest press is connecting
(`PendingIsLatest`, `LatestIsPending`), while it is, nothing is shown
(`NothingShownBeside`; before, only the room it waits for, `NoOtherShown`), and after
unmounting only the latest press can have an open room (`OnlyTheLatest`). Each handler
is first reduced to what it does to its own press and room (`Moves`, `Turns`), the
rest is one step per conjunct. The fourth needs no invariant: only `RoomConnects`
shows a room, after asking.

`SessionProofs` proves `UserMatchesToken` and `InvitesAreKept` for any tabs, codes and
number of logins (`SessionAssumption`). `SessionInv` is `TypeOK`, what the guards
ensure (a form waits only in an idle tab; the invite page is never past its guard;
a hydrated tab has the token's user, and so has the persisted store when there is no
token to ask about), and `InviteKept` itself. `UnreadHasItsBadge` is about `Badges`,
for any channels, moves and happenings. Its invariant `UnreadIsComing` says what the
property leaves out while something is on its way: a channel that has something
unread has a badge, or the counts that were asked for have it, or a push for it is in
the queue (`Coming`).

`ViewProofs`, on the four state machines of DashboardView:

* `PreviewsShown`, from the typing of the fetches and the property; `TypedIsKept`, for
  any words, files, channels and requests.
* `ReactionFieldsAgree`, for any finite set of users: the set, the count and the own
  mark of a reaction agree and the count stays a natural number, although responses
  flip and events set them. It is not a property of a run; `ReactionsAreTrue` is the
  stronger question, whether they also agree with the backend (`ShownIsTrue`).
  `TruthInv` follows the events: they are numbered, the newest one of a user
  tells what the backend has (`NewestTells`), and of whom no event is on its way, and
  nothing is in doubt, the truth is shown (`QuietIsTrue`). That events are removed and
  applied in any order is harmless because an older one than the last seen is dropped.
* `ListIsTheLog`, `OthersAreShownOnce` and `HistoryHasNoHoles`, for any page size, any
  number of messages and any budgets (`ChatAssumption`: they fit together).
  `ChatInv` has four parts besides types. `LoadHolds`: a first page that has
  arrived holds exactly what was seen from some message on. `AlmostOnce`: only own
  messages are in the list twice. `ListTells`: what the list lacks is on its way, and so
  is the removal of what it has too much. `HistoryHolds`: what is older than the first
  page is in the list from some message on, down to every offset that is asked for or
  will be. Pages are cut out of the log with `Nth` and the folds of `Chat` are only
  used through what their results contain (`PickedIs`, `JoinedIs`, ...), so no induction
  over sequences is needed.

`PageProofs`, on the pages and dialogs, each for any tournaments, servers, members,
roles and numbers of requests:

* `ButtonsComeBack`: the invariant adds that only an automatic resolution is ever
  cancelled (`OnlyAutoIsCancelled`) and that flags of closed dialogs have their
  requests too (`FlagsHaveCauses`).
* `FormsGoHome`: an open form is of the tournament that is shown (`FormIsOfShown`), and
  what is loading is of the page that asked (`LoadsAreOfTheirPage`).
* `PagesAreCurrent`: while loads have not crossed there is one at most, and what it
  brings, like what is shown, lacks nothing but actions whose response is still to
  come (`Matches`), each of which loads again.
* `MemberRowsAreCurrent`: a row that is not in doubt is the backend's, unless one
  request is changing it (`Alone`), which started from a true row and is what the
  backend has then (`Explains`).
* `EverySubmissionIsListed`: what the backend has accepted is in each list, or that list
  is being loaded and every answer to come has it (`Tells`).
* `EditorIsNeverBlank` and `SavesSpareOthers`, from one invariant, `SettingsInv`. The
  first needs `NewRoleIsNew` (the new role is nowhere before it is created, and that
  happens once) and `ListsAgree` (what the editor is open for is in the list and in
  the answer to come). The second needs `ChangesAreEdits`, that a form differs from
  what it was filled from only where the user edited it, so the partial body of a
  save does too, and, since a profile form that shows the same values is not filled
  again, `SaveIsSeen`, that a save which has returned did change the profile.

`ShellProofs` proves, for any servers, channels, openings and numbers of clicks
(`ShellAssumption`; `OpeningsAssumption`, that a session begins at a route of the app):

* `UserLands`: `Spec => []Lands`. `LandsInv` says of every request in flight how it
  fits the address and the active pair (`Fits`), that what was heard from the backend
  is still so while it only grows (`Honest`), that the index page is being left
  (`RootIsLeft`), and that a server or channel which is not the user's has a request in
  flight that will lead away from it (`ServerAgrees`, `ChannelIsThere`). Every
  navigation, whatever started it, keeps the invariant by one lemma (`NavigationKeeps`).
* `LastClickDecides`: `Spec => []LastClickCounts`. `ClickInv`: the last click is being
  handled and no other handler is at work (`Pending`), or it was, and nothing in flight
  leads away from where it ended (`Handled`, `Leaving`).

What the proofs changed in the model. `LastClickCounts` was false outside the bounds of
its first run: the user joins a server whose address is open already while
an answer of loadServers that is older than the membership is leading away from it. The
exception is now a part of the property (`Leaving` in `overtaken`), and the run has that
opening. `NoHoles` has an exception for a message that is announced after the list
was loaded anew without it (`outlived`), which the run now reaches (`Late`). In
`ServerSettings` the new role is created once (`minted`), since its id is new.
`Bracket` doubles with a recursive function, `PowerOf2`, instead of `2^k`, of which the
provers know nothing, and sorts with one instead of a fold.

Only model-checked: all liveness (`Finishes`, `JoinEnds`, `SidebarCatchesUp`,
`PagesSettle`, `TypingEnds`, `Settles`), since liveness under fairness and `ENABLED` are
beyond the prover. Every invariant and every safety action property of a passing run is
proved.

## What is not modelled in the tournament domain

The reports table with its disputes (written, never read back into play), scores,
final ranks and timestamps, wording and paging of lists, published events, team
tournaments, a start that is still in flight while play has begun, and seeds edited
after a cancellation. `Registration` stops at the start: match results, which also
complete a tournament and mark its entries, are `MatchPlay`'s.

## What is not modelled in the front end

* How things are drawn, scrolled, filtered and worded; the bracket drawing; the
  picture grid of a voice room with its microphone, camera and screen toggles, which
  only call LiveKit on the room that is shown.
* Direct messages and the member panel, which render mock data or what AppShell
  hands them. The chat panel of a voice channel (ThreadPanelChat) is a simpler sibling
  of DashboardView, without events and paging, and is left out too.
* The automatic login from stored credentials: no code stores them.
* The invites tab of the server settings, the question before closing it, and the
  contents of uploads.
* The content of an edited message that arrives as an event, desktop notifications.
* Numbers of the tournament form are whole; a fractional `max_participants`, which the
  form lets pass and the backend refuses, is not represented.
* The `.js` and `.d.ts` files next to the sources: build output of the same code.

## What is not modelled in the back end

Recording, the presence store and the delivery of notifications, membership, roles
and permissions, messages, friends and blocks, teams: each is listed in
`PROJECT.json` with its reason, and the worst hazards at their lines, without a
property. Others of the same kind, left out of that list for its length: two additions to a
team at once exceed its size; two starts of a recording at once; a stop that
overwrites what a webhook wrote; a webhook before its row; two joins of a server at
once; a presence key registered before its connection; a typing timer that fires
while it is replaced; attachments reused by two messages; two directions of one
friendship. Users, storage, rate limiting and the response cache have little
behaviour of their own.

## Plan

1. (done) `Bracket`, `BracketGeneration` with their proofs; `Registration` over `TournamentRules`;
   `MatchPlay` with its proofs.
2. (done) `RegistrationProofs`.
3. (done) The front end: `Voice`, `VoiceSidebar`, `Session`, `Badges`, `Chat`,
   `Reactions`, `Composer`, `Previews`, `Shell`, the pages and dialogs, each safety
   property of theirs with its proof.
4. `Recording`: the start and stop handlers, LiveKit as an external service, webhooks
   in any order, crashes. Abstract specification: the life of one recording.
5. `Presence` and `NotificationDelivery` (broker with redelivery, dispatch, receipts),
   composed; then `Badges` and `Chat` over that service instead of over any order.
6. `Membership`, `Permissions` (masks against their union), `Messages`.

Constants are declared with named assumptions, one action per statement or stretch
of code, and no module that has or may have proofs uses a `RECURSIVE` operator.
