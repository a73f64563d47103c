# DevCrew ("Team") — formal models

Team is a local group chat in which an operator talks to AI personas. A post
tags some personas; each tagged persona takes a *turn*, that is, one run of a
command-line tool (claude or codex) which resumes the persona's own session in
that room; personas may tag each other, which starts a bounded *deliberation*.
One Python process serves it: an asyncio event loop for the WebSockets, a thread
pool for REST, one SQLite connection.

The modules here model what is hard to get right in that: who speaks next and
when it ends, what each turn knows, what happens to turns, processes and records
when something fails half-way, how one run of a tool is read to its end, what
concurrent requests, crashes and the migration script leave in the tables, and
what the browser shows after room switches and lost connections.

## Running the checks

    tlc -config Deliberation.cfg Deliberation     # and so on, see "Runs"
    tlapm DeliberationProofs.tla
    tlapm TurnsProofs.tla                         # and so on, see "Proofs"

## Inventory

| part (under `src/app`) | state it keeps | operations | talks to |
|---|---|---|---|
| `services/deliberation.py` | budget, wave and run counts, pending requests, who spoke last | observe, next_wave, closing_turn, observe_close, summary | called by the orchestrator only |
| `services/orchestrator.py` | generators: where a post and its turns stand, sinks, a queue | post_message, send_control | everything below; yields events to the socket |
| `services/run_scope.py` | open run records | enter, exit | repositories, run log |
| `services/session_store.py` | activity tokens per (room, persona) | mark_active, mark_done, is_busy, reset_session | REST threads and sockets |
| `services/transcript.py` | none | delta_messages, own_successful, assemble_context | called for each turn |
| `api/ws.py` | per socket: the frame being served, active tokens | serve, post, command | orchestrator, session store |
| `api/routes_*.py`, `app_factory.py` | none | REST, on pool threads | services |
| `harness/process.py` | child process, stderr buffer and its task, time limit | run_process, AsyncioProc | the operating system |
| `harness/claude.py`, `codex.py`, parsers | none | build arguments, parse lines | run_process |
| `persistence/db.py`, `repositories.py` | one connection, a lock, a nesting count; the tables | query, execute, transaction | SQLite |
| `services/rooms.py`, `personas.py`, `authors.py` | none | create, update, delete, membership | repositories |
| `services/persona_seed.py`, `scripts/migrate_personas.py` | none | seed at startup; merge copies, rename, seed in one transaction | repositories |
| `web/js/main.js`, `ws.js`, `transcript.js`, `console.js` | current room, socket, retries, messages shown | switch room, reconnect, reconcile | REST, WebSocket |

What makes each part correct, and what is hard about it:

* **Scheduler.** It ends, never overspends, keeps the last run for the closing
  turn, drops no request, and says truthfully why it stopped — over arbitrary
  sequences of replies. A unit test tries a handful of sequences.
* **Turns and sessions.** What a turn is shown comes from two places, the delta
  of the transcript and the memory of the resumed session. They fit only if the
  pointer saved with a session covers exactly what that session was told, across
  both reply modes, failures, /compact and /clear, other sockets, resets on REST
  threads, dropped sockets and restarts.
* **A post.** Turns are async generators nested five deep. They are suspended
  while an event is sent, closed when the client leaves, cancelled by time limits
  and left by exceptions; rows vanish under them. Every outcome has to be
  reported, and every token, record and process released.
* **One run.** The child fills two pipes, hangs, exits, or leaves a helper that
  keeps the pipes open, while the reader is timed out, closed or cancelled.
* **Database, services, startup, migration.** A request is several statements,
  each committed by itself, on one connection shared by threads; a row read by the
  first may be gone at the last. Only a message with its quotes, and the migration
  script, run in a transaction. Whatever comes between two statements (another
  request, a turn, a crash, a refused constraint), what is committed must make
  sense: references, runs with an end, replies with the run they came from.
* **Web client.** A room switch awaits four times before it opens a socket; answers
  arrive after the next switch; a socket drops, retries, gives up or is torn down;
  a message is on the screen before the server has it. In the end the screen has
  to show the room, its members and its messages, and no ghosts.

`PROJECT.json` lists every hazard at its line, with the properties that cover it.

## Modules

### Deliberation — `services/deliberation.py`

One variable per field of `DeliberationScheduler`, and one action per call and
outcome: `ObserveFailure`/`ObserveReply` (observe), `IssueWave` and
`StopQuiescent`/`StopWaveCap`/`StopBudget` (next_wave, whose three early returns
are tested in this order), `CloseNatural`/`CloseForced`/`CloseNone`
(closing_turn), `ObserveClose`. `phase` and `due` are the protocol of the caller,
`_run_deliberation`: it observes the targets in routing order, then each wave in
its order. The ordered dict `_pending` is a sequence without repetition. A reply
is any ordered set of eligible mentions; mentions that code filters out before
(self, @everyone, unknown handles) do not reach the scheduler.

### BoundedConversation — the abstract promise

Four variables: runs left, is there an owner, was anything delegated, how it
ended. `Deliberation` implements it under
`left <- budget, owned <- Closer # None, opened <- delegated` and `ending`, which
is "open" until closing_turn decides. Waves, requests and outcomes are hidden.
What it adds to the invariants is the *shape* of the talk: delegations never take
the kept run, and nothing follows the end.

### Turns — `orchestrator._run_turn`, `send_control`, `transcript.py`, `reset_session`

The `message` table as a log of (author, error marker or not), the
`persona_session` table, and the turns in flight of each socket (`Drivers`). A
turn copies session and snapshot when it begins, adds its reply when its run ends
(`Reply`) and saves its session in a second step (`SaveSession`): no await lies
between them, so only REST threads and crashes can (`LoopFree`). PARALLEL workers
share the snapshot of their post, SEQUENTIAL and deliberation turns read the
transcript anew. `harness` is history: what each session of the tool was told by
turns that completed, and after how many resets it began. Message ids are
positions in the log: insertion order and timestamp order are taken to agree.
`Crash` forgets all but the tables. One assumption is made of the tools: a
successful run that resumed nothing reports the session it opened.

### Post — `ws._handle_post`, `orchestrator.post_message` down to `_run_turn`, `run_scope`

Extends `Deliberation`; its `Plan`, `Observe`, `SkipDeleted` and `ReportClose`
take the scheduler's own actions as steps, so that the scheduler is driven as
`_run_deliberation` drives it. `stage` is where the handler is; `work` where each
persona's turn is; `outbox` the events not yet sent. In a merged wave the outbox
is the asyncio queue, and a turn goes on without waiting for it. Elsewhere it
holds the one event at which the turn's generator is suspended (`Resumable`).

Failures, each where the code has it: a run that fails or times out (`FailRun`,
`EndFailed`); a provider without a backend (`BeginTurn`, outside the try); a row
that a REST thread deleted, which makes the reply's insert, the session's upsert,
the error marker's insert or the pull-in of a mentioned persona raise
(`StoreReply`, `FailRun`, `PullInFails`); the client leaving, noticed at the next
send (`Disconnect`); the run's time limit striking while the handler sends
(`TimeoutInSend`). `Escape` is an exception leaving a turn: a worker's task
swallows it, elsewhere it ends the post. After `Disconnect` a merged wave is
cancelled and awaited (`CancelWorker`, `CloseMerged`), while any other turn's
generator is dropped and closed by the event loop later, the record first, then
the child (`DropRecord`, `DropChild`).

Who takes a turn at all is `Routes` (`services/routing.py`): a text is the sequence
of handles it mentions, the roster an ordering of the room's members, and
`Resolves` says which members become targets and in which order: as first named,
`@everyone` standing for all of them in room order, a repeated or unknown handle for
nothing. `PostInit` starts a post on any result of it.

Abstracted: a turn shows one text event (more add nothing the properties can
see); a stale pointer is a failed run (its two forms differ only in whether a
child was started); quoting, roster and prompt text are left out.

### HarnessRun — `harness/process.py`, `claude.py`, `codex.py`

A call of an adapter (`run`, or `send_command` with a command it supports or not),
then `run_process` and `AsyncioProc` as one generator (`gen`), the stderr task
(`drain`) and the time limit (`armed`), against a child with two bounded pipes.
A command that is not in `supported_commands` is refused, and a spawn may fail
(`NotStarted`), both before there is a child. The child decides its next act before
it can perform it, so it may stand blocked on a full pipe. A helper may inherit its
pipes and end at any time. A line holds none, one or several events; run_process
yields them one at a time (`pending`) and may be closed between any two. Three
choices are left open because the code does not settle them: whether the loop has
already seen the child's exit when kill() reads `returncode` (`MaySee`), whether
`Process.wait()` also awaits the end of the pipes (it depends on the Python
version, `waitsEof`), and where a cancellation strikes. A cancellation that meets
the await on the stderr task cancels that task and is swallowed, as in the code;
one that meets kill() cuts the clean-up short.

The child, its pipes and its helper are external; the rest is translated from the
files.

### Parsers — `claude_parser.py`, `codex_parser.py`

What the two parsers make of a line: how many events, and whether it names the
session. claude names it on every object, codex once. The lines that `HarnessRun`
offers include ones with blocks or items no parser knows, with two events, with
none, non-JSON noise, and a line beyond the reader's limit. The text of events is
left out.

### Tables — `schema.sql`, `repositories.py`

The tables as one value and each writing statement as an operator from a database
to a database, with the cascades of the schema in it; what a key refuses is a
predicate of its own (`HandleFree`, `MemberAllowed`, `QuotesAllowed`, ...). Columns
that are only stored are left out: a persona row is its handle (base and number of
`-copy`), whether it has the seeded human name, and is_template. Uuids are fresh
numbers and times are the order of the numbers.

### Migration — `scripts/migrate_personas.py`

The rules of the script as operators on the tables: which rows are copies, which is
their original, what re-pointing does where both have a row for the same room
(`RepointRows`), renaming, what is missing.

### Server — `app_factory.py`, `routes_*.py`, `db.py`, the services, the script

Composes `Tables` and `Migration` with everyone who writes. `db` is what the
connection sees, `disk` what is committed, `tx` who is inside `transaction()`. A step
is one statement, since `query` and `execute` hold the lock for just as long;
`Execute` commits outside a transaction and does not inside one. While a
transaction is open nobody else gets the lock, so other steps require `tx = "none"`.

* Startup: `Start`, `SeedAuthor`, `ListPersonas`, `SeedPersona`, `Serve`, each row
  committed by itself.
* REST: `req` holds, for each thread of the pool, the request and what it read.
  Adding a member, creating a room, duplicating and PATCH take several statements;
  `StartOnRoom` and `StartOnPersona` are the read that answers 404 otherwise.
* The loop: `Post` and `Quote` are the two statements of a message with quotes;
  `StartTurn`, `Reply`, `CutTurn`, `SaveSession`, `LeaveRun` those of a turn, of
  which the loop lets go only while the tool runs.
* The script: `StartScript`, `MergeCopy`, `Rename`, `SeedMissing`, `EndScript`, which
  commits, or rolls back for `--dry-run`.
* `Crash` returns to what is committed.

The initial states are two stories: requests, posts and turns run on a small install
that has served before; startup, crashes and the script on an empty database and on
every install that duplicating personas and letting them speak may have left,
including copies whose original was deleted.

### RoomClient — `web/js/main.js`, `ws.js`, `transcript.js`, `composer.js`

A step is what runs from one await or event to the next. `switch[t]` is the
`selectRoom` call with token t and the await it stands at; `flight` the
`refreshMessages` calls under way, of a switch or of a handler; `sock[t]` the socket
that switch opened. A refresh asks for two lists, each for the room active when it
is asked, and paints without looking at the token, as the code does; its answer is
some length the list had since it was asked. `wire` and `uplink` are the frames in
each direction, lost when the socket is. `Switch` is the user's click, `Lose` the
close event, `TimerFires` the retry, `Reconnect` the button.

A failed refresh leaves what was on the screen, and an answer that was overtaken (by
a switch, or by a longer list of the same room that was painted before it) is painted
all the same, until the next refresh: `spoiled` remembers that, and `NoGhosts` speaks
of the screens where neither happened. `told` is the history it is measured against:
the length of the active room that a delivered frame told of, and that of the last
list painted in its turn. The server and the network are external.

### MCTurns, MCServer, the proof modules

`MCTurns` adds the symmetry set for the safety runs of `Turns` (sockets and
personas are interchangeable there: no definition orders them), `MCServer` that of
the threads of the pool. The other models are run as they are. The theorems of a
component are in a module of their own: `DeliberationProofs`, `PostProofs`,
`TurnsProofs`, `HarnessRunProofs`, `RoomClientProofs`, and `ServerProofs` with the
lemmas on statements in `TablesProofs`. `OneSocketProofs` goes on from `TurnsProofs`
with what holds only in a room that one page has open.

Operators that no definition uses, placed just before the one they resemble
(`ReserveForgotten` before `Reserve`, `PointerAtReply` before `PointerAfter`, …)
are plausible mistakes. `PROJECT.json` pairs each with the property that catches
it when it takes the place of its neighbour.

## Runs

| run | instance | result | shows |
|---|---|---|---|
| `deliberation` | 3 personas, 4 runs, the program's 3 waves; 6,408 states | holds | budget, reserve, coalescing, honest stop, termination, refinement |
| `turns_alone` | 1 socket, 2 personas, log up to 5 before a turn starts | holds | each message reaches each persona exactly once, pointers only advance |
| `turns_shared` | 2 sockets, 1 persona, 1 reset, disconnects, restarts | holds | nothing another author said is missed |
| `turns_own` | 1 socket, 1 persona, 1 reset | **violated**: `OwnRemembered` | after a reset a persona forgets what it said itself |
| `turns_reset` | the same | **violated**: `ResetHonored` | a turn in flight undoes a reset |
| `post` | 3 personas of which one without backend, both modes, delegation on and off, 2 runs and 2 waves, 1 deletion, slow client; 285,695 states | holds | every turn reported and written by turn_complete, one turn at a time outside a merged wave and never two of one persona, nobody stays busy, all is released |
| `post_mentions` | PARALLEL, 2 personas, no fault | **violated**: `MentionsMet` | a mention between initial targets is lost |
| `post_isolation` | SEQUENTIAL, 2 personas, one without backend | **violated**: `Isolation` | one persona aborts its siblings |
| `post_reaped` | SEQUENTIAL, 2 personas | **violated**: `ReapedOnReturn` | the handler returns before the child is killed |
| `harness_run` | both adapters, every call, pipes of 1 line and 1 write, 3 lines, 2 writes; 1,506,776 states | holds | a run that is done has yielded every event and reports the right session, no child survives, runs end |
| `server` | 2 requests at a time beside 1 post and 1 turn; startup, 2 stops, 2 script runs on every install; 1,712,529 states | holds | references, whole messages, traceable replies, ended runs, distinct places, no resurrection; seeding and merging |
| `room_client` | 2 rooms, boot and 1 switch, 2 retries, 1 drop, 2 writes, 2 refreshes at a time; 898,612 states | holds | one socket, of the room shown; no ghosts once all is quiet; a lost socket recovers or asks the user |

The five violated properties quote a docstring; `PROJECT.json`, "findings", has
the words and the lines.

**Bounds, and why they do.** `Deliberation` runs with the program's wave
cap and three personas, the fewest with which a wave is cut by the budget, a
request waits behind another, and a closer has two advisors. Three personas never
exhaust the program's budget of six before its third wave (the last speaker is
never pending, so a wave has two turns at most): four runs let every stop reason
occur. With four personas and the budget of six all properties hold as well (393,412
states), and the theorems cover every value. `Post` has smaller caps because its
interleavings multiply; two runs and two waves still reach every stop reason and a
forced close. `MaxDeletes = 1`, because each escape ends the post or the turn it
meets. `MaxMentions = 3` lets a text name all three personas in any order, or some
of them around `@everyone`. In `Turns`, `MaxLog` bounds the log on which a post or a
turn may *start*: five messages are two posts with answers and a command in between.
`MaxSessions` and `MaxResets` bound what would otherwise grow for ever. A reset in the
middle of a turn needs one reset; two drivers are enough for any pair of overlapping
turns. Pipes of capacity one make the child meet a full pipe at its second write; three
lines are the fewest with which a child is blocked on the pipe while an event of an
earlier line is still to be yielded and another line is in the pipe.

`Server`: two requests are the fewest that race; the small install has two members,
so that either can be deleted, re-added or reset under the turn of the other or its
own; one post and one turn meet both. Two stops and two script runs give a crash
inside startup, inside the script, and a second script run on what the first left.
Three rows of one family (an original, `-copy`, `-copy-copy`) let two copies merge
into the same original, in the same room. `RoomClient`: two switches are the fewest
in which an answer is stale, and the second may be to the room already shown. Two
writes let an echo be quoted and a frame meet a newer one; two refreshes let answers
arrive in the wrong order. `MaxRetries` is 2 instead of the program's cap: giving up
after the second failure or after the program's fifth is the same path.

`CHECK_DEADLOCK FALSE` is set for `Turns` only, where the bounds end the run.

## Fairness

* `Deliberation`: weak fairness on `Next`. The caller is one coroutine that always
  comes back with an outcome, since runs have a time limit.
* `Post`: weak fairness on `LoopStep`, the steps of the event loop, as a whole:
  when nothing else is left the loop takes one of them. Runs end (`HarnessRun`
  shows under what assumption), a send is accepted or fails, dropped generators
  are closed by the loop's asyncgen hook. The client, the slow send and the REST
  threads have no fairness.
* `HarnessRun`: the child computes unless it chose to hang; the loop runs what is
  ready; the consumer resumes or closes. The time limit is fair only where the
  child hangs or a helper holds the pipes, so `Ends` also shows that full pipes
  never *need* the limit. `Ends` assumes that helpers end: kill() and
  stderr_text() wait for the end of the pipes outside the time limit, and a helper
  that lives for ever keeps a run from ending.
* `RoomClient`: timers fire, and an attempt to connect succeeds or fails (`Connected`
  or `Refused`): `Recovers` needs no more. Nothing is assumed of the user, the server
  or REST answers.
* `Turns` and `Server` have safety properties only.

## Proofs

`DeliberationProofs` proves, for every finite set of personas, every budget and
every wave cap (the named assumptions of `Deliberation`):

* `TypeCorrect`: `Spec => []TypeOK`. The interesting part is `budget \in Nat`: a
  wave takes at most `budget - Reserve` (`WaveSizeBounds`).
* `BudgetIsConserved`, `CloseIsGuaranteed`, `StopIsHonest`. None of them is
  inductive alone. `SafetyInv` adds `ReserveKept` (while the talk may still be
  closed and something was delegated, a closer has a run left) and
  `ForcedWhileClosing`. `ReserveKept` is preserved by `IssueWave` because a wave
  leaves the reserve, and is what makes the defensive return of closing_turn
  unreachable when a close is owed.
* `RequestsAreCoalesced` and the action property `RequestsAreKept`, from lemmas on
  sequences: popping a key (`WithoutProperties`), appending requests that are not
  yet there (`ConcatDistinct`), cutting the queue (`CutProperties`).
* `ImplementsBoundedSafety`: initial states map to initial states, each step to a
  step or a stutter of `BoundedConversation`; `BoundedNeverOverdrawn` follows.

`PostProofs` proves, for any team, budget, wave cap, reply mode, number of mentions
and of deleted rows, and whatever the client does:

* `PostImplementsScheduler`: `PostSpec => Init /\ [][Next]_delibVars`. No failure
  around the scheduler makes `_run_deliberation` call it out of turn, so that its
  theorems hold inside a post; `PostKeepsBudget` and `PostIsClosed` are two of them.
* `PostTypeCorrect`, `OneTurnAtATime`, `BusyIsHonest` and `EveryTurnIsReported`, from
  one inductive invariant, `PostInv`. The properties speak of the end of a post or of
  what is on the screen; what makes them last ties together, for each persona, where
  its turn is (`work`), its run record (`RecordsMatch`), its child (`ChildrenMatch`),
  its events on the way (`EventsInOrder`) and the history (`MessagesOwed`,
  `OwedExactly`: a terminal event is owed exactly by a turn under way or by an event
  still in the outbox). `TargetsFirst` and `OneOfWave` say which personas may be in a
  turn at all at each place of the post, from the scheduler's `due`: without them a
  persona asked twice could have two turns in one record. Two turns of one persona do
  not show in `open`, a set, but in the counts `owed` and `unwritten` of the turns it
  began: `OwedExactly` bounds them by one, which is the last part of `OneAtATime`.
* `MentionsAreMet` from `MentionInv`, which adds the argument for it: in a SEQUENTIAL
  post an unmet mention stands in a reply the scheduler has still to hear of, or is
  among its requests, or its target has its turn in this wave still to come
  (`MentionsKept`), and a quiescent stop has none of them.

`TurnsProofs` proves, for any set of sockets and personas, any number of resets and
restarts, transcripts of any length, and nothing assumed but `HumanAssumption` and
`BoundsAssumption`:

* `PairsAreTold`: `Spec => []TurnsInv`, the inductive invariant. `OthersTold` speaks
  of running turns; what makes it last is a statement about every pair of a session
  id and a pointer, whether stored or held by a turn or a command that may still
  store it: that session was told all that others said up to that pointer
  (`Told`, with `Claim` for a turn whose reply is written, whose pointer is its
  snapshot). Since messages never change and sessions only learn (`Grows`), a pair
  that is in order stays so (`SessionKept`, `TurnKept`), so each action has to
  account only for the pair it writes. `ReplyKeepsInv` is the heart of it: what was
  not told before is in the delta, unless the persona said it itself.
* `TurnsTypeCorrect` (`TypeOK`) and `OthersAreTold` (`OthersTold`) follow. The
  types are not inductive alone: a command that goes on under a new id copies a
  session, which must exist.

`OneSocketProofs` proves, of `Turns` with one socket (`OnePage`), for any personas and
transcripts of any length, what the run `turns_alone` checks and two sockets break
(TLC finds each of the four violated with two):

* `NoStalePointers` (`NeverStale`) and `PointersOnlyAdvance` (`PointersAdvance`), with
  any resets, drops and restarts. While a turn is under way the stored pointer is at
  most the one it read, which lies in its snapshot (`PointersOK`): what the turn
  saves cannot be behind what is stored, as nobody else saved meanwhile.
* `NothingIsRetold` (`NeverRetold`), with any resets, if no turn is cut short
  (`~MayCrash`; a reply that was written but whose pointer was not saved is told
  again). The session that a turn resumes was told nothing beyond its pointer but what
  the persona said itself (`ConfinedOK`). That a reply told a session more must not
  touch the turn of another, so no two personas have a session in common (`Apart`).
* `OwnAreRemembered` (`OwnRemembered`), if no turn is cut short and nothing is reset:
  the prompt leaves out what the persona said itself, so its session must remember
  it, which a new session does not.

`RoomClientProofs` proves, for any rooms and any number of switches, retries, writes,
drops and refreshes in flight, from the named assumptions of `RoomClient`:

* `ClientIsInOrder`: `Spec => []ClientInv`. `OneSocket` speaks of sockets; what makes
  it last is where the newest switch stands. `SwitchesOK`: before it opens its socket
  there is none, and after its first answer its room is the active one. `CallsOK`: a
  refresh that a switch called has that switch waiting, and no other refresh has;
  without it a switch might open its socket twice. `SocketsOK`: a timer runs only for
  a socket that was lost and not closed, so a retry cannot bring back an old one.
* `OnlyOneSocket` (`OneSocket`) and `ClientTypeCorrect` (`TypeOK`) follow.
* `NoGhostsPersist` (`NoGhosts`) from `ScreenIsInOrder`: `Spec => []ScreenInv`.
  `NoGhosts` speaks of a quiet page; what makes it last is that whatever the screen
  lacks is on its way. `WiresOK`: a frame that is not reconciled is followed by one
  that is, or the server has not finished what it was sent; one that tells of a
  length tells of no more than the server has, so that a list asked for after it
  holds it. `GhostsKept`: an echo or a live bubble has a list asked for, a refresh to
  come, or a socket that was lost and asks when it is open again. `FramesKept`: what
  a frame told of was painted, or is asked for, or a list failed and every one in
  flight was asked for before that. `FreshKept`: a new Transcript is painted before
  its switch opens the socket, unless that list failed, so that a post cannot wipe a
  screen that is in order.

  An earlier form of `NoGhosts` left out a late answer only if it was shorter than
  what a frame had told of. The proof did not go through for more than the two
  refreshes in flight of the run, and TLC gave the reason for three: of two late
  answers the first is left out, the second, no shorter than the first, is not, and
  the screen is quiet and too short. The code does that (`main.js:236` paints without
  asking what was painted before); what was wrong is the exemption, which now
  compares with the last list painted in its turn.

`HarnessRunProofs` proves, for pipes of any capacity and any number of lines and
writes:

* `NothingIsLeft` (`NothingLeft`) and `StderrIsWhole` (`StderrWhole`). `RunInv` says
  at which places of run_process the child is gone, that what it wrote to stderr is
  in the pipe or in the buffer, and how the drain task can have ended at each place:
  at the end of stderr, by run_process's last step, or by a cancellation.
* `DoneMeansComplete` (`DoneIsComplete`) and `HarnessTypeCorrect` (`TypeOK`) from
  `LinesInv`: each event of what the child wrote is in a line of the pipe, pending or
  yielded, and the session it named is known or in a line still to be read
  (`EventsAccounted`, `SessionAccounted`). The events in the pipe are given by a
  running total over its lines (`Adds`) that is only said to exist: a line written
  extends it, a line read drops its first term, and neither needs an induction over
  the sequence.

`ServerProofs` proves every property the runs of `Server` check, for any team with
somebody in it beside the dispatcher (`TeamAssumption`: the stories of the initial
states need one), two distinct default authors, any number of threads, and any budgets
of requests, posts, turns, stops and runs of the script. `TablesProofs` has its
lemmas, three for a statement: what it changes (`...Does`), that it leaves the tables
sound (`...Keeps`: rows refer to rows, handles are unique, replies name a run of their
persona and room), and that it is calm (`...IsCalm`: nothing that somebody else may
still hold on to changes behind his back). On them rest:

* `ServerInvariant`: `Spec => []AllInv`. `ReferencesHold` and `ReplyTraceable` are not
  inductive: a turn writes rows that point at what it read before the tool ran.
  `TurnOK` says that while a turn is under way its run record is there and its
  pointer leads to a message of its room, unless the room is gone, and a room that is
  gone stays gone, which needs ids to be fresh (`DataOK`). `PostOK` says that inside
  the transaction of a message that message is all there is on top of what is
  committed, so that a rollback or a crash leaves a database in order. `PhaseOK` ties
  the transaction to who may be in it, `RequestsOK` and `TodoOK` say what requests,
  startup and the script remember.
* `RunsHaveEnds`, `MessagesWhole` and `PlacesAreDistinct` from `RunsOK`, `AskedOK` and
  `SeatsOK`. `AskedOK` needs that a message quotes only earlier ones, or a new
  message might pass for one that was quoted and deleted.
* The action properties `NothingResurrected` and `StartupCompletes` from the same.
* `ScriptInvariant` for the script: between two of its steps, each message, membership
  and session of the committed tables is in the open transaction with the heir of
  its persona (`KeepsReferences`, `HeirOf`), only copies are gone (`KeepsPersonas`),
  and tables that a run left are `Settled`: no copy, nobody missing, the team named.
  `MergeIsLossless` and `SecondRunIsNoOp` follow; a copy merges into its original
  only, and an original is never a copy, so heirs are not handed on twice.

All these invariants were checked by TLC, on the configurations of the runs or on
others of their size, before they were proved.

Only model-checked: `Terminates`, the liveness part of `ImplementsBounded`,
`AllReleased`, `Ends` and `Recovers`: liveness under fairness is beyond the prover.
Every safety property that a run checks has a theorem.

## Observations

Behaviour met while modelling that is worth knowing and has no run of its own:

* A crash between the two default authors leaves an install with one of them for
  good: startup seeds authors only into an empty table. (Personas are completed.)
* The script reports an orphaned copy and leaves it; seeding in the same run may
  create its original; the next run then merges. So "re-running is a no-op"
  (`migrate_personas.py:23`) is not true of that run; it holds from the first run
  that had no orphan, which is how `SecondRunNoOp` states it.
* Two members added at the same time may get the same place (`PlacesDistinct` leaves
  out such rooms).
* A cancelled run is recorded with exit code 0; the record of a crashed one stays
  open for ever (`RunsEnd` allows both).
* A refresh that was overtaken, or an answer to the persona manager, may be painted
  into a room entered since; the next reconcile repairs it.
* Quoting an optimistic echo sends an id that no row has; the foreign key refuses
  the message and the server closes the socket. The message was not stored.
* A switch whose room cannot be loaded leaves the page without a socket; the
  Reconnect button then shows "reconnecting" and nothing does.

## Not modelled, and why

Text: prompts, rendering, which characters make a mention, markdown, redaction, the
patterns of re-login. Argument vectors of the tools. Run logs and the directory
browser: plain file I/O. Configuration and logging. Read-only routes. Evals and the
mock harness: not part of the service.

Of the database: columns that are only stored (usage, timestamps, seed prompts and
their refresh, the additive column migrations, PATCH of an author's name), and the
script's backup file and report. A statement that a constraint refuses outside
`transaction()` leaves sqlite's implicit transaction open but empty, which the next
commit or rollback ends: in `Server` it changes nothing.

Of the browser: the sidebar, the consoles' subscriptions, dialogs, rendering. In
`Turns` message ids are positions: a clock set back, which reorders the transcript,
is listed as a hazard and not checked.

## Plan

Done: the scheduler with its abstract specification and proofs; the turns with theirs,
for a room that several pages have open and for one that a single page has; the post
that composes the scheduler with turns, sockets and processes, and the proofs of what
it owes its client; the run of a tool with its adapters and parsers and its proofs; the
tables with all who write them and the proofs of all that is checked of them; the room
client with the proofs that it has one socket and that no ghosts persist.

1. Theorems on how the models of a turn agree: `Post` and `Server` each take the
   statements of `_run_turn` in an order, and `Server` leaves out the scheduler.
2. The hazards that no property covers yet, each with the note that says why.
