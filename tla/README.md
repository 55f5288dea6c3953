# A verification project for Oryxa

Oryxa runs rooms in which people and coding agents talk. A room is an
append-only event log; everything else (the room in memory, what a client sees)
is a fold over it. This directory models the parts of Oryxa in which several
tasks, crashes and failures meet, checks the models with TLC and proves what it
can with TLAPS. Paths are relative to the repository.

## The system

| Component | Source | State | Operations |
|---|---|---|---|
| Event log: stores | `src/events/mod.rs` | per room a list of events; a JSONL file or a PostgreSQL table; a broadcast channel of 64 | append, since, subscribe, open, reset |
| Event stream | `src/api/mod.rs`, `src/tui/app.rs` | per connection a channel receiver and the last event sent | subscribe, replay, follow, read again after a lag, reconnect |
| Session manager | `src/session/manager.rs` | per room inbox, speakers, state, history, and a lane per agent (cursor, turn, token, handle) | submit, withdraw, cancel, close, the lane loop and its turns, rehydrate |
| Who wakes | `src/session/wake.rs` | none | which agents a message wakes |
| Shared context | `src/sharedctx/mod.rs`, manager | entries, versions, pins, rollups | append, set, pin, roll up, render |
| Decisions | `src/connector/acp.rs`, manager | pending requests, each with a reply channel | begin, resolve, finish, `--express`, cancel |
| ACP lanes | `src/connector/acp.rs` | a process per agent and room, with slots | ensure, spawn, turn, forget, close |
| Executor | `src/connector/executor.rs` | none | one HTTP or process turn |
| Registry | `src/connector/spec.rs`, `src/api/mod.rs` | agents by name; a system room that records them | register, delete, restore |
| Rate limits | `src/api/mod.rs` | a bucket per room and one in all | admit, charge, refill |
| Editor seat | `src/acp_server.rs` | a room per editor session, its follower | prompt, follow, relay |
| Terminal | `src/tui/app.rs`, `src/tui/mod.rs` | the pane, the pending list, a channel its tasks answer on | enter, leave, new, answer, `/approve` |
| Runtime, CLI, HTTP plumbing | `src/runtime.rs`, `src/cli`, `src/api` | none of their own | wiring and presentation |

How they interact. An API call runs in its own task and calls the session
manager, which takes a room's locks one at a time, appends to the store, changes
the room and nudges lanes (a channel of capacity one). Each lane is a task: woken,
it copies the inbox, takes what it has not read as one turn, runs it through the
executor and looks again. Every append is numbered under the store's lock and
then sent on one channel for all rooms, which each connection of `event_stream`
reads. A restart reads the log of every room and rebuilds the room from it before
any request is served.

What is hard. Calls interleave with lanes between any two awaits; many locks are
released between a check and its use; a lane's channel holds one token; cancel
collects tokens first and fires them two appends later; the results of most
appends inside a turn are dropped; the server stops anywhere; a client lags,
loses its connection or hangs up in the middle of an append.

What makes it correct, per component:

- *stores*: what was accepted is durable and keeps its number; the file opens
  again;
- *stream*: every event once, in order, none left out;
- *session manager*: the room is the fold of its log; no message is skipped or
  read twice; no wake-up is lost; a cancel stops the turn it found and no other;
  a close reaches every lane;
- *shared context*: the live context is the fold of the log; a rollup hides
  nothing newer than it read; versions detect a stale write;
- *decisions*: answered at most once, as the log says, and a cancelled request
  does not stay pending;
- *ACP lanes*: one process and one session per lane, none of those that answered
  left behind, and what an agent sends is recorded under the turn it works on;
- *who wakes*: an agent that is called answers, and nobody else does;
- *executor*: what a turn says does not depend on how the network cut it, and a
  check that is green foretells a turn that speaks;
- *rate limits*: no more turns than the budget, and little won by being forgotten;
- *registry*: what was registered comes back, what was deleted does not;
- *editor seat*: the panel is the log, and a prompt ends when the room is done
  with it;
- *terminal*: the pane is the log, no request is hidden, and each is answered in
  its own room.

PROJECT.json lists every component with its status, and under "hazards" each
place in the code where one of these is hard to get right.

## The modules

| Module | Models | Checked by | Proved in |
|---|---|---|---|
| `Room` | one room of the session manager, its log and its fold | `MCRoom` | `RoomProofs` |
| `LogFollower` | what `openapi.yaml` promises a client that follows a room | as a property of `EventStream` | `EventLogProofs` (safety) |
| `EventStream` | append's numbering and fan-out, `event_stream`, `follow_room` | `MCEventStream` | `EventLogProofs` |
| `EventFile` | `FileStore`: append, open, crashes and failures | `MCEventFile` | `EventLogProofs` |
| `SharedContext` | the entries of a room, their writers, summaries and fold | `MCSharedContext` | `SharedContextProofs` |
| `AcpLane` | the slot, subprocesses, sessions and prompts of one ACP lane | `MCAcpLane` | `AcpLaneProofs` |
| `Decisions` | the permission broker and the calls that record, answer and cancel | `MCDecisions` | `DecisionsProofs` |
| `Limiter` | a limiter's map of token buckets, as operators | through `Server` | |
| `Server` | the handlers that change the registry, the rooms, the keys and the budgets, and the restart | `MCServer` | `ServerProofs` |
| `EditorSeat` | an editor in a room: its follower, its panel and its prompts | `MCEditorSeat` | `EditorSeatProofs` |
| `WhoWakes` | the ladder that decides who answers a message | `MCHttpTurn` | `DecisionsProofs` |
| `HttpTurn` | the turn of an HTTP agent: its response in pieces, its parts, what `check` and a room make of them | `MCHttpTurn` | `DecisionsProofs` (what `check` says) |
| `Terminal` | the room view, its tasks and `oryxa approve` | `MCTerminal` | `TerminalProofs` |

A definition that is a plausible slip of the one that follows it (an unguarded
wake-up, a fold that forgets withdrawals) is marked *A slip* and is used by
nothing: putting it in the place of the real one breaks a property, which shows
what that property is worth. PROJECT.json pairs them.

The theorems stand in a module per component, but for two: `EventLogProofs` holds
those of the stream and of the file, which are two views of one log, and
`DecisionsProofs` also holds the two of the rules, which need little besides what
it proves anyway of finite sets.

How the modules fit together. `Room` is the core; the others see it through its
log. `EventStream` is how the log reaches a client, and `EditorSeat` and
`Terminal` start from what it promises (the next event after the last one seen).
`Decisions` and `AcpLane` open up the stretch between `Opened` and `EndTurn` of
`Room` for an ACP agent, `HttpTurn` for an HTTP one. `WhoWakes` computes the set
that `SubmitAppend` takes as any. `Server` is what lies around the rooms.

### Room

State, and what it is in the code: `inbox`, `speakers`, `closed`, `history` are
the fields of `Session`; `cursor`, `turn`, `armed`/`stop` (the cancellation token
and whether it fired) and `opened` those of `LaneState`; `wake` is the lane's
channel; `pc` is where `lane_loop` and `run_turn` are; `seen` is the clone of the
inbox that `lane_loop` makes before `Lane::take`. `members` are the agents that
`session.created` names, any of those there are: a room may have one lane or several.
`log*` is the rest of the event log, kept as the streams `rebuild_session` reads.
`call` is what each API caller is in the middle of.

One action per stretch of code between two points where another task can
intervene. `submit` is `SubmitCheck` (reads the state, lets go), `SubmitAppend`
(the speakers and inbox locks held across the append) and one `SubmitNudge` per
lane; `cancel` is `CancelCall`, a `CancelCollect` per lane, `CancelRecord` and
`CancelFire`; `close` is `CloseCommit` and a `CloseLane` per lane; `withdraw` is
one step because the inbox lock spans it. A lane goes `Recv`, `Snapshot`,
`TakeTurn` or `TakeNothing`, `TurnStarted` (or `NoAgent`), `Arm`, `Opened`,
`EndTurn`, `Finish`, `Keep`. `Restart` is the crash and `rehydrate` in one: no
request is served and no lane moves before it is done.

Left out: what a message says and who it wakes (any set of agents), what a turn
prints, the shared context and decisions (modules of their own), and callers that
hang up in the middle of a call. `AppendFails` is a store that returns an error and has stored
nothing; in `NoAgent` the same budget stands for an agent deleted while its room
lives.

### EventStream and LogFollower

`stored` is the log of each room, `held` the event a writer has numbered and not
yet sent, `sent` the channel, of which a receiver can read the last `Capacity`
events. A connection is `off`, `subscribed`, in `replay`, `live` or `lagged`.
`LogFollower` is the promise: each client gets the next event of the log and in
the end all of them. `EventStream` implements it (the run `stream_follow`) with
`accepted` as the log of the room and `got` as it is, when events are sent in the
order they were stored, that is with one writer. With two they may not be, and
one that was overtaken is lost (below, known divergences); that what is shown is
still in order and shown once is proved for any number of writers.

### EventFile

`disk` is what was written, `synced` how much of it a power failure leaves,
`mem` the projection readers see. Number, line, sync and projection are separate
steps under one lock. A caller may hang up at any await (`Drop`), and its write
may land later (`Lands`: tokio hands file writes to a pool); writes and syncs
fail; a crash keeps a prefix of what was not synced, its last line perhaps cut.
`Open` refuses a file that does not parse or whose numbers are not 1, 2, 3...

### SharedContext

`entries` is `sharedctx::Store`, `lock` the session's `context_write`, `call` what
each API caller (or turn applying its context rules) is in the middle of, `task`
the summary being made of a key, which is also the manager's set `rollups`.
`folded` is what `rebuild_session` would make of the log: the fold goes event by
event from the left, so it is kept as the log grows instead of the log itself. An
item, a value and a summary are the numbers of their events; a summary also holds
the items it was made from (`read`), which the code turns into text.

`append_context` is `AppendLog`, `AppendApply` and, for `maybe_rollup`, `Look` and
`Claim`: nothing is held between them. `set_context` is `SetCheck`, `SetLog` (or
`SetFails`) and `SetApply` under `context_write`; `pin_context` is `PinLog` and
`PinApply`. A summary is a task: `RollupLog` and `RollupApply`, or `RollupFails`.
A write refused as stale changes nothing and is not a step. `sets`, `won` and
`overtaken` are history: the value writes of the log, those that named a version, and
of each key the events that were applied after a later one.

### AcpLane

`entry` is the executor's map (one lane of it), `holder` and `kept` the lock of a
slot and the client in it, `at`/`slot`/`client` where each of three callers is:
the warming task of a new room, the lane of the session manager, and the close of
the room. `proc` is `run_lane` with its subprocess: its queue of commands, the
prompt it waits for (`active`) and the prompts the agent still works on (`busy`).
`ensure_lane` is `Lookup`, then `Reuse`, or `Spawn` and `Spawned` with the slot's
lock held in between; `turn` is `Send`, the answer, and `Forget`/`Forgotten` when
the lane is found gone. Whoever is dropped, by a cancel or a timeout, lets go of
what it held (`LetGo`). The first open of a lane leaves its session in `handle`, and
`Record` appends it to the log, or fails to, which the code does not look at;
`recorded` is what a restart finds there. A process dies at any step, answers late
or never, and the server restarts with the session of its log. `late`, `forgot` (a
restart lost a session whose record had failed), `mixed`, `overran` and `told` are
history. `Stray` is a process that answered its start and that nobody can use
(`Usable`): no caller has it or its slot, and what is left in the executor's map when
a room has been closed is nobody's.

### Decisions

`pending` is the broker's map, `box` a request's reply channel, `waiter` the task
that answers the agent, `part` the part on its way to `record_part`, `call` the
resolves in progress, of clients and, under `--express`, of the lane itself,
`stop` the cancel. Between two awaits a step: a client's resolve is `Look`,
`LogRequest`, `Resolve`, `LogResolved`; the agent's request is `Ask`, then
`Pick` and `Finish` of its task. A failed append is `NotStored`; what the code does next
after `?` and after `let _ =` differs, and so do the actions.

### Limiter and Server

Time is counted in ticks and tokens in units of which a tick refills a whole
number, so that the fractions of the code are exact. `registry`, `rooms`, `keys`
and the two maps of buckets are what the server keeps in memory, `syslog` and
`invited` what its log says of it. Each handler is cut at its awaits:
`register_agent` enters and then logs, `delete_agent` looks, removes and logs,
`create_scoped` logs and then enters, `record_invite` likewise, and `submit` is
`Admit`, `Accept` and `Charge`. `Breaks` is a caller that hangs up or an append
that fails, `Restart` is `Runtime::bind`. `doubtful` and `stranded` are history:
the names and rooms a racing or broken call has left uncertain, which the
properties except by name. `Restored` is written in the closed form `Replayed`, the
last entry about each agent, so that it can be proved about; the `ASSUME`
`FoldIsReplayed` of `MCServer` has TLC compare it with the loop of
`restore_agents`, entry by entry (`Replay`), on every log of up to three entries.

### EditorSeat

The room is kept to messages, turns that start, speak and end, and a restart.
The follower is `phase`, `since`, `running`, `started` and `speaking`, the
editor's side `panel`, whose blocks keep the numbers of the log entries they came
from. `loaded` is history: the editor came by `session/load`, was shown the first `hist`
entries and then followed from `from`, which the code asks for anew and which may be
another number (`Split`). A prompt is posted, and waits: `Hears` when the follower
told it of a change, `GivesUp` after six seconds without an answer, `Stops` when
cancelled. `slot` is the one place the session keeps a prompt's token in, which a
second prompt overwrites.

### WhoWakes and HttpTurn

Pure rules, checked over every short input. `Decision` is the ladder of
`who_wakes` rung by rung; the property says the same without a ladder
(`RightlyWoken`), as `docs/integrating.md` describes it. Agents, people and
addressees are sets: in which order they are listed decides nothing but the order
of the agents woken, which share nothing. `HttpTurn` takes a body symbol by
symbol or in any pieces, as `read_sse`, `read_ndjson` and `read_json` do; the
property compares the parts it has emitted with those of the whole body. A JSON
value is told apart only by what the connector's selectors find in it. `CheckResult`
is what `oryxa check` says of such a turn and `RoomTurn` what a room makes of it;
`CheckForetells` compares the two, since `docs/integrating.md` 47-48 promises that
what is green has happened as it will in a session.

### Terminal

`screen` is the view's mode and pane, `inbox` the channel on which its tasks
answer, `followers` the tasks that follow a room (one per visit; an earlier one
may still run), `tasks` the loads and creations on their way, `calls` the answers
being posted. `waiting` is the set of requests each room waits for an answer to, and
`Listed` what the server makes of it: the broker's `pending` sorts by time, which
is the order in which the room's log asks (`acp.rs` 573). What a room
goes through is one of `Lives`; `TerminalAssumption` says of them that no request is
asked twice and that no turn starts after its own end (`IsLife`), since the server
makes a new name for each. A cancel of a lane logs that it is about to end a request
("cancelling"), on which the view loads its list as it does when one comes or is
answered. `Handles` is `on_message`, the other actions are keys. `mixed` and
`stale` are history and mark the two cases in which the code does not keep what
the properties say (below).

## The runs

| Run | Instance | Checks | Result |
|---|---|---|---|
| `room_lanes` | 2 callers; 2 lanes and 1 message or 1 lane and 2 messages; 1 cancel, 1 fault | `ReplayAgrees`, `CloseReachesEveryLane`, `CancelledWasAsked` | holds |
| `room_live` | 1 agent, 2 callers, 2 messages, 1 crash, fairness | `NothingSkipped`, `ReadsInOrder`, `NoLostWakeup`, `InterruptedNotRerun`, `WithdrawnStaysUnread`, `EveryMessageRead`, `ClosedRoomEmpties` | holds |
| `stream_follow` | 1 writer, 2 rooms, 1 client, channel of 2, 3 events each, 1 lost connection, 1 restart, fairness | `ShownOnceInOrder`, `FollowsLog` | holds |
| `event_file` | 2 callers, 4 appends, 1 hang-up, 2 crashes, 1 fault | `AcceptedIsDurable`, `NumbersAreStable`, `StopLeavesValidFile` | holds |
| `event_file_sequence` | 2 callers, 3 appends, 1 hang-up | `WritesInSequence` | violated: a number is written twice |
| `context` | 2 callers, 1 key, 6 events, 1 restart | `NoLostUpdate`, `EntrySurvives`, `CoveredWasRead` | holds |
| `acp_lane` | 3 callers, 2 turns, 3 processes, 1 death or restart, 1 cancel or timeout, fairness | `OneProcess`, `SameSession`, `PartsOfTheTurn`, `NoStray` | holds |
| `decisions` | 2 lanes, 1 request, 1 client, `--express`, 1 fault, fairness | `GrantOnRecord`, `ResolvedIsTold`, `ExpressLeavesTrail`, `CancelEndsRequests` | holds |
| `api` | 2 callers, 2 agents, 2 rooms, 3 calls, 5 ticks, 1 restart, 1 fault | `RestartAgrees`, `RoomsKeepAgents`, `TurnsWithinBudget`, `ForgivenIsBounded` | holds |
| `editor` | 2 prompts, 2 turns of 2 agents, 1 other message, 1 fault, fairness | `PanelIsTheLog`, `Attributed`, `AnswerIsShown`, `PromptEnds` | holds |
| `rules` | messages of up to 2 items to 2 agents and 2 people, 2 in a row; bodies of up to 5 symbols, cut anywhere, in 3 formats | `WakesWhoIsAsked`, `PiecesDoNotMatter`, `CheckForetells` | holds |
| `terminal` | 2 rooms in 4 scenes of up to 8 events, 2 visits, 2 answers, 1 fault, 2 calls on their way | `PaneIsTheLog`, `NothingBuried`, `AnsweredAtHome` | holds |

Why the bounds are enough. In `Room` two messages make every relation there is
between a message and a lane's position (read, copied and not taken, arriving
while the lane parks); the lanes of a
room share only the inbox, the state and the calls that visit them, so two lanes
and one message show whether a call to one disturbs the other. One lane and two
messages, in the same run, make a second turn for a cancel to hit that was begun
in the first (a cancel that keeps lanes in place of tokens, `StopLanes`, is found
there). `room_live` has one lane and no cancel: its questions are about reading and
ending, and a restart; a second crash starts from a room the fold made, which the first
reached already with less in its log. In `EventStream` a channel of 2 with 3
events in each of two rooms overflows during replay, live and while a gap is
being read. In `EventFile` four appends allow one before a failure, the failure,
one after, and one after the restart. In `SharedContext` a prompt shows one item
and one more makes a summary due (20 and 10 in the code, where only their being
positive matters); six events make a list, a summary of it, more items and a
second summary, with a pin or a restart between; keys share nothing but the log's
numbers, and several are covered by the theorems. In `AcpLane` two turns make one
that disturbs the next, and three processes the one of the warming, its
replacement and one more; a slot number is free again when nobody refers to it.
In `Decisions` a request is answered by a client, by `--express`, by a cancel and
by the end of its turn at once; requests share only their turn's token and the
cancel that visits them, and a second lane is there to be cancelled alone or
together. In `Server` three calls make every pair that overlaps and a third that
finds what they left; five ticks empty a bucket, put it in debt, refill it and pass the
time of eviction, with room for one bucket before idle ones are dropped; at one
turn a minute for a room, two lanes a message and two callers, a room can owe more
than it has earned back by then. In
`EditorSeat` two prompts share the slot, and two turns overlap, one failing. In
`Terminal` each scene is one question: agents that speak at once while the room
is left and entered again, two requests that wait at once, a request in each of
two rooms, and calls that fail. Symmetry is used only in runs
without temporal properties over behaviours and only over callers, rooms, writers
or agents that are interchangeable.

Deadlock checking is off where callers need not call, so that an idle system with
its bounds used up is a legal end.

Fairness is weak and per task: tokio polls every task that can make progress;
every open and every turn is under a `tokio::time::timeout` (`manager.rs` 971 and
1020), so a turn ends; `follow_room` and the editor's `follow` reconnect in
endless loops; timers fire. In `AcpLane` and `Decisions` the agent and its process
owe nothing: they may never start, answer or end. `CancelEndsRequests` holds all the
same, and `NoStray` of processes that have answered their start: nothing ends one
that never does (divergence 16). No caller is assumed to call.

## Known divergences

Where the code does not do what a document, a comment or the property's own first
form says. The first is a run of its own with a finding in PROJECT.json; the
others are what a property had to except, or what the models showed on the way,
and the counterexample returns when the exception is taken out.

1. An append dropped or failed between write and projection leaves a line the
   next append's number collides with; the next `open` refuses the file
   (`events/mod.rs` 240-242; run `event_file_sequence`).
2. `turn.started` is appended with its result dropped (`manager.rs` 938). If the
   append fails, the turn runs, and after a restart its messages are given to the
   agent again, against the comment at 206-208. `InterruptedNotRerun` speaks of
   turns that are in the log.
3. `submit` checks the state before it appends (`manager.rs` 376): a message can be
   accepted after `session.closed`; no lane will read it, though `openapi.yaml` 253
   promises a 409.
4. The store's lock is released before the event is broadcast (`events/mod.rs`
   116): two events of a room can be sent in the other order, and a connection
   drops the earlier one, against `openapi.yaml` 537-538. So `FollowsLog` is
   checked with one writer.
5. `append_context` takes no lock (`manager.rs` 710-720), and two events of a key may
   be applied in the other order than they are logged. With a racing `set_context` on
   a new key, log and memory then disagree on which came first, and so on what the
   entry is, against `openapi.yaml` 442; `EntrySurvives` excepts such keys. With another
   `append_context`, items 1 and 2 are applied as 2 and 1, a summary may be made of 2
   alone and dated by it, and when one more item joins 1 counts as
   summarised although no summary read it (`sharedctx/mod.rs` 236-239 and 265-275 compare
   numbers), against "items a rollup covers are represented rather than missing"
   (`docs/integrating.md` 504); `CoveredWasRead` excepts the items that were
   applied behind a later one (`overtaken`), and no others.
6. A warming task that comes to its spawn after the lane has opened, found its
   process dead and forgotten it, spawns a process with a session of its own, and
   the next turn may speak there, against "One session belongs to one lane"
   (`docs/integrating.md` 194). `SameSession` excepts it (`late`).
7. A restart fails running turns in memory only (`manager.rs` 1593), so an editor's
   follower counts them as running for ever, and a prompt that waits for quiet
   after an answer does not end (`acp_server.rs` 422-434). `PromptEnds` excepts a
   room in which a restart has lost a turn.
8. `/new` shows the form without dropping the follower of the room (`app.rs` 575).
   Entering that room again starts a second one, and the pane shows each line of
   the log twice. `PaneIsTheLog` excepts it (`mixed`).
9. Two loads of the pending requests may answer in the other order than they were
   asked; the older list replaces the newer, and a request that waits is off the
   screen until the next load, against the comment at `app.rs` 417-419.
   `NothingBuried` excepts it (`stale`). The same list is replaced under a
   selection that is an index (`tui/mod.rs` 210).
10. A room created while one of its agents is being deleted keeps an agent that is
    not registered (`api/mod.rs` 427), a registration whose append fails is gone
    after a restart (410), and two racing calls for one name can be logged in the
    other order. `RoomsKeepAgents` and `RestartAgrees` except them (`stranded`,
    `doubtful`).
11. The last line of an SSE body without a newline is lost, where NDJSON keeps it
    (`executor.rs` 466-500). `PiecesDoNotMatter` takes it as what the response
    means.
12. An answer of blank text only passes `check` without a warning (`executor.rs` 298,
    310 look at its length), and a room's turn with it is reported as `turn.empty`
    (`manager.rs` 1098), against "warnings for the ways a connector can pass while
    being quietly wrong" (`README.md` 136-138). `CheckForetells` excepts it.
13. `check` gives the turn of an ACP agent no timeout and closes its lane only when it
    returns (`executor.rs` 270): an agent that asks for permission, which nobody can
    answer there, holds it for ever, and a caller that hangs up leaves the process
    until the server ends. `NoStray` speaks of the callers of a room, whose turns
    time out and whose close is called.
14. A turn without text writes what its selector rules find in the raw parts
    (`manager.rs` 1086, 1644-1653), against "Neither case fails the turn or writes to
    shared context" (`docs/integrating.md`, "A turn that finishes without saying
    anything"), which holds of `$text` rules only.
15. The result of the append of `session.opened` is dropped (`manager.rs` 995-1008). If it
    fails, the lane speaks its session until a restart, and another one after it, against
    "One long-lived subprocess and one ACP session belong to each room-agent lane" and
    "rather than starting the conversation again" (`docs/integrating.md` 194-196).
    `SameSession` excepts it (`forgot`).
16. An agent's process that never answers `initialize` or `session/new` stays until the
    server ends when the turn or the warming that spawned it is dropped: only the wait
    for the answer is, and the task that runs the process goes on (`connector/acp.rs`
    268-295, 400-439). `NoStray` speaks of processes that have answered. It also excepts
    one spawned after the close of its room has taken the lane out of the executor's
    map (159-161), which puts the lane back there for good.
17. A bucket that is idle for two minutes is dropped whatever it lacks (`api/mod.rs`
    210-213). A room of one turn a minute in which one message wakes ten lanes owes nine
    turns; after two minutes it owes seven, another room's bucket drops its own, and
    its next message finds a full one. `ForgivenIsBounded` says how much is forgiven at
    most, which at the default of 30 turns a minute is something only when messages in
    flight at once wake more than thirty lanes.
18. `session/load` shows the log as it is then, and the follower asks anew where to begin
    (`acp_server.rs` 274-276): what the room says in between is not forwarded, and when the
    question fails it begins at 0 and shows everything a second time, against
    "Everything the room says is forwarded" (265) and `docs/cli.md` 76-78. `PanelIsTheLog`
    excepts sessions in which the two numbers differ (`Split`).
19. A prompt takes the start of any turn its follower has not read yet for the answer's
    (`acp_server.rs` 407, 433): when the follower is behind, it reads an earlier turn's start
    and end after the baseline, and the prompt ends before its own answer.
    `AnswerIsShown` speaks of prompts posted when the follower had read every start.

## What is proved

Everything here holds for any sets of agents, callers, writers, rooms and
clients, any capacity, any rates and any bounds (the assumptions, named
`...Assumption` in the module that declares the constants, say no more than what kind
of values they are, of `Server` that its callers are finitely many: a bound of the form "what the calls
in flight may cost" counts them; and of `Terminal` that the names of requests and
turns are made for them, `IsLife`).

- `TypeCorrect`, `StreamTypeCorrect`, `FileTypeCorrect`, `ContextTypeCorrect`,
  `LaneTypeCorrect`, `DecisionsTypeCorrect`, `SeatTypeCorrect`, `ServerTypeCorrect`,
  `ViewTypeCorrect`: the type invariants, which no run repeats. The one of `Room` includes that a turn
  which reaches the history has ended, those of `EventFile` and `SharedContext`
  that the lock is held exactly by the append, or the value write, in progress.
- `InOrder` (`ReadsInOrder`). The inductive invariant `OrderKept` adds that
  what a lane's recorded turns were given lies at or below its cursor, and that a
  turn about to be recorded begins above all of it. It survives a restart because
  the fold's cursor is again such a bound.
- `WakeupsKept` (`NoLostWakeup`). `WakesKept` says of every message for a lane
  beyond what the lane copied that a token, a submit on its way to the lane or a
  look at the inbox still to come will find it, and that the copy is an earlier
  state of the inbox.
- `CloseReaches` (`CloseReachesEveryLane`). `CloseOnItsWay` speaks of every lane
  that has not left, the busy ones included: one that parks later must find a
  token then.
- `CancelsAsked` (`CancelledWasAsked`). `CancelKept` says that a call about to
  fire has recorded all it holds, that a call closing lanes has closed the room,
  and that a lane whose token fired was asked to stop in the turn it is in. These two
  need that calls visit the lanes of the room's own agents (`OnlyMembers`).
- `ShownInOrder` (`ShownOnceInOrder`). `ShownUpToLast`: what a client has is
  increasing, and while it is connected none of it is beyond the connection's
  `last`.
- `AcceptedStays` (`AcceptedIsDurable`). `Durable` adds that the line of an
  append about to sync is in the file in full, so that the sync is what makes it
  durable, and that a crash keeps the synced prefix as it is.
- `NoUpdateLost` (`NoLostUpdate`). `VersionsInv` says that an entry's version is the
  newest value write of its key in the log, unless one is logged and not yet
  applied; that the fold's version always is; and that what the holder of
  `context_write` compared still holds when it logs. A list that appears in between
  refuses the write, and a restart frees the lock and drops the call together.
- `LogFollowed`: with one writer (`LoneWriter`) and a log that can be read, every step
  of `EventStream` is a step of `LogFollower` or a stutter, so a client is shown the
  next event and no other. `NoGap` says of each connection that the event before
  any one it may still send has been sent, is about to be replayed, or comes
  earlier in the channel.
- `NumbersKept` (`NumbersAreStable`), from `Durable` and `NextNumber`: an append in
  progress writes the number after those in memory, so it never writes one that an
  accepted event has; and a restart reads every accepted line back at its number.
- `StopIsSafe` (`StopLeavesValidFile`). `Whole` says that as long as nobody hung up and
  nothing failed the file is numbered as memory is, with the event of the append
  in progress behind it, and only an incomplete line keeps it from being opened.
- `GrantsRecorded` (`GrantOnRecord`). `GrantKept` says of a call past its record, of
  what it left in the reply channel and of what was taken from there that it was
  offered and is on record as asked for.
- `ResolvedOnce` (`ResolvedIsTold`). `BoxKept` and `GaveAnswer`: the channel is used
  once, on the request that was taken out of the map; an answer comes from it or
  from a cancel; and of several calls only the one that used it records.
- `LateWorkOverran` (`PartsOfTheTurn`). `LeftOver`: an agent works on a prompt that is
  over only if that prompt overran its cancellation.
- `OneSessionSpoken` (`SameSession`). `InTime` says, as long as no restart has lost a
  session, that before there is a handle the lane has one slot and whoever spawns into
  it holds it (`OneSlot`); from then on every process in reach, every spawn to come for
  a turn and every process a prompt was sent to speaks the handle's session
  (`SpeaksHandle`); and that a handle the log does not have was made in the turn that
  is about to record it, in which nothing was told yet, or is lost with a restart
  (`JustOpened`).
- `TextUnderItsName` (`Attributed`). `Headings`: the heading on the panel is the last
  speaker's, whatever is printed in between.
- `RestartRestores` (`RestartAgrees`). `Agree` says that memory and log say the same
  of every name and room that is not doubtful, and (`Underway`) that a call between
  the two has made its subject doubtful and, while it has it for itself, finds the
  one saying what it will make the other say. `Apart`: a call counts as alone only
  while no other call that is still on its way can change what it works on.
- `AgentsKept` (`RoomsKeepAgents`). `Kept` adds the rooms about to be entered, whose
  agents are registered, and the deletions that have looked for rooms, which no
  open one uses, unless a call that is not alone has stranded the room.
- `ReplayIsTheRoom` (`ReplayAgrees`), `NoneSkipped` (`NothingSkipped`) and
  `NoneRunTwice` (`InterruptedNotRerun`), as long as every append succeeded. `FoldKept`
  says that the room is the fold of its log (`RoomIsFold`), that a lane's recorded
  turns are its history, with the one in progress as the log's last (`LaneIsFold`),
  and that whatever the cursor has passed was given to the agent, is about to be
  recorded as given, or was withdrawn (`CursorCovered`). What the fold makes of a
  message is taken one message at a time; where its cursor stands is the largest
  number that qualifies.
- `WithdrawalsLast` (`WithdrawnStaysUnread`), lost records included. `LeftUnread` is what
  lasts: a withdrawn message that was not read and that the copy a lane is about to
  take from does not offer. A restart keeps it because what the log shows an agent
  was given it had read (`GivenIsRead`).
- `EntriesSurvive` (`EntrySurvives`) and `SummariesReadWhatTheyCover` (`CoveredWasRead`).
  `Between` says of a key none of whose events was overtaken (`InTurn`) how its entry
  leads to its fold: through the events that are logged and wait to be applied, oldest
  first (`Leads`). `Sound` says of every key that an item with a newer one before it was
  overtaken (`InOrder`), and that a summary, made or on its way, was made from every
  number up to the one it is dated by but the overtaken ones (`Speaks`), the items
  still to come included.
- `LaneHasOneProcess` (`OneProcess`). `Alone`: until a process dies or the room is
  closed the lane has one slot, which holds nothing while the holder of its lock
  spawns into it, and afterwards the only process anybody has hold of.
- `ExpressOnRecord` (`ExpressLeavesTrail`), as long as nothing fails. `TrailOf`: a
  request is given to `--express` once, after its record; until then no loop has
  asked for it and nobody declined it. `LoopCall` says the same of a loop's call
  that has not come to the broker.
- `BudgetKept` (`TurnsWithinBudget`). `Balanced` is the account: what was charged plus
  what is in the server's bucket is no more than what it began with and what time
  refilled. `Solvent` bounds the debt by the turns the calls in flight may still
  begin, a set of pairs of a caller and a number (`Ahead`, `Owed`), so that its
  size can be reasoned about without a sum.
- `EvictionForgivesLittle` (`ForgivenIsBounded`), an action property, from `Solvent` for
  every room: what an idle bucket lacks (`IdleLacks`) is at most the debt the messages in
  flight can leave, less what the idle time has earned it beyond a full bucket. Nothing
  is assumed of the rates: where the debt is small the bound is zero or less, and
  nothing is forgiven.
- `PanelIsTheRoomsLog` (`PanelIsTheLog`). `PanelInv` adds that the follower begins where
  it finds the room, with nothing shown of it yet, and says of the two parts of the
  panel, the history and what was followed, that each shows its stretch of the log
  (`Show`); when the second begins where the first ends, they are the log. What `session/load` shows is
  counted off: the k-th block is the entry of rank k among those kept
  (`RankTaken`, `RankRises`).
- `AnswerBeforeTheEnd` (`AnswerIsShown`). `Waits`: of a prompt that is the only reason
  for a turn, posted to a follower that has read every earlier start, the starts its follower has not read are of that turn, and so was one
  it read since the baseline. `RunningHeard` says that a turn whose start was read
  runs, for the follower, until its end is read; `TurnLog` that a turn's end is its
  last entry. So when nothing runs all of it was read, and `PanelIsTheLog` shows it.
- `RequestsAreAnsweredAtHome` (`AnsweredAtHome`). `RequestsKnown`: what waits in a room
  is a request of that room's life, so an answer that a view sends after it left is
  refused wherever it does not belong.
- `NoRequestIsBuried` (`NothingBuried`), as long as no load and no answer failed and no
  older list replaced a newer. `NoneLost` says of every request that waits, and whose
  event the view was shown, that the view is answering it or that it `Comes`: the
  last load on its way will be answered with it (`Asking`), or else the last list in
  the channel has it (`Saying`), or else it is on the screen. A load is asked for
  with every such event, every answer and every room entered, and which is the last
  decides, whatever the earlier ones bring. `History` ties a room's log to its life: a
  request that begins to wait was never shown before.
- `PaneShowsTheLog` (`PaneIsTheLog`). `PaneInv`: the messages of the current visit in
  the channel carry the events up to the follower's `since` that the pane does not
  show yet, each once and in order, so that the pane is the log up to `since` less
  what is owed (`Owed` counts those messages, `Shows` says what a pane of a log up
  to a number is). A message that leaves the channel makes one event less owed; one
  of an earlier visit is told from them by the visit it is from, and shown all the
  same: that is what `mixed` records. That the turns shown as running are those that
  started and did not end needs `History`: no turn starts after its end.
- `AskedAnswer` (`WakesWhoIsAsked`), for any names, texts and interests. The rung taken
  is the first that holds, the least of a set that has one (`FirstRung`), and the
  seven of them are gone through (`Rungs`); and the people of the room are the
  authors of its log, a message that could not be stored leaving no trace.
- `GreenIsSpoken` (`CheckForetells`), for any bodies. It needs no invariant: `check` and
  the room compute what they say from the same parts, and it holds of any.

Each is laid out as: the initial states satisfy the invariant, every action
preserves it (a step per action), it implies the property.

Only model-checked: everything under fairness (`EveryMessageRead`,
`ClosedRoomEmpties`, `NoStray`, `CancelEndsRequests`, `PromptEnds`, the liveness half
of `FollowsLog`), which is beyond the prover; and `PiecesDoNotMatter`, which compares
what was read symbol by symbol with what the whole body means. Both are folds and
filters of the body (`FoldLeft`, `SelectSeq`, `FlattenSeq`), and what these return for a
sequence that is one longer is itself an induction over data. Every other property
a run expects to hold is a theorem.

Induction over data is out of reach as such: the library's induction theorems take
an operator, which no prover here can instantiate. Two things stand in for it. A
set of numbers that is not empty has a least one (from `WFMin`, which takes a set), so
that a claim about all numbers is proved from its least counterexample: that is how
a fold's cursor and the ranks of a history are treated. And properties and models
are written in closed form where there is one: the last entry about an agent for a
loop over the log (`Replayed`), a rising sequence with a given set of numbers for a
filter of the log (`Rises`), the size of a set for a sum.

## The plan

Done: the room, its stream, its file, its shared context, its decisions and its
ACP lanes; the handlers and budgets around rooms; the seat of an editor and the
view of a terminal; the rules that decide who answers and what a response says.

Next, in this order:

1. Callers of `Room` that hang up in the middle of a call.
2. The handle of an HTTP agent (`session.opened`, a lost session and its retry) and
   the streams of a process agent.

## Not modelled

HTTP plumbing, headers and status codes, YAML and JSON parsing and their
validation, template substitution, argument parsing, printing and drawing: pure
functions of their input or I/O around the operations above, in which nothing
interleaves. The room's view reads one lock at a time and promises nothing of one
moment. PostgreSQL is taken for a store that numbers and keeps an event in one
step, which is what its transaction does; its availability is `AppendFails`. What
an agent does with its machine, and the identity of those who call, are outside.
