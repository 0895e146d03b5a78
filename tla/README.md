# A specification of 7dtd-panel

TLA+ modules for 7dtd-panel: for the parts in which several things happen at
once (the power sequence, the poller, the event feed, the log stream, the task
runner, the registry of servers), and for the services around them (chat bot,
caches, login, what operators do by hand, start-up, pages). TLC checks them on
small instances; TLAPS proves, for every size, every safety property and every
step property that a passing run checks, and the refinement of the event feed.
Paths below are relative to the repository.

## The system

The panel is one Go process between browsers and any number of 7 Days to Die
game servers. For each game server `internal/servers` builds one runtime:

    game server ──/api/serverstats, /api/log …──▶ Poller ──Snapshot()──▶ power, bot, tasks, API
                ──/sse log stream──▶ LogStreamer ──PublishLog──▶ Hub ──▶ browser tabs
                ◀──console commands── Controller, Bot, Runner     └──▶ Bot, Runner
                ◀──tiles, lists, pages── caches, handlers ◀── requests of browsers

| component | state | operations | what is hard |
|---|---|---|---|
| power controller `internal/power` | phase, note, a stored CancelFunc, one goroutine per sequence | Start, Cancel, run (countdown, save, stop, watch) | the mutex covers single assignments; sleeps, commands and farewells run between them; a command that failed may have been carried out; the outcome is judged by the poller's cached status |
| poller `internal/state` | Snapshot: status, last error, failure count, token verdict, timestamps, samples | Tick: stats, credentials, info, uptime, bloodmoon; what dashboard and health page make of it | five requests per tick while server, network and permissions change; the stats endpoint answers without a token |
| event hub and feed `internal/events`, `internal/api/events.go`, `web/src/hooks/use-events.ts` | ring, counter, subscriber channels; per tab the events and the numbers seen | Publish, Subscribe, cancel; replay, drain; show | backlog and channel must join without seam; slow readers; reconnects; a hub that is replaced |
| log stream `internal/sdtd/sse.go` | the cursor, lines held back | connect, backfill, deliver, release | two goroutines share the cursor; ids restart with the game server; a page has a limit; queries fail |
| automation runner `internal/automation` | last_run_at and last_key per task, in the database | Tick (due, remember, claim, fire), events | overlapping runners, edits during a tick, crash between claim and commands |
| server registry `internal/servers` | list, map, stop functions, running context | Add, Remove, Run | the lock is released in the middle of Add, and before start registers the stop function; handlers write database and registry one after the other |
| chat bot `internal/chat` | worker slots, cooldowns in the database, admin cache | dispatch, Handle | cooldown taken first and refunded on failure, cache filled outside its lock, one deadline for everything a command does |
| tile cache `internal/gamemap` | tiles with expiry, the placeholder | Get | single flight on somebody's context, stale answers, LRU bound, one probe |
| catalogues `internal/catalog` | four lists with expiry | list, search | double-checked refresh, the last copy kept on failure |
| sessions and login `internal/auth`, `internal/api/auth.go` | accounts, hashed sessions, limiter windows | login, logout, lookup, sweep, seeding | expiry against sweep, a new password in the environment against old sessions |
| operators' commands `internal/console`, `internal/api/world.go` and its neighbours | the history of commands | every button, the console page, the settings page | the answer is put together from several calls, some of which fail; other operators and restarts come between a write and its reading back |
| store and start-up `internal/store`, `internal/config`, `cmd/7dtd-panel` | SQLite, one connection; the migrations recorded | Load, Open, migrate, seed, serve | kills at every statement, a newer or an older version on the same file; deletes of several statements without a transaction |
| pages `internal/api` | none | players, markers, health, weather, settings | assembled from several calls while the game goes on and any call may fail |
| middleware, helpers | none | gate, headers, formats | nothing that interleaves |

What makes each correct: a power sequence runs alone, saves before it stops,
keeps a cancellation and reports only what happened; the poller's status is
neither better nor worse than the answers it got; a feed shows every event
once and in order or is cut off; the log stream leaves no hole it does not
know of; a task's occasion is taken by one runner, all of it or nothing; a
server that was removed has no goroutine left; the uses a player is charged
for are a cooldown apart; a cache never goes back behind what it showed and
strands nobody; a session dies with its password; an operator is told what was
done and finds his commands in the history; the panel comes up whole after any
kill; a page names what it lacks.

## The modules

`PowerController` models one controller. A run of `run` is numbered in the
order Start made it and has a program counter; each step between two points
where another goroutine can act is an action (`Start`, `CancelReads` and
`CancelCalls`, `Sleep`, `Say`, `CallOff`, `SayOff`, `Return` for the deferred
function, `SendSave`, `SaveAnswered`, `SendStop`, `StopAnswered`,
`SetWatching`, `Look`, `SeeItBack`, `GiveUp`). A request that is in flight may
fail and may have been carried out all the same; one on a cancelled context is
not sent. The poller is one boolean, `online`, that changes at will.

`Poller` models Tick as a sequence of requests, each answered and recorded in
one step, and the world around it: the network answers, answers sometimes or
is down; the token is accepted or not; the server process may be a new one.
Time is counted in ticks, and an age saturates when the resource is due.
`Dashboard` and `Health` are what the two pages make of the snapshot. That
listeners are told of a change in the step that makes it is left out.

`PanelPower` composes the two, as `servers.build` does: it extends `Poller` and
takes the controller through INSTANCE. The controller's `online` is the poller's
status, and the game server's process is one more actor that ends and starts.
The variable `steady` says which world a behaviour is about: in a steady one a
running server answers every request and ends only when told to, in the other
network, token and process change as they like. The runs check the poller in
this composition; `PanelRunsBoth` says that it is the poller, and the
controller, of the other modules.

`EventLog` is the abstract feed: one numbered log per hub and readers that
join near its end and read every later event in order. `EventHub` is the code:
ring, channels with a bound, the SSE handler's replay and drain, and the
browser hook that drops known numbers. Its property `ReadsTheLog` is
`EventLog`'s specification under the mapping published = nextID, Readers =
Clients; `from` and `got` are history variables recorded for it.

`LogStreamer` models runOnce, backfill and the scanner. A line is a pair of
the server process that logged it and its id; the code sees only the id. The
history variables say which process the cursor belongs to, what was emitted,
which lines were taken for repeats and why a hole was left.

`Automation` models the runners of one game server, the table of tasks and the
requests that write it. A tick reads (`TickReads`) what the poller last saw
(`Polls`) and the stored tasks, and then works through them: `SetsKey`,
`StampsStart`, `LosesClaim` and `WinsClaim` are the statements, `Sends` and
`Ends` the fire. The event loop (`Hears`, `StartsFire`, `Resubscribes`) works
beside it. The ten triggers have six shapes. `Stops` ends a runner at any
point; statements fail, commands run into the timeout, receipts are lost.

`Registry` models Add, Remove, Run and start with the sections their lock
really covers, the create, update and delete handlers with every statement
they make, and the start of the panel: seeding from the environment, reading
the rows, starting what they say.

`Services` puts seven parts side by side that share no state, through
INSTANCE. The variable `part` says which of them a behaviour is about; the
others stay as they began, so that one run checks them all at the cost of
their sum.

* `ChatBot`: one command of the bot, built in or an admin's own, from dispatch
  to reply, with up to four workers, their deadlines, the cooldown (a value of
  the command's row, which an edit may change; with 0 nothing is recorded) and
  its refund, the admin list, kits, and the requests that change its rows. The
  history variable `charges` lists what each player was charged, and `stale`
  who was given back what another request was charged.
* `TileCache`: Get with its expiry, the fetch that concurrent requests share,
  the LRU within its bytes and the one probe for the placeholder.
* `Catalog`: the double-checked refresh that is the same in all four lists.
* `Login`: the limiter's window, login, logout, lookup, the sweep and the
  account every start makes of the environment.
* `Operators`, on `Commands`: every handler that sends a command is a plan in
  `Commands`, the checks it makes and the calls it waits for in their order,
  behind the gate of login and server that all of them share. `Operators`
  carries plans out against a game that other operators change and that
  restarts, answers, and keeps the history with its pruning.
* `Startup`: Load with its report, the migrations with a kill at every
  statement and an older or newer version afterwards, and the order of run.
* `Pages`, on `Listings`: the pages that only read, a call at a time, while
  players come and go; how what was got and what failed becomes a page. The
  game's list of known players is read as far as it fits on one page.
  `Listings` holds the pure functions: the searches of the catalogues, the
  sections of the settings page, the choices offered for a preference, with
  the rounding of float64 where a percentage is made of a fraction.

`MC*` modules give the constants their values. Definitions marked "Variant"
are no part of a specification: each is the definition after it with one
plausible mistake, and shows that a property notices the mistake.

## The runs

| run | instance | what it shows |
|---|---|---|
| `power` | 2 runs, 2 callers in Cancel, countdowns of 0, 1 and 7 minutes, 3 looks | the sequences never overlap, a stop follows a confirmed save, "cancelled" means nothing was touched wherever the cancellation lands, the outcome is what the watch saw, every sequence ends |
| `power_called_off` | the same, 1 look | **violated**: `CanBeCalledOff` (see below) |
| `panel_power` | 1 run, 3 looks, threshold 3, 2 processes, periods 3, 2, 1, 1 ticks; both worlds, people starting sequences in the steady one | offline exactly after three failures in a row, online only on a good answer and no standing refusal, on the pages too, and convergence when the world holds still; in a steady world back, stopped or gone is said only of a process that ended after the shutdown was sent |
| `panel_power_unsteady` | 2 looks, threshold 2, everything due each tick, the world that is not steady | **violated**: `BackMeansItWent` |
| `hub` | 1 tab, 1 listener, ring 2, buffer 1, backlog 2, screen 2, 3 events, 2 hubs | no seam between ring, backlog and channel, refinement of `EventLog`, a tab shows nothing twice, dropped readers come back |
| `hub_seq` | the same | **violated**: `OnlyRepeatsAreSkipped` |
| `stream` | cold start of 2 lines, pages of 1, 4 lines and then a process with 2 | each line once and in order, what is dropped was shown, holes only after a failed query or a full page, always live again |
| `stream_deaf` | the same | **violated**: `RestartedLogIsHeard` |
| `registry` | 2 servers, one of them in the environment, 2 requests at a time and 3 in all, 1 failure, 2 starts | a server no two operations met on is listed once, runs once and can be stopped, or is gone; what runs is what is stored unless a statement failed; a whole delete leaves nothing to inherit |
| `automation` | six worlds: 2 runners on a task about the clock, for longer or while it is edited, or about the game, 1 runner on two tasks, on one that is edited, on one that waits for events | a task that keeps its trigger runs once per occasion, with none of its lines or all that were allowed; one that is due is claimed after any stop, failure and lost claim, and a run once claimed comes to an end, and to a receipt where nothing went wrong |
| `services` | the seven parts, each on its instance in `MCServices` | cooldowns hold, admins' commands are an admin's, caches do not go back and strand nobody, sessions are current, guesses are limited, answers are honest and commands on record, migrations are done once, pages name what they lack |
| `bot_refund` | 1 player, 2 slots, a cooldown of 1 and a deadline of 2, nothing edited and nothing failing but the game's refusals | **violated**: `NobodyPassesEarly` |

The bounds. Two runs are what an old run's tail needs to overlap a new one;
the watch is a loop whose turns differ only by what was seen, so three looks
cover not yet, gone and back. Countdowns of 0, 1 and 7 give sequences with no
warning, one and two; more warnings repeat the same two steps. The poller's
threshold of 3 lets failures begin, be interrupted and begin again, and the
periods make the credentials check rarer than the polls it may overrule. In the hub
everything with a limit overflows within three events, and the second hub
stands for all later ones. The log stream needs four lines for a gap longer
than a page with a live line after it, a second process that can log fewer, as
many or more lines than the cursor of the first, and a third to come while the
restart of the log is being dealt with.

In the registry two requests meet in every window of each other, a third finds
what they left, and a server of the environment can be deleted and come back
with the second start. The runners of `automation` need two intervals on the
clock, one turn of the world to make their snapshots differ, and two turns for
a state to be entered, left and entered again; a fault is a stop, a failed
statement, a lost receipt or a timeout. The bot's workers meet on one cooldown
with a third message to find what they left; its rows have none, one
that may be over before a request is given up, and one that outlasts it. The tiles' getters are three: one
that fetches, one that waits for it, and one that comes between; pictures
weigh less than the cache holds, as much and more. Passwords and accounts are
two each, for the old one and the new. Operators are two tabs that begin three
requests, with a hitch, a write of somebody else or a restart between any two
of their calls. Start-up takes three launches with two mishaps, of versions
with up to three migrations. Two players with two entity ids suffice for one
who leaves and another who gets his number while a page is being read, with
room for one of them on the page of known players.

Counters that only grow (runs, events, lines, requests, ticks of a clock, ...)
are bounded in the guards, never by a state constraint, so liveness is checked
on whole behaviours. In the runs of the power sequence, the hub and the log stream the system
still ticks, reads or rests when the environment has run into its bound, and
the deadlock check is on. `registry`, `automation`, `services` and
`bot_refund` say `CHECK_DEADLOCK FALSE`: what moves them is requests and the clock, both bounded, and after the last one
nothing is left to do. That nobody waits for something that cannot come is
stated as properties there (`NobodyIsStranded`, `GoesOff`).

Symmetry is used where the runs check invariants and step properties only: the
two requests of `registry`, and in `services` the slots (the bot's workers, the
login attempts and the operators' tabs are the same model values, as only one
part moves) and the names of accounts.

Fairness. `power`: each run's goroutine, since timers fire and each request
ends with the client's ten-second timeout; nobody has to call Start or Cancel.
`panel_power`: the poller's own steps, for the same reasons. `hub`: a connected reader reads
on, sees its closed channel and subscribes again (an EventSource reconnects by
itself, the bot and the runner loop); nothing has to be published. `stream`:
the streamer's steps, and a game server that is down comes up again.
`automation`: the pollers poll, the tickers tick and what was begun goes on,
since a command is answered or times out and its receipt is written or lost;
nothing is assumed of the clock, the
world, the operators or the faults.

Assumptions about the environment, beyond the code: people start a sequence
while the panel shows the server online (an input bound of `PanelPower`); a game server takes
longer to start than the two queries of a backfill to time out (ten seconds
each; `Restarts` in `LogStreamer`), so no backfill that began under one process
ends under the next. Without the second, held-back lines of the old process
would be released after a page of the new one. Of the game's own settings
screen it is assumed that it offers no preference that only the client reads
(`MenusAssumption` in `Services`); the table in `internal/sdtd` is one. The
other assumptions of `Services` say of what kind its constants are: what a row
of a command, a kit and a catalogue's entry hold (`BotAssumption`,
`PagesAssumption`), that the values of a preference are small enough for it to
be known how float64 rounds them (`Exact` in `Listings`), that an environment is one, with its four parts
(`EnvsAssumption`), and that the names for nobody, nothing, nowhere and the
placeholder are not those of somebody or something (`SettingsAssumption`,
`CachesAssumption`, `PagesAssumption`).

## What was found

Five runs end in a violation each:

* `power_called_off`: after a cancel the run says its farewell before its
  deferred function clears the stored CancelFunc. A sequence started in
  between loses its CancelFunc and cannot be called off any more.
* `panel_power_unsteady`: a single missed poll during the watch makes the
  status degraded, which counts as gone; the next answer counts as back.
* `hub_seq`: numbers start from 1 in a new hub, and an open tab takes new
  events for old ones.
* `stream_deaf`: when the first query after a restart of the game server
  fails, the lines of the new process are dropped as repeats until their ids
  pass the old ones.
* `bot_refund`: a failed command gives its cooldown back by deleting the row,
  whoever wrote it. A request that outlives its cooldown, as one of the three
  built-in commands with 10 seconds can under a deadline of 15, then takes away what a later one was charged. `CooldownHolds` excepts the players
  this happened to (`stale`), and no others.

What was met while modelling and shaped the properties (each is an entry of
`findings` in `PROJECT.json`, with the line that says otherwise):

* Two edits of one server at once both put a runtime into the list, and one of
  them is never stopped; an edit or a delete before start has registered the
  stop function leaves goroutines behind. `QuietServersAgree` is therefore
  about servers on which no two operations met.
* A server's rows are deleted in five statements without a transaction; one
  that fails leaves a server running whose row is gone. `RunsWhatIsStored`
  excepts the servers a statement failed on until the next start.
* The claim of a task compares its row, not its occasion: two runners whose
  snapshots differ in age claim one occasion in turns. `OncePerOccasion` says
  so of triggers that look at the game only for one runner.
* A note (`SetTaskKey`) compares less than a claim does: the key alone. Of two
  runners the one that read a task while it looked at the game may write its
  note over the date of the daily task that has taken the name since, which
  then runs again that day. It came out of the proof of `OncePerOccasion`,
  whose premise `OneKind` excludes just that; TLC shows it with three edits.
* A fire that ran out of time writes its receipt on the context that is over.
* An accepted token leaves the old error beside an online server for a tick,
  and a refused one can be explained by an error of the network: of the
  reasons `OnlineIsHonest` says no more than holds.
* The placeholder of the map is learnt from one probe, on the context of
  whoever came first; the one fetch everybody waits for runs on such a context
  too.
* The claim of a task is stored before its commands are sent and never given
  back: a stop, a timeout or a refused line after it loses the occasion, which
  the comment on late restarts does not say. `GoesOff` promises lateness up to
  the claim only.
* A kit that fails half way has its cooldown refunded; a refund is lost when
  the command failed because its time was over.
* The history of commands has two surfaces that write nothing into it: setting
  a preference, and the power sequence. `EverythingIsOnRecord` says so of the
  first (`Owes`).
* A preference of 0, 1 or 2 percent can be offered choices on the wrong scale;
  and one whose option has a value like 1.1 is offered none, since a hundred
  times that is not whole in float64.
* Of the known players one page of 500 is read: with more of them, and the
  list of those online failing, somebody who is in the game may be missing.
  `ShowsWhoIsThere` asks for everybody only where one of the two is not so.

## What is proved

Each theorem holds for all values of the constants that satisfy the named
assumption of its module; TLC evaluates the assumptions on every run. Each
invariant is proved by one step per action; in `AutomationProofs` by one per
thing an action may do to a task's row or to a runner's work (`RowsGo`,
`TickGoes`).

`PowerProofs`, from `PowerAssumption`: type correctness, `OneSequence`,
`SavedBeforeStop`, `CancelledTouchedNothing` and `OutcomeIsHonest`. `TypeOK` is inductive by itself. `OneSequence` is not: that
a new run may be started only when no other drives needs to know, for every
location of a run, which phase it has set, and that the stored and the read
CancelFuncs belong to runs that exist. `Ownership` says so: the last run
started is the only one not in its tail, and while it drives, phase and
location agree. On top of it `SaidAndDone` follows the countdown: a run past a
point of it has given the warnings, slept the time and had the save confirmed;
`NoStopUnsaved` reads off it. `CalledOffUntouched` says
a run that was called off has left the countdown before anything was sent, and
`SeenIsTrue` that whatever `sawItGo` claims the history variable `offAir`
knows.

`PollerProofs`, from `PollerAssumption`: type correctness, `OfflineIsEarned`
and `OnlineIsHonest`, for any threshold and any periods. The
status is judged by counters and flags that say nothing of the past by
themselves. `Trailing` ties them to it: `failures` is the length of the run of
failures the history ends in. `Counted` says that after the first answer
offline is a matter of that count. `Standing` says that the flag of a refused
token agrees with the last verdict, and that a tick reaches its credentials
check only with a status its own stats poll, or the refusal before it, has
set.

`HubProofs`, from `HubAssumption`: type correctness, `NothingSlips`,
`ShownOnceInOrder`, and that every behaviour of `EventHub` is one of
`EventLog` (`ReadsTheLog`). What a subscriber was handed, has yet to replay and
has waiting are three stretches of consecutive numbers, each beginning where
the one before ends and the last reaching the newest number while his channel
is open (`Seam`). The first begins where Subscribe cut the ring, which holds
the newest numbers of its hub (`Scrollback`). The refinement is a step
simulation on that invariant. What a tab shows needs more: that its screen is
what it recognises, and that of the numbers it is yet to be handed each is on
the screen already or newer than all of it (`Screens`). Cutting the screen to
its limit keeps that, since what is cut is the oldest.

`StreamProofs`, from `StreamAssumption`: type correctness, `OnceInOrder`,
`RepeatsAreRepeats` and `NoOtherGaps`. Backfill and scanner share a cursor,
and the four parts of the invariant `Sound` say what each may rely on. What is
held back and what is on the wire is one stretch of one process's log (`Flow`);
a page is another, which begins after the cursor and reaches the first unless
it is full (`Fits`); a cursor is `Good` if what it calls shown was emitted.
Emptying a page or the held-back lines is a fold, of as many steps as there
are lines: a cursor that is `Ready` for a line is ready for the next after
taking it (`TakeOne`), and `TakeByTake` carries that to the end of the list.
That induction is over the length, as a set of natural numbers without a least
one that fails (`CountingUp`, from the well-foundedness of `<`).

`RegistryProofs`, from `RegistryAssumption`: type correctness,
`QuietServersAgree`, `RunsWhatIsStored` and `NothingInherited`. The lock does
not cover an operation, so none of them is inductive. On a server on which no
two operations met there is one at most, and its location says how far list,
map, stop function and goroutines are from agreeing (`Agreed`), whether the
runtime is the one of the stored row or which of the two is ahead (`InStep`),
and whose tasks are kept while a delete is half done (`Inherits`). That
operations on other servers leave all this alone rests on `Owned`: a runtime
is filed, cancelled and started under its own id.

`AutomationProofs`, from `AutomationAssumption`: type correctness,
`NothingHalfDone` and `OncePerOccasion`. What is being sent is all of the
task's lines, or a refusal (`Whole`): a fire works with the lines it read,
whatever is edited meanwhile. That a claim cannot be made twice is shown per
kind of trigger. An interval's runs are never newer than its row's last run
(`Logged`), and who wins the claim has read that very last run (`Readings`), so
two runs are an interval apart: `IntervalsAreKept`, without a premise. A daily
task tells by its key, or by a later last run, which days it has run on
(`Dated`). A trigger that looks at the game tells by its key how far the world
must have turned before it may run again (`Turned`), and the snapshots of one
runner only go forward (`InTurn`). Both last as long as no note is made on an
old reading: one runner's is what is stored, where anything was run (`Fresh`);
of several `OneKind` says that tasks about the clock and tasks about the game
do not turn into each other. Without it the property is false, as said above.

`LimitProofs`: `SessionsAreCurrent`, from no assumption, and `GuessesBounded`,
from `ServicesAssumption` (a limit of at least one). The first is not
inductive, as between VerifyPassword and Create a session has yet to be made
of a password checked before. `Verified` says that check still stands: an
account changes only with a start of the panel, which takes every attempt with
it. For the second the bucket is tied to the attempts it has let through: some
of them began a window, one in any `Limit` of them and more than a window after
the one before (`Windows`). So of attempts that are twice the limit apart two
windows have begun in between (`TwoWindows`), and they lie further apart than
any stretch of one window reaches.

The third theorem of `LimitProofs` is the bot's `CooldownHolds`, from
`ServicesAssumption` and `BotAssumption`: for any cooldowns, none and shorter ones than a
worker's deadline included, and whatever edits make of them. The row in the
store forgets: a refund sets it back, and a late worker may still give back
what he claimed long ago. So the invariant (`Paced`) follows the charges of
each player. They are in the order they were made, with as much between them
as the later one asked (`OneByOne`, `Apart`), and none that counts is newer
than what the store has, unless it was made up for by one given back since
(`Remembered`, `Forgotten`): a use that is let through is then far enough from
all that is remembered, and one in between from all that is not
(`OneMoreCharge`). The players for whom a refund broke the last part are in
`stale`. `Jobs` says that a worker who may refund has his charge on the
player's account.

The fourth is the bot's `SendsWhatItMay`, from `BotAssumption`: between the
look at the admin list and the last line sent a player may lose his place on it
and the row of the command may be edited. `Trust` follows what a worker holds:
whom the list he goes by was read for and when (`Listed`, `Fresh`), and that the
plan was made of a row that was saved, and only if no line of it is blocked.

Of the caches, from `CachesAssumption`, it proves `NobodyIsStranded` and
`NeverGoesBack`. Whoever takes a square keeps it until he tells (`Taken`), and
whoever joins him is told in the same step (`Joined`). A square has one owner
and a refresh one holder, who brings what is at least as new as all that was
shown, is held or is about to be told (`AsNew`, `OneRefresh`), so that nobody
is told less than was shown before he asked (`Telling`). That the list and the
map agree and the count of bytes is what they weigh (`Tidy`) rests on two facts
about the list alone: moving to the front keeps what is on it, each once
(`FrontKeepsTheRest`), and evicting from the back ends within the cap, since
nothing weighs nothing (`KeptFits`).

`AnswerProofs` builds on it, with `SettingsAssumption`, `EnvsAssumption`,
`PagesAssumption` and `MenusAssumption`. `EverythingIsOnRecord`: nobody is
answered while the note of a command that is to be recorded is due, and the
history is a table of rows with ids that only grow. That pruning leaves everybody's page as it was is
not inductive for the page; `Kept` says that the rows of a user are his last
ones, from some row on, and that at least as many are left as are kept. A
migration is in the file exactly when its name is recorded, outside a
transaction and inside it up to the statement it has come to (`Ordered`).

`AnswersAreHonest`, for operators: an answer is put together from what a
request has still to do and what it has done. `Counts` says that what was
carried out and what is left of its plan are what is due; `InHand` what each
kind of rest presupposes: nothing was sent while a check is left, and what is
read back after a write is what the game says then, or is marked as not read.
For start-up, `MendedIsFine`: an environment in which everything a report names
is put right has nothing to report. For pages: each goroutine has made the calls
of its topic up to the first that failed (`Made`), what a call brought was so
at some moment since the page was asked for (`AllSaySo`), and what failed
failed in a mood the game was in. That a search shows the best is a fact about
finite sets in some order: how many come before an entry numbers them, so that
as many are among the first as the limit lets through, or all (`FirstOfMany`).
That choices are offered as percentages where all values are quarters rests on
what float64 does with them: a hundred times a quarter is exact
(`QuartersStayWhole`).

`TypeOK` of all seven services is the last theorem of `AnswerProofs`, from all of
these invariants together (`Orderly`, `Hand`, `Ordered`, `Paging`). It is more
than types: the cache's count, one fetch per square, a limiter that is never past
its limit.

The composition in `PanelPower` is proved about in `PollerProofs`. Each of its
steps is one of the poller, of the controller or of the world one of them is
ready for, and a stutter of the other (`PanelRunsBoth`), so that what is proved
of either alone is true of the panel. For a steady world
`ClaimsOnlyWhatHappened` needs neither module's invariants: until the
process ends every poll is answered and no token is refused, so that a server
that was shown online when a sequence began stays so, and no watch sees it go
(`Untroubled`). It is proved for any number of sequences as long as no earlier one
has sent a shutdown, and without that exception where there is but one, as in
the run. The exception is real. A sequence that is cancelled while its shutdown
is in flight is reported as failed, and the shutdown may still be carried out.
If the process ends by it only when the next sequence is about to send its own,
the second watch may take that end, or the status it left behind, for the work
of its own shutdown. TLC shows it with two sequences, which is why the run has
one.

Only model-checked: liveness under fairness (`power`, `panel_power`, `hub`,
`stream`, `automation`), which is out of the prover's reach. That concerns
`SequenceEnds`, `Converges`, `GoesOff` and their likes; every invariant and every step
property of a passing run is stated by a theorem.

## Not modelled

The client generated from the game's API description
(`internal/sdtd/gen/client.gen.go`, 12,496 of the 27,032 lines of Go) and the
tool that bundles the description. Middleware that keeps no state: request
ids, headers, logging, recovery; serving the web frontend, and the frontend
itself but for `use-events.ts`, which renders what the API returns. What a log
line is taken for (`classify`) and how the output of mem, weather and
listbuffs is taken apart. Wording, labels, JSON, SQL texts, the encoding of a
setting's value, and the passwords' cryptography: a password stands for its
hash.

Time inside the power sequence other than the countdown's minutes; the length
of backoffs; the clock arithmetic of triggers, whose occasions are numbered. A
sample that fails although the server answers (an empty log) is treated as a
failed request. `Reorder` of the registry and `Invalidate` of the catalogues
have no caller outside tests. What an edit of a server does to a power
sequence under way (the old controller lives on unseen) is a finding, not a
module: `Registry` follows goroutines, `EventHub` replaced hubs.

## The plan

What is left, the most consequential first:

1. A composition of `Registry` with `PowerController`: the sequence that is
   under way while its server is edited.
2. The classification of log lines (`internal/events`) and what is taken apart of
   the game's own output, once it takes part in a property.
