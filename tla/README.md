# A TLA+ model of ronnie

ronnie is a batteries-included web framework on top of python-fasthtml. Most
of it is plain request-to-response code; this directory specifies the parts
that keep state between requests or share it between threads and processes,
model-checks them with TLC, and proves the most important facts with TLAPS.
`PROJECT.json` maps every definition to the lines it models, lists the runs,
the mutants that show that each property can fail, the hazards of the code and
the theorems.

## Inventory

Paths are relative to `src/src/ronnie/`.

| Component | State | Operations | What is hard | What makes it correct |
|---|---|---|---|---|
| Background tasks: `tasks/` | broker queue; result records; per-process list `_retry_queue`; `Worker._stop` | `delay`/`call`, `execute_task`, `schedule_retry`, worker loop, SIGTERM | several workers and pool threads, crashes, receivers that raise, a list changed while it is walked, record expiry | one execution at a time, bounded attempts, `FAILED` and `SUCCESS` mean what they say, no retry forgotten, a stop request is honoured |
| Beat: `tasks/beat.py` | `_next_run` | `tick` | late ticks, a broker that raises, restarts | every due entry is fired once per interval |
| Sessions: `contrib/sessions/`, `contrib/auth/api.py` | rows or cache entries; the cookie of each client; the dict of each request | load, write, clear, `flush`, `cycle_key`, persist at response start, `clearsessions` | requests of one client at once, lost responses, raising handlers, expiry and sweeping in the middle of a request | confirmed data is kept, destroyed data stays destroyed, clients stay apart |
| Cache: `cache/` | entries with expiry, insertion order | `get`, `set`, `add`, `touch`, `delete`, `get_or_set`, `incr`, `clear`, culling | calls made of several primitives, a full store, stale builders | size limit, exact counters, no stale entry for ever, `add` as a mutex |
| Migrations: `migrations/`, `core/management/commands/migrate.py` | tables, the record of applied migrations | apply, roll back, fake, order | failures and crashes between transactions, two commands at once, dependencies between applications | a migration is applied whole or not at all, once, after what it depends on |
| Signals: `core/signals.py` | list of weak receivers | connect, disconnect, send, pruning | pruning after the lock was released | a connected live receiver is called |
| Registry and settings: `apps.py`, `conf.py` | application table and three flags; memoized settings | `setup`, `populate`, attribute reads, overrides | failing applications, threads that read while another writes | ready exactly after a complete population |
| Messages: `contrib/messages/` | session list, cookie, the buffer of the request | add, read, overflow to the session | several responses, overflow in the middle of a request, a cookie without a path | each message is shown by one response, and listed once unless it was copied (see `Requests`) |
| CSRF: `middleware/csrf.py` | token in the session, drained body | drain, compare, replay | bodies beyond the limit | the handler sees the body that was sent |
| Database access: `db.py` | two caches | `get_database`, `get_table` | check, then create, without a lock | one object for one key |
| Auth, redirects, admin | rows of their tables | read or write one row | uniqueness of users | delegated to the database |
| Passwords, signing, host and security middleware, checks, commands, humanize, re-exports, test support | none shared | functions of their arguments | - | unit tests |

How they interact: the session middleware runs outside the message and CSRF
middleware, which keep what they need in `scope["session"]`. `login` in
`contrib/auth` calls `cycle_key`, `logout` calls `flush`. The session cache
engine and the result records of the tasks live in the cache framework; the
session db engine and the admin use `db.py`. Tasks send `task_prerun`,
`task_postrun` and `task_failure`; a receiver that raises stops whatever sent
the signal. Beat only calls `delay`.

## Modules

| Module | Models |
|---|---|
| `TaskLife` | abstract: the lifecycle that the docs give a result record |
| `Tasks` | the task framework: processes, pool threads, brokers, `execute_task`, the retry queue and the worker loop |
| `TasksProofs` | proofs about `Tasks` for all values of its constants |
| `MCTasks` | instances for TLC |
| `Sessions`, `MCSessions` | session middleware, `flush`, `cycle_key`, db and cache engine, sweeping |
| `SessionsProofs` | proofs about `Sessions` for all values of its constants |
| `Schema` | table specifications, migration operations with their statements and reverses, the autodetector |
| `Migrations`, `MCMigrations` | migration files and their order, the record, `makemigrations` and `migrate` over `Schema` |
| `MigrationsProofs` | proofs about `Migrations` for all values of its constants |
| `Cache`, `MCCache` | `BaseCache` over the primitives of the locmem and Redis backends |
| `CacheProofs` | proofs about `Cache` for all values of its constants |
| `Lists`, `ListsProofs` | filtering a list and folding over it, in a form that can be proved about, and what the proofs of `Cache` and `Migrations` need of them |
| `Signals` | one `Signal`: registration, dispatch and pruning by several threads |
| `Startup` | `ronnie.setup()`: loading the settings and the three phases of `populate` |
| `Beat` | the periodic scheduler |
| `Settings` | one setting behind the `LazySettings` proxy, with `override_settings` and `modify_settings` |
| `Process`, `MCProcess` | the composition of these four: a process that boots and does what its command is for |
| `StartupProofs`, `ProcessProofs` | proofs about them for all values of the constants |
| `Inbox` | abstract: what flash messages promise one browser |
| `Requests`, `MCRequests` | the requests of a browser through CSRF, sessions and messages, which implement `Inbox` |
| `RequestsProofs` | proofs about `Requests`, that refinement included |

### Tasks

A *process* is one interpreter with its own `_retry_queue` (`retryq`). Its
main thread runs `Worker.run` (`Workers`); the threads of `Pool` are those of
`ThreadBroker` or of a web process that calls a task synchronously, and `Home`
says in which process they live. An executor's `pc` follows the code: the six
places inside `execute_task` between two effects on shared state (`begin`,
`func`, `failed`, `retry`, `succeeded`, `postrun`), and for a worker the four
places of its loop. `PassTake`, `PassSkip`, `PassDone` and `PassAssign` are the
steps of `_run_due_retries`, an iteration by index over a list that may grow
meanwhile, followed by the slice assignment. `resume` is where an executor
returns to: into the pass or to the top of the loop.

The environment may let receivers and the result backend raise (`raise`), kill
processes (`crash`), send SIGTERM (`stop`) and expire result records
(`expire`); `Faults` selects these. Time is not modelled: whether an entry
with backoff is due is a free choice, made again each time it is visited. A
countdown is part of taking a message.

### Sessions

`stored`, `data` and `expired` are the rows (or cache entries), `cookie` is
the jar of each client, and every request carries its own copy of the session
as the middleware does. `Load`, the handler's operations, the persistence at
response start and the delivery of the response are separate steps.
`DbSessionEngine.load` is two: the row is read, and if it had expired it is
deleted (`Purge`), whatever it holds by then. `DbSessionEngine.save` is three:
the lookup, the update and the insert.
Content is abstracted to the set of requests whose item the session holds, so
that isolation and loss can be stated. `Login` models `cycle_key` as it is: the
row is deleted at once, and a copy of the dict goes into the scope, which the
middleware does not look at again. `known` is what the server confirmed to a
client; expiry and an intended erase take items out of it.

### Cache

Each primitive of a backend is one step, under the lock of `LocMemCache` or as
one Redis command. What `BaseCache` composes of primitives is one step per
primitive, with the label of the next one in `pc`, the value read in `held`.
`store` is the dictionary in insertion order because `_cull` drops every n-th
key of that order (`Thinned` picks the positions that stay). The state of an entry's lifetime is `running`, `over` or
`forever`: an entry that is over stays in the locmem store until a lookup or a
cull removes it, and counts against the limit.

### Migrations

`Schema` is pure: a model state maps table names to specifications, an
operation changes a state (`mutate_state`) and is rendered to a statement from
the state before it (`sql_statements`) or, for a rollback, from the states
before and after its migration (`reverse_statements`). `Raises` and `Effect`
say what SQLite does with a statement, so a statement rendered from a state
that is not the database's may fail or may destroy a column, as it does in
reality.

`Migrations` adds the files of each application, the committed database (`db`:
tables, the record in the order of its ids, and for each migration how often
its data operations have taken effect) and the commands. A transaction of
`apply` keeps its writes in `work` and holds `lock` until `Record` commits;
`rollback` commits one operation at a time and then the deletion of the record.
What is pending or to be rolled back is read once at the start, as
`Command.handle` does, and nothing checks it again except the unique index on
the record. A failing statement ends the command (`Raise`), and a process may
die between any two steps (`Crash`). `get_table` is the application creating
its declared tables itself, which is what `--fake-initial` is for.

`loose` collects the applications for which the code promises nothing: faked
migrations, a dry run that called a `RunPython`, a rollback that was interrupted
or that does not retrace its steps (`Retraceable`), and rollbacks beside another
command on the same application. The properties say what holds for all others.
`Retraceable` is a condition on a list of operations: of two on one table, the
earlier is no rebuild, and if the later puts back what was there before the
migration, the earlier adds or removes another field.

Two assumptions say what the tables of an application are. `TablesAssumption`: no
two applications declare the same table; detection compares one application at a
time, and two that share a table name would be rebuilding each other's.
`OwnAssumption`: hand-written operations are on tables of their application and
rename no key column (what happens otherwise is under "Where code and text
disagree without a run"); what `makemigrations` writes is so by itself.

The order of the graph is that of the depth-first walk of `ordered`: `visit` is a
function of the visits under way (the recursion of the code ends because they
only grow) that gives, for each migration, what visiting it makes of the list.

Files change only while no command runs (the loader reads them once), and two
`makemigrations` at once are not modelled. Defaults of fields are left out; the
autodetector ignores them too. A changed primary key is not detected either, nor
one that is no field; `MigratedIsDeclared` excludes both explicitly.

### Process

`Process` extends `Signals`, `Startup`, `Beat` and `Settings`, so that their
variables are one state, and its actions are theirs with what joins them.
`command` says what the process is for. `BootStep` is a step of `setup()` by
the main thread, or by any thread while the command is `"boot"`; the `ready()`
hook of an application (`RunReady`) connects a receiver in the same step.
`ServeStep`, `TestStep` and the steps of `Beat` need a process that is booted.
Beat hands over the tasks that importing the applications has registered. A
tick whose `delay` raises ends the process (`BeatCrashes`), a failed `setup()`
ends the command, and `NewProcess` is what the next process starts with: all
of the memory that `setup()` fills, and `_next_run`, is gone.

- `Signals`: registration is one step under the lock; `_live_receivers` is the
  snapshot under the lock (`Snapshot`), following the weak references outside
  it (`Resolve`), and pruning by key under the lock again (`Prune`). Receivers
  are then called one at a time. `Drop` is the garbage collector: what a thread
  holds strongly stays alive.
  Pruning may remove a live receiver that was connected after the snapshot of
  a send with an earlier receiver of its key. `contested` has the keys that were
  connected in such a moment (`Threatens`); for all others nothing is missing.
- `Startup`: a thread is at one place of `setup`/`populate`; the check of a
  label and its assignment are two steps, as another thread may come in
  between. An error may occur in the settings module or in any phase
  (`BootFaults`) and leaves behind what was done so far.
- `Beat`: `wait` is the time until `_next_run`. `now` is read once per tick,
  and the tick then takes up to `MaxLag`. `gap` is the time since an entry was
  handed over, which no code looks at.
- `Settings`: a read through the proxy is two steps, the look into `_wrapped`
  and the store of the memo in `__dict__`. A swap of `_wrapped` is two as well,
  as `LazySettings.__setattr__` first clears `__dict__` and then stores
  `_wrapped` in it (`Swap`, `Store`). A reader that comes in between finds no
  `_wrapped`, and `__getattr__`, which looks it up itself, ends in an error
  (`ReadFails`, `ReadRaises`). `override_settings` swaps and then sends
  `setting_changed`, `modify_settings` the other way round.

### Requests

One browser with a cookie for the session (cookie engine), which holds the CSRF
token and the messages of `SessionStorage`, and cookies for the messages of
`CookieStorage`. The session's is set with `Path=/`. The messages middleware
names no path (`contrib/messages/middleware.py:30-32`), so that the browser keeps
its cookie for the directory of the URL that answered (`HomeOf`), sends it with
the URLs below that directory only (`Sent`), and can expire it from pages of
that directory only (`FlashSet`). Of several cookies of that name in one request
`SimpleCookie` keeps the last, which is that of the shallowest directory
(`Carried`, `Depth`).

A request arrives with copies of its cookies (`Arrive`), works on
them, and its response brings them back (`Deliver`) or is lost (`Lose`), so
that requests under way together overwrite each other's cookies. A posted body
is drained chunk by chunk, compared, and replayed (`Receive`, `Disconnect`,
`Accept`, `Reject`). `Add` is `_load`, append and `_persist` of the storage
that is configured; in `FallbackStorage` the whole list goes to the cookie or,
if it does not fit, to the session (`Overflow`), and the part of the other is
cleared or forgotten as the code does. An error page passes none of the
middleware, and nothing of the scope gets into it (`HandlerRaises`).

`seen` counts how often responses have listed a message, and `Inbox` says that
one response shows it and lists it once. `trouble` tells what the code keeps
that promise for:

- `"none"`: one request after the other, whatever the storage and whatever
  happens to responses. The whole promise holds.
- `"copies"`: `FallbackStorage` overflowed in a request that carried messages
  (`Doubles`). They stay in the cookie and are in the session as well, so that the
  next page lists them twice. One response shows them still.
- `"astray"`: a request touched the messages while the cookie of another directory
  had some (`Strays`), which it cannot see or cannot replace; or it overflowed
  after it had shown the messages of its cookie, which come back. Nothing is
  promised about messages.
- `"disturbed"`: requests that overlap, a session that expires or is flushed.
  Nothing is promised about messages and forms.

`Settle` and `Recover` end the trouble when no request is under way and no
message waits twice (`Tidy`), after a disturbance when the open pages have been
reloaded; the properties hold again from there, whatever is left in the cookies.
Messages of another directory that nobody touches are no trouble: they wait.

## Runs

| Run | Instance | Shows |
|---|---|---|
| `MCTasksRedis` | 2 workers, 2 tasks with one retry each, the second worker without one of the tasks; raise, crash, stop | types, bounded attempts, exclusive execution, the meaning of `FAILED`, final states stay final, and that `Tasks` implements `TaskLife` |
| `MCTasksThread` | a worker loop and 2 pool threads in one process, all faults | the same three safety properties when threads share the retry queue and records expire |
| `MCTasksLive` | 1 worker, 3 tasks (retry with backoff, without, none), may be stopped and is restarted, fairness | no retry is forgotten and every task finishes unless somebody stops the worker; a stopped worker ends |
| `MCTasksRace` | as `MCTasksThread` without faults | *violated*: a retry appended between the end of the loop and the slice assignment is lost |
| `MCSessions` | a client that waits for responses, one with 2 requests under way, 3 requests, 3 keys, both engines, every operation and fault | confirmed data is kept, erased data stays erased, an insert meets no row, clients stay apart |
| `MCSessionsLogin` | 1 client, 2 requests | *violated*: a login on an existing db session loses the old data and the login |
| `MCCache` | 2 threads, a counter, a read-through entry and a lock; room for 2 entries, every second one culled; both backends, fairness | the limit holds with expired entries counted, locmem counters are exact, an outdated read-through entry does not stay |
| `MCMigrations` | 2 applications with 2 and 1 migrations, 3 versions of a table, a data migration across applications; 2 processes, crashes | tables follow the record, data migrations take effect once, dependencies first, detection reaches a fixed point and migrating reaches the declared tables |
| `MCMigrationsUndo` | 1 process, generated migrations, no faults | *violated*: a rollback reports success and leaves other tables than it should |
| `MCCacheLock` | 2 threads, 1 key | *violated*: two callers of `add` are both told that they won |
| `MCProcess` | 2 threads; 3 receivers, 2 of them weak and with the same key; 2 applications and errors in every phase; 4 entries (2 installed, 1 unknown task, 1 disabled); 2 overrides, 1 of them `modify_settings`; all commands, fairness | registrations are those asked for unless they were made while their key was about to be pruned, every connected listener hears, ready means complete, hooks run once, a failed boot stays failed, overrides nest and a read gets the innermost or raises, intervals are kept, and beat goes on after failures |
| `MCRequests` | 2 requests under way, 2 pages of which one is in a directory below that of the other, 3 messages, room for one in the cookie, 2 tokens, bodies up to 3 chunks of which one is within the limit; all three storages (958,752 states) | the storages implement `Inbox`, forms are accepted and bodies reach the handler whole |

The instances are small but hit what matters: two executors are enough for
every race found here, one retry separates first, middle and last attempts
(`t3` has none), and three requests let a third one observe what two racing
ones left. With `MaxEntries = 2` and three keys the store is full most of the
time. `MaxValue` bounds counters and data versions; it is the only bound that
cuts behaviour in `Cache`, and no guard of the code depends on it. In
`MCMigrations` two migrations of one application give a first and a later one,
`MaxRuns = 2` lets a data migration take effect once too often and be undone once
too often. The first process migrates everything with `--fake-initial`, fakes the
first migration of `blog`, rehearses `analytics` and rolls everything back, the
second only migrates everything: more requests repeat what these four do. A fault that is not forced (`"raise"`) leads to the
same states as a crash and is not switched on. `CHECK_DEADLOCK FALSE`
appears where the instance may stop for good: all requests answered, or a
bound reached; in `MCProcess` a process other than beat that failed to boot, or
a beat that was told to stop.

In `MCProcess` two threads are enough for every race of the code, all of which
are between a step of one thread and one of another. A shared key with a weak
receiver is what pruning can go wrong on. Intervals of 2 and 3 make two entries
due at the same tick and at different ones, `MaxLag = 1` lets the second be
reached later than the first, and `MaxDepth = 3` bounds how deep holders nest,
with both objects entered and one of them twice. In `MCRequests` a capacity of
one message and three messages let the list move to the session and back while
some of it is shown, and with a directory below another one the cookies of both
go along in one direction and one of them in the other. `Shared` bounds how many
messages are added while requests overlap, or before a request that overlaps or
that arrives while cookies of another directory have some, and `Crowded` names
the URLs whose requests overlap; long bodies are of requests that arrive alone.
Only the troubled part of the behaviour depends on these. `MaxBody = 3` with `BodyLimit = 1` separates a body within the limit, the chunk
that exceeds it, and the rest. The theorems below hold without these bounds.

### What the violations say

- `MCTasksRace`: `worker.py:80` assigns a list computed earlier to the shared
  queue. The same loss happens without threads when a worker is stopped
  gracefully before a retry is due (the queue is memory of the process), and
  in a process that runs no worker loop, such as a web process that calls a
  task synchronously: nobody ever visits its queue. `NoRetryForgotten` says
  what remains true.
- `MCSessionsLogin`: see `cycle_key` above. `KnownIsKept` excludes clients that
  logged in on an existing session or were swept, and says what remains true.
- `MCMigrationsUndo`: `executor.py:138` renders every reverse from the states
  around the whole migration. `[AlterField x, RemoveField y]`, as
  `makemigrations` writes it, is undone by adding `y` and then rebuilding the
  table without it. (`[AlterField x, AddField y]` fails half-way instead.)
  `SchemaFollowsRecord` covers the rollbacks that retrace their steps.
- `MCCacheLock`: `BaseCache.add` is a lookup and a store.

In `Migrations`, `migrate --dry-run` (documented as "print SQL, execute
nothing") and `sqlmigrate` call the code of a `RunPython` (`DryRun`), and two
rollbacks at once undo a data migration twice; both are excused by `loose`.

Three more behaviours were seen in instances that are not kept as runs: the
second of two concurrent requests of one client overwrites the items of the
first (the whole dict is saved); a flush is undone by a request that was under
way; and `clearsessions` deletes a row that was saved again after it had been
listed. They are why the properties speak of `Serial` clients and of
`excused` ones. `Purge` adds a fourth: a row that expired is deleted although a
second request of its client has saved it again.

### Where code and text disagree without a run

- `tasks/beat.py:46` calls the interval "drift-corrected", as does
  `docs/topics/tasks.md:83`, but the next run is the time of the tick plus the
  interval: every late tick delays all later runs. `IntervalsKept` says what is
  kept, the distance from below.
- `setup()` that failed half-way raises another error when it is called again
  (a duplicate label, or "populate() isn't reentrant"), though its docstring says it
  is safe to call multiple times. `core/management/__init__.py:409` and `:419` may
  call it twice, and the second error hides the first (`FailedStaysFailed`).
- `docs/topics/signals.md` lists `request_started` and `request_finished`; no
  code sends them.
- A live receiver is pruned with a dead one of the same key
  (`core/signals.py:77`), if it was connected after the send that found that one
  dead had copied the list: the pruning goes by key. `contested` marks its key,
  and `WantedStaysConnected` says that pruning removes no other live receiver.
- `override_settings.enable` leaves its override in force if a receiver of
  `setting_changed` raises, an object that is entered twice forgets the outer
  holder, and `modify_settings` sends `setting_changed` before the swap, so
  that its receivers read the old value. A thread that reads in the
  middle of a swap memoizes the old value for good. `excused` in `Settings`
  marks all of these but the order of the signal, which changes no state.
- A thread that reads a setting while another swaps `_wrapped` may find neither
  (`conf.py:141` clears the dict, `:142` stores `_wrapped`) and gets a
  `RecursionError`, or an `AttributeError` if `_wrapped` is there before the
  recursion ends. `OverridesNest` says that it gets no outdated value.
- Messages are "one-shot notifications" (`docs/topics/messages.md:3`) and go to the
  cookie "or [...] into the session instead" (`:75`). When `FallbackStorage`
  overflows in a request whose cookie has messages, they stay in the cookie and
  the whole list goes to the session as well (`contrib/messages/storage.py:201`):
  the next page lists them twice (`"copies"`). In a request that has shown them
  before, the overflow brings them back (`"astray"`).
- The cookie of the messages has no `Path` (`contrib/messages/middleware.py:30`),
  that of the session has `Path=/` (`contrib/sessions/middleware.py:131`). A
  message that is added at `/blog/save` does not "survive a redirect"
  (`docs/topics/messages.md:3`) to `/`: it waits until a page below `/blog` is
  visited, and one that is added at `/` and shown at `/blog/list` is shown again,
  because the cookie of `/` is not expired from there (`"astray"`).
- `CookieStorage` drops a message that does not fit without a
  word when it comes from `messages.info` and its relatives.
- A body over the limit is replayed to the handler as if its first part were
  all of it (`middleware/csrf.py:166`), which `BodyIntact` states as it is.

- `RenameField.mutate_state` (`migrations/operations.py:151`) renames the field
  but not `TableSpec.pk`. After a key column has been renamed, the next rebuild of
  the table (`AlterField`) therefore creates it without a PRIMARY KEY. No instance
  renames a key, and `OwnAssumption` excludes it from the proofs.

### Fairness

`Tasks`: every executor that can take a step of `execute_task` takes it, pool
threads take waiting work, workers keep looping and are restarted by their
supervisor (weak fairness). `PassTake` is strongly fair: an entry has one fixed
due time, so it cannot be found not due for ever, although each single visit
may find it so. Handlers are assumed to return. Faults are never fair.
`Cache`: a thread finishes the call it has begun, and lifetimes end. Nothing
forces anybody to begin a call.
`Process`: the main thread goes on with `setup()`, the loop of beat with its
tick, and time passes (weak fairness: each is a thread that runs, or the
clock). `Restart` is strongly fair: a supervisor starts a command again that
keeps failing, but between two attempts it is disabled. `BeatGoesOn` assumes
that nobody stops the process and that from some time on the broker is up and
what is deployed boots; without either the code cannot do it. Threads that
serve or test are not fair: nothing there must happen.

## Proofs

`TasksProofs` proves, for any numbers of processes, threads, tasks and
attempts, for every broker and every set of faults, from the named assumptions
of `Tasks` alone:

- `TypeCorrect`. The types are inductive only together with `HandsOK`: an
  executor holds a job exactly while it is inside `execute_task`.
- `ExclusiveExecutionHolds`, `AttemptsBoundedHolds`,
  `FailedMeansExhaustedHolds` and `FinalIsFinalHolds`.

The argument is one inductive invariant. A task id has at most one *place*: it
is in the broker queue, or at one live position of one retry queue (at or
after the cursor of the pass under way), or in one `still` list, or in the
hands of one executor. Every step moves it from one place to another or drops
it. The attempt number at that place then equals the number of times the
function was entered, less one while it is being executed, which gives the
bounds; a final state means that the id has no place left except in the hands
of the executor that is about to return, which gives finality. The invariant
was first checked by TLC as an invariant of `MCTasksRedis` and `MCTasksThread`.

`SessionsProofs` proves, for any numbers of clients, requests and keys, for
both engines, every set of operations and faults, assuming only that the set of
requests is finite:

- `TypeCorrect`, inductive together with `Under`: a request under way has an
  owner, and one that is being saved has a key.
- `IsolationHolds`: no request finds another client's item. A key *leads to* a
  client that has it in its jar, a client one of whose requests carries it, and
  a client one of whose items is in its row. `OneClient` says that a key leads
  to one client at most. It is kept because a key gets a second holder in two
  ways only: from the jar of the same client, or from `new_key`, and a key that
  was never issued leads to nobody (`Unissued`, `Traceless`).
- `NoInsertMeetsRowHolds`: the lookup and the insert of `save` are two steps,
  and between them only a request of the same client could store the row
  (`OneClient`). A client that waits for its responses has no other request
  under way (`OneInFlight`).

- `KnownIsKeptHolds`: the row of the cookie of a careful client (`Serial` and
  not `excused`) holds all that was confirmed to it, at every moment and not
  only when it is idle (`KeptFor`). While a request is under way it *carries*
  that content: in its copy, unless the handler emptied the session, and once
  it has responded in the row of the key that it sets (`Carries`). Each step
  touches one row, whose key leads to no other client, so the others are as
  they were. `Purge` deletes nothing of such a client because nobody else could
  save the row since it expired (`PurgesExpired`).
- `ErasedStaysErasedHolds`: an item of a `Serial` client is in one row at most,
  and what was erased is in no row and in no copy that may still be saved
  (`OneRow`, `Gone`). The item of a request that was not yet saved is nowhere
  else and never erased (`Fresh`).

That new keys are fresh is an assumption of the model (`secrets.token_urlsafe`
is external), and the isolation proof rests on it.

`TasksProofs` also proves `TasksImplementTaskLife`: as long as result records do
not expire, every step of `Tasks` is a step of `TaskLife` or leaves its
variables alone. Without expiry the record of an attempt under way says STARTED
until the attempt ends, and RETRY is stored only after an attempt (`Unexpired`,
on top of the invariant above).

`ProcessProofs` proves, for any threads, receivers, applications, schedules,
intervals, overrides and any errors while booting, that the invariants of the
four parts hold together (`ProcessKeeps`), and from that all safety properties
of `MCProcess`:

- Signals: only a thread that is about to prune has found receivers dead
  (`DeadPruned`); a live receiver whose key is not contested is connected, and no
  send has its key among the dead or an earlier receiver of it in its snapshot
  (`WantedSafe`); and who stays connected is in the list of the send or was
  called (`DueCovered`). With that `RegistrationsAreKept`
  and `ListenersHear`.
- Startup (`StartupProofs`): what is labelled, imported and hooked when a thread
  is in each phase (`PassedLabelled` to `Complete`); that without a race one
  thread populates at a time (`Alone`); and that after a failure whoever enters
  `populate` meets the label of the first entry (`Failure`). With that
  `BootIsComplete`, `HooksRunOnce` and `FailureIsFinal`.
- Beat: what has passed since an entry was handed over and what is left until
  it is due make up its interval, but for the time the tick took to reach it
  (`GapCovered`). With that `IntervalsAreKept`.
- Settings, unless `excused`: each open block has saved the blocks around it
  (`SavedNest`), what `_wrapped` is or is about to be (`InForce`) follows the
  blocks and the override that is being enabled (`WrappedFollows`), and what is
  memoized or about to be is the value in force (`ReadsCurrent`). With that `OverridesAreNested`.
- `NewProcess` establishes the initial states of the parts again, while only the
  main thread is at work (`OnlyMain`).

`RequestsProofs` proves, for any number of requests under way, messages,
tokens, chunks, URLs with their directories, and any capacity:

- `StoragesImplementInbox`: `Requests` implements `Inbox` for each of the three
  storages. While messages are promised anything there is one request at most
  (`CalmAlone`); what it works on (`Cargo`, and the messages of its session) and
  what it has shown make up what waits in the browser and what it has added, and
  what it has shown is no longer in what it works on (`CalmMessages`). The cookie
  that it carries is then that of its own directory, the only one with messages.
  Without copies no list has a message twice (`CalmOnce`), which rests on lemmas
  about injective sequences. A delivery is then one `Exchange`, and a lost response
  none. Messages are used before they can be anywhere (`UsedCovers`), so a new one
  is new, and each storage leaves the part of the others alone (`StorageUse`).
- `FormsAreAccepted`: while nothing is disturbed, the tokens of the open pages
  are that of the session (`CalmTokens`).
- `BodiesAreIntact`, `RequestsTyped`.

`CacheProofs` proves, for any threads, keys, calls, limit and culling frequency,
and for both backends (no limit is claimed for the culling frequency 0, which keeps
live entries, nor for a limit of 0):

- `CacheTyped`, `SizeBoundedHolds` and `TalliesExactHolds`. A store has one entry
  per key, and `_cull` leaves a full one with room for the entry that `_set` adds
  after it (`CullLeavesRoom`): of the live entries the first is always dropped.
  Whatever else a primitive does to the store, each entry of the result is one
  that was there or the one that is stored (`Among`, `InsertEntry`). An entry of a
  counter that is alive then has the value of its tally (`Exact`), because the
  lookup and the store of `LocMemCache._incr` are one step. No thread is ever at
  the second step of an increment on that backend (`ThreadInv`).

`MigrationsProofs` proves, for any applications, migration files, operations,
requests and numbers of commands, whatever fails or crashes:

- `MigrationsTyped`. `TypeInv` adds what a command has left to do, which always
  exists (files are only appended, and only while no command runs), and the
  transaction of the command that holds the lock.
- `DataChangedOnceHolds`. What the data of a migration has been changed by is what
  the record says, or, while a rollback has undone part of it, as much as that
  rollback has left (`DataAt`); what is not committed yet is counted for the
  command with the lock, up to the operation it is at (`Uncommitted`). Two rollbacks
  inside migrations of one application leave it `loose` (`Undoers`). Because a
  transaction ends in the unique index of the record, a command whose list is
  outdated cannot commit what another has committed.
- `DependenciesFirstHolds`. Each migration depends on files that were there before
  it, so the numbers of the order in which they were written rule out cycles
  (`Acyclic`). Then the depth-first walk lists what a migration depends on before
  it (`VisitOrders`), also when it is filtered for what is pending
  (`PendingPreceded`). What the record contains is closed under dependencies
  (`RecordClosed`), and what a command has left to do comes after what it depends
  on, either in the record or earlier in its list (`TodoOrdered`), whatever other
  commands add to the record meanwhile.
- `DetectionSettlesHolds`. An operation changes the spec of its own table only
  (`MutateAt`), and one on a field that field only (`FieldsMatch`). What is detected
  for a table is one creation, one deletion, or at most one operation for each
  field in which the two specs differ (`ChangesDetected`). Folding the detected
  operations onto the state they were computed from therefore ends with the declared
  tables, but for the fields that detection passes over (`ChangesSettle`); that a
  file appended to those of an application appends its operations (`OperationsGrow`)
  gives the property for the files as they are after the step.

- `SchemaFollowsRecordHolds`. The invariant `SchemaInv` relates the tables to the
  record through everything that happens to them. The recorded migrations of an
  application are, but for empty ones, its first ones (`Filled`), and its tables
  are those that their operations fold to (`SteadyAt`). While a rollback has undone
  part of a migration, the tables are those before the operations it has undone
  (`UndoneAt`). A transaction has executed a beginning of its migration
  (`WorkAt`), and every operation of a recorded migration found what it changes
  (`SoundAt`), without which undoing it would not lead back. The steps are two
  facts about single operations: executing one on the tables of a state gives the
  tables of the mutated state or fails (`ForthMade`), and undoing one of a
  retraceable migration gives those of the state before it (`BackMade`), although
  the reverse is rendered from the states around the whole migration. The states
  that `apply` and `rollback` render from are folded in the order of the graph,
  across all applications; that this agrees with the files of the one application
  wherever its tables are concerned is `BeforeAgrees`.
- `MigratedIsDeclaredHolds`. If detection finds nothing, the folded state has the
  declared tables with the declared fields, but for what detection does not
  compare (`ExpectedIs`); with `SteadyAt` for a record that is complete, the tables
  are the declared ones.

Both rest on `TablesAssumption` and `OwnAssumption`, of which the induction shows
that they extend to every file that `makemigrations` appends (`FilesOwn`).

Inductions over lists cannot be had from the library, whose theorems take the
induction hypothesis as an operator; here they are done by the smallest
counterexample (`Smallest`): of the positions where a fact about a fold fails there
would be a least one, which contradicts its step. `ListsProofs` has the results:
what a filtered list contains and in which order (`OnlyElements`), how a fold
unfolds (`ThroughSteps`), what it reaches (`ThroughReaches`) and within what it
stays (`ThroughWithin`).

Only model-checked: the liveness properties (`EveryTaskFinishes`,
`NoRetryForgotten`, `StopIsHonoured`, `EventuallyFresh`, `BeatGoesOn`), which are
out of the prover's reach.

## Not modelled

Each component's entry in `PROJECT.json` gives the reason. Within the modelled
components: `AsyncResult.get` (it polls `status`), the pre-forking of
`--concurrency`, custom session engines, the file-based cache, the alias
registries and other caches that are filled on first use, `cache/http.py`, how an
entry of `INSTALLED_APPS` names its configuration, `settings.configure`, and
messages that are added after the response has started.
Redis, the databases, browsers and clocks are external: they do what their
callers rely on, one atomic command or statement at a time.

What is left is of three kinds. Functions of one request or of their arguments
(host and security middleware, signing, password hashers, validators, humanize,
system checks, the admin's forms, the test client) keep no state between calls
and are served better by the unit tests of the repository. Single-row reads and
writes (authentication, redirects, admin) leave their correctness to the
database. And the scripts under `site/` are the generated documentation with
the search library and word segmenters of third parties that its generator
ships (`lunr`, `wordcut`, `tinyseg`), no part of ronnie.

The hazards without a property in `PROJECT.json` each say why: the docs promise
nothing that could be stated (`RedisCache.incr`, the file-based cache), the
window is already shown by `MCCacheLock` (`touch`), what is lost may be lost at
any time (the registries), or only durations differ (the countdown that is
slept off).
