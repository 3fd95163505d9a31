# A TLA+ verification of gocq-qqdrive

The program is a QQ bot: it logs an account in, turns what happens into events
that it reports to its users over HTTP and WebSocket, and performs the API
calls they send back. This directory holds TLA+ models of its concurrent core,
TLC configurations that check them on small instances, and theorems about them
that TLAPS proves for every value of the constants. Paths are relative to the
repository; `PROJECT.json` says which lines every definition stands for.

Run a check with `tlc -config MCReverseWS.cfg MCReverseWS`, a proof with
`tlapm ReverseWSProofs.tla`.

## 1. The system

| Component | State it keeps | Operations | Talks to |
|---|---|---|---|
| Reverse WebSocket client (`server/websocket.go`, `WebSocketClient`) | one field per push role (`eventConn`, `universalConn`), a mutex and a write deadline per connection | `Run`, `connectAPI/Event/Universal`, `listenAPI`, `onBotPushEvent`, `handleRequest` | the user's server; the bot's event list |
| Forward WebSocket server (`server/websocket.go`, `webSocketServer`) | the slice `eventConn` with `eventConnMutex`, a mutex per connection | `event`, `api`, `any`, `listenAPI`, `onBotPushEvent`, `handleRequest` | WebSocket clients; the bot's event list |
| Downloader and cache (`global/net.go`, `coolq/api.go`, `coolq/cqcode.go`) | cache files named by the hash of the URL; the blocks of each call | `DownloadFile`, `DownloadFileMultiThreading`, `CQDownloadFile`, `makeImageOrVideoElem` | web servers, the file system |
| Web server (`server/apiAdmin.go`) | `s.bot`, `s.Cli`, `s.Conf`, `JSONConfig` | `Run`, `Dologin`, `DoReLogin`, `UpServer`, `ReloadServer`, the admin actions, the `OnDisconnected` callback | the QQ client library, the HTTP server, the configuration file |
| HTTP API server (`server/http.go`, `server/api.go`) | the singleton `cqHTTPServer` (`bot`, `HTTP`) | `Run`, `ShutDown`, `HandleActions` | the extension API |
| HTTP event reporter (`server/http.go`) | the address | `onBotPushEvent`, up to five attempts | the bot's event list |
| Event dispatch (`coolq/bot.go`) | the list of receivers | `OnEventPush`, `dispatchEventMessage`, the heartbeat goroutine | every receiver, one goroutine per event and receiver |
| Login dialogue (`server/apiAdmin.go`, `logincore`) | the count of attempts, the channel `WebInput` | slider, captcha, SMS and device questions | the admin API (`do_web_write`), the console |
| Admin configuration (`server/apiAdmin.go`, `global/config.go`, `global/fs.go`) | `config.hjson` | the `do_config_*` actions, `LoadConfig`, `Save` | the web server |
| Process control (`main.go`, `server/apiAdmin.go`) | the channels `Restart` and `Console` | `do_process_restart`, `do_restart_docker`, the loop of `main` | the operating system |
| CQ codes (`coolq/cqcode.go`) | none | parsing, escaping, `ToElement` | the extension API |
| Extension API (`coolq/api.go`) | none of its own | forward messages, short videos, downloads | the QQ client library |
| Startup and self update (`main.go`, `global/fs.go`) | the configuration, the executable | import, password encryption, replacing the executable | the file system |
| Rate limiter, log hook, codecs, parameters (`global/`) | a token bucket | | |

**How they interact.** A bot event (today only the heartbeat of `NewQQBot`)
calls every registered receiver in a goroutine of its own and recovers its
panics. A receiver is `onBotPushEvent` of the reporter, of a reverse client or
of the forward server. An API request comes in through HTTP or a WebSocket
connection, each in a goroutine of its own. The admin API replaces bot, client
and configuration under all of them, by assigning the fields of one shared
structure.

**What is hard.** Nearly every field that several goroutines use is used
without a lock, or with the lock of an object the field no longer refers to;
connections break at any moment and are replaced while others wait for them;
logins block for minutes; a download's parts fail one by one. The list
`hazards` of `PROJECT.json` has each of these at its line.

**What correctness means for each component.**

- *Reverse client*: one writer at a time on a connection, as far as the mutex
  reaches; no lock leaks; one reader per role; a lost connection is replaced
  and none is left behind; no event is dropped once registered; pushes end.
- *Forward server*: each push serves each subscriber once and drops exactly
  those it cannot write to; requests are answered; what the unguarded append of
  `/` can break, and what it cannot.
- *Downloader*: the blocks partition the resource; a reported success left it
  whole; every call returns (but see section 5).
- *Web server*: once everything has come to rest, bot, client, session and HTTP
  server belong together.
- *Event dispatch*: each event reaches each registered receiver, in no order.
- *Login*: an input answers the question it was given for; no session is given
  up before its attempts are made (that one more is made: section 5).
- *Admin configuration*: an edit changes its own section and is kept; the file
  is there and whole; what is shown is what the file holds.
- *Process control*: a restart that was asked for is accepted, and its caller
  gets an answer.
- *CQ codes*: what a message says survives being shown and parsed; parsing loses no text
  and mixes no parameters.
- *Startup and self update*: the password and the executable survive a kill at
  any step; the login uses the right hash.

## 2. Modules

| Module | What it models |
|---|---|
| `ReverseWS` | the reverse client; `MCReverseWS` instantiates it, `ReverseWSProofs` proves its theorems |
| `EventHub` | abstract: what the forward server promises its event subscribers |
| `ForwardWS` | the forward server, with the refinement of `EventHub`; `MCForwardWS`, `ForwardWSProofs` |
| `Download` | the downloader with the file system; `MCDownload`, `DownloadProofs` |
| `HotRestart` | the web server, the HTTP server's life and the session; `MCHotRestart`, `HotRestartProofs` |
| `AdminConfig` | the admin requests over `config.hjson`; `MCAdminConfig`, `AdminConfigProofs` |
| `Login` | the login dialogue, the inputs over the web, the loop of `main`; `MCLogin`, `LoginProofs` |
| `Startup` | from the start of the process to the login, and self update; `MCStartup`, `StartupProofs` |
| `CQCode` | the two formats of a message and the parser between them; `MCCQCode`, `CQCodeProofs` |

They meet where the code does: `HotRestart` has a login attempt and an edit of
the configuration as one step each, `Login` and `AdminConfig` have what is
inside them; `Login` counts the children of `restart`, `Startup` is what a
child does; a load or save that is one reading or two steps in `AdminConfig`,
where requests overlap, is the same in `Startup`, where a kill comes between.

A definition marked *Mutation* is no part of a model. It is a faulty version of
the definition after it, kept to show that a property rejects the fault:
`PROJECT.json` pairs each property with one.

### ReverseWS

State: `role`, `link`, `timed`, `open`, `listener` and `lock` describe the
`webSocketConn` objects, `ptr` is the field events are pushed to, and each kind
of goroutine has its program counters: `run` for `Run`, `ppc` with the locals
`mine` (the variable `conn`, whose mutex is taken), `target` (the connection
`WriteJSON` runs on) and `fresh` (dialled, not stored) for `onBotPushEvent`,
`rpc` for `handleRequest`, `dialers` for `go c.connectAPI()`.

A push is the sequence `PushLoad` (198-200), `PushLock` (201), `PushDeadline`
(203), `PushBegin`/`PushOk`/`PushFails`/`PushPanics` (204), `PushCloses`
(206), `PushDial` (207-209) and `PushPublish` (174): `Reread` is taken at
each place where the code reads the field again. A write that overlaps another
one on the same connection panics (gorilla/websocket v1.4.2), and the deferred
unlock and the recovery of `dispatchEventMessage` run.

`Collect` reuses the identity of a connection nobody refers to, so the number
of reconnections is unbounded although `Conns` is finite.

### ForwardWS and EventHub

`registry` is the slice; `pc`, `i`, `l`, `conn` and `rest` are the loop of
`onBotPushEvent`; `JoinAnyReads` and `JoinAnyWrites` are the two halves of the
append that `any` makes without the mutex. An append within the capacity of the
slice writes into the shared array (`InPlace`), so the outcome of a race is a
choice. The ghost `racy` records that one has happened. `Hub` maps the loop to
`EventHub`: subscribed is who is in the slice, pending who is subscribed and
not yet served. `ImplementsHub` is the refinement until a race: the initial
state and every step before it map to `EventHub`, and if there is never one, so
does its fairness. `Mixes` are the endpoints the clients connect to.

### Download

`data[n]` is the set of offsets of the inode `n` that hold the right byte;
removing a path leaves the inode to whoever has it open. A caller is a program
counter with its `blocks`; a single stream is one block. `PlanBlock` and
`PlanLast` are the loop that cuts the resource, `PlanForEver` is its round when the
block size is not positive: the caller stays where it is, and the blocks that fill
the memory meanwhile are left out. `BlockReads` is one read and write.
`BlockFails` stands for every error that is reported, `BlockFallsShort` for the
faults that are not: a body that ends early, an error page that is stored, a
200 answer to a range request, a failed flush.

### HotRestart

`cli`, `bot` and `conf` are the fields of the web server and `shared` says that
`JSONConfig` still is the object `s.Conf`, which is so until the first edit or
restart. `Main` is the goroutine of `WebServer.Run`, a handler that of a
`do_restart`: `Authorize` is `AuthMiddleWare`, which panics without a
configuration, `Clear` and `Load` are `AdminDoRestart` and `DoReLogin`.
Both run `Enter`, `LoginCalled`, `LoginReturns` and `Make` (`Dologin`), reading
`cli` anew at each step. `disk` is the file, or `NoFile` when there is none that
parses: an editor may break or remove it. `LoadFails` is the panic on `conf.Uin`
(418) that follows, after `s.bot` and `s.Cli` have been set to nil; the ghost
`unloaded` says that this is why there is no client.

`callback` is the goroutine that `OnDisconnected` gives a client that has lost its
session. `starting` are the goroutines of `cqHTTPServer.Run`; each makes one
server, which is "due" until the goroutine has stored it in `s.HTTP`, then "new",
"open" and "closed". `address` is the host and port it was told. `Launch` starts
one if the configuration enables HTTP; `StartPanics` is what stops the caller
first (no configuration, or an event reporter for a nil bot), `StartsAll` is the
rest, where WebSocket goroutines with a nil bot end the process. The ghost `early`
records that `ShutDown` met a "new" server, which then never listens while an
older one may; `beside` that a server was started, or was about to be, while
another had not been shut down, because restarts overlapped or because the
configuration a restart found had HTTP disabled. The server of the account ends
a session when another client logs in (external).

### AdminConfig

A request is one goroutine: `Begin` and `Authorize` are `AuthMiddleWare`, which
takes the configuration, and the handler takes it again. `GetConf` gives the
object `live` while `JSONConfig` is set (`shared`, `onLive`), else `Exists`,
`Open`, `Read` and `Rename` are `LoadConfig`: `seen` are the contents the file
had while it was being read, of which a reading may be a mixture. `Truncate` and
`Write` are `Save`, on the file that had the name when it was opened. A file
is what renaming leaves alone; its contents are a value for each section, the
request that set it. An empty text parses as an object without members
(hjson v3.1.0), so every section is `Zero`, and a section that is a pointer is
nil. The text of a `do_config_json` may be null, which makes the handler's pointer
nil and is saved (`nulled`), or have a null for a section that is a pointer
(`Given`), which stays nil in the shared object when the text is refused. A section
also is `Zero` when it lacks what its edit goes through: the map `post_urls`, the
first of the servers. `HotRestart` has an edit of the configuration as one step: there only its
aliasing with `s.Conf` matters. The marshalling of the shared object is one
step, the assignments to it another; requests have well-formed headers. Someone
who edits the file by hand truncates and writes it in two steps too, and may take
a section out.

### Login

`pc` is where `logincore` is: at a call of `Login`, at `Again` with a result
`res`, at one of the `Questions` it waits for text at, at one of the `Enters` at
the console, or at `Relogin`. `WebInput` is the channel with room for one;
`Looks` and `Writes` are the two moments of a `do_web_write`: somebody decides
to answer, and the input gets into the channel. What an input says is a choice
when it is read (`Answered`), so only whom it was meant for is kept; the ghost
`stray` records that one was given without a question of its own. `Restarts` is
one turn of the loop of `main`; `AsksDocker` sends to `Console`, which nobody
reads. A nil result that is looked at ends the process.

### Startup

One process at a time goes through `init` (`getConfig`, the import of
`cqhttp.json`) and `main` (the arguments, `device.json`, the encryption of the
password, its decryption, the upgrade of the old scheme, the login). A
configuration is the credential it holds, in the clear or under a key by either
scheme. `Save` is two steps, `Truncate` and `Write`, each of which may fail,
after which the caller goes on as if it had not; `Killed` may come between any
two steps. `StartsChild` is `restart`: the same arguments and no console.
`SelfUpdate` to `Clean` are the file operations of an update. The ghost `mishap`
lists exactly what may cost the credential, `bungled` what may cost the
executable: both are what the code does not handle.

### CQCode

A string is a sequence of symbols, a message one of elements. `S1` to `S4` and
`End` are the labels of `ConvertStringMessage`; each action reads up to the next
symbol its loop looks for. `SaveCQCode` is the closure `saveCQCode`; each
element of the result has a ghost that says where it was read. `ToElement` makes a
`LocalVideo` of a video, the `LocalVideoElement` for the file its code names: the
URL that `ToStringMessage` wrote is read and never used. The escapes are
what `strings.ReplaceAll` does, one character and one entity at a time.
`Symbols` are all symbols and `Words` those in the names of videos and the
numbers of forward messages, which the code writes without escaping them; they
are hashes and identifiers, so no word is a `&`, a comma or a bracket that
closes a code.

## 3. Runs

| Run | Checks | Instance |
|---|---|---|
| `reverse_ws` | `TypeOK`, `LockOwner`, `OverlapNeedsStaleLock`, `ApiExclusive`, `LiveUniversalIsRead`, `ApiNeverTimesOut`, `NeverDropped`, `PtrMovesForward` | 3 connections, 2 pushes, 1 request, universal, event with API, or API alone, with and without reconnection |
| `reverse_ws_reconnect` | `NoOrphan`, `LostConnReplaced`, `ApiReturns` | 2 connections, 1 push, 1 request, each role with reconnection, heartbeats |
| `reverse_ws_push` | `PushCompletes` | 3 connections, 2 overlapping pushes, an event URL |
| `forward_ws` | `RegistryExact`, `ServesInOrder`, `LeakIsClosed`, `ImplementsHub`, `RequestAnswered` | 3 clients on four mixes of `/event`, `/api` and `/` |
| `download` | `TypeOK`, `BlocksDisjoint`, `BlocksCover`, `BlocksInside`, `DownloadedIsComplete`, `CallReturns` | 1 caller, lengths 0, 2 and 7, 1, 2 or 7 threads |
| `download_shared` | `DownloadedIsComplete` (violated) | 2 callers of one URL |
| `hot_restart` | `BotFollowsClient`, `SessionKept`, `ListenerIsKnown` | 2 handlers, 3 clients, 2 addresses, 1 lost session or edit |
| `hot_restart_effect` | `RestartTakesEffect` (violated) | 1 handler, 2 settings, 1 edit |
| `admin_config` | `AloneExact`, `RefusedStaysOut`, `FreshAfterEdit`, `AlonePanic`, `GoneForGood` | 2 requests of any kinds, 2 sections, 1 edit by hand |
| `login` | `WrongNeedsStray`, `NotGivenUpEarly`, `LoginEnds`, `RestartReturns` | 2 people answering, 1 caller, 4 configurations, 1 lost session |
| `startup` | `CredentialKept`, `LoginHash`, `ExecutableKept` | 4 starts from any files an installation may hold |
| `cq_code` | `RoundTrip`, `PiecesExact` | texts of up to 3 symbols, strings of up to 4 fragments |

**What they show.**

- *Reverse client.* The mutex protects a connection except from a push that
  waited for the mutex of another one: two writers on a connection always
  include such a push (`OverlapNeedsStaleLock`), so answers never collide with
  each other. No path leaks a lock. The API role has one reader, sleeper or
  dialler at a time; a working universal connection is read; without
  overlapping pushes no connection is left behind; with heartbeats a lost
  connection is replaced. Two things one might expect do not hold and are not
  claimed: with overlapping pushes a reconnection can leave an orphan, and on a
  universal connection the deadline of the last push applies to later answers
  (`ApiNeverTimesOut` is about API connections).
- *Forward server.* Until an unguarded append of `/` meets another one or a
  push, the server implements `EventHub` and answers every request: the
  swap-and-cut removal in the loop skips nobody, and the mutex that the failing
  path never releases belongs to a connection that is closed and out of the
  slice. Even after such a race the leaked mutex is that of a closed connection;
  but a push may then wait for it for ever, so `forward_ws` does not check for
  deadlock.
- *Downloader.* The blocks partition the resource and a failure of any of them
  is reported. A call returns, unless its thread count leaves no positive block
  size: then it never does (section 5). With two requests for one URL a success may be reported while
  the file is missing or incomplete (`download_shared`).
- *Hot restart.* However two restarts, the first login and the callbacks of old
  clients interleave, at rest the bot is one of the current client and the session
  is up unless it was lost before the callback was registered; only a restart that
  finds no configuration leaves neither client nor bot (`unloaded`). A listening
  server is the one the next restart will close, if each was shut down before
  the next was started. If not (`beside`), an older one may go on listening, at
  another address, or at the same one when a server was shut down before it
  listened (`early`). A deadlock is not an error here: the process may exit, or
  have no further restart to do. But a restart puts the previous configuration in
  force (`hot_restart_effect`).
- *Admin configuration.* Requests that overlap can lose an edit, wipe the
  sections they do not edit, or rename a good file away, and nothing in the
  code or its documents says otherwise; what holds is stated for a request that
  nothing overlaps. It changes its own section and no other, whatever earlier
  ones left (`AloneExact`; the text null is no edit of a section), panics only on
  a file that is gone or lacks what it edits, and shows the file as it is once
  `JSONConfig` has been dropped. Until then edits by hand are overwritten, and a
  refused `do_config_json` leaves its part in the shared object: what it set, which
  the next edit saves, or a nil section, on which the next edit of that section
  panics over a whole file (`Leftover`). A file that was renamed away stays away until
  someone writes it (`GoneForGood`). Requests may be over: no deadlock check.
- *Login.* A question takes the wrong answer only after somebody has answered
  when nothing was asked, or twice; from then on every later answer is shifted
  by one, and the code never empties the channel. A lost session is given up
  where there is a limit and after no fewer failures than it allows, for bad
  networks and questions are not counted; the code makes one attempt more than
  that (section 5). A dialogue ends unless, with `web_input`, it asks for Enter at
  the console all the same, in two places. `do_process_restart` always returns
  once `main` is in its loop; the second `do_restart_docker` never does. The
  process may end, or wait for Enter for ever: no deadlock check.
- *Startup.* The password can be had from one of the files between any two steps
  unless a save is cut short or fails, `config.json` does not parse,
  `cqhttp.json` is imported, or a wrong key is used while the old scheme is
  upgraded: each of these the code lets happen. With the right key the login
  is by the right hash. An update leaves a whole executable, under its name or
  the name `.old`, unless the download or the copy failed, which `UpdateFromStream`
  logs and ignores. No start is left at the end: no deadlock check.
- *CQ codes.* A message whose codes are accepted has its texts, its last forward message and the files
  of its videos again after it was shown and parsed, whatever its texts and URLs
  contain; the URLs are lost, and a video comes back as one to be sent from its
  file, which neither format can show. Parsing puts every symbol into one element, in
  order, and gives a code no parameter of another; of a code that does not end
  the beginning is lost, and nothing else. `done` is the last state: no deadlock
  check.

**Bounds.** Two pushes are what an overlap takes, and three connections one for
each of them and one in the field; identities are reused, so longer histories
need no more. The request meets each state of a push. In `forward_ws` three
clients put the failing connection first, in the middle and last, with another
append at each of them; the mixes are subscribers alone, with a client of the
API, with one on `/` (its append races with pushes) and with two (their appends
race with each other). In `Download` the threshold and the slack are scaled
down: length 7 on 2 threads gives blocks of 2, 2, 2 and 1 bytes, on 7 threads
the loop that never ends, 2 and 0 are streams, and 4 as the limit is between them;
a file has one byte per read. In `HotRestart`
`MaxClients` bounds the restarts to two, which may overlap or follow each
other, and `MaxEvents` the lost sessions and edits, not counting those the
restarts themselves cause; one edit can enable, disable or move the server or
leave no file. With events reported (`PostUrls`) a nil bot stops the caller;
`ReverseOn` and `WSOn` are false where later states matter: there it ends the
process, which `hot_restart_effect` has. Relogin is enabled; a callback is not
started twice for one client at the same time. In `AdminConfig` two requests
are what a race takes, or one that is alone after another; each is made once.
`MaxFiles` allows the file to be renamed and written anew twice; the edit by hand
falls anywhere. In `Login` two people are what it takes to answer one question
twice; limits of attempts are 0 (none), 1 and 2, and `Tries` is the 5 of the
code. In `Startup` four starts are an installation, two restarts or kills with
a key missed or mistyped, and one more that finds what they left. In `CQCode` a
text of three symbols holds an entity and a symbol beside it (`&`, `amp;`,
`#91;`), and four fragments hold two codes with a broken one between them.
Symmetry is used only by runs without liveness properties.

**Fairness.** Runnable goroutines run (WF on their steps). A Go mutex in
starvation mode serves its waiters in turn (SF on `PushLock`, `AnswerLock`,
`RequestLock`). A dial that is retried for ever finds the server up at last (SF
on dials; strong because the finite set of identities may be used up for a
while). A write on a dead link fails in the end: on the reverse client by its
deadline, on the forward server by TCP. Links need not break, requests need not
come. `LostConnReplaced` assumes heartbeats (`HeartbeatSpec`), the only thing
that notices a lost event connection; `docs/config.md` warns of turning them off.
`CallReturns` assumes that a request is answered or its connection breaks: the
HTTP client sets no time limit. Pushes of two goroutines are fair separately
in `PushFairSpec`, the part of `Fairness` that `PushCompletes` needs. In `Login`
the dialogue's own steps are fair, those who send to a channel are served in turn
(SF on `AsksRestart`; the runtime queues them), an open question is answered by
somebody over the web, or by the one at the console when `web_input` is off, and a
login that is tried for ever succeeds at last (SF on the step whose result is
"success"), without which a bad network would keep it going. Nobody need be at
the console when `web_input` is on. `Startup` and `CQCode` have safety properties
only.

## 4. Proofs

`ReverseWSProofs` proves, for any sets of connections, pushes, requests and
configurations, `TypeCorrect`, `LocksNeverLeak`, `OverlapsExplained`,
`ApiSafety`, `ReaderSafety`, `DeadlineSafety`, `NothingDropped` and
`PointerMovesForward`, the safety properties of the run `reverse_ws`. The only
assumption is `ConstantsAssumption`: pushes and requests are different
goroutines, and the two null values are not members of the sets they stand
beside. The inductive invariant `IInv` adds two facts to the properties.
`RolesOK`: pushes only ever touch connections of the push role, and an unused
identity carries no trace of its last use; without it a reused connection could
be born with a deadline. `FreshOK`: a connection dialled and not yet stored is
known to its dialler alone; without it storing it could set the field to a
connection another push has used. `OverlapNeedsStaleLock` follows from
`LockOwner`, which is inductive once types are.

`DownloadProofs` proves that the blocks of a download partition the resource
(`BlocksNeverOverlap`, `BlocksLeaveNothingOut`, `BlocksStayInside`), for every
length, thread count and number of callers, those included whose block size
is not positive: they never have blocks. The invariant `PlanOK` adds where a block began
(`begin - size`, which no step changes) and that planning stays below the end.

`ForwardWSProofs` proves, for any number of clients on any mix of endpoints and
whatever their appends do to the slice, that every variable keeps its type
(`TypeCorrect`; `TInv` adds that the loop is not beyond its end, without which
the element it looks at has no type) and that the mutex a failing push never
releases is that of a closed connection (`LeaksAreClosed`, inductive once types
are). The assumptions are that the mixes are assignments of endpoints and that
`None` is no connection.

The module goes on with what holds until a race: `SliceIsExact`,
`PushServesInOrder`, and `EventHubSteps`, the safety half of the refinement
(the initial state maps to one of `EventHub`, every step to a step or a
stutter). The invariant `HInv` adds to the two properties that an append of `/`
is alone and has read what is still the slice (`AppendAlone`), that the push
is at the element its index says and `rest` is the slice without it (`AtConn`),
and that a client about to be appended has never been locked by a push
(`LockedWasOpen`). It rests on lemmas about appending to and removing from a
sequence without duplicates, and on `Locks`, which holds in spite of races: an
answer being written, and a push that writes, hold the mutex they took.

`LoginProofs` proves, for any users, callers, configurations and bounds, types
(`TypeCorrect`), `AnswersMatch` and `AttemptsAreMade`. `WrongNeedsStray` is not
inductive: `OneOnItsWay` says where the one input can be as long as none has been
stray (with a user who waits for room, or in the channel, never both), that
its question is still open, and that it is meant for it. `Counted` relates
`times` to the failures: one more, as long as the process lives. The
assumption is that a configuration is a record of the right type.

`StartupProofs` proves, for any number of starts and any keys, that an update
never loses the executable (`ExecutableNeverLost`), that the password can always
be had from a file (`PasswordNeverLost`), and that the login is by its hash
(`LoginByHash`). `ExecutableSafe` adds to the first where the executable is at
each label of the update. The other two share `IInv`: unless there was a mishap,
`Sources` (a configuration in memory, in a file or being saved can be opened
with the user's key and holds the password or its hash; one not yet encrypted
is still the same in `config.hjson`, so that nothing is lost when the user's key
is chosen; `config.json` is there until the save is over), `Known` (what each
label may rely on) and `Somewhere` (where the credential is when a kill comes).
The assumption is that the contents `Absent` and `Torn` are no configurations.

`HotRestartProofs` proves, for any number of restarts, clients, lost sessions and
edits, types (`TypeCorrect`) and what is left once everything is at rest:
`BotIsOfTheClient`, `SessionIsKept` and `ListenerStaysKnown`. Those speak of states
at rest, so none is inductive; the invariant `IInv` says what is on its way.
`BotOK`: somebody is going to publish a client or to make the bot of the current
one, else the bot is of it, or a restart has found no configuration and nobody has
published a client since. `SessionOK`: the current client is online, or somebody
has called its `Login` or is going to. For that a client must not be known
before `s.Cli` is set to it (`SecretOK`: it could be online, and lost again,
with nobody to notice), and the callback of the current client must log in no
other (`CallbackOK`). `OneOK`: until `beside`, there is at most one server that is
not closed, none while the next is about to be started, and it is `s.HTTP` once
made. `ListenOK`: whatever overlaps, a server that listens at the address of
`s.HTTP` and is not `s.HTTP` is about to end the process, for the one made after it
finds the address in use. `MadeOK` says that each goroutine of `Run` makes a server
of its own. `RoomOK` counts the restarts that have begun against the bound, without
which `clients` might leave its range. The assumption is that `Main` is no handler
and the handlers are finitely many. The proof failed until `early` was added to
`ListenerIsKnown`: four clients and two edits leave an old server listening, an
instance that the bounds of the run did not reach.

`AdminConfigProofs` proves, for any number of requests, files, sections and edits
by hand, types (`TypeCorrect`), the four invariants of `admin_config`
(`OnlyItsSections`, `PanicsExplained`, `RefusedIsLost`, `GetIsFresh`) and the
action property `GoneForGood` (`OnlyAHandRestores`). `HiddenOK` says that what
a request has set in an object of its own is in no file, no text being read or
typed and no other's object, until it saves: `RefusedIsLost` follows. `AloneOK`
follows a request that nothing overlaps from its first step to its last: what it
knows of the shared object (`KnowsObject`), of the file while it loads it
(`KnowsFile`), and what it has changed (`Saves`). A request may be alone after any
number of others, so `SharedOK` says what those can have left while `JSONConfig`
is the object of the start: the object differs from it by refused edits only
(`Leftover`), and the file by edits by hand. The assumptions tell the values apart: a section
is not called as a kind of request is, and no request is one of the values that
a section starts with.

`NothingIsOrphaned` (`ReverseWSProofs`) and `OkIsComplete` (`DownloadProofs`) have a
hypothesis beside `Spec`: `[]NoOverlap`, at most one event is being pushed at a
time, at most one call of the downloader is in progress. They hold for any
number of pushes and calls one after the other, any roles, lost links and faults.
Both properties are false without it: two pushes that reconnect leave an
orphan, and `download_shared` is the counterexample of the other. The
runs have one push and one caller, for which the hypothesis holds by itself.
`OrphanOK` adds that whoever replaces the connection in use has closed it;
`BlockOK` that a block which has begun has the file at the path open, with all
it has read in it, and `FileOK` that a call removes the file before it makes its own.

`CQCodeProofs` proves, for any symbols and strings of any length, types
(`TypeCorrect`: the parser reads no place outside the string) and `PiecesExact`
(`PiecesAreExact`). The invariant `IInv` says where the parser is (`ReadOK`),
which positions the pieces make up at each label (`TileOK`), and that each
parameter in `d` was written in the code being read (`ParamsOK`). The types rest
on what the escapes return, so on `FlattenSeq`. Its recursion is over data, and
the library's rules of induction have a formula for a parameter, which the
provers cannot instantiate; so the module has its own, about a set of numbers
(`Induction`, from the well-foundedness of the naturals), and that what a loop
over a sequence computes exists (`Iterates`). `ConstantsAssumption` says that the
symbols include those with a meaning, and what the messages are: no word is a
`&`, a comma or a `]`, which the code does not ensure but the names it writes do.

The same module proves `RoundTrip` (`RoundTrips`), for messages of any length with
any texts and URLs, in four steps. Unescaping inverts escaping
(`EscapesInvert`), one symbol more at a time: the four entities are undone in an
order in which no `&` that one of them yields meets the rest of another, and
what is escaped has no symbol that would end a code (`Escaped`). What a
`FoldLeft` computes is its function, one element more at a time (`FoldIs`), so
the array format gives the same message back (`ArrayComesBack`), and texts beside each
other may be joined before or after they are escaped (`JoinJoins`, `EscapeJoins`).
In the string of a message each element has its place (`Layout`), and in a code
so have its name, keys and values (`CodeIs`). The invariant `RoundOK` says where
in that layout the parser is at each label (`Where`) and that what it has read is
what the elements before it come to (`Done`); one lemma per label (`S1Round` to
`EndRound`) shows that the next stop is the next one of the layout.

With that every safety invariant and action property that a passing run checks is
a theorem. Only model-checked is liveness, which is out of the prover's reach:
`LostConnReplaced`, `ApiReturns`, `PushCompletes`, `RequestAnswered`, `CallReturns`,
`LoginEnds`, `RestartReturns`, and the fairness of `EventHub` in `ImplementsHub` (its
safety half is `EventHubSteps`).

## 5. Disagreements found

- `download_shared`: `docs/cqhttp.md:958` says that `download_file` returns when
  the download is complete; two calls for one URL remove and write the same
  file without excluding each other.
- `hot_restart_effect`: `docs/adminApi.md:19-21` excepts only the ws part from
  what a hot restart puts in force; the settings that `Dologin` takes from
  `s.Conf` are those of the configuration before.
- Attempts to log in again: `docs/config.md:78` promises at most
  `max_relogin_times` of them. The code compares before it counts, and does not count
  the attempt made at once (`apiAdmin.go:296-301`): a limit of 1 makes two attempts.
  `Login` has the code's count; `NotGivenUpEarly` states the half that holds.
- A download that never ends: nothing checks the `thread_count` of `download_file`
  (`server/api.go:57`). For a resource above 1 MiB and a count near a tenth of its
  length or above, the block size is zero or negative and the loop at
  `global/net.go:147` appends blocks until the memory is full, although
  `docs/cqhttp.md:958` says that the call returns data. `Download` has it as
  `PlanForEver`; `CallReturns` excepts it by name.
- A restart without a configuration: `do_restart` drops bot and client before it
  loads the file (`apiAdmin.go:418, 498-499`); when the file is missing or does not
  parse, the request panics and the process goes on without either. No document
  says what should happen; `BotFollowsClient` and `SessionKept` except it.
- A refused `do_config_json` is not without effect while `JSONConfig` is the object
  of the start (`apiAdmin.go:631`): what it set is saved by the next edit, and a
  section it made null lets the next edit of that section panic. No document
  promises otherwise; `AloneExact` and `AlonePanic` except it.
- An edit that disables HTTP and a restart leave the old server listening; enabled
  again on another port, the next restart starts a second one beside it, which
  no restart closes any more. `ListenerIsKnown` excepts it by `beside`.

## 6. Not modelled, and the plan

Modelled, in this order: `ReverseWS`, `ForwardWS` over `EventHub`, `Download`,
`HotRestart`, `AdminConfig`, `Login`, `Startup`, `CQCode`.

Left out, because there is no state of this code to check:

- the list of receivers of `OnEventPush`: its race is that of the append of `/`,
  and no promise is made of the order or the number of receivers;
- the reporter's attempts at a POST, which share nothing, and the routing of
  requests;
- forward messages and the short video upload: single calls of the client
  library;
- `SplitURL`, and which file the name in a video's code stands for; whether it can
  be read is a choice in `CQCode`;
- the rate limiter (a library's token bucket), the log hook, the codecs and the
  parameter conversions: input, output and layout.

Worth proving next: the steps of `EventHub` after a race that loses nobody; that
`NoOverlap` may be weakened to pushes that do not reconnect at the same time.
