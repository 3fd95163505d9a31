----------------------------- MODULE HotRestart -----------------------------
(***************************************************************************)
(* The web server of the admin API (server/apiAdmin.go): the login at the  *)
(* start, the hot restarts admin requests ask for, the HTTP server that    *)
(* they shut down and start (server/http.go), the callback that logs in    *)
(* again when a session is lost, and edits of the configuration.           *)
(*                                                                         *)
(* The fields bot, Cli and Conf of the web server are shared by everyone   *)
(* without a lock and read anew at each use.                               *)
(*                                                                         *)
(* A definition marked "Mutation" is no part of the model: it is a faulty  *)
(* version of the definition after it, which a property must reject.       *)
(***************************************************************************)
EXTENDS Integers, Sequences, FiniteSets

CONSTANTS
    Main,           \* the goroutine of WebServer.Run
    Handlers,       \* the goroutines of the requests to do_restart
    Settings,       \* what Dologin and NewQQBot take from s.Conf
    NoConf,         \* the value of a variable that is out of scope
    Ports,          \* the addresses an HTTP server can be told to listen on;
                    \*   two that clash count as one
    Off,            \* the HTTP server is disabled
    NoFile,         \* there is no config.hjson that LoadConfig can read
    PostUrls,       \* there are URLs to post events to
    WSOn,           \* the WebSocket server is enabled
    ReverseOn,      \* there are reverse WebSocket servers to connect to
    MaxClients,     \* bound: clients ever made, hence bots and HTTP servers
    MaxEvents       \* bound: sessions the network loses and edits, together

ASSUME ConstantsAssumption ==
    /\ IsFiniteSet(Handlers) /\ Main \notin Handlers
    /\ PostUrls \in BOOLEAN /\ WSOn \in BOOLEAN /\ ReverseOn \in BOOLEAN
    /\ MaxClients \in Nat \ {0}

Clients == 1 .. MaxClients
Nil == 0

VARIABLES
    disk,       \* the contents of config.hjson, or NoFile
    conf,       \* the contents of s.Conf
    shared,     \* JSONConfig # nil; it then is s.Conf
    cli, bot,   \* s.Cli and s.bot, or Nil
    clients,    \* how many clients have been made
    bots,       \* bots[b]: the client of bot b
    inForce,    \* the settings that Dologin put in force
    pc,         \* the program counters of Main and Handlers
    mine,       \* mine[a]: cli in DoReLogin, then the client a is logging in
    loaded,     \* loaded[h]: conf in DoReLogin
    old,        \* old[h]: OldConf in DoReLogin
    online,     \* the clients that are online
    watched,    \* the clients whose OnDisconnected callback is registered
    callback,   \* callback[g]: "none", "begin", "retry" or "wait"
    target,     \* target[g]: the client that callback is logging in
    starting,   \* the goroutines of cqHTTPServer.Run: [bot, server, begun]
    http,       \* cqHTTPServer.HTTP: a server, or Nil
    httpBot,    \* cqHTTPServer.bot
    server,     \* server[i]: "none", "due" (Run is called, but has not made
                \*   it yet), "new" (made), "open" (listens) or "closed"
    address,    \* address[i]: where server i is to listen
    exit,       \* "no", or why the process has exited
    events,     \* how many there have been
    unwatched,  \* ghost: a session was lost before its callback was registered
    unloaded,   \* ghost: a restart lost s.Cli because it found no configuration
    early,      \* ghost: a server was shut down before it listened
    beside      \* ghost: a restart started a server, or was about to, although
                \*   another had not been shut down

confVars == <<disk, conf, shared>>
fieldVars == <<cli, bot, clients, bots, inForce, unloaded>>
localVars == <<mine, loaded, old>>
netVars == <<online, watched, unwatched>>
serverVars == <<starting, server, address, beside>>
cbVars == <<callback, target>>
httpVars == <<serverVars, http, httpBot, early>>
vars == <<confVars, fieldVars, pc, localVars, netVars, cbVars, httpVars, exit,
          events>>

Actors == {Main} \cup Handlers

Contents == [http : Ports \cup {Off}, settings : Settings]

Init ==
    /\ disk \in Contents /\ conf = disk /\ shared = TRUE
    /\ cli = 1 /\ bot = Nil /\ clients = 1 /\ bots = << >>
    /\ inForce = disk.settings
    /\ pc = [a \in Actors |-> IF a = Main THEN "enter" ELSE "idle"]
    /\ mine = [a \in Actors |-> Nil]
    /\ loaded = [h \in Handlers |-> NoConf] /\ old = [h \in Handlers |-> NoConf]
    /\ online = {} /\ watched = {}
    /\ callback = [g \in Clients |-> "none"]
    /\ target = [g \in Clients |-> Nil]
    /\ starting = {} /\ http = Nil /\ httpBot = Nil
    /\ server = [i \in Clients |-> "none"] /\ address = [i \in Clients |-> Off]
    /\ exit = "no" /\ events = 0 /\ unloaded = FALSE
    /\ unwatched = FALSE /\ early = FALSE /\ beside = FALSE

At(a, label) == exit = "no" /\ pc[a] = label

Goto(a, label) == pc' = [pc EXCEPT ![a] = label]

\* The local variables of a handler go out of scope.
Forget(h) ==
    /\ mine' = [mine EXCEPT ![h] = Nil]
    /\ loaded' = [loaded EXCEPT ![h] = NoConf]
    /\ old' = [old EXCEPT ![h] = NoConf]

\* A nil pointer: net/http recovers for a handler, nobody does for Main.
Panics(a) ==
    IF a = Main THEN exit' = "panic" /\ UNCHANGED <<pc, localVars>>
                ELSE Goto(a, "idle") /\ Forget(a) /\ UNCHANGED exit

----------------------------------------------------------------------------
(* AuthMiddleWare, AdminDoRestart and DoReLogin                             *)

\* GetConf(): JSONConfig, or what LoadConfig makes of the file.  A file it cannot
\* read it renames, so that there is none afterwards either.
GetConf == IF shared THEN conf ELSE disk

\* AuthMiddleWare: without a configuration it panics before any handler runs.
Authorize(h) ==
    /\ At(h, "idle") /\ GetConf # NoFile
    /\ clients + Cardinality({k \in Handlers : pc[k] \in {"clear", "load"}})
          < MaxClients
    /\ Goto(h, "clear")
    /\ UNCHANGED <<confVars, fieldVars, localVars, netVars, cbVars, httpVars, exit,
                   events>>

\* s.bot = nil; s.Cli = nil
Clear(h) ==
    /\ At(h, "clear")
    /\ bot' = Nil /\ cli' = Nil
    /\ Goto(h, "load")
    /\ UNCHANGED <<confVars, clients, bots, inForce, unloaded, localVars, netVars,
                   cbVars, httpVars, exit, events>>

\* JSONConfig = nil; conf := GetConf(); OldConf := s.Conf; cli := NewClient(...)
Load(h) ==
    /\ At(h, "load") /\ disk # NoFile
    /\ shared' = FALSE
    /\ loaded' = [loaded EXCEPT ![h] = disk]
    /\ old' = [old EXCEPT ![h] = conf]
    /\ clients' = clients + 1
    /\ mine' = [mine EXCEPT ![h] = clients + 1]
    /\ Goto(h, "set")
    /\ UNCHANGED <<disk, conf, cli, bot, bots, inForce, unloaded, netVars, cbVars,
                   httpVars, exit, events>>

\* NewClient(conf.Uin, ...) of a nil conf: s.bot and s.Cli stay nil.
LoadFails(h) ==
    /\ At(h, "load") /\ disk = NoFile
    /\ shared' = FALSE
    /\ unloaded' = (cli = Nil)
    /\ Panics(h)
    /\ UNCHANGED <<disk, conf, cli, bot, clients, bots, inForce, netVars, cbVars,
                   httpVars, events>>

\* Mutation: the new client is not published.
SetsNothing(h) == cli

Published(h) == mine[h]

\* s.Cli = cli
SetCli(h) ==
    /\ At(h, "set")
    /\ cli' = Published(h)
    /\ unloaded' = FALSE
    /\ Goto(h, "enter")
    /\ UNCHANGED <<confVars, bot, clients, bots, inForce, localVars, netVars,
                   cbVars, httpVars, exit, events>>

----------------------------------------------------------------------------
(* Dologin and logincore, for Main and a restart                           *)

\* if s.Cli.Online { return }
Enter(a) ==
    /\ At(a, "enter")
    /\ \/ cli = Nil /\ Panics(a)
       \/ cli # Nil /\ UNCHANGED <<localVars, exit>>
          /\ Goto(a, IF cli \in online THEN "make" ELSE "call")
    /\ UNCHANGED <<confVars, fieldVars, netVars, cbVars, httpVars, events>>

\* s.Cli.Login() is called, again after each failure.
LoginCalled(a) ==
    /\ At(a, "call")
    /\ \/ cli = Nil /\ Panics(a)
       \/ cli # Nil /\ Goto(a, "wait") /\ mine' = [mine EXCEPT ![a] = cli]
          /\ UNCHANGED <<loaded, old, exit>>
    /\ UNCHANGED <<confVars, fieldVars, netVars, cbVars, httpVars, events>>

\* Clients lose their sessions: the callback of each is called, if one is
\* registered and is not running.
Lose(lost, cb) ==
    /\ callback' = [g \in Clients |->
                      IF g \in lost \cap watched /\ cb[g] = "none"
                      THEN "begin" ELSE cb[g]]
    /\ unwatched' = (unwatched \/ ~(lost \subseteq watched))

\* Success, which ends any other session of the account; failure; or a way to
\* end the process: os.Exit or log.Fatal.
LoginReturns(a) ==
    /\ At(a, "wait")
    /\ \/ /\ online' = {mine[a]} /\ Lose(online \ {mine[a]}, callback)
          /\ Goto(a, "make") /\ UNCHANGED exit
       \/ Goto(a, "call") /\ UNCHANGED <<online, callback, unwatched, exit>>
       \/ exit' = "login" /\ UNCHANGED <<online, callback, unwatched, pc>>
    /\ UNCHANGED <<confVars, fieldVars, localVars, watched, target, httpVars, events>>

\* Mutation: the bot is made of the client that was logged in.
BotOf(a) == mine[a]

Current(a) == cli

\* s.bot = NewQQBot(s.Cli, s.Conf); the settings of s.Conf; s.Cli.OnDisconnected
Make(a) ==
    /\ At(a, "make")
    /\ \/ /\ cli = Nil /\ Panics(a)
          /\ UNCHANGED <<bot, bots, inForce, watched>>
       \/ /\ cli # Nil
          /\ bots' = Append(bots, Current(a))
          /\ bot' = Len(bots) + 1
          /\ inForce' = conf.settings
          /\ watched' = watched \cup {cli}
          /\ Goto(a, IF a = Main THEN "up" ELSE "down")
          /\ mine' = [mine EXCEPT ![a] = Nil]
          /\ UNCHANGED <<loaded, old, exit>>
    /\ UNCHANGED <<confVars, cli, clients, unloaded, online, unwatched, cbVars,
                   httpVars, events>>

----------------------------------------------------------------------------
(* The HTTP server                                                         *)

\* Mutation: the call is left out, as that of WsShutdown is.
StillOpen == server

Closed == [server EXCEPT ![http] = "closed"]

\* The servers that were started and not shut down.
Live(s) == {i \in Clients : s[i] \in {"due", "new", "open"}}

\* Those who will start a server, the shutting down being behind them.
Between == {h \in Handlers : pc[h] = "reload"}
           \cup {a \in {Main} : pc[a] # "done"}

\* cqHTTPServer.ShutDown(), if OldConf has it enabled: it panics when no server
\* was started, and is fatal when a request outlasts the five seconds it waits.
ShutDown(h) ==
    /\ At(h, "down")
    /\ \/ /\ old[h].http = Off
          /\ beside' = (beside \/ Live(server) # {})
          /\ Goto(h, "reload") /\ UNCHANGED <<localVars, server, early, exit>>
       \/ /\ old[h].http # Off /\ http = Nil
          /\ Panics(h) /\ UNCHANGED <<server, early, beside>>
       \/ /\ old[h].http # Off /\ http # Nil
          /\ server' = Closed
          /\ early' = (early \/ server[http] = "new")
          /\ beside' = (beside \/ Live(server) \ {http} # {})
          /\ \/ Goto(h, "reload") /\ UNCHANGED exit
             \/ exit' = "busy" /\ UNCHANGED pc
          /\ UNCHANGED localVars
    /\ UNCHANGED <<confVars, fieldVars, netVars, cbVars, starting, address, http,
                   httpBot, events>>

\* The identity of the next server; there is one for each client.
Unused == {i \in Clients : server[i] = "none"}

\* go cqHTTPServer.Run(...) for GetConf() and s.bot
Launch(a) ==
    \/ GetConf.http = Off /\ UNCHANGED serverVars
    \/ /\ GetConf.http # Off
       /\ \E i \in Unused :
             /\ \A k \in Unused : i <= k
             /\ starting' = starting \cup
                               {[bot |-> bot, server |-> i, begun |-> FALSE]}
             /\ server' = [server EXCEPT ![i] = "due"]
             /\ address' = [address EXCEPT ![i] = GetConf.http]
       /\ beside' = (beside \/ Between \ {a} # {})

\* newHTTPClient().Run calls OnEventPush of a nil bot, in the caller's goroutine.
PostsToNil == GetConf.http # Off /\ PostUrls /\ bot = Nil

\* There is no configuration (any more), or no bot to post the events of.
StartPanics(a) ==
    /\ \/ GetConf = NoFile /\ UNCHANGED serverVars
       \/ GetConf # NoFile /\ PostsToNil /\ Launch(a)
    /\ Panics(a)

\* Everything is started.  The WebSocket servers have goroutines of their own, in
\* which a nil bot is fatal to the process.
StartsAll(a) ==
    /\ GetConf # NoFile /\ ~PostsToNil /\ Launch(a)
    /\ exit' = IF bot = Nil /\ (ReverseOn \/ (WSOn /\ a = Main))
               THEN "panic" ELSE exit

\* UpServer
Up ==
    /\ At(Main, "up")
    /\ \/ StartPanics(Main)
       \/ StartsAll(Main) /\ Goto(Main, "done") /\ UNCHANGED localVars
    /\ UNCHANGED <<confVars, fieldVars, netVars, cbVars, http, httpBot, early, events>>

\* ReloadServer; s.Conf = conf; the answer
Reload(h) ==
    /\ At(h, "reload")
    /\ \/ StartPanics(h) /\ UNCHANGED conf
       \/ /\ StartsAll(h)
          /\ conf' = loaded[h]
          /\ Goto(h, "idle") /\ Forget(h)
    /\ UNCHANGED <<disk, shared, fieldVars, netVars, cbVars, http, httpBot, early,
                   events>>

\* s.bot = bot; s.HTTP = &http.Server{...}
HTTPStarts(r) ==
    /\ exit = "no" /\ r \in starting /\ ~r.begun
    /\ http' = r.server
    /\ server' = [server EXCEPT ![r.server] = "new"]
    /\ starting' = (starting \ {r}) \cup {[r EXCEPT !.begun = TRUE]}
    /\ httpBot' = r.bot
    /\ UNCHANGED <<confVars, fieldVars, pc, localVars, netVars, cbVars, address, early,
                   beside, exit, events>>

\* A server that listens where s.HTTP is to listen.
InUse == \E i \in Clients : server[i] = "open" /\ address[i] = address[http]

\* s.HTTP.ListenAndServe(); s.HTTP may be another goroutine's by now.  When the
\* address is in use the process exits, after five seconds.
HTTPListens(r) ==
    /\ exit = "no" /\ r \in starting /\ r.begun
    /\ starting' = starting \ {r}
    /\ \/ server[http] = "closed" /\ UNCHANGED <<server, exit>>
       \/ /\ server[http] # "closed" /\ ~InUse
          /\ server' = [server EXCEPT ![http] = "open"] /\ UNCHANGED exit
       \/ /\ server[http] # "closed" /\ InUse
          /\ exit' = "port" /\ UNCHANGED server
    /\ UNCHANGED <<confVars, fieldVars, pc, localVars, netVars, cbVars, address, http,
                   httpBot, early, beside, events>>

----------------------------------------------------------------------------
(* The callback of OnDisconnected, with relogin enabled                    *)

Drop(g) ==
    /\ exit = "no" /\ g \in online /\ events < MaxEvents /\ events' = events + 1
    /\ online' = online \ {g}
    /\ Lose({g}, callback)
    /\ UNCHANGED <<confVars, fieldVars, pc, localVars, watched, target, httpVars, exit>>

\* if s.Cli.Online { return }: s.Cli is the current client, not the one that lost
\* its session.  The client library recovers the panic of a nil s.Cli.
CallbackBegins(g) ==
    /\ exit = "no" /\ callback[g] = "begin"
    /\ IF cli = Nil \/ cli \in online
       THEN callback' = [callback EXCEPT ![g] = "none"] /\ UNCHANGED target
       ELSE /\ callback' = [callback EXCEPT ![g] = "wait"]
            /\ target' = [target EXCEPT ![g] = cli]
    /\ UNCHANGED <<confVars, fieldVars, pc, localVars, netVars, httpVars, exit, events>>

\* s.Cli.Disconnect(); s.Cli.Login(): without a second look at Online.
CallbackRetries(g) ==
    /\ exit = "no" /\ callback[g] = "retry"
    /\ callback' = [callback EXCEPT ![g] = IF cli = Nil THEN "none" ELSE "wait"]
    /\ target' = [target EXCEPT ![g] = cli]
    /\ online' = online \ {cli}
    /\ UNCHANGED <<confVars, fieldVars, pc, localVars, watched, unwatched,
                   httpVars, exit, events>>

\* Mutation: the callback gives up after one attempt.
GivesUp == "none"

AfterFailure == "retry"

LoginSucceeds(g) ==
    /\ online' = {target[g]}
    /\ Lose(online \ {target[g]}, [callback EXCEPT ![g] = "none"])

CallbackReturns(g) ==
    /\ exit = "no" /\ callback[g] = "wait"
    /\ \/ LoginSucceeds(g) /\ UNCHANGED exit
       \/ /\ callback' = [callback EXCEPT ![g] = AfterFailure]
          /\ UNCHANGED <<online, unwatched, exit>>
       \/ exit' = "login" /\ UNCHANGED <<online, callback, unwatched>>
    /\ target' = [target EXCEPT ![g] = Nil]
    /\ UNCHANGED <<confVars, fieldVars, pc, localVars, watched, httpVars, events>>

----------------------------------------------------------------------------
(* Edits of the configuration: AdminDoConfigHTTP and the like, which set   *)
(* fields of GetConf() in place, save it, and forget JSONConfig; or an     *)
(* editor.                                                                 *)

\* The text null, given to do_config_json, sets the handler's pointer to nil and
\* saves that: the object stays, and the file says nothing any more.  A text that
\* is refused changes the object, and nothing else.
AdminEdits(c) ==
    /\ exit = "no" /\ events < MaxEvents /\ events' = events + 1
    /\ GetConf # NoFile
    /\ conf' = IF shared /\ c # NoFile THEN c ELSE conf
    /\ \/ disk' = c /\ shared' = FALSE
       \/ shared /\ UNCHANGED <<disk, shared>>
    /\ UNCHANGED <<fieldVars, pc, localVars, netVars, cbVars, httpVars, exit>>

\* An editor may also break the file, or remove it.
HandEdits(c) ==
    /\ exit = "no" /\ events < MaxEvents /\ events' = events + 1
    /\ disk' = c
    /\ UNCHANGED <<conf, shared, fieldVars, pc, localVars, netVars, cbVars, httpVars,
                   exit>>

----------------------------------------------------------------------------
Restarts(h) ==
    \/ Authorize(h) \/ Clear(h) \/ Load(h) \/ LoadFails(h) \/ SetCli(h)
    \/ Enter(h) \/ LoginCalled(h) \/ LoginReturns(h) \/ Make(h) \/ ShutDown(h)
    \/ Reload(h)

Starts == Enter(Main) \/ LoginCalled(Main) \/ LoginReturns(Main) \/ Make(Main) \/ Up

Callback(g) == CallbackBegins(g) \/ CallbackRetries(g) \/ CallbackReturns(g)

Next ==
    \/ Starts
    \/ \E h \in Handlers : Restarts(h)
    \/ \E r \in starting : HTTPStarts(r) \/ HTTPListens(r)
    \/ \E g \in Clients : Drop(g) \/ Callback(g)
    \/ \E c \in Contents \cup {NoFile} : AdminEdits(c) \/ HandEdits(c)

Spec == Init /\ [][Next]_vars

----------------------------------------------------------------------------
(* Properties                                                              *)

\* Nothing is under way: no restart, no login, no callback, no server starting.
AtRest ==
    /\ exit = "no" /\ pc[Main] = "done" /\ starting = {}
    /\ \A h \in Handlers : pc[h] = "idle"
    /\ \A g \in Clients : callback[g] = "none"

\* However restarts, logins and callbacks interleave, in the end the bot is one
\* of the current client: no restart leaves the bot of a client it replaced.  Only
\* a restart that finds no configuration (and panics) leaves neither, until another
\* restart publishes a client.
BotFollowsClient ==
    AtRest => IF unloaded THEN bot = Nil /\ cli = Nil
                          ELSE bot # Nil /\ bots[bot] = cli

\* In the end the current client is online, although callbacks of clients long
\* replaced log in and disconnect whichever client is current; unless its session
\* was lost before OnDisconnected was called for it, or a restart that found no
\* configuration left no client.
SessionKept == AtRest => cli \in online \/ unwatched \/ (unloaded /\ cli = Nil)

\* In the end a server that listens is the one ShutDown would close, if each was
\* shut down before the next was started.  If not, because restarts overlapped or
\* HTTP was disabled in the configuration the restart found, then an older server
\* may listen besides it, but at another address: at its address the second one
\* ends the process; unless a ShutDown met a server that did not listen yet.
ListenerIsKnown ==
    AtRest => \A i \in Clients : server[i] = "open" =>
                 \/ i = http
                 \/ beside /\ (early \/ address[i] # address[http])

\* A restart that answers has put in force the settings it loaded from the file.
RestartTakesEffect ==
    [][\A h \in Handlers : pc[h] = "reload" /\ pc'[h] = "idle"
          => inForce' = loaded[h].settings]_vars
=============================================================================
