----------------------------- MODULE ReverseWS -----------------------------
(***************************************************************************)
(* The reverse WebSocket client (server/websocket.go, WebSocketClient):    *)
(* the bot dials the user's server, pushes events over the connection and  *)
(* answers the API requests that arrive on it.                             *)
(*                                                                         *)
(* With a universal URL one connection carries both; otherwise an event    *)
(* connection carries the pushes and an API connection the requests.       *)
(* Exactly one of the fields universalConn and eventConn is ever assigned, *)
(* so both are the variable ptr, "the connection events are pushed to".    *)
(*                                                                         *)
(* Every goroutine is a process: Run, the onBotPushEvent calls in flight   *)
(* (Pushers), the handleRequest calls in flight (Requests), one listenAPI  *)
(* per connection, and the goroutines inside connectAPI (dialers).         *)
(*                                                                         *)
(* A definition marked "Mutation" is no part of the model: it is a faulty  *)
(* version of the definition after it, which a property must reject.       *)
(***************************************************************************)
EXTENDS Naturals

CONSTANTS
    Conns,      \* identities of webSocketConn objects, reused once collected
    Pushers,    \* onBotPushEvent goroutines in flight at once (a bound)
    Requests,   \* handleRequest goroutines in flight at once (a bound)
    Configs,    \* the configurations considered, records of which URLs are
                \* not empty and whether the reconnect interval is not 0
    Nobody,     \* owner of a free lock
    NoConn      \* nil

ASSUME ConstantsAssumption ==
    /\ Configs \subseteq [urls : SUBSET {"universal", "api", "event"},
                           reconnect : BOOLEAN]
    /\ Pushers \cap Requests = {}
    /\ Nobody \notin Pushers \cup Requests
    /\ NoConn \notin Conns

VARIABLES
    conf,       \* c.conf, never assigned after NewWebSocketClient
    role,       \* role[c]: "none" (not in use), "api" or "push"
    link,       \* link[c]: "up"; "mute" (a write failed, gorilla refuses
                \*   every later write, reading still works); "down"
    timed,      \* connections on which SetWriteDeadline has been called: a
                \*   write on them may fail, however healthy the link
    open,       \* connections this side has not closed
    listener,   \* listener[c]: state of the listenAPI goroutine of c
    lock,       \* lock[c]: the holder of c's mutex
    ptr,        \* c.universalConn or c.eventConn
    run,        \* program counter of Run
    runConn,    \* the connection Run has dialled and not yet published
    dialers,    \* goroutines started by "go c.connectAPI()"
    ppc,        \* ppc[p]: program counter of a push
    mine,       \* mine[p]: the local variable conn, whose mutex p takes
    target,     \* target[p]: the connection p's WriteJSON runs on
    fresh,      \* fresh[p]: the connection p has dialled, not yet published
    rpc,        \* rpc[r]: program counter of a request
    rconn       \* rconn[r]: the connection it came from

connVars == <<conf, role, link, timed, open, listener, lock>>
runVars  == <<run, runConn>>
pushVars == <<ppc, mine, target, fresh>>
reqVars  == <<rpc, rconn>>
vars == <<conf, role, link, timed, open, listener, lock, ptr, run, runConn,
          dialers, ppc, mine, target, fresh, rpc, rconn>>

Universal == "universal" \in conf.urls
HasPushURL == Universal \/ "event" \in conf.urls
Reconnect == conf.reconnect

PushPC == {"idle", "lock", "deadline", "begin", "writing", "close", "dial",
           "publish"}
ReqPC == {"idle", "call", "writing"}

\* What a push holds the lock for: everything after conn.Lock().
InPush == {"deadline", "begin", "writing", "close", "dial", "publish"}

Holds(w, c) ==
    \/ w \in Pushers /\ ppc[w] \in InPush /\ mine[w] = c
    \/ w \in Requests /\ rpc[w] = "writing" /\ rconn[w] = c

\* w is inside gorilla's write path of connection c.
Writes(w, c) ==
    \/ w \in Pushers /\ ppc[w] = "writing" /\ target[w] = c
    \/ w \in Requests /\ rpc[w] = "writing" /\ rconn[w] = c

Overlaps(w, c) == \E v \in (Pushers \cup Requests) \ {w} : Writes(v, c)

\* Some goroutine or field still points to c; an unreferenced connection is
\* collected by the runtime, whose finalizer closes its socket.
Referenced(c) ==
    \/ ptr = c \/ runConn = c \/ listener[c] # "none"
    \/ \E p \in Pushers : c \in {mine[p], target[p], fresh[p]}
    \/ \E r \in Requests : rconn[r] = c

Init ==
    /\ conf \in Configs
    /\ role = [c \in Conns |-> "none"]
    /\ link = [c \in Conns |-> "up"]
    /\ timed = {}
    /\ open = {}
    /\ listener = [c \in Conns |-> "none"]
    /\ lock = [c \in Conns |-> Nobody]
    /\ ptr = NoConn
    /\ run = "api"
    /\ runConn = NoConn
    /\ dialers = 0
    /\ ppc = [p \in Pushers |-> "idle"]
    /\ mine = [p \in Pushers |-> NoConn]
    /\ target = [p \in Pushers |-> NoConn]
    /\ fresh = [p \in Pushers |-> NoConn]
    /\ rpc = [r \in Requests |-> "idle"]
    /\ rconn = [r \in Requests |-> NoConn]

----------------------------------------------------------------------------
(* Dialling.  A failed dial is retried for ever when Reconnect holds, which *)
(* is a stuttering step; without Reconnect the caller gives up.             *)

Dialled(c, as, reader) ==
    /\ role[c] = "none"
    /\ role' = [role EXCEPT ![c] = as]
    /\ open' = open \cup {c}
    /\ listener' = [listener EXCEPT ![c] = reader]
    /\ UNCHANGED <<conf, link, timed, lock>>

\* connectAPI, successful: go c.listenAPI(wrappedConn, false)
ConnectAPI(c) == Dialled(c, "api", "reading")

\* Mutation: the reader is never started.
NoReader(c) == Dialled(c, "push", "none")

\* connectUniversal and connectEvent up to the assignment of the field: only
\* the universal connection gets a reader.
ConnectPush(c) == Dialled(c, "push", IF Universal THEN "reading" ELSE "none")

(* Run *)

RunSkipAPI ==
    /\ run = "api"
    /\ Universal \/ "api" \notin conf.urls
    /\ run' = "push"
    /\ UNCHANGED <<connVars, ptr, runConn, dialers, pushVars, reqVars>>

\* Mutation: the API connection is stored in eventConn.
RunAPIStores(c) ==
    /\ run = "api"
    /\ ~Universal /\ "api" \in conf.urls
    /\ ConnectAPI(c)
    /\ run' = "push"
    /\ ptr' = c
    /\ UNCHANGED <<runConn, dialers, pushVars, reqVars>>

RunAPI(c) ==
    /\ run = "api"
    /\ ~Universal /\ "api" \in conf.urls
    /\ ConnectAPI(c)
    /\ run' = "push"
    /\ UNCHANGED <<ptr, runConn, dialers, pushVars, reqVars>>

RunAPIFails ==
    /\ run = "api"
    /\ ~Universal /\ "api" \in conf.urls /\ ~Reconnect
    /\ run' = "push"
    /\ UNCHANGED <<connVars, ptr, runConn, dialers, pushVars, reqVars>>

RunPush(c) ==
    /\ run = "push" /\ HasPushURL
    /\ ConnectPush(c)
    /\ runConn' = c
    /\ run' = "publish"
    /\ UNCHANGED <<ptr, dialers, pushVars, reqVars>>

RunPublish ==
    /\ run = "publish"
    /\ ptr' = runConn
    /\ runConn' = NoConn
    /\ run' = "serving"
    /\ UNCHANGED <<connVars, dialers, pushVars, reqVars>>

\* Mutation: a failed first dial is never retried.
RunNoRetry ==
    /\ run = "push"
    /\ run' = "serving"
    /\ UNCHANGED <<connVars, ptr, runConn, dialers, pushVars, reqVars>>

\* No push URL, or the dial failed and is not retried: the handler is
\* registered all the same.
RunGivesUp ==
    /\ run = "push"
    /\ ~HasPushURL \/ ~Reconnect
    /\ run' = "serving"
    /\ UNCHANGED <<connVars, ptr, runConn, dialers, pushVars, reqVars>>

Run ==
    \/ RunSkipAPI \/ RunAPIFails \/ RunPublish \/ RunGivesUp
    \/ \E c \in Conns : RunAPI(c) \/ RunPush(c)

----------------------------------------------------------------------------
(* listenAPI and the reconnection of the API role                          *)

\* ReadMessage returns an error: the peer is gone or this side has closed.
ReadFails(c) ==
    listener[c] = "reading" /\ (c \notin open \/ link[c] = "down")

\* The loop ends and the deferred conn.Close() runs.
ListenReturns(c) ==
    /\ open' = open \ {c}
    /\ listener' = [listener EXCEPT ![c] = "none"]
    /\ UNCHANGED <<conf, role, link, timed, lock, ptr, runVars, pushVars, reqVars>>

ListenSleeps(c) ==
    /\ ReadFails(c) /\ Reconnect
    /\ listener' = [listener EXCEPT ![c] = "sleeping"]
    /\ UNCHANGED <<conf, role, link, timed, open, lock, ptr, runVars, dialers,
                   pushVars, reqVars>>

ListenEnds(c) == ReadFails(c) /\ ~Reconnect /\ ListenReturns(c) /\ UNCHANGED dialers

\* Mutation: the test !u is missing.
SpawnedAlways(c) == 1
\* Mutation: the API role is not dialled again.
SpawnedNever(c) == 0

\* if !u { go c.connectAPI() }
Spawned(c) == IF role[c] = "api" THEN 1 ELSE 0

ListenWakes(c) ==
    /\ listener[c] = "sleeping"
    /\ dialers' = dialers + Spawned(c)
    /\ ListenReturns(c)

DialAPI(c) ==
    /\ dialers > 0
    /\ ConnectAPI(c)
    /\ dialers' = dialers - 1
    /\ UNCHANGED <<ptr, runVars, pushVars, reqVars>>

Listen(c) == ListenSleeps(c) \/ ListenEnds(c) \/ ListenWakes(c)

----------------------------------------------------------------------------
(* onBotPushEvent                                                          *)

\* Mutation: conn.Lock() is missing.
NoMutex(c) == TRUE

\* conn.Lock() goes through.
CanLock(c) == lock[c] = Nobody

\* Mutation: defer conn.Unlock() is missing.
ReturnLocked(p) ==
    /\ ppc' = [ppc EXCEPT ![p] = "idle"]
    /\ mine' = [mine EXCEPT ![p] = NoConn]
    /\ target' = [target EXCEPT ![p] = NoConn]
    /\ fresh' = [fresh EXCEPT ![p] = NoConn]
    /\ UNCHANGED lock

\* The deferred Unlock; the call's local variables are gone.
Return(p) ==
    /\ lock' = [lock EXCEPT ![mine[p]] = Nobody]
    /\ ppc' = [ppc EXCEPT ![p] = "idle"]
    /\ mine' = [mine EXCEPT ![p] = NoConn]
    /\ target' = [target EXCEPT ![p] = NoConn]
    /\ fresh' = [fresh EXCEPT ![p] = NoConn]

\* Mutation: the nil test is missing.
NoNilTest == TRUE

\* if c.eventConn != nil
HasConn == ptr # NoConn

\* Without a connection the event is dropped.
PushDropped(p) ==
    /\ run = "serving" /\ ppc[p] = "idle" /\ ~HasConn
    /\ UNCHANGED vars

\* conn := c.eventConn
PushLoad(p) ==
    /\ run = "serving" /\ ppc[p] = "idle" /\ HasConn
    /\ mine' = [mine EXCEPT ![p] = ptr]
    /\ ppc' = [ppc EXCEPT ![p] = "lock"]
    /\ UNCHANGED <<connVars, ptr, runVars, dialers, target, fresh, reqVars>>

PushLock(p) ==
    /\ ppc[p] = "lock"
    /\ CanLock(mine[p])
    /\ lock' = [lock EXCEPT ![mine[p]] = p]
    /\ ppc' = [ppc EXCEPT ![p] = "deadline"]
    /\ UNCHANGED <<conf, role, link, timed, open, listener, ptr, runVars, dialers,
                   mine, target, fresh, reqVars>>

\* The field is read again for each call: c.eventConn.SetWriteDeadline(...)
Reread(p) == ptr

PushDeadline(p) ==
    /\ ppc[p] = "deadline"
    /\ timed' = timed \cup {Reread(p)}
    /\ ppc' = [ppc EXCEPT ![p] = "begin"]
    /\ UNCHANGED <<conf, role, link, open, listener, lock, ptr, runVars, dialers,
                   mine, target, fresh, reqVars>>

\* c.eventConn.WriteJSON(m)
PushBegin(p) ==
    /\ ppc[p] = "begin"
    /\ target' = [target EXCEPT ![p] = Reread(p)]
    /\ ppc' = [ppc EXCEPT ![p] = "writing"]
    /\ UNCHANGED <<connVars, ptr, runVars, dialers, mine, fresh, reqVars>>

\* A write on a dead link may still succeed into the socket buffer.
CanWrite(c) == c \in open /\ link[c] # "mute"
CanFail(c)  == c \notin open \/ link[c] # "up" \/ c \in timed

\* The link state a failed write leaves: gorilla keeps the error and refuses
\* every later write on the connection, reads are unaffected.
FailedWrite(c) == [link EXCEPT ![c] = IF @ = "up" THEN "mute" ELSE @]

PushOk(p) ==
    /\ ppc[p] = "writing"
    /\ CanWrite(target[p])
    /\ Return(p)
    /\ UNCHANGED <<conf, role, link, timed, open, listener, ptr, runVars, dialers,
                   reqVars>>

\* Mutation: a failed write is retried on the same connection.
FailsAndRetries(p) ==
    /\ ppc[p] = "writing"
    /\ CanFail(target[p])
    /\ link' = FailedWrite(target[p])
    /\ ppc' = [ppc EXCEPT ![p] = "begin"]
    /\ UNCHANGED <<conf, role, timed, open, listener, lock, ptr, runVars,
                   dialers, mine, target, fresh, reqVars>>

PushFails(p) ==
    /\ ppc[p] = "writing"
    /\ CanFail(target[p])
    /\ link' = FailedWrite(target[p])
    /\ ppc' = [ppc EXCEPT ![p] = "close"]
    /\ target' = [target EXCEPT ![p] = NoConn]
    /\ UNCHANGED <<conf, role, timed, open, listener, lock, ptr, runVars, dialers,
                   mine, fresh, reqVars>>

\* gorilla panics ("concurrent write to websocket connection") when it sees
\* two writers; its check is itself unsynchronised and may miss them.  The
\* deferred Unlock runs, dispatchEventMessage recovers.
PushPanics(p) ==
    /\ ppc[p] = "writing"
    /\ Overlaps(p, target[p])
    /\ Return(p)
    /\ UNCHANGED <<conf, role, link, timed, open, listener, ptr, runVars, dialers,
                   reqVars>>

\* Mutation: the failed connection is not closed.
NotClosed(p) == open

\* c.eventConn.Close()
AfterClose(p) == open \ {Reread(p)}

\* Mutation: the field is cleared on failure.
ClosesAndClears(p) ==
    /\ ppc[p] = "close"
    /\ Reconnect
    /\ open' = AfterClose(p)
    /\ ptr' = NoConn
    /\ ppc' = [ppc EXCEPT ![p] = "dial"]
    /\ UNCHANGED <<conf, role, link, timed, listener, lock, runVars, dialers,
                   mine, target, fresh, reqVars>>

\* ... then reconnect if the interval is not 0.
PushCloses(p) ==
    /\ ppc[p] = "close"
    /\ open' = AfterClose(p)
    /\ \/ /\ Reconnect
          /\ ppc' = [ppc EXCEPT ![p] = "dial"]
          /\ UNCHANGED <<lock, mine, target, fresh>>
       \/ ~Reconnect /\ Return(p)
    /\ UNCHANGED <<conf, role, link, timed, listener, ptr, runVars, dialers,
                   reqVars>>

PushDial(p, c) ==
    /\ ppc[p] = "dial"
    /\ ConnectPush(c)
    /\ fresh' = [fresh EXCEPT ![p] = c]
    /\ ppc' = [ppc EXCEPT ![p] = "publish"]
    /\ UNCHANGED <<ptr, runVars, dialers, mine, target, reqVars>>

\* Mutation: the new connection is not stored.
PublishForgotten(p) ==
    /\ ppc[p] = "publish"
    /\ Return(p)
    /\ UNCHANGED <<conf, role, link, timed, open, listener, ptr, runVars,
                   dialers, reqVars>>

\* c.eventConn = &webSocketConn{...}; the deferred Unlock.  The event whose
\* write failed is not sent again.
PushPublish(p) ==
    /\ ppc[p] = "publish"
    /\ ptr' = fresh[p]
    /\ Return(p)
    /\ UNCHANGED <<conf, role, link, timed, open, listener, runVars, dialers,
                   reqVars>>

PushEnds(p) == PushOk(p) \/ PushFails(p) \/ PushPanics(p)

PushStep(p) ==
    \/ PushLock(p) \/ PushDeadline(p) \/ PushBegin(p) \/ PushEnds(p)
    \/ PushCloses(p) \/ PushPublish(p)
    \/ \E c \in Conns : PushDial(p, c)

----------------------------------------------------------------------------
(* handleRequest                                                           *)

\* go conn.handleRequest(c.bot, buf)
Receive(r, c) ==
    /\ rpc[r] = "idle"
    /\ listener[c] = "reading" /\ c \in open /\ link[c] # "down"
    /\ rpc' = [rpc EXCEPT ![r] = "call"]
    /\ rconn' = [rconn EXCEPT ![r] = c]
    /\ UNCHANGED <<connVars, ptr, runVars, dialers, pushVars>>

Forget(r) ==
    /\ rpc' = [rpc EXCEPT ![r] = "idle"]
    /\ rconn' = [rconn EXCEPT ![r] = NoConn]

\* callAPI panics: recover, c.Close().  The lock has not been taken yet.
CallPanics(r) ==
    /\ rpc[r] = "call"
    /\ open' = open \ {rconn[r]}
    /\ Forget(r)
    /\ UNCHANGED <<conf, role, link, timed, listener, lock, ptr, runVars, dialers,
                   pushVars>>

\* callAPI has returned: c.Lock(), WriteJSON.
AnswerLock(r) ==
    /\ rpc[r] = "call"
    /\ CanLock(rconn[r])
    /\ lock' = [lock EXCEPT ![rconn[r]] = r]
    /\ rpc' = [rpc EXCEPT ![r] = "writing"]
    /\ UNCHANGED <<conf, role, link, timed, open, listener, ptr, runVars, dialers,
                   pushVars, rconn>>

\* _ = c.WriteJSON(ret): the error is ignored, the connection not closed.
AnswerEnds(r) ==
    /\ rpc[r] = "writing"
    /\ \/ CanWrite(rconn[r]) /\ UNCHANGED link
       \/ CanFail(rconn[r]) /\ link' = FailedWrite(rconn[r])
    /\ lock' = [lock EXCEPT ![rconn[r]] = Nobody]
    /\ Forget(r)
    /\ UNCHANGED <<conf, role, timed, open, listener, ptr, runVars, dialers,
                   pushVars>>

\* The write panics: the deferred Unlock, then recover and c.Close().
AnswerPanics(r) ==
    /\ rpc[r] = "writing"
    /\ Overlaps(r, rconn[r])
    /\ lock' = [lock EXCEPT ![rconn[r]] = Nobody]
    /\ open' = open \ {rconn[r]}
    /\ Forget(r)
    /\ UNCHANGED <<conf, role, link, timed, listener, ptr, runVars, dialers,
                   pushVars>>

AnswerStep(r) ==
    CallPanics(r) \/ AnswerLock(r) \/ AnswerEnds(r) \/ AnswerPanics(r)

----------------------------------------------------------------------------
(* The network and the runtime                                             *)

\* The peer goes away, or the network between.
LinkBreaks(c) ==
    /\ c \in open /\ link[c] # "down"
    /\ link' = [link EXCEPT ![c] = "down"]
    /\ UNCHANGED <<conf, role, timed, open, listener, lock, ptr, runVars, dialers,
                   pushVars, reqVars>>

Collect(c) ==
    /\ role[c] # "none"
    /\ ~Referenced(c)
    /\ role' = [role EXCEPT ![c] = "none"]
    /\ link' = [link EXCEPT ![c] = "up"]
    /\ timed' = timed \ {c}
    /\ open' = open \ {c}
    /\ UNCHANGED <<conf, listener, lock, ptr, runVars, dialers, pushVars, reqVars>>

Next ==
    \/ Run
    \/ \E c \in Conns : Listen(c) \/ DialAPI(c) \/ LinkBreaks(c) \/ Collect(c)
    \/ \E p \in Pushers : PushDropped(p) \/ PushLoad(p) \/ PushStep(p)
    \/ \E r \in Requests :
          AnswerStep(r) \/ \E c \in Conns : Receive(r, c)

\* Goroutines that can run do run; a Go mutex in starvation mode serves its
\* waiters in turn (hence SF); a dial retried for ever meets a server that is
\* up at last (SF, because the finite set Conns may be exhausted for a while);
\* a write on a dead link fails in the end.  Nothing forces the link to break,
\* a request to come or an event to be pushed.
Fairness ==
    /\ WF_vars(Run) /\ SF_vars(\E c \in Conns : RunPush(c))
    /\ \A c \in Conns : WF_vars(Listen(c)) /\ WF_vars(Collect(c))
    /\ SF_vars(\E c \in Conns : DialAPI(c))
    /\ \A p \in Pushers :
          /\ SF_vars(PushLock(p)) /\ SF_vars(\E c \in Conns : PushDial(p, c))
          /\ WF_vars(PushStep(p))
          /\ SF_vars(PushFails(p) /\ link[target[p]] # "up")
    /\ \A r \in Requests : SF_vars(AnswerLock(r)) /\ WF_vars(AnswerStep(r))

\* The heartbeat (coolq/bot.go) starts a push again and again.
Heartbeat == \A p \in Pushers : WF_vars(PushLoad(p))

Spec == Init /\ [][Next]_vars
FairSpec == Spec /\ Fairness
HeartbeatSpec == FairSpec /\ Heartbeat

\* The part of Fairness a single push depends on.
PushFairSpec ==
    /\ Spec
    /\ WF_vars(\E c \in Conns : Collect(c))
    /\ \A p \in Pushers :
          /\ SF_vars(PushLock(p)) /\ SF_vars(\E c \in Conns : PushDial(p, c))
          /\ WF_vars(PushStep(p))

----------------------------------------------------------------------------
(* Properties                                                              *)

Workers == Pushers \cup Requests

\* Every variable has its type; every goroutine that uses a connection uses
\* one that has been dialled (no nil dereference in onBotPushEvent, listenAPI
\* or handleRequest).
TypeOK ==
    /\ conf \in Configs
    /\ role \in [Conns -> {"none", "api", "push"}]
    /\ link \in [Conns -> {"up", "mute", "down"}]
    /\ timed \subseteq Conns
    /\ open \subseteq Conns
    /\ listener \in [Conns -> {"none", "reading", "sleeping"}]
    /\ lock \in [Conns -> Workers \cup {Nobody}]
    /\ ptr \in Conns \cup {NoConn}
    /\ run \in {"api", "push", "publish", "serving"}
    /\ runConn \in Conns \cup {NoConn}
    /\ run = "publish" => runConn \in Conns
    /\ dialers \in Nat
    /\ ppc \in [Pushers -> PushPC]
    /\ mine \in [Pushers -> Conns \cup {NoConn}]
    /\ target \in [Pushers -> Conns \cup {NoConn}]
    /\ fresh \in [Pushers -> Conns \cup {NoConn}]
    /\ rpc \in [Requests -> ReqPC]
    /\ rconn \in [Requests -> Conns \cup {NoConn}]
    /\ \A p \in Pushers :
          /\ ppc[p] # "idle" => mine[p] \in Conns /\ ptr \in Conns
          /\ ppc[p] = "writing" => target[p] \in Conns
          /\ ppc[p] = "publish" => fresh[p] \in Conns
    /\ \A r \in Requests : rpc[r] # "idle" => rconn[r] \in Conns

\* A mutex is held by w exactly while w is between its Lock and its Unlock:
\* no path through onBotPushEvent or handleRequest, error and panic paths
\* included, leaks a lock or releases one it does not hold.
LockOwner == \A c \in Conns, w \in Workers : lock[c] = w <=> Holds(w, c)

\* Two goroutines inside the write path of one connection do not both hold
\* its mutex, so one of them is a push that took the mutex of another
\* connection and read the field again after a reconnection: overlapping
\* writes (which gorilla answers with a panic) need a reconnection while a
\* push is waiting, and never involve two answers.
OverlapNeedsStaleLock ==
    \A c \in Conns, v, w \in Workers :
        v # w /\ Writes(v, c) /\ Writes(w, c) =>
            \E p \in {v, w} \cap Pushers : mine[p] # c

\* listenAPI of an API connection has not finished: it reads, or it waits to
\* reconnect.
ServesAPI(c) == role[c] = "api" /\ listener[c] \in {"reading", "sleeping"}

\* The API role is taken by one goroutine at a time: one reader, or one
\* sleeper, or one dialler (Run before it has connected, or the goroutine a
\* finished listenAPI started), so reconnecting never opens a second API
\* connection beside a live one.
ApiExclusive ==
    /\ \A c, d \in Conns : ServesAPI(c) /\ ServesAPI(d) => c = d
    /\ dialers \in {0, 1}
    /\ \A c \in Conns : ServesAPI(c) => dialers = 0 /\ run # "api"
    /\ run = "api" => dialers = 0

\* A universal connection that works is read: no request sent on it is
\* ignored because its listenAPI has stopped or was never started.
LiveUniversalIsRead ==
    Universal => \A c \in Conns :
        role[c] = "push" /\ c \in open /\ link[c] # "down"
            => listener[c] = "reading"

\* An API connection is never broken by the write deadline that pushes set:
\* answers on it fail only when the link does.  (On a universal connection
\* the deadline of the last push applies to every later answer.)
ApiNeverTimesOut ==
    \A c \in Conns :
        role[c] = "api" /\ c \in open => c \notin timed /\ link[c] # "mute"

\* With a reconnection interval, the client registers for events only once it
\* has a connection and never loses the field again: no event is dropped by
\* the nil test of onBotPushEvent.
NeverDropped == Reconnect /\ HasPushURL /\ run = "serving" => ptr # NoConn

\* While pushes do not overlap, every push connection still open is the one
\* events go to, or is about to be: no connection is left behind that the
\* server believes alive and that never gets an event.
NoOrphan ==
    \A c \in Conns :
        role[c] = "push" /\ c \in open /\ Referenced(c) =>
            c \in {ptr, runConn} \cup {fresh[p] : p \in Pushers}

\* A connection is replaced only by a goroutine that has just dialled, and the
\* new connection has never carried a push before: ptr moves to nil never,
\* and never back to a connection a push has used.
PtrMovesForward ==
    [][ptr' # ptr => /\ ptr' \in Conns
                     /\ ptr' \notin timed
                     /\ \A p \in Pushers : mine[p] # ptr' /\ target[p] # ptr'
      ]_vars

\* Every push ends: waiting for the mutex of a connection that another push is
\* replacing does not last for ever.
PushCompletes == \A p \in Pushers : ppc[p] # "idle" ~> ppc[p] = "idle"

\* With heartbeats and a reconnection interval, a push connection whose link is
\* lost does not stay the push connection.
LostConnReplaced ==
    \A c \in Conns : ptr = c /\ link[c] = "down" ~> ptr # c

\* A lost API connection is followed by a new one with a reader on it.
ApiReturns ==
    \A c \in Conns :
        role[c] = "api" /\ listener[c] = "reading" /\ link[c] = "down" ~>
            \E d \in Conns : /\ role[d] = "api" /\ listener[d] = "reading"
                             /\ link[d] # "down"

----------------------------------------------------------------------------
(* The strengthening the proofs need (ReverseWSProofs)                     *)

\* Only event or universal connections are ever pushed to, and a deadline is
\* set on no other; an identity in no use has no trace of its last use.
RolesOK ==
    /\ \A c \in Conns : c = ptr \/ c = runConn => role[c] = "push"
    /\ \A p \in Pushers, c \in Conns :
          c \in {mine[p], target[p], fresh[p]} => role[c] = "push"
    /\ \A c \in Conns :
          /\ c \in timed => role[c] = "push"
          /\ role[c] = "none" => link[c] = "up" /\ c \notin open
    /\ \A r \in Requests, c \in Conns : rconn[r] = c => role[c] # "none"

\* A connection that has been dialled and not yet stored is known to the
\* goroutine that dialled it alone.
FreshOK ==
    /\ \A p \in Pushers :
          /\ fresh[p] \in Conns =>
                /\ fresh[p] \notin timed /\ fresh[p] # ptr
                /\ fresh[p] # runConn
                /\ \A q \in Pushers :
                      /\ mine[q] # fresh[p] /\ target[q] # fresh[p]
                      /\ q # p => fresh[q] # fresh[p]
    /\ runConn \in Conns =>
          /\ runConn \notin timed /\ runConn # ptr
          /\ \A p \in Pushers : runConn \notin {mine[p], target[p]}

=============================================================================
