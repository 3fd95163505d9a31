----------------------------- MODULE ForwardWS -----------------------------
(***************************************************************************)
(* The forward WebSocket server (server/websocket.go, webSocketServer):    *)
(* clients connect to /event, /api or /; onBotPushEvent walks the slice of *)
(* event connections and drops those it cannot write to.                   *)
(*                                                                         *)
(* The slice is appended to under eventConnMutex by /event and without it  *)
(* by "/", whose append is therefore two steps, the read of the slice      *)
(* header and the write of the new one.  The ghost variable racy says that *)
(* such an append has overlapped another one or a push.                    *)
(*                                                                         *)
(* A definition marked "Mutation" is no part of the model: it is a faulty  *)
(* version of the definition after it, which a property must reject.       *)
(***************************************************************************)
EXTENDS Naturals, Sequences, SequencesExt

CONSTANTS
    Conns,      \* the client connections, each made at most once (a bound)
    Mixes       \* the endpoints the clients may use: functions on Conns

ASSUME MixesAssumption == Mixes \subseteq [Conns -> {"event", "api", "any"}]

VARIABLES
    kind,       \* kind[c]: the endpoint of c
    phase,      \* phase[c]: "new", "shaken" (handshake sent), "store" (the
                \*   append of "/" has read the slice), "open"
    dead,       \* connections whose peer is gone
    closed,     \* connections the server has closed
    lock,       \* lock[c]: holder of c's mutex: "free", "push" or "request"
    request,    \* request[c]: a handleRequest of c: "none", "call", "write"
    registry,   \* s.eventConn
    seen,       \* seen[c]: the slice c's append has read
    pc, i, l,   \* the push that holds eventConnMutex; "off": it is free
    conn,       \* the connection it is at
    rest,       \* the slice without conn, computed and not yet stored
    served,     \* ghost: connections this push has written to
    racy        \* ghost

vars == <<kind, phase, dead, closed, lock, request, registry, seen, pc, i, l,
          conn, rest, served, racy>>
loopVars == <<pc, i, l, conn, rest, served>>
clientVars == <<kind, phase, seen>>

None == "none"

ASSUME NoneAssumption == None \notin Conns

Init ==
    /\ kind \in Mixes
    /\ phase = [c \in Conns |-> "new"]
    /\ dead = {} /\ closed = {}
    /\ lock = [c \in Conns |-> "free"]
    /\ request = [c \in Conns |-> "none"]
    /\ registry = <<>>
    /\ seen = [c \in Conns |-> <<>>]
    /\ pc = "off" /\ i = 1 /\ l = 0 /\ conn = None /\ rest = <<>>
    /\ served = {}
    /\ racy = FALSE

----------------------------------------------------------------------------
(* The HTTP handlers: event, api, any                                      *)

\* Upgrade and handshake; a client refused by the token, or gone before the
\* handshake, leaves no trace.
Connect(c) ==
    /\ phase[c] = "new"
    /\ phase' = [phase EXCEPT ![c] = IF kind[c] = "api" THEN "open" ELSE "shaken"]
    /\ UNCHANGED <<kind, dead, closed, lock, request, registry, seen, loopVars,
                   racy>>

Overlapping(c) == pc # "off" \/ \E d \in Conns \ {c} : phase[d] = "store"

\* /event: append between Lock and Unlock of eventConnMutex
JoinEvent(c) ==
    /\ kind[c] = "event" /\ phase[c] = "shaken" /\ pc = "off"
    /\ registry' = Append(registry, c)
    /\ phase' = [phase EXCEPT ![c] = "open"]
    /\ racy' = (racy \/ Overlapping(c))
    /\ UNCHANGED <<kind, dead, closed, lock, request, seen, loopVars>>

\* "/": the first half of s.eventConn = append(s.eventConn, conn)
JoinAnyReads(c) ==
    /\ kind[c] = "any" /\ phase[c] = "shaken"
    /\ seen' = [seen EXCEPT ![c] = registry]
    /\ phase' = [phase EXCEPT ![c] = "store"]
    /\ racy' = (racy \/ Overlapping(c))
    /\ UNCHANGED <<kind, dead, closed, lock, request, registry, loopVars>>

\* An append in place lengthens the slice read, over the elements the array has
\* by now; the places a removal has vacated still hold their old elements.
InPlace(old, c) ==
    [k \in 1 .. Len(old) + 1 |->
        IF k = Len(old) + 1 THEN c
        ELSE IF k <= Len(registry) THEN registry[k] ELSE old[k]]

\* ... the second half, in place or in a new array, then s.listenAPI(conn).
JoinAnyWrites(c) ==
    /\ phase[c] = "store"
    /\ registry' \in {Append(seen[c], c), InPlace(seen[c], c)}
    /\ phase' = [phase EXCEPT ![c] = "open"]
    /\ seen' = [seen EXCEPT ![c] = <<>>]
    /\ UNCHANGED <<kind, dead, closed, lock, request, loopVars, racy>>

----------------------------------------------------------------------------
(* listenAPI and handleRequest, one request per connection at a time (a    *)
(* bound).  An event connection is never read.                             *)

Listened(c) == kind[c] # "event" /\ phase[c] = "open"

\* The read fails: defer c.Close()
ListenEnds(c) ==
    /\ Listened(c) /\ c \in dead /\ c \notin closed
    /\ closed' = closed \cup {c}
    /\ UNCHANGED <<clientVars, dead, lock, request, registry, loopVars, racy>>

Receive(c) ==
    /\ Listened(c) /\ c \notin dead \cup closed
    /\ request[c] = "none"
    /\ request' = [request EXCEPT ![c] = "call"]
    /\ UNCHANGED <<clientVars, dead, closed, lock, registry, loopVars, racy>>

CallPanics(c) ==
    /\ request[c] = "call"
    /\ request' = [request EXCEPT ![c] = "none"]
    /\ closed' = closed \cup {c}
    /\ UNCHANGED <<clientVars, dead, lock, registry, loopVars, racy>>

RequestLock(c) ==
    /\ request[c] = "call" /\ lock[c] = "free"
    /\ lock' = [lock EXCEPT ![c] = "request"]
    /\ request' = [request EXCEPT ![c] = "write"]
    /\ UNCHANGED <<clientVars, dead, closed, registry, loopVars, racy>>

\* Mutation: an answer is sent again and again.
RequestRepeats(c) ==
    /\ request[c] = "write"
    /\ lock' = [lock EXCEPT ![c] = "free"]
    /\ request' = [request EXCEPT ![c] = "call"]
    /\ UNCHANGED <<clientVars, dead, closed, registry, loopVars, racy>>

\* _ = c.WriteJSON(ret), whatever its outcome, and the deferred Unlock
RequestEnds(c) ==
    /\ request[c] = "write"
    /\ lock' = [lock EXCEPT ![c] = "free"]
    /\ request' = [request EXCEPT ![c] = "none"]
    /\ UNCHANGED <<clientVars, dead, closed, registry, loopVars, racy>>

PeerGoes(c) ==
    /\ phase[c] # "new" /\ c \notin dead
    /\ dead' = dead \cup {c}
    /\ UNCHANGED <<clientVars, closed, lock, request, registry, loopVars, racy>>

----------------------------------------------------------------------------
(* onBotPushEvent, one at a time: the others wait for eventConnMutex.      *)

otherVars == <<clientVars, dead, request>>

PushBegins ==
    /\ pc = "off"
    /\ pc' = "at" /\ i' = 1 /\ l' = Len(registry) /\ served' = {}
    /\ racy' = (racy \/ \E c \in Conns : phase[c] = "store")
    /\ UNCHANGED <<otherVars, closed, lock, registry, conn, rest>>

LoopOver == i > l

\* The deferred Unlock of eventConnMutex; also how a panic leaves the loop.
Leave ==
    /\ pc' = "off" /\ i' = 1 /\ l' = 0 /\ conn' = None /\ rest' = <<>>
    /\ served' = {}

PushEnds ==
    /\ pc = "at" /\ LoopOver
    /\ Leave
    /\ UNCHANGED <<otherVars, closed, lock, registry, racy>>

\* conn := s.eventConn[i]
PushNext ==
    /\ pc = "at" /\ ~LoopOver /\ i <= Len(registry)
    /\ conn' = registry[i]
    /\ pc' = "lock"
    /\ UNCHANGED <<otherVars, closed, lock, registry, i, l, rest, served, racy>>

\* conn.Lock()
PushLock ==
    /\ pc = "lock" /\ lock[conn] = "free"
    /\ lock' = [lock EXCEPT ![conn] = "push"]
    /\ pc' = "write"
    /\ UNCHANGED <<otherVars, closed, registry, i, l, conn, rest, served, racy>>

\* A write to a peer that is gone may still reach the socket buffer.
PushWrites ==
    /\ pc = "write" /\ conn \notin closed
    /\ lock' = [lock EXCEPT ![conn] = "free"]
    /\ served' = served \cup {conn}
    /\ i' = i + 1
    /\ pc' = "at" /\ conn' = None
    /\ UNCHANGED <<otherVars, closed, registry, l, rest, racy>>

\* Mutation: the element after the failed one is removed.
RemovesNext(s, k) == IF k + 1 <= Len(s) THEN RemoveAt(s, k + 1) ELSE s

\* The slice after the failed connection at k has been swapped with the next
\* one and the next place removed.
Removed(s, k) == RemoveAt(s, k)

\* Mutation: conn.Close() is missing.
NotClosed == closed

AfterFailure == closed \cup {conn}

\* The write fails: conn.Close(), and "continue" without conn.Unlock().
PushFails ==
    /\ pc = "write" /\ conn \in dead \cup closed
    /\ closed' = AfterFailure
    /\ l <= Len(registry)
    /\ rest' = Removed(registry, i)
    /\ pc' = "remove"
    /\ UNCHANGED <<otherVars, lock, registry, i, l, conn, served, racy>>

\* Mutation: i-- is missing.
SkipsOne(k) == k + 1

\* i--, then i++ by the loop
SamePlace(k) == k

PushRemoves ==
    /\ pc = "remove"
    /\ registry' = rest
    /\ i' = SamePlace(i) /\ l' = l - 1
    /\ pc' = "at" /\ conn' = None /\ rest' = <<>>
    /\ UNCHANGED <<otherVars, closed, lock, served, racy>>

\* After a racing append an index can be out of range, or the element not yet
\* written: the push panics, dispatchEventMessage recovers, the mutex of conn,
\* if taken, stays locked.
PushPanics ==
    /\ \/ /\ pc = "at" /\ ~LoopOver
          /\ i > Len(registry) \/ \E c \in Conns : phase[c] = "store"
       \/ pc = "write" /\ conn \in dead \cup closed /\ l > Len(registry)
    /\ closed' = closed \cup ({conn} \ {None})
    /\ Leave
    /\ UNCHANGED <<otherVars, lock, registry, racy>>

PushStep == PushEnds \/ PushNext \/ PushLock \/ PushWrites \/ PushFails
            \/ PushRemoves \/ PushPanics

Next ==
    \/ PushBegins \/ PushStep
    \/ \E c \in Conns :
          \/ Connect(c) \/ JoinEvent(c) \/ JoinAnyReads(c) \/ JoinAnyWrites(c)
          \/ ListenEnds(c) \/ Receive(c) \/ CallPanics(c) \/ RequestLock(c)
          \/ RequestEnds(c) \/ PeerGoes(c)

\* Runnable goroutines run, a Go mutex serves its waiters in turn, and a client
\* that does not read breaks its connection at last (there is no write
\* deadline), so each write ends.
Fairness ==
    /\ WF_vars(PushStep) /\ SF_vars(PushLock)
    /\ \A c \in Conns : /\ SF_vars(RequestLock(c)) /\ WF_vars(RequestEnds(c))
                        /\ WF_vars(ListenEnds(c))

Spec == Init /\ [][Next]_vars /\ Fairness

----------------------------------------------------------------------------
(* Properties                                                              *)

\* Every variable has its type.
TypeOK ==
    /\ kind \in Mixes
    /\ phase \in [Conns -> {"new", "shaken", "store", "open"}]
    /\ dead \subseteq Conns /\ closed \subseteq Conns
    /\ lock \in [Conns -> {"free", "push", "request"}]
    /\ request \in [Conns -> {"none", "call", "write"}]
    /\ registry \in Seq(Conns) /\ rest \in Seq(Conns)
    /\ seen \in [Conns -> Seq(Conns)]
    /\ pc \in {"off", "at", "lock", "write", "remove"}
    /\ i \in Nat \ {0} /\ l \in Nat
    /\ conn \in Conns \cup {None}
    /\ pc \in {"lock", "write", "remove"} => conn \in Conns
    /\ served \subseteq Conns /\ racy \in BOOLEAN

\* The mutex of c is held and nobody is left to release it.
Leaked(c) == lock[c] = "push" /\ ~(pc = "write" /\ conn = c)

\* Without a race, the slice lists each subscribed connection once: nobody is
\* lost, duplicated, or back after having been dropped.
RegistryExact ==
    ~racy =>
        /\ IsInjective(registry)
        /\ ToSet(registry) =
             {c \in Conns : kind[c] # "api" /\ phase[c] = "open"
                            /\ (Leaked(c) => pc = "remove" /\ conn = c)}

\* Without a race, a push serves the connections before its index and none after
\* it, although it removes connections as it goes: nobody is skipped or served
\* twice, and no index is out of range.
ServesInOrder ==
    ~racy /\ pc # "off" =>
        /\ l = Len(registry)
        /\ \A k \in 1 .. l : registry[k] \in served <=> k < i

\* The mutex onBotPushEvent never releases is that of a connection the server
\* has closed, race or no race: no client that is still served hangs on it.
LeakIsClosed == \A c \in Conns : Leaked(c) => c \in closed

\* Without a race, a request is answered, or its connection is closed under it.
\* A dropped connection that a race puts back may keep a request, or a push,
\* waiting for its mutex for ever.
RequestAnswered ==
    \A c \in Conns : request[c] = "call" ~> request[c] = "none" \/ c \in closed \/ racy

\* The server implements EventHub until a race.
Subscribed == ToSet(IF pc = "remove" THEN rest ELSE registry)

Hub == INSTANCE EventHub WITH
         Clients <- Conns,
         subs    <- Subscribed,
         pending <- IF pc = "off" THEN {} ELSE Subscribed \ served,
         pushing <- pc # "off"
HubSteps == Hub!Init /\ [][Hub!Next \/ racy']_(Hub!hub)
ImplementsHub == HubSteps /\ ((<>racy) \/ Hub!Fairness)
=============================================================================
