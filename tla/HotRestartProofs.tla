-------------------------- MODULE HotRestartProofs --------------------------
(***************************************************************************)
(* What HotRestart leaves behind when it has come to rest, for any number  *)
(* of concurrent restarts, clients, lost sessions and edits.               *)
(*                                                                         *)
(* AtRest is reached only at the end of long interleavings, so each of the *)
(* three properties needs an invariant that says who is still going to put *)
(* things right: BotOK, SessionOK, and OneOK with ListenOK.                *)
(***************************************************************************)
EXTENDS HotRestart, FiniteSetTheorems, TLAPS

Labels == {"enter", "call", "wait", "make", "up", "done", "idle", "clear", "load",
           "set", "down", "reload"}

\* The labels at which a restart has loaded a configuration.
Loaded == {"set", "enter", "call", "wait", "make", "down", "reload"}

Exits == {"no", "panic", "login", "busy", "port"}
Addresses == 0 .. MaxClients

ConfTypes ==
    disk \in Contents \cup {NoFile} /\ conf \in Contents /\ shared \in BOOLEAN

FieldTypes ==
    /\ cli \in Addresses /\ clients \in Clients
    /\ bot \in Nat /\ bots \in Seq(Nat) /\ inForce \in Settings
    /\ unloaded \in BOOLEAN

ActorTypes ==
    /\ pc \in [Actors -> Labels] /\ mine \in [Actors -> Addresses]
    /\ loaded \in [Handlers -> Contents \cup {NoConf}]
    /\ old \in [Handlers -> Contents \cup {NoConf}]
    /\ \A h \in Handlers :
          pc[h] \in Loaded => loaded[h] \in Contents /\ old[h] \in Contents

NetTypes ==
    /\ online \subseteq Clients /\ watched \subseteq Clients
    /\ callback \in [Clients -> {"none", "begin", "retry", "wait"}]
    /\ target \in [Clients -> Addresses]
    /\ unwatched \in BOOLEAN

HttpTypes ==
    /\ starting \subseteq [bot : Nat, server : Clients, begun : BOOLEAN]
    /\ http \in Addresses /\ httpBot \in Nat
    /\ server \in [Clients -> {"none", "due", "new", "open", "closed"}]
    /\ address \in [Clients -> Ports \cup {Off}]
    /\ early \in BOOLEAN /\ beside \in BOOLEAN

\* Every variable has its type, and a restart that is past the load has a
\* configuration to put in force.
TypeOK ==
    /\ ConfTypes /\ FieldTypes /\ ActorTypes /\ NetTypes /\ HttpTypes
    /\ exit \in Exits /\ events \in Nat

Loading == {k \in Handlers : pc[k] \in {"clear", "load"}}

\* There is room for the client of each restart that has begun.
RoomOK == clients + Cardinality(Loading) <= MaxClients

\* Whoever waits for an answer to Login has called it of some client.
WaitOK ==
    /\ \A a \in Actors : exit = "no" /\ pc[a] = "wait" => mine[a] \in Clients
    /\ \A g \in Clients :
          exit = "no" /\ callback[g] = "wait" => target[g] \in Clients

\* The clients that goroutines other than their maker have got to know.
Known == {cli} \cup online \cup watched \cup {target[g] : g \in Clients}
         \cup {mine[a] : a \in {b \in Actors : pc[b] = "wait"}}

\* A client that DoReLogin has made and not yet published is its secret.
SecretOK ==
    /\ Known \subseteq 0 .. clients
    /\ \A h \in Handlers : pc[h] = "set" =>
          /\ mine[h] \in 1 .. clients /\ mine[h] \notin Known
          /\ \A k \in Handlers \ {h} : pc[k] = "set" => mine[k] # mine[h]

\* Only a registered callback runs, and that of the current client never logs in
\* another one.
CallbackOK ==
    \A g \in Clients :
       /\ callback[g] # "none" => g \in watched
       /\ exit = "no" /\ callback[g] = "wait" /\ cli = g => target[g] = g

\* Someone is going to call Login of the current client, or has called it.
LoggingIn ==
    \/ \E a \in Actors : \/ pc[a] \in {"enter", "call"}
                         \/ pc[a] = "wait" /\ mine[a] = cli
    \/ \E g \in Clients : \/ callback[g] \in {"begin", "retry"}
                          \/ callback[g] = "wait" /\ target[g] = cli

SessionOK ==
    exit = "no" /\ cli # Nil /\ ~unwatched => cli \in online \/ LoggingIn

\* Without a client someone is going to publish one, unless a restart has found no
\* configuration; with one, someone is going to make its bot, or that is the bot.
BotOK ==
    exit = "no" =>
       /\ cli = Nil => /\ bot = Nil
                       /\ unloaded \/ \E h \in Handlers : pc[h] \in {"load", "set"}
       /\ cli # Nil => /\ ~unloaded
                       /\ \/ \E a \in Actors : pc[a] \in {"enter", "call", "wait", "make"}
                          \/ bot # Nil /\ bots[bot] = cli

\* If each server is shut down before the next is started there is only one, none
\* while the next is about to be started, and it is s.HTTP once it is made.
OneOK ==
    exit = "no" /\ ~beside =>
       /\ Between # {} => Live(server) = {}
       /\ \A i, k \in Live(server) : i = k
       /\ \A i \in Clients : server[i] \in {"new", "open"} => i = http

\* At the address of s.HTTP a server that listens and is not s.HTTP is about to end
\* the process.
ListenOK ==
    exit = "no" /\ ~early =>
       \A i \in Clients : server[i] = "open" =>
          \/ i = http \/ address[i] # address[http]
          \/ http # Nil /\ server[http] = "new" /\ \E r \in starting : r.begun

\* s.HTTP is there once a goroutine of Run has made a server, each of which makes
\* its own.
MadeOK ==
    /\ http # Nil => server[http] \notin {"none", "due"}
    /\ \A r \in starting :
          /\ r.begun => http # Nil
          /\ server[r.server] # "none"
          /\ ~r.begun => server[r.server] = "due"
          /\ \A q \in starting : q.server = r.server => q = r

IInv ==
    /\ TypeOK /\ RoomOK /\ WaitOK /\ SecretOK /\ CallbackOK /\ SessionOK /\ BotOK
    /\ OneOK /\ ListenOK /\ MadeOK

(***************************************************************************)
(* Types                                                                   *)
(***************************************************************************)

\* The restarts that wait to load are counted.
LEMMA LoadingCounts ==
  ASSUME TypeOK
  PROVE  /\ IsFiniteSet(Loading) /\ Cardinality(Loading) \in Nat
         /\ (\E h \in Handlers : pc[h] = "load") => Cardinality(Loading) >= 1
<1>1. IsFiniteSet(Loading)
  BY ConstantsAssumption, FS_Subset DEF Loading
<1>2. Cardinality(Loading) \in Nat
  BY <1>1, FS_CardinalityType
<1>3. ASSUME NEW h \in Handlers, pc[h] = "load" PROVE Cardinality(Loading) >= 1
  <2>1. Loading # {}
    BY <1>3 DEF Loading
  <2> QED  BY <1>1, <1>2, <2>1, FS_EmptySet
<1> QED  BY <1>1, <1>2, <1>3

LEMMA TypeInit == Init => TypeOK
<1> SUFFICES ASSUME Init PROVE TypeOK
  OBVIOUS
<1>n. Nil \in Addresses /\ 1 \in Addresses /\ 1 \in Clients /\ Nil = 0
  BY ConstantsAssumption DEF Addresses, Clients, Nil
<1> USE <1>n DEF Init
<1>1. ConfTypes
  BY DEF ConfTypes
<1>2. FieldTypes
  <2>1. bots \in Seq(Nat)
    BY DEF Init
  <2>2. inForce \in Settings
    BY DEF Contents
  <2> QED  BY <2>1, <2>2 DEF FieldTypes
<1>3. ActorTypes
  <2>1. \A h \in Handlers : h \in Actors /\ h # Main
    BY ConstantsAssumption DEF Actors
  <2>2. pc \in [Actors -> Labels] /\ mine \in [Actors -> Addresses]
    BY DEF Labels
  <2>3. /\ loaded \in [Handlers -> Contents \cup {NoConf}]
        /\ old \in [Handlers -> Contents \cup {NoConf}]
    OBVIOUS
  <2>4. \A h \in Handlers : pc[h] \notin Loaded
    BY <2>1 DEF Loaded
  <2> QED  BY <2>2, <2>3, <2>4 DEF ActorTypes
<1>4. NetTypes
  BY DEF NetTypes
<1>5. HttpTypes
  BY DEF HttpTypes
<1> QED  BY <1>1, <1>2, <1>3, <1>4, <1>5 DEF TypeOK, Exits

\* A step of one goroutine to a label that needs no other configuration.
LEMMA GotoTypes ==
  ASSUME ActorTypes, NEW a \in Actors, NEW label \in Labels, Goto(a, label),
         mine' \in [Actors -> Addresses], UNCHANGED <<loaded, old>>,
         label \in Loaded /\ a \in Handlers => pc[a] \in Loaded
  PROVE  ActorTypes'
<1>1. pc' \in [Actors -> Labels]
  BY DEF ActorTypes, Goto
<1>2. ASSUME NEW h \in Handlers, pc'[h] \in Loaded PROVE pc[h] \in Loaded
  BY <1>2 DEF ActorTypes, Goto, Actors
<1> QED  BY <1>1, <1>2 DEF ActorTypes

\* The end of a restart.
LEMMA ForgetTypes ==
  ASSUME ActorTypes, NEW h \in Handlers, Goto(h, "idle"), Forget(h)
  PROVE  ActorTypes'
<1>1. pc' \in [Actors -> Labels]
  BY DEF ActorTypes, Goto, Labels
<1>2. mine' \in [Actors -> Addresses]
  <2>1. Nil \in Addresses
    BY ConstantsAssumption DEF Addresses, Nil
  <2> QED  BY <2>1 DEF ActorTypes, Forget
<1>3. /\ loaded' \in [Handlers -> Contents \cup {NoConf}]
      /\ old' \in [Handlers -> Contents \cup {NoConf}]
  BY DEF ActorTypes, Forget
<1>4. ASSUME NEW k \in Handlers, pc'[k] \in Loaded
      PROVE  loaded'[k] \in Contents /\ old'[k] \in Contents
  <2>1. k # h
    BY <1>4 DEF ActorTypes, Goto, Actors, Loaded
  <2>2. pc[k] \in Loaded
    BY <1>4, <2>1 DEF ActorTypes, Goto, Actors
  <2> QED  BY <2>1, <2>2 DEF ActorTypes, Forget
<1> QED  BY <1>1, <1>2, <1>3, <1>4 DEF ActorTypes

LEMMA PanicTypes ==
  ASSUME ActorTypes, exit \in Exits, NEW a \in Actors, Panics(a)
  PROVE  ActorTypes' /\ exit' \in Exits
<1>1. CASE a = Main
  BY <1>1 DEF Panics, ActorTypes, localVars, Exits
<1>2. CASE a # Main
  <2>1. a \in Handlers
    BY <1>2 DEF Actors
  <2> QED  BY <1>2, <2>1, ForgetTypes DEF Panics
<1> QED  BY <1>1, <1>2

LEMMA LaunchTypes ==
  ASSUME TypeOK, GetConf # NoFile, NEW a, Launch(a), UNCHANGED <<http, httpBot, early>>
  PROVE  HttpTypes'
<1>1. CASE UNCHANGED serverVars
  BY <1>1 DEF TypeOK, HttpTypes, serverVars
<1>2. CASE ~UNCHANGED serverVars
  <2>1. PICK i \in Clients :
           /\ starting' = starting \cup
                             {[bot |-> bot, server |-> i, begun |-> FALSE]}
           /\ server' = [server EXCEPT ![i] = "due"]
           /\ address' = [address EXCEPT ![i] = GetConf.http]
           /\ beside' = (beside \/ Between \ {a} # {})
    BY <1>2 DEF Launch, Unused
  <2>2. [bot |-> bot, server |-> i, begun |-> FALSE]
           \in [bot : Nat, server : Clients, begun : BOOLEAN]
    BY DEF TypeOK, FieldTypes
  <2>3. GetConf.http \in Ports \cup {Off}
    BY DEF TypeOK, ConfTypes, GetConf, Contents
  <2>4. beside' \in BOOLEAN
    BY <2>1 DEF TypeOK, HttpTypes
  <2> QED  BY <2>1, <2>2, <2>3, <2>4 DEF TypeOK, HttpTypes
<1> QED  BY <1>1, <1>2

\* The servers, whether or not their start panics.
LEMMA StartTypes ==
  ASSUME TypeOK, NEW a, StartPanics(a) \/ StartsAll(a),
         UNCHANGED <<http, httpBot, early>>
  PROVE  HttpTypes'
<1>1. CASE UNCHANGED serverVars
  BY <1>1 DEF TypeOK, HttpTypes, serverVars
<1>2. CASE GetConf # NoFile /\ Launch(a)
  BY <1>2, LaunchTypes
<1> QED  BY <1>1, <1>2 DEF StartPanics, StartsAll

\* A handler is done with its restart even if the start of a server panics.
LEMMA ReloadEnds ==
  ASSUME NEW h \in Handlers, Reload(h)
  PROVE  /\ exit = "no" /\ pc[h] = "reload" /\ Goto(h, "idle") /\ Forget(h)
         /\ conf' \in {conf, loaded[h]} /\ exit' \in {exit, "panic"}
<1>1. h # Main
  BY ConstantsAssumption
<1> QED  BY <1>1 DEF Reload, StartPanics, StartsAll, Panics, At

LEMMA UpEnds ==
  ASSUME Up
  PROVE  /\ exit = "no" /\ pc[Main] = "up" /\ UNCHANGED localVars
         /\ Goto(Main, "done") \/ (UNCHANGED pc /\ exit' = "panic")
         /\ exit' \in {exit, "panic"}
BY DEF Up, StartPanics, StartsAll, Panics, At

LEMMA LoseTypes ==
  ASSUME NetTypes, NEW lost, NEW cb, Lose(lost, cb),
         cb \in [Clients -> {"none", "begin", "retry", "wait"}],
         online' \subseteq Clients, target' \in [Clients -> Addresses],
         watched' = watched
  PROVE  NetTypes'
<1>1. callback' \in [Clients -> {"none", "begin", "retry", "wait"}]
  BY DEF Lose
<1>2. unwatched' \in BOOLEAN
  BY DEF Lose, NetTypes
<1> QED  BY <1>1, <1>2 DEF NetTypes

\* A restart that begins leaves room for its client.
LEMMA TypeStep == IInv /\ [Next]_vars => TypeOK'
<1> SUFFICES ASSUME IInv, [Next]_vars PROVE TypeOK'
  OBVIOUS
<1> USE DEF IInv, TypeOK, At
<1>c. /\ \A a \in Handlers : a \in Actors
      /\ Main \in Actors /\ Main \notin Handlers
  BY ConstantsAssumption DEF Actors
<1>n. 0 \in Addresses /\ \A c \in Clients : c \in Addresses
  BY ConstantsAssumption DEF Addresses, Clients
<1>u. /\ UNCHANGED confVars => ConfTypes'
      /\ UNCHANGED fieldVars => FieldTypes'
      /\ UNCHANGED <<pc, localVars>> => ActorTypes'
      /\ UNCHANGED <<netVars, cbVars>> => NetTypes'
      /\ UNCHANGED httpVars => HttpTypes'
      /\ UNCHANGED exit => exit' \in Exits
      /\ UNCHANGED events => events' \in Nat
  BY DEF confVars, fieldVars, localVars, netVars, cbVars, httpVars, ConfTypes,
         FieldTypes, ActorTypes, NetTypes, HttpTypes, serverVars
<1>0. ASSUME NEW h \in Handlers, Authorize(h) PROVE TypeOK'
  <2>1. mine' \in [Actors -> Addresses]
    BY <1>0 DEF Authorize, ActorTypes, localVars
  <2>2. ActorTypes'
    BY <1>0, <1>c, <2>1, GotoTypes DEF Authorize, Labels, Loaded, localVars
  <2> QED  BY <1>0, <1>u, <2>2 DEF Authorize
<1>1. ASSUME NEW h \in Handlers, Clear(h) PROVE TypeOK'
  <2>1. FieldTypes'
    BY <1>1, <1>n DEF Clear, FieldTypes, Nil
  <2>2. ActorTypes'
    <3>1. mine' \in [Actors -> Addresses]
      BY <1>1 DEF Clear, ActorTypes, localVars
    <3> QED  BY <1>1, <1>c, <3>1, GotoTypes DEF Clear, Labels, Loaded, localVars
  <2> QED  BY <1>1, <1>u, <2>1, <2>2 DEF Clear
<1>2. ASSUME NEW h \in Handlers, Load(h) PROVE TypeOK'
  <2>1. clients + 1 \in Clients
    BY <1>2, LoadingCounts, ConstantsAssumption
       DEF Load, RoomOK, FieldTypes, Clients
  <2>2. FieldTypes'
    BY <1>2, <2>1 DEF Load, FieldTypes
  <2>3. ActorTypes'
    <3>1. pc' \in [Actors -> Labels] /\ mine' \in [Actors -> Addresses]
      BY <1>2, <2>1, <1>n DEF Load, Goto, ActorTypes, Labels
    <3>2. /\ loaded' = [loaded EXCEPT ![h] = disk] /\ disk \in Contents
          /\ old' = [old EXCEPT ![h] = conf] /\ conf \in Contents
          /\ pc' = [pc EXCEPT ![h] = "set"]
      BY <1>2 DEF Load, Goto, ConfTypes
    <3>3. \A k \in Handlers : pc'[k] \in Loaded =>
             loaded'[k] \in Contents /\ old'[k] \in Contents
      BY <3>2, <1>c DEF ActorTypes
    <3> QED  BY <3>1, <3>2, <3>3 DEF ActorTypes
  <2>4. ConfTypes'
    BY <1>2 DEF Load, ConfTypes
  <2> QED  BY <1>2, <1>u, <2>2, <2>3, <2>4 DEF Load
<1>2f. ASSUME NEW h \in Handlers, LoadFails(h) PROVE TypeOK'
  <2>1. ActorTypes' /\ exit' \in Exits
    BY <1>2f, <1>c, PanicTypes DEF LoadFails
  <2>2. FieldTypes' /\ ConfTypes'
    BY <1>2f DEF LoadFails, FieldTypes, ConfTypes
  <2> QED  BY <1>2f, <1>u, <2>1, <2>2 DEF LoadFails
<1>3. ASSUME NEW h \in Handlers, SetCli(h) PROVE TypeOK'
  <2>1. FieldTypes'
    BY <1>3, <1>c DEF SetCli, Published, FieldTypes, ActorTypes
  <2>2. ActorTypes'
    <3>1. mine' \in [Actors -> Addresses]
      BY <1>3 DEF SetCli, ActorTypes, localVars
    <3> QED  BY <1>3, <1>c, <3>1, GotoTypes DEF SetCli, Labels, Loaded, localVars
  <2> QED  BY <1>3, <1>u, <2>1, <2>2 DEF SetCli
<1>4. ASSUME NEW a \in Actors, Enter(a) PROVE TypeOK'
  <2>1. ActorTypes' /\ exit' \in Exits
    <3>1. CASE Panics(a)
      BY <3>1, PanicTypes
    <3>2. CASE cli # Nil
      <4>1. mine' \in [Actors -> Addresses]
        BY <1>4, <3>2 DEF Enter, ActorTypes, localVars
      <4>2. PICK label \in {"make", "call"} : Goto(a, label)
        BY <1>4, <3>2 DEF Enter
      <4> QED  BY <1>4, <3>2, <4>1, <4>2, GotoTypes
                  DEF Enter, Labels, Loaded, localVars
    <3> QED  BY <1>4, <3>1, <3>2 DEF Enter
  <2> QED  BY <1>4, <1>u, <2>1 DEF Enter
<1>5. ASSUME NEW a \in Actors, LoginCalled(a) PROVE TypeOK'
  <2>1. ActorTypes' /\ exit' \in Exits
    <3>1. CASE Panics(a)
      BY <3>1, PanicTypes
    <3>2. CASE cli # Nil
      <4>1. mine' \in [Actors -> Addresses]
        BY <1>5, <3>2 DEF LoginCalled, ActorTypes, FieldTypes
      <4> QED  BY <1>5, <3>2, <4>1, GotoTypes DEF LoginCalled, Labels, Loaded
    <3> QED  BY <1>5, <3>1, <3>2 DEF LoginCalled
  <2> QED  BY <1>5, <1>u, <2>1 DEF LoginCalled
<1>6. ASSUME NEW a \in Actors, LoginReturns(a) PROVE TypeOK'
  <2>1. ActorTypes' /\ exit' \in Exits
    <3>1. mine' \in [Actors -> Addresses] /\ UNCHANGED <<loaded, old>>
      BY <1>6 DEF LoginReturns, ActorTypes, localVars
    <3>2. CASE UNCHANGED pc
      BY <1>6, <1>u, <3>2 DEF LoginReturns, Exits
    <3>3. CASE Goto(a, "make") \/ Goto(a, "call")
      BY <1>6, <3>1, <3>3, GotoTypes DEF LoginReturns, Labels, Loaded, Exits
    <3> QED  BY <1>6, <3>2, <3>3 DEF LoginReturns
  <2>2. NetTypes'
    <3>1. CASE UNCHANGED <<online, callback, unwatched>>
      BY <1>6, <3>1 DEF LoginReturns, NetTypes
    <3>2. CASE online' = {mine[a]} /\ Lose(online \ {mine[a]}, callback)
      <4>1. mine[a] \in Clients
        BY <1>6, <1>c DEF LoginReturns, WaitOK
      <4> QED  BY <1>6, <3>2, <4>1, LoseTypes DEF LoginReturns, NetTypes
    <3> QED  BY <1>6, <3>1, <3>2 DEF LoginReturns
  <2> QED  BY <1>6, <1>u, <2>1, <2>2 DEF LoginReturns
<1>7. ASSUME NEW a \in Actors, Make(a) PROVE TypeOK'
  <2>1. CASE cli = Nil
    <3>1. FieldTypes' /\ NetTypes'
      BY <1>7, <2>1 DEF Make, FieldTypes, NetTypes, cbVars
    <3> QED  BY <1>7, <1>u, <2>1, <3>1, PanicTypes DEF Make
  <2>2. CASE cli # Nil
    <3>1. cli \in Clients
      BY <2>2, ConstantsAssumption DEF FieldTypes, Addresses, Clients, Nil
    <3>2. FieldTypes'
      <4>1. bots' \in Seq(Nat) /\ bot' \in Nat
        BY <1>7, <2>2, <3>1, ConstantsAssumption
           DEF Make, Current, FieldTypes, Clients
      <4>2. inForce' \in Settings
        BY <1>7, <2>2 DEF Make, ConfTypes, Contents
      <4> QED  BY <1>7, <4>1, <4>2 DEF Make, FieldTypes
    <3>3. NetTypes'
      BY <1>7, <2>2, <3>1 DEF Make, NetTypes, cbVars
    <3>4. ActorTypes'
      <4>1. mine' \in [Actors -> Addresses]
        BY <1>7, <2>2, <1>n DEF Make, ActorTypes, Nil
      <4>2. PICK label \in {"up", "down"} : Goto(a, label)
        BY <1>7, <2>2 DEF Make
      <4> QED  BY <1>7, <2>2, <4>1, <4>2, GotoTypes DEF Make, Labels, Loaded
    <3> QED  BY <1>7, <1>u, <2>2, <3>2, <3>3, <3>4 DEF Make
  <2> QED  BY <2>1, <2>2
<1>8. ASSUME NEW h \in Handlers, ShutDown(h) PROVE TypeOK'
  <2>1. ActorTypes' /\ exit' \in Exits
    <3>1. CASE Panics(h)
      BY <1>c, <3>1, PanicTypes
    <3>2. CASE UNCHANGED <<pc, localVars>>
      <4>1. exit' \in {exit, "busy"} \/ Panics(h)
        BY <1>8 DEF ShutDown
      <4> QED  BY <1>u, <3>1, <3>2, <4>1 DEF Exits
    <3>3. CASE Goto(h, "reload") /\ UNCHANGED localVars /\ UNCHANGED exit
      <4>1. mine' \in [Actors -> Addresses] /\ UNCHANGED <<loaded, old>>
        BY <3>3 DEF ActorTypes, localVars
      <4> QED  BY <1>8, <1>c, <3>3, <4>1, GotoTypes DEF ShutDown, Labels, Loaded
    <3> QED  BY <1>8, <3>1, <3>2, <3>3 DEF ShutDown
  <2>2. HttpTypes'
    BY <1>8 DEF ShutDown, Closed, HttpTypes
  <2> QED  BY <1>8, <1>u, <2>1, <2>2 DEF ShutDown
<1>9. ASSUME Up PROVE TypeOK'
  <2>1. ActorTypes'
    <3>1. mine' \in [Actors -> Addresses] /\ UNCHANGED <<loaded, old>>
      BY <1>9, UpEnds DEF ActorTypes, localVars
    <3>2. CASE Goto(Main, "done")
      BY <1>c, <3>1, <3>2, GotoTypes DEF Labels
    <3>3. CASE UNCHANGED pc
      BY <1>9, <1>u, <3>3, UpEnds
    <3> QED  BY <1>9, <3>2, <3>3, UpEnds
  <2>2. HttpTypes' /\ exit' \in Exits
    BY <1>9, StartTypes, UpEnds DEF Up, Exits
  <2> QED  BY <1>9, <1>u, <2>1, <2>2 DEF Up
<1>10. ASSUME NEW h \in Handlers, Reload(h) PROVE TypeOK'
  <2>1. ConfTypes'
    BY <1>10, ReloadEnds DEF Reload, ConfTypes, ActorTypes, Loaded
  <2>2. HttpTypes' /\ exit' \in Exits
    BY <1>10, StartTypes, ReloadEnds DEF Reload, Exits
  <2> QED  BY <1>10, <1>u, <2>1, <2>2, ForgetTypes, ReloadEnds DEF Reload
<1>11. ASSUME NEW r \in starting, HTTPStarts(r) PROVE TypeOK'
  <2> DEFINE s == [r EXCEPT !.begun = TRUE]
  <2>1. /\ r \in [bot : Nat, server : Clients, begun : BOOLEAN]
        /\ r.server \in Clients /\ r.bot \in Nat
    BY DEF HttpTypes
  <2>2. s \in [bot : Nat, server : Clients, begun : BOOLEAN]
    BY <2>1
  <2>3. /\ starting' = (starting \ {r}) \cup {s} /\ http' = r.server
        /\ httpBot' = r.bot /\ server' = [server EXCEPT ![r.server] = "new"]
        /\ UNCHANGED <<address, early, beside>>
    BY <1>11 DEF HTTPStarts
  <2> HIDE DEF s
  <2>4. HttpTypes'
    BY <1>n, <2>1, <2>2, <2>3 DEF HttpTypes
  <2> QED  BY <1>11, <1>u, <2>4 DEF HTTPStarts
<1>12. ASSUME NEW r \in starting, HTTPListens(r) PROVE TypeOK'
  <2>1. HttpTypes' /\ exit' \in Exits
    BY <1>12 DEF HTTPListens, HttpTypes, Exits
  <2> QED  BY <1>12, <1>u, <2>1 DEF HTTPListens
<1>13. ASSUME NEW g \in Clients, Drop(g) PROVE TypeOK'
  <2>1. NetTypes'
    BY <1>13, LoseTypes DEF Drop, NetTypes
  <2>2. events' \in Nat
    BY <1>13 DEF Drop
  <2> QED  BY <1>13, <1>u, <2>1, <2>2 DEF Drop
<1>14. ASSUME NEW g \in Clients, CallbackBegins(g) PROVE TypeOK'
  <2>1. NetTypes'
    BY <1>14 DEF CallbackBegins, NetTypes, FieldTypes, netVars
  <2> QED  BY <1>14, <1>u, <2>1 DEF CallbackBegins
<1>15. ASSUME NEW g \in Clients, CallbackRetries(g) PROVE TypeOK'
  <2>1. NetTypes'
    BY <1>15 DEF CallbackRetries, NetTypes, FieldTypes
  <2> QED  BY <1>15, <1>u, <2>1 DEF CallbackRetries
<1>16. ASSUME NEW g \in Clients, CallbackReturns(g) PROVE TypeOK'
  <2>1. target' \in [Clients -> Addresses] /\ exit' \in Exits
    BY <1>16, <1>n DEF CallbackReturns, NetTypes, Nil, Exits
  <2>2. NetTypes'
    <3>1. CASE LoginSucceeds(g)
      <4>1. target[g] \in Clients
        BY <1>16 DEF CallbackReturns, WaitOK
      <4>2. [callback EXCEPT ![g] = "none"]
               \in [Clients -> {"none", "begin", "retry", "wait"}]
        BY DEF NetTypes
      <4> QED  BY <1>16, <2>1, <3>1, <4>1, <4>2, LoseTypes
                  DEF CallbackReturns, LoginSucceeds
    <3>2. CASE UNCHANGED <<online, unwatched>>
      BY <1>16, <2>1, <3>1, <3>2 DEF CallbackReturns, NetTypes, AfterFailure
    <3> QED  BY <1>16, <3>1, <3>2 DEF CallbackReturns
  <2> QED  BY <1>16, <1>u, <2>1, <2>2 DEF CallbackReturns
<1>17. ASSUME NEW c \in Contents \cup {NoFile}, AdminEdits(c) \/ HandEdits(c) PROVE TypeOK'
  <2>1. ConfTypes'
    <3>1. CASE AdminEdits(c)
      BY <3>1 DEF AdminEdits, ConfTypes
    <3>2. CASE HandEdits(c)
      BY <3>2 DEF HandEdits, ConfTypes
    <3> QED  BY <1>17, <3>1, <3>2
  <2>2. events' \in Nat
    BY <1>17 DEF AdminEdits, HandEdits
  <2> QED  BY <1>17, <1>u, <2>1, <2>2 DEF AdminEdits, HandEdits
<1>18. ASSUME UNCHANGED vars PROVE TypeOK'
  BY <1>18, <1>u DEF vars
<1> QED
  BY <1>c, <1>0, <1>1, <1>2, <1>2f, <1>3, <1>4, <1>5, <1>6, <1>7, <1>8, <1>9, <1>10,
     <1>11, <1>12, <1>13, <1>14, <1>15, <1>16, <1>17, <1>18
     DEF Next, Starts, Restarts, Callback

(***************************************************************************)
(* Who knows which client                                                  *)
(***************************************************************************)

LEMMA RoomStep == IInv /\ [Next]_vars => RoomOK'
<1> SUFFICES ASSUME IInv, [Next]_vars PROVE RoomOK'
  OBVIOUS
<1> USE DEF At, Goto
<1>t. pc \in [Actors -> Labels] /\ \A h \in Handlers : h \in Actors
  BY DEF IInv, TypeOK, ActorTypes, Actors
<1>f. /\ IsFiniteSet(Loading) /\ Cardinality(Loading) \in Nat /\ clients \in Nat
      /\ clients + Cardinality(Loading) <= MaxClients /\ MaxClients \in Nat
  BY LoadingCounts, ConstantsAssumption
     DEF IInv, TypeOK, FieldTypes, Clients, RoomOK
<1>1. ASSUME NEW h \in Handlers, Authorize(h) PROVE RoomOK'
  <2>1. Loading' = Loading \cup {h} /\ h \notin Loading
    BY <1>1, <1>t DEF Authorize, Loading
  <2>2. Cardinality(Loading') = Cardinality(Loading) + 1
    BY <2>1, <1>f, FS_AddElement
  <2>3. clients + Cardinality(Loading) < MaxClients /\ clients' = clients
    BY <1>1 DEF Authorize, Loading, fieldVars
  <2> QED  BY <2>2, <2>3, <1>f DEF RoomOK
<1>2. ASSUME NEW h \in Handlers, Load(h) PROVE RoomOK'
  <2>1. Loading' = Loading \ {h} /\ h \in Loading
    BY <1>2, <1>t DEF Load, Loading
  <2>2. Cardinality(Loading') = Cardinality(Loading) - 1
    BY <2>1, <1>f, FS_RemoveElement
  <2>3. clients' = clients + 1
    BY <1>2 DEF Load
  <2> QED  BY <2>2, <2>3, <1>f DEF RoomOK
<1>2f. ASSUME NEW h \in Handlers, LoadFails(h) PROVE RoomOK'
  <2>1. Loading' = Loading \ {h} /\ h \in Loading
    BY <1>2f, <1>t, ConstantsAssumption DEF LoadFails, Panics, Loading
  <2>2. Cardinality(Loading') = Cardinality(Loading) - 1
    BY <2>1, <1>f, FS_RemoveElement
  <2>3. clients' = clients
    BY <1>2f DEF LoadFails
  <2> QED  BY <2>2, <2>3, <1>f DEF RoomOK
<1>3. ASSUME Loading' = Loading, clients' = clients PROVE RoomOK'
  BY <1>3, <1>f DEF RoomOK
<1>3c. ASSUME NEW h \in Handlers, Clear(h) PROVE RoomOK'
  <2>1. Loading' = Loading /\ clients' = clients
    BY <1>3c, <1>t DEF Clear, Loading
  <2> QED  BY <1>3, <2>1
<1>4. ASSUME NEW a \in Actors, NEW label, Goto(a, label),
             pc[a] \notin {"clear", "load"}, label \notin {"clear", "load"}
      PROVE  Loading' = Loading
  BY <1>4, <1>t DEF Loading
<1>5. ASSUME pc' = pc PROVE Loading' = Loading
  BY <1>5 DEF Loading
<1>m. Main \in Actors
  BY DEF Actors
<1>6. ASSUME NEW h \in Handlers, SetCli(h) \/ ShutDown(h) \/ Reload(h)
      PROVE  RoomOK'
  <2>1. clients' = clients
    BY <1>6 DEF SetCli, ShutDown, Reload, fieldVars
  <2>2. Loading' = Loading
    <3>1. PICK label : /\ {label, pc[h]} \cap {"clear", "load"} = {}
                       /\ Goto(h, label) \/ UNCHANGED pc
      <4>1. CASE SetCli(h) \/ ShutDown(h)
        BY <4>1 DEF SetCli, ShutDown, Panics
      <4>2. CASE Reload(h)
        BY <4>2, ReloadEnds
      <4> QED  BY <1>6, <4>1, <4>2
    <3> QED  BY <3>1, <1>4, <1>5, <1>t
  <2> QED  BY <1>3, <2>1, <2>2
<1>7. ASSUME NEW a \in Actors,
             Enter(a) \/ LoginCalled(a) \/ LoginReturns(a) \/ Make(a)
      PROVE  RoomOK'
  <2>1. clients' = clients
    BY <1>7 DEF Enter, LoginCalled, LoginReturns, Make, fieldVars
  <2>2. Loading' = Loading
    <3>1. PICK label : /\ {label, pc[a]} \cap {"clear", "load"} = {}
                       /\ Goto(a, label) \/ UNCHANGED pc
      BY <1>7 DEF Enter, LoginCalled, LoginReturns, Make, Panics
    <3> QED  BY <3>1, <1>4, <1>5
  <2> QED  BY <1>3, <2>1, <2>2
<1>8. CASE Up
  <2>1. clients' = clients /\ Loading' = Loading
    BY <1>8, <1>4, <1>5, <1>m, UpEnds DEF Up, fieldVars
  <2> QED  BY <1>3, <2>1
<1>9. ASSUME \/ \E r \in starting : HTTPStarts(r) \/ HTTPListens(r)
             \/ \E g \in Clients : Drop(g) \/ Callback(g)
             \/ \E c \in Contents \cup {NoFile} : AdminEdits(c) \/ HandEdits(c)
             \/ UNCHANGED vars
      PROVE  RoomOK'
  <2>1. UNCHANGED pc /\ UNCHANGED fieldVars
    BY <1>9 DEF HTTPStarts, HTTPListens, Drop, Callback, CallbackBegins,
                CallbackRetries, CallbackReturns, AdminEdits, HandEdits, vars
  <2> QED  BY <1>3, <1>5, <2>1 DEF fieldVars
<1> QED
  BY <1>m, <1>t, <1>1, <1>2, <1>2f, <1>3c, <1>6, <1>7, <1>8, <1>9
     DEF Next, Starts, Restarts

\* The current client is one that has been made.
LEMMA CliIsAClient == ASSUME IInv, cli # Nil PROVE cli \in Clients
BY ConstantsAssumption DEF IInv, TypeOK, FieldTypes, Addresses, Clients, Nil

LEMMA WaitStep == IInv /\ [Next]_vars => WaitOK'
<1> SUFFICES ASSUME IInv, [Next]_vars PROVE WaitOK'
  OBVIOUS
<1> USE DEF IInv, At, Goto
<1>t. /\ pc \in [Actors -> Labels] /\ mine \in [Actors -> Addresses]
      /\ callback \in [Clients -> {"none", "begin", "retry", "wait"}]
      /\ target \in [Clients -> Addresses]
  BY DEF TypeOK, ActorTypes, NetTypes
<1>h. Main \in Actors /\ \A h \in Handlers : h \in Actors
  BY DEF Actors
\* A step of the actor a, which leaves the callbacks waiting as they were.
<1>a. ASSUME NEW a \in Actors, exit = "no",
             \A b \in Actors \ {a} : pc'[b] = pc[b] /\ mine'[b] = mine[b],
             exit' = "no" /\ pc'[a] = "wait" => mine'[a] \in Clients,
             \A g \in Clients : callback'[g] = "wait" =>
                callback[g] = "wait" /\ target'[g] = target[g]
      PROVE  WaitOK'
  BY <1>a DEF WaitOK
<1>b. ASSUME NEW h, Panics(h), h \in Actors, exit = "no", pc[h] # "wait",
             UNCHANGED cbVars
      PROVE  WaitOK'
  <2>1. \A b \in Actors \ {h} : pc'[b] = pc[b] /\ mine'[b] = mine[b]
    BY <1>b, <1>t DEF Panics, Forget, localVars
  <2>2. pc'[h] # "wait"
    BY <1>b, <1>t DEF Panics
  <2> QED  BY <1>b, <2>1, <2>2, <1>a DEF cbVars
<1>0. ASSUME NEW h \in Handlers, LoadFails(h) PROVE WaitOK'
  BY <1>0, <1>b, <1>h DEF LoadFails, cbVars
<1>1. ASSUME NEW h \in Handlers, Authorize(h) \/ Clear(h) \/ Load(h) \/ SetCli(h)
      PROVE  WaitOK'
  <2>1. /\ \A b \in Actors \ {h} : pc'[b] = pc[b] /\ mine'[b] = mine[b]
        /\ pc'[h] # "wait"
    BY <1>1, <1>t, <1>h DEF Authorize, Clear, Load, SetCli, localVars
  <2> QED  BY <1>1, <1>a, <1>h, <2>1 DEF Authorize, Clear, Load, SetCli, cbVars
<1>1r. ASSUME NEW h \in Handlers, Reload(h) PROVE WaitOK'
  <2>1. /\ \A b \in Actors \ {h} : pc'[b] = pc[b] /\ mine'[b] = mine[b]
        /\ pc'[h] # "wait"
    BY <1>1r, <1>t, <1>h, ReloadEnds DEF Forget
  <2> QED  BY <1>1r, <1>a, <1>h, <2>1, ReloadEnds DEF Reload, cbVars
<1>2. ASSUME NEW h \in Handlers, ShutDown(h) PROVE WaitOK'
  <2>1. CASE Panics(h)
    BY <1>2, <2>1, <1>b, <1>h DEF ShutDown
  <2>2. CASE ~Panics(h)
    <3>1. /\ \A b \in Actors \ {h} : pc'[b] = pc[b] /\ mine'[b] = mine[b]
          /\ pc'[h] # "wait"
      BY <1>2, <1>t, <1>h, <2>2 DEF ShutDown, localVars
    <3> QED  BY <1>2, <1>a, <1>h, <3>1 DEF ShutDown, cbVars
  <2> QED  BY <2>1, <2>2
<1>3. ASSUME NEW a \in Actors, Enter(a) \/ Make(a) PROVE WaitOK'
  <2>1. CASE Panics(a)
    BY <1>3, <2>1, <1>b DEF Enter, Make
  <2>2. CASE ~Panics(a)
    <3>1. /\ \A b \in Actors \ {a} : pc'[b] = pc[b] /\ mine'[b] = mine[b]
          /\ pc'[a] # "wait"
      BY <1>3, <1>t, <2>2 DEF Enter, Make, localVars
    <3> QED  BY <1>3, <1>a, <3>1 DEF Enter, Make, cbVars
  <2> QED  BY <2>1, <2>2
<1>4. ASSUME NEW a \in Actors, LoginCalled(a) PROVE WaitOK'
  <2>1. CASE Panics(a)
    BY <1>4, <2>1, <1>b DEF LoginCalled
  <2>2. CASE cli # Nil
    <3>1. /\ \A b \in Actors \ {a} : pc'[b] = pc[b] /\ mine'[b] = mine[b]
          /\ mine'[a] = cli
      BY <1>4, <1>t, <2>2 DEF LoginCalled
    <3> QED  BY <1>4, <1>a, <2>2, <3>1, CliIsAClient DEF LoginCalled, cbVars
  <2> QED  BY <1>4, <2>1, <2>2 DEF LoginCalled
<1>5. ASSUME NEW a \in Actors, LoginReturns(a) PROVE WaitOK'
  <2>1. /\ \A b \in Actors \ {a} : pc'[b] = pc[b] /\ mine'[b] = mine[b]
        /\ exit' = "no" => pc'[a] # "wait"
    BY <1>5, <1>t DEF LoginReturns, localVars
  <2>2. \A g \in Clients : callback'[g] = "wait" => callback[g] = "wait"
    BY <1>5, <1>t DEF LoginReturns, Lose
  <2> QED  BY <1>5, <1>a, <2>1, <2>2 DEF LoginReturns
<1>6. CASE Up
  <2>1. /\ \A b \in Actors \ {Main} : pc'[b] = pc[b] /\ mine'[b] = mine[b]
        /\ pc'[Main] # "wait"
    BY <1>6, <1>t, UpEnds DEF localVars
  <2> QED  BY <1>6, <1>a, <1>h, <2>1 DEF Up, cbVars
\* A step that leaves the actors as they were.
<1>c. ASSUME UNCHANGED <<pc, localVars>>, exit = "no" \/ UNCHANGED exit,
             \A g \in Clients : exit' = "no" /\ callback'[g] = "wait" =>
                \/ callback[g] = "wait" /\ target'[g] = target[g]
                \/ target'[g] \in Clients
      PROVE  WaitOK'
  BY <1>c DEF WaitOK, localVars
<1>7. ASSUME NEW r \in starting, HTTPStarts(r) \/ HTTPListens(r) PROVE WaitOK'
  BY <1>7, <1>c DEF HTTPStarts, HTTPListens, cbVars
<1>8. ASSUME NEW g \in Clients, Drop(g) PROVE WaitOK'
  BY <1>8, <1>c, <1>t DEF Drop, Lose
<1>9. ASSUME NEW g \in Clients, CallbackBegins(g) \/ CallbackRetries(g)
      PROVE  WaitOK'
  BY <1>9, <1>c, <1>t, CliIsAClient DEF CallbackBegins, CallbackRetries
<1>10. ASSUME NEW g \in Clients, CallbackReturns(g) PROVE WaitOK'
  <2>1. \A k \in Clients : exit' = "no" /\ callback'[k] = "wait" =>
           callback[k] = "wait" /\ k # g
    BY <1>10, <1>t DEF CallbackReturns, LoginSucceeds, Lose, AfterFailure
  <2>2. \A k \in Clients \ {g} : target'[k] = target[k]
    BY <1>10, <1>t DEF CallbackReturns
  <2> QED  BY <1>10, <1>c, <2>1, <2>2 DEF CallbackReturns
<1>11. ASSUME NEW c \in Contents \cup {NoFile}, AdminEdits(c) \/ HandEdits(c) PROVE WaitOK'
  BY <1>11, <1>c DEF AdminEdits, HandEdits, cbVars
<1>12. CASE UNCHANGED vars
  BY <1>12, <1>c DEF vars, cbVars
<1> QED
  BY <1>h, <1>0, <1>1, <1>1r, <1>2, <1>3, <1>4, <1>5, <1>6, <1>7, <1>8, <1>9, <1>10,
     <1>11, <1>12 DEF Next, Starts, Restarts, Callback

\* A step by which nobody gets to know a client, and no restart gets to "set".
LEMMA SecretKept ==
  ASSUME IInv, Known' \subseteq Known \cup {Nil}, clients' = clients,
         \A h \in Handlers : pc'[h] = "set" => pc[h] = "set" /\ mine'[h] = mine[h]
  PROVE  SecretOK'
<1>1. clients \in Nat /\ clients >= 1
  BY ConstantsAssumption DEF IInv, TypeOK, FieldTypes, Clients
<1> QED  BY <1>1 DEF IInv, SecretOK, Nil

LEMMA SecretStep == IInv /\ [Next]_vars => SecretOK'
<1> SUFFICES ASSUME IInv, [Next]_vars PROVE SecretOK'
  OBVIOUS
<1> USE DEF At, Goto
<1>t. /\ pc \in [Actors -> Labels] /\ mine \in [Actors -> Addresses]
      /\ callback \in [Clients -> {"none", "begin", "retry", "wait"}]
      /\ target \in [Clients -> Addresses]
      /\ clients \in Nat /\ clients >= 1
  BY ConstantsAssumption
     DEF IInv, TypeOK, ActorTypes, NetTypes, FieldTypes, Clients
<1>h. Main \in Actors /\ \A h \in Handlers : h \in Actors
  BY DEF Actors
<1>k. \A x : x \in Known <=> \/ x = cli \/ x \in online \/ x \in watched
                             \/ \E g \in Clients : x = target[g]
                             \/ \E a \in Actors : pc[a] = "wait" /\ x = mine[a]
  BY DEF Known
<1>l. \A x : x \in Known' <=>
         \/ x = cli' \/ x \in online' \/ x \in watched'
         \/ \E g \in Clients : x = target'[g]
         \/ \E a \in Actors : pc'[a] = "wait" /\ x = mine'[a]
  BY DEF Known
\* A step of the actor a.
<1>a. ASSUME NEW a \in Actors, pc'[a] # "set", clients' = clients,
             \A b \in Actors \ {a} : pc'[b] = pc[b] /\ mine'[b] = mine[b],
             pc'[a] = "wait" => mine'[a] \in Known, cli' \in {cli, Nil},
             online' \subseteq Known, watched' \subseteq Known, UNCHANGED target
      PROVE  SecretOK'
  <2>1. Known' \subseteq Known \cup {Nil}
    BY <1>a, <1>k, <1>l
  <2> QED  BY <1>a, <1>h, <2>1, SecretKept
<1>s. online \subseteq Known /\ watched \subseteq Known /\ cli \in Known
  BY <1>k
<1>b. ASSUME NEW a \in Actors, Panics(a), pc[a] # "set", UNCHANGED <<cli, clients>>,
             UNCHANGED <<online, watched, target>>
      PROVE  SecretOK'
  <2>1. CASE a = Main
    <3>1. Known' \subseteq Known
      BY <1>b, <2>1, <1>k, <1>l DEF Panics, localVars
    <3> QED  BY <1>b, <2>1, <3>1, SecretKept DEF Panics, localVars
  <2>2. CASE a # Main
    <3>1. /\ \A b \in Actors \ {a} : pc'[b] = pc[b] /\ mine'[b] = mine[b]
          /\ pc'[a] = "idle"
      BY <1>b, <2>2, <1>t DEF Panics, Forget
    <3> QED  BY <1>b, <1>s, <3>1, <1>a
  <2> QED  BY <2>1, <2>2
<1>0. ASSUME NEW h \in Handlers, Authorize(h) PROVE SecretOK'
  <2>1. /\ \A b \in Actors \ {h} : pc'[b] = pc[b] /\ mine'[b] = mine[b]
        /\ pc'[h] = "clear"
    BY <1>0, <1>t, <1>h DEF Authorize, localVars
  <2> QED  BY <1>0, <1>a, <1>h, <1>s, <2>1 DEF Authorize, fieldVars, netVars, cbVars
<1>0f. ASSUME NEW h \in Handlers, LoadFails(h) PROVE SecretOK'
  BY <1>0f, <1>b, <1>h DEF LoadFails, netVars, cbVars
<1>1. ASSUME NEW h \in Handlers, Clear(h) PROVE SecretOK'
  <2>1. /\ \A b \in Actors \ {h} : pc'[b] = pc[b] /\ mine'[b] = mine[b]
        /\ pc'[h] = "load" /\ cli' = Nil
    BY <1>1, <1>t, <1>h DEF Clear, localVars
  <2> QED  BY <1>1, <1>a, <1>h, <1>s, <2>1 DEF Clear, netVars, cbVars
<1>2. ASSUME NEW h \in Handlers, Load(h) PROVE SecretOK'
  <2>1. /\ \A b \in Actors \ {h} : pc'[b] = pc[b] /\ mine'[b] = mine[b]
        /\ pc[h] = "load" /\ pc'[h] = "set" /\ mine'[h] = clients + 1
        /\ clients' = clients + 1
    BY <1>2, <1>t, <1>h DEF Load
  <2>2. Known' = Known
    <3>1. UNCHANGED <<cli, online, watched, target>>
      BY <1>2 DEF Load, netVars, cbVars
    <3>2. \A b \in Actors : /\ pc'[b] = "wait" <=> pc[b] = "wait"
                            /\ pc[b] = "wait" => mine'[b] = mine[b]
      BY <2>1
    <3>3. \A x : x \in Known' <=> x \in Known
      BY <1>k, <1>l, <3>1, <3>2
    <3> QED  BY <3>3
  <2>3. /\ Known \subseteq 0 .. clients
        /\ \A k \in Handlers : pc[k] = "set" =>
              /\ mine[k] \in 1 .. clients /\ mine[k] \notin Known
              /\ \A l \in Handlers \ {k} : pc[l] = "set" => mine[l] # mine[k]
    BY DEF IInv, SecretOK
  <2>4. Known' \subseteq 0 .. clients'
    BY <1>t, <2>1, <2>2, <2>3
  <2>5. ASSUME NEW k \in Handlers, pc'[k] = "set"
        PROVE  /\ mine'[k] \in 1 .. clients' /\ mine'[k] \notin Known'
               /\ \A l \in Handlers \ {k} : pc'[l] = "set" => mine'[l] # mine'[k]
    <3>1. CASE k = h
      BY <1>t, <1>h, <2>1, <2>2, <2>3, <3>1
    <3>2. CASE k # h
      BY <1>t, <1>h, <2>1, <2>2, <2>3, <2>5, <3>2
    <3> QED  BY <3>1, <3>2
  <2> QED  BY <2>4, <2>5 DEF SecretOK
<1>3. ASSUME NEW h \in Handlers, SetCli(h) PROVE SecretOK'
  <2>1. /\ \A b \in Actors : mine'[b] = mine[b]
        /\ \A b \in Actors \ {h} : pc'[b] = pc[b]
        /\ pc[h] = "set" /\ pc'[h] = "enter" /\ cli' = mine[h]
        /\ clients' = clients
    BY <1>3, <1>t, <1>h DEF SetCli, Published, localVars
  <2>2. Known' \subseteq Known \cup {mine[h]}
    BY <1>3, <2>1, <1>k, <1>l DEF SetCli, netVars, cbVars
  <2> QED  BY <2>1, <2>2, <1>h, <1>t DEF IInv, SecretOK
<1>4. ASSUME NEW a \in Actors, Enter(a) \/ LoginCalled(a) PROVE SecretOK'
  <2>1. CASE Panics(a)
    BY <1>4, <2>1, <1>b DEF Enter, LoginCalled, fieldVars, netVars, cbVars
  <2>2. CASE ~Panics(a)
    <3>1. /\ \A b \in Actors \ {a} : pc'[b] = pc[b] /\ mine'[b] = mine[b]
          /\ pc'[a] = "wait" => mine'[a] = cli
          /\ pc'[a] # "set"
      BY <1>4, <1>t, <2>2 DEF Enter, LoginCalled, localVars
    <3> QED  BY <1>4, <1>a, <1>s, <3>1
                DEF Enter, LoginCalled, fieldVars, netVars, cbVars
  <2> QED  BY <2>1, <2>2
<1>5. ASSUME NEW a \in Actors, LoginReturns(a) PROVE SecretOK'
  <2>1. /\ \A b \in Actors \ {a} : pc'[b] = pc[b] /\ mine'[b] = mine[b]
        /\ mine'[a] = mine[a] /\ mine[a] \in Known /\ pc'[a] # "set"
    BY <1>5, <1>t, <1>k DEF LoginReturns, localVars
  <2>2. online' \subseteq Known /\ watched' = watched
    BY <1>5, <1>k DEF LoginReturns
  <2> QED  BY <1>5, <1>a, <1>s, <2>1, <2>2 DEF LoginReturns, fieldVars
<1>6. ASSUME NEW a \in Actors, Make(a) PROVE SecretOK'
  <2>1. CASE cli = Nil
    BY <1>6, <2>1, <1>b DEF Make, netVars, cbVars, fieldVars
  <2>2. CASE cli # Nil
    <3>1. /\ \A b \in Actors \ {a} : pc'[b] = pc[b] /\ mine'[b] = mine[b]
          /\ pc'[a] \in {"up", "down"}
      BY <1>6, <1>t, <2>2 DEF Make
    <3>2. watched' = watched \cup {cli} /\ online' = online /\ target' = target
          /\ cli' = cli /\ clients' = clients
      BY <1>6, <2>2 DEF Make, cbVars
    <3> QED  BY <1>a, <1>s, <3>1, <3>2
  <2> QED  BY <2>1, <2>2
<1>7. ASSUME NEW h \in Handlers, ShutDown(h) PROVE SecretOK'
  <2>1. CASE Panics(h)
    BY <1>7, <2>1, <1>b, <1>h DEF ShutDown, fieldVars, netVars, cbVars
  <2>2. CASE ~Panics(h)
    <3>1. /\ \A b \in Actors \ {h} : pc'[b] = pc[b] /\ mine'[b] = mine[b]
          /\ pc'[h] \in {"reload", "down"}
      BY <1>7, <1>t, <1>h, <2>2 DEF ShutDown, localVars
    <3> QED  BY <1>7, <1>a, <1>h, <1>s, <3>1 DEF ShutDown, fieldVars, netVars, cbVars
  <2> QED  BY <2>1, <2>2
<1>8. CASE Up
  <2>1. /\ \A b \in Actors \ {Main} : pc'[b] = pc[b] /\ mine'[b] = mine[b]
        /\ pc'[Main] \in {"done", "up"}
    BY <1>8, <1>t, <1>h, UpEnds DEF localVars
  <2> QED  BY <1>8, <1>a, <1>h, <1>s, <2>1 DEF Up, fieldVars, netVars, cbVars
<1>9. ASSUME NEW h \in Handlers, Reload(h) PROVE SecretOK'
  <2>1. /\ \A b \in Actors \ {h} : pc'[b] = pc[b] /\ mine'[b] = mine[b]
        /\ pc'[h] = "idle"
    BY <1>9, <1>t, <1>h, ReloadEnds DEF Forget
  <2> QED  BY <1>9, <1>a, <1>h, <1>s, <2>1 DEF Reload, fieldVars, netVars, cbVars
\* A step that leaves the actors as they were.
<1>c. ASSUME UNCHANGED <<pc, localVars, fieldVars, watched>>,
             online' \subseteq Known,
             \A g \in Clients : target'[g] \in {target[g], cli, Nil}
      PROVE  SecretOK'
  <2>1. Known' \subseteq Known \cup {Nil}
    BY <1>c, <1>k, <1>l DEF localVars, fieldVars
  <2> QED  BY <1>c, <2>1, SecretKept DEF localVars, fieldVars
<1>10. ASSUME NEW g \in Clients, Drop(g) \/ CallbackBegins(g) \/ CallbackRetries(g)
       PROVE  SecretOK'
  <2>1. \A k \in Clients : target'[k] \in {target[k], cli}
    BY <1>10, <1>t DEF Drop, CallbackBegins, CallbackRetries
  <2>2. online' \subseteq online
    BY <1>10 DEF Drop, CallbackBegins, CallbackRetries, netVars
  <2> QED  BY <1>10, <1>c, <1>k, <2>1, <2>2
              DEF Drop, CallbackBegins, CallbackRetries, netVars
<1>11. ASSUME NEW g \in Clients, CallbackReturns(g) PROVE SecretOK'
  <2>1. \A k \in Clients : target'[k] \in {target[k], Nil}
    BY <1>11, <1>t DEF CallbackReturns
  <2>2. online' \subseteq online \cup {target[g]}
    BY <1>11 DEF CallbackReturns, LoginSucceeds
  <2> QED  BY <1>11, <1>c, <1>k, <2>1, <2>2 DEF CallbackReturns
<1>12. ASSUME \/ \E r \in starting : HTTPStarts(r) \/ HTTPListens(r)
              \/ \E c \in Contents \cup {NoFile} : AdminEdits(c) \/ HandEdits(c)
              \/ UNCHANGED vars
       PROVE  SecretOK'
  <2>1. UNCHANGED <<pc, localVars, fieldVars, watched, online, target>>
    BY <1>12 DEF HTTPStarts, HTTPListens, AdminEdits, HandEdits, vars, netVars, cbVars
  <2> QED  BY <1>c, <1>k, <2>1
<1> QED
  BY <1>h, <1>0, <1>0f, <1>1, <1>2, <1>3, <1>4, <1>5, <1>6, <1>7, <1>8, <1>9, <1>10,
     <1>11, <1>12 DEF Next, Starts, Restarts, Callback

(***************************************************************************)
(* The session                                                             *)
(***************************************************************************)

LEMMA CallbackStep == IInv /\ [Next]_vars => CallbackOK'
<1> SUFFICES ASSUME IInv, [Next]_vars PROVE CallbackOK'
  OBVIOUS
<1> USE DEF At
<1>t. /\ callback \in [Clients -> {"none", "begin", "retry", "wait"}]
      /\ target \in [Clients -> Addresses]
  BY DEF IInv, TypeOK, NetTypes
<1>i. \A g \in Clients :
         /\ callback[g] # "none" => g \in watched
         /\ exit = "no" /\ callback[g] = "wait" /\ cli = g => target[g] = g
  BY DEF IInv, CallbackOK
\* A step that starts callbacks that are registered, at most.
<1>a. ASSUME watched \subseteq watched', exit = "no" \/ UNCHANGED exit,
             \A g \in Clients :
                /\ callback'[g] # "none" => callback[g] # "none" \/ g \in watched
                /\ callback'[g] = "wait" /\ cli' = g /\ exit' = "no" =>
                      \/ callback[g] = "wait" /\ cli = g /\ target'[g] = target[g]
                      \/ target'[g] = g
      PROVE  CallbackOK'
  BY <1>a, <1>i DEF CallbackOK
<1>1. ASSUME NEW h \in Handlers, Clear(h) PROVE CallbackOK'
  <2>1. \A g \in Clients : cli' # g
    BY <1>1 DEF Clear, Clients, Nil
  <2> QED  BY <1>1, <1>a, <2>1 DEF Clear, netVars, cbVars
<1>2. ASSUME NEW h \in Handlers, SetCli(h) PROVE CallbackOK'
  <2>1. cli' \notin watched
    BY <1>2 DEF SetCli, Published, IInv, SecretOK, Known
  <2> QED  BY <1>2, <1>a, <1>i, <2>1 DEF SetCli, netVars, cbVars
<1>3. ASSUME UNCHANGED <<callback, target, cli>>, watched \subseteq watched',
             exit = "no" \/ UNCHANGED exit
      PROVE  CallbackOK'
  BY <1>3, <1>a
<1>4. ASSUME NEW a, Enter(a) \/ LoginCalled(a) \/ Make(a) PROVE CallbackOK'
  BY <1>4, <1>3 DEF Enter, LoginCalled, Make, fieldVars, netVars, cbVars
<1>5. ASSUME NEW a, LoginReturns(a) PROVE CallbackOK'
  <2>1. /\ cli' = cli /\ target' = target /\ watched' = watched /\ exit = "no"
        /\ Lose(online \ {mine[a]}, callback) \/ UNCHANGED callback
    BY <1>5 DEF LoginReturns, fieldVars
  <2> QED  BY <1>a, <1>t, <2>1 DEF Lose
<1>6. ASSUME NEW h, \/ Authorize(h) \/ Load(h) \/ LoadFails(h)
                    \/ ShutDown(h) \/ Reload(h)
      PROVE  CallbackOK'
  BY <1>6, <1>3 DEF Authorize, Load, LoadFails, ShutDown, Reload, fieldVars, netVars,
                    cbVars
<1>7. CASE Up
  BY <1>7, <1>3 DEF Up, fieldVars, netVars, cbVars
<1>8. ASSUME NEW g \in Clients, Drop(g) PROVE CallbackOK'
  BY <1>8, <1>a, <1>t DEF Drop, Lose, fieldVars
<1>9. ASSUME NEW g \in Clients, CallbackBegins(g) \/ CallbackRetries(g)
      PROVE  CallbackOK'
  BY <1>9, <1>a, <1>t DEF CallbackBegins, CallbackRetries, fieldVars, netVars
<1>10. ASSUME NEW g \in Clients, CallbackReturns(g) PROVE CallbackOK'
  <2>1. /\ cli' = cli /\ watched' = watched /\ exit = "no"
        /\ \A k \in Clients \ {g} : target'[k] = target[k]
    BY <1>10, <1>t DEF CallbackReturns, fieldVars
  <2>2. \A k \in Clients :
           /\ callback'[k] # "none" => callback[k] # "none" \/ k \in watched
           /\ callback'[k] = "wait" /\ exit' = "no" => callback[k] = "wait" /\ k # g
    BY <1>10, <1>t DEF CallbackReturns, LoginSucceeds, Lose, AfterFailure
  <2> QED  BY <1>a, <2>1, <2>2
<1>11. ASSUME \/ \E r \in starting : HTTPStarts(r) \/ HTTPListens(r)
              \/ \E c \in Contents \cup {NoFile} : AdminEdits(c) \/ HandEdits(c)
              \/ UNCHANGED vars
       PROVE  CallbackOK'
  BY <1>11, <1>3 DEF HTTPStarts, HTTPListens, AdminEdits, HandEdits, vars,
                     fieldVars, netVars, cbVars
<1> QED
  BY <1>1, <1>2, <1>4, <1>5, <1>6, <1>7, <1>8, <1>9, <1>10, <1>11
     DEF Next, Starts, Restarts, Callback

\* When the current client loses its session, its own callback takes over.
LEMMA LossIsNoticed ==
  ASSUME IInv, NEW lost, NEW cb, Lose(lost, cb), ~unwatched', exit = "no",
         cli # Nil, cli \in lost, cli' = cli, cb[cli] = callback[cli],
         target'[cli] = target[cli]
  PROVE  LoggingIn'
<1>1. cli \in Clients /\ cli \in watched
  BY CliIsAClient DEF Lose
<1>2. callback'[cli] = IF callback[cli] = "none" THEN "begin" ELSE callback[cli]
  BY <1>1 DEF Lose
<1>3. CASE callback[cli] = "wait"
  <2>1. callback'[cli] = "wait" /\ target'[cli] = cli'
    BY <1>1, <1>2, <1>3 DEF IInv, CallbackOK
  <2> QED  BY <1>1, <2>1 DEF LoggingIn
<1>4. CASE callback[cli] # "wait"
  <2>1. callback'[cli] \in {"begin", "retry"}
    BY <1>1, <1>2, <1>4 DEF IInv, TypeOK, NetTypes
  <2> QED  BY <1>1, <2>1 DEF LoggingIn
<1> QED  BY <1>3, <1>4

LEMMA SessionStep == IInv /\ [Next]_vars => SessionOK'
<1> SUFFICES ASSUME IInv, [Next]_vars, exit' = "no", cli' # Nil, ~unwatched'
             PROVE  cli' \in online' \/ LoggingIn'
  BY DEF SessionOK
<1> USE DEF At, Goto
<1>t. /\ pc \in [Actors -> Labels] /\ mine \in [Actors -> Addresses]
      /\ callback \in [Clients -> {"none", "begin", "retry", "wait"}]
      /\ target \in [Clients -> Addresses] /\ unwatched \in BOOLEAN
  BY DEF IInv, TypeOK, ActorTypes, NetTypes
<1>h. Main \in Actors /\ \A h \in Handlers : h \in Actors
  BY DEF Actors
<1>i. exit = "no" /\ cli # Nil /\ ~unwatched => cli \in online \/ LoggingIn
  BY DEF IInv, SessionOK
\* A step of an actor that is not logging in.
<1>a. ASSUME exit = "no", UNCHANGED <<cli, online, unwatched, cbVars>>,
             \A b \in Actors : pc[b] \in {"enter", "call", "wait"} =>
                pc'[b] = pc[b] /\ mine'[b] = mine[b]
      PROVE  cli' \in online' \/ LoggingIn'
  BY <1>a, <1>i DEF LoggingIn, cbVars
<1>b. ASSUME NEW h \in Actors, Panics(h), exit = "no",
             pc[h] \notin {"enter", "call", "wait"},
             UNCHANGED <<cli, online, unwatched, cbVars>>
      PROVE  cli' \in online' \/ LoggingIn'
  <2>1. \A b \in Actors \ {h} : pc'[b] = pc[b] /\ mine'[b] = mine[b]
    BY <1>b, <1>t DEF Panics, Forget, localVars
  <2> QED  BY <1>a, <1>b, <2>1
<1>0. ASSUME NEW h \in Handlers, Authorize(h) PROVE cli' \in online' \/ LoggingIn'
  <2>1. \A b \in Actors \ {h} : pc'[b] = pc[b] /\ mine'[b] = mine[b]
    BY <1>0, <1>t DEF Authorize, localVars
  <2> QED  BY <1>0, <1>a, <2>1 DEF Authorize, fieldVars, netVars
<1>0f. ASSUME NEW h \in Handlers, LoadFails(h) PROVE cli' \in online' \/ LoggingIn'
  BY <1>0f, <1>b, <1>h DEF LoadFails, netVars
<1>1. ASSUME NEW h \in Handlers, Clear(h) PROVE FALSE
  BY <1>1 DEF Clear
<1>2. ASSUME NEW h \in Handlers, Load(h) PROVE cli' \in online' \/ LoggingIn'
  <2>1. \A b \in Actors \ {h} : pc'[b] = pc[b] /\ mine'[b] = mine[b]
    BY <1>2, <1>t, <1>h DEF Load
  <2> QED  BY <1>2, <1>a, <2>1 DEF Load, netVars
<1>3. ASSUME NEW h \in Handlers, SetCli(h) PROVE LoggingIn'
  <2>1. pc'[h] = "enter" /\ h \in Actors
    BY <1>3, <1>t, <1>h DEF SetCli
  <2> QED  BY <2>1 DEF LoggingIn
<1>4. ASSUME NEW a \in Actors, Enter(a) PROVE cli' \in online' \/ LoggingIn'
  <2>1. cli # Nil
    BY <1>4 DEF Enter, fieldVars
  <2>2. CASE cli \in online
    BY <1>4, <2>2 DEF Enter, fieldVars, netVars
  <2>3. CASE cli \notin online
    <3>1. pc'[a] = "call"
      BY <1>4, <1>t, <2>1, <2>3 DEF Enter
    <3> QED  BY <3>1 DEF LoggingIn
  <2> QED  BY <2>2, <2>3
<1>5. ASSUME NEW a \in Actors, LoginCalled(a) PROVE LoggingIn'
  <2>1. cli # Nil /\ cli' = cli
    BY <1>5 DEF LoginCalled, fieldVars
  <2>2. pc'[a] = "wait" /\ mine'[a] = cli
    BY <1>5, <1>t, <2>1 DEF LoginCalled
  <2> QED  BY <2>1, <2>2 DEF LoggingIn
<1>6. ASSUME NEW a \in Actors, LoginReturns(a)
      PROVE  cli' \in online' \/ LoggingIn'
  <2>1. exit = "no" /\ pc[a] = "wait" /\ cli' = cli /\ target' = target
        /\ \A b \in Actors \ {a} : pc'[b] = pc[b] /\ mine'[b] = mine[b]
    BY <1>6, <1>t DEF LoginReturns, fieldVars, localVars
  <2>2. CASE Goto(a, "call")
    <3>1. pc'[a] = "call"
      BY <2>2, <1>t
    <3> QED  BY <3>1 DEF LoggingIn
  <2>3. CASE online' = {mine[a]} /\ Lose(online \ {mine[a]}, callback)
             /\ mine[a] # cli
    <3>1. CASE cli \in online
      BY <2>1, <2>3, <3>1, LossIsNoticed
    <3>2. CASE cli \notin online
      <4>1. ~unwatched /\ \A g \in Clients :
                callback[g] # "none" => callback'[g] = callback[g]
        BY <2>3, <1>t DEF Lose
      <4>2. LoggingIn
        BY <1>i, <2>1, <3>2, <4>1
      <4> QED  BY <2>1, <2>3, <4>1, <4>2 DEF LoggingIn
    <3> QED  BY <3>1, <3>2
  <2> QED  BY <1>6, <2>1, <2>2, <2>3 DEF LoginReturns
<1>7. ASSUME NEW a \in Actors, Make(a) PROVE cli' \in online' \/ LoggingIn'
  <2>1. cli' = cli /\ cli # Nil /\ exit = "no" /\ pc[a] = "make"
    BY <1>7 DEF Make
  <2>2. \A b \in Actors \ {a} : pc'[b] = pc[b] /\ mine'[b] = mine[b]
    BY <1>7, <1>t, <2>1 DEF Make
  <2> QED  BY <1>7, <1>a, <2>1, <2>2 DEF Make
<1>8. ASSUME NEW h \in Handlers, ShutDown(h) PROVE cli' \in online' \/ LoggingIn'
  <2>1. CASE Panics(h)
    BY <1>8, <1>b, <1>h, <2>1 DEF ShutDown, fieldVars, netVars
  <2>2. CASE ~Panics(h)
    <3>1. \A b \in Actors \ {h} : pc'[b] = pc[b] /\ mine'[b] = mine[b]
      BY <1>8, <1>t, <2>2 DEF ShutDown, localVars
    <3> QED  BY <1>8, <1>a, <3>1 DEF ShutDown, fieldVars, netVars
  <2> QED  BY <2>1, <2>2
<1>9. CASE Up
  <2>1. \A b \in Actors \ {Main} : pc'[b] = pc[b] /\ mine'[b] = mine[b]
    BY <1>9, <1>t, UpEnds DEF localVars
  <2> QED  BY <1>9, <1>a, <2>1, UpEnds DEF Up, fieldVars, netVars
<1>10. ASSUME NEW h \in Handlers, Reload(h) PROVE cli' \in online' \/ LoggingIn'
  <2>1. \A b \in Actors \ {h} : pc'[b] = pc[b] /\ mine'[b] = mine[b]
    BY <1>10, <1>t, ReloadEnds DEF Forget
  <2> QED  BY <1>10, <1>a, <2>1, ReloadEnds DEF Reload, fieldVars, netVars
<1>11. ASSUME NEW g \in Clients, Drop(g) PROVE cli' \in online' \/ LoggingIn'
  <2>1. exit = "no" /\ cli' = cli /\ target' = target /\ online' = online \ {g}
        /\ UNCHANGED <<pc, mine>> /\ Lose({g}, callback)
    BY <1>11 DEF Drop, fieldVars, localVars
  <2>2. CASE cli = g
    BY <2>1, <2>2, LossIsNoticed
  <2>3. CASE cli # g
    <3>1. ~unwatched /\ \A k \in Clients :
              callback[k] # "none" => callback'[k] = callback[k]
      BY <2>1, <1>t DEF Lose
    <3> QED  BY <1>i, <2>1, <2>3, <3>1 DEF LoggingIn
  <2> QED  BY <2>2, <2>3
<1>12. ASSUME NEW g \in Clients, CallbackBegins(g) \/ CallbackRetries(g)
       PROVE  cli' \in online' \/ LoggingIn'
  <2>1. cli' = cli
    BY <1>12 DEF CallbackBegins, CallbackRetries, fieldVars
  <2>2. CASE CallbackBegins(g) /\ cli \in online
    BY <2>1, <2>2 DEF CallbackBegins, netVars
  <2>3. CASE CallbackRetries(g) \/ cli \notin online
    <3>1. callback'[g] = "wait" /\ target'[g] = cli
      BY <1>12, <1>t, <2>1, <2>3 DEF CallbackBegins, CallbackRetries
    <3> QED  BY <2>1, <3>1 DEF LoggingIn
  <2> QED  BY <1>12, <2>2, <2>3
<1>13. ASSUME NEW g \in Clients, CallbackReturns(g)
       PROVE  cli' \in online' \/ LoggingIn'
  <2>1. exit = "no" /\ callback[g] = "wait" /\ cli' = cli /\ UNCHANGED <<pc, mine>>
        /\ \A k \in Clients \ {g} : target'[k] = target[k]
    BY <1>13, <1>t DEF CallbackReturns, fieldVars, localVars
  <2>2. CASE callback' = [callback EXCEPT ![g] = AfterFailure]
    <3>1. callback'[g] = "retry"
      BY <2>2, <1>t DEF AfterFailure
    <3> QED  BY <3>1 DEF LoggingIn
  <2>3. CASE LoginSucceeds(g) /\ target[g] # cli
    <3> DEFINE cb == [callback EXCEPT ![g] = "none"]
    <3>1. online' = {target[g]} /\ Lose(online \ {target[g]}, cb)
      BY <2>3 DEF LoginSucceeds
    <3>2. \A k \in Clients \ {g} : cb[k] = callback[k]
      BY <1>t
    <3>3. cli # g
      BY <2>1, <2>3 DEF IInv, CallbackOK
    <3>4. cli \in Clients
      BY <2>1, CliIsAClient
    <3> HIDE DEF cb
    <3>5. CASE cli \in online
      BY <2>1, <2>3, <3>1, <3>2, <3>3, <3>4, <3>5, LossIsNoticed
    <3>6. CASE cli \notin online
      <4>1. ~unwatched /\ \A k \in Clients \ {g} :
                callback[k] # "none" => callback'[k] = callback[k]
        BY <3>1, <3>2, <1>t DEF Lose
      <4>2. LoggingIn
        BY <1>i, <2>1, <3>6, <4>1
      <4> QED  BY <2>1, <2>3, <4>1, <4>2 DEF LoggingIn
    <3> QED  BY <3>5, <3>6
  <2> QED  BY <1>13, <2>1, <2>2, <2>3 DEF CallbackReturns, LoginSucceeds
<1>14. ASSUME \/ \E r \in starting : HTTPStarts(r) \/ HTTPListens(r)
              \/ \E c \in Contents \cup {NoFile} : AdminEdits(c) \/ HandEdits(c)
              \/ UNCHANGED vars
       PROVE  cli' \in online' \/ LoggingIn'
  <2>1. UNCHANGED <<cli, online, unwatched, cbVars, pc, mine>>
    BY <1>14 DEF HTTPStarts, HTTPListens, AdminEdits, HandEdits, vars, fieldVars,
                 netVars, localVars
  <2>2. exit = "no"
    BY <1>14 DEF HTTPStarts, HTTPListens, AdminEdits, HandEdits, vars
  <2> QED  BY <1>a, <2>1, <2>2
<1> QED
  BY <1>h, <1>0, <1>0f, <1>1, <1>2, <1>3, <1>4, <1>5, <1>6, <1>7, <1>8, <1>9, <1>10,
     <1>11, <1>12, <1>13, <1>14 DEF Next, Starts, Restarts, Callback

(***************************************************************************)
(* The bot                                                                 *)
(***************************************************************************)

LEMMA BotStep == IInv /\ [Next]_vars => BotOK'
<1> SUFFICES ASSUME IInv, [Next]_vars, exit' = "no" PROVE BotOK'
  BY DEF BotOK
<1> USE DEF At, Goto
<1> DEFINE Renewed == \E h \in Handlers : pc[h] \in {"load", "set"}
           Making == \E a \in Actors : pc[a] \in {"enter", "call", "wait", "make"}
<1>t. pc \in [Actors -> Labels] /\ bots \in Seq(Nat)
  BY DEF IInv, TypeOK, ActorTypes, FieldTypes
<1>h. Main \in Actors /\ \A h \in Handlers : h \in Actors /\ h # Main
  BY ConstantsAssumption DEF Actors
<1>i. exit = "no" =>
         /\ cli = Nil => bot = Nil /\ (unloaded \/ Renewed)
         /\ cli # Nil => ~unloaded /\ (Making \/ (bot # Nil /\ bots[bot] = cli))
  BY DEF IInv, BotOK
<1>j. ASSUME cli' = Nil => bot' = Nil /\ (unloaded' \/ Renewed'),
             cli' # Nil => /\ ~unloaded'
                           /\ Making' \/ (bot' # Nil /\ bots'[bot'] = cli')
      PROVE  BotOK'
  BY <1>j DEF BotOK
\* A step of the actor a that is not about to make a bot afterwards.
<1>a. ASSUME NEW a \in Actors, exit = "no", UNCHANGED fieldVars,
             a \in Handlers /\ pc[a] \in {"load", "set"} =>
                pc'[a] \in {"load", "set"},
             pc[a] \in {"enter", "call", "wait", "make"} =>
                cli = Nil \/ pc'[a] \in {"enter", "call", "wait", "make"},
             \A b \in Actors \ {a} : pc'[b] = pc[b]
      PROVE  BotOK'
  <2>1. Renewed => Renewed'
    BY <1>a, <1>h
  <2>2. cli # Nil /\ Making => Making'
    BY <1>a
  <2> HIDE DEF Renewed, Making
  <2> QED  BY <1>a, <1>i, <1>j, <2>1, <2>2 DEF fieldVars
<1>0. ASSUME NEW h \in Handlers, Authorize(h) PROVE BotOK'
  BY <1>0, <1>a, <1>h, <1>t DEF Authorize
<1>1. ASSUME NEW h \in Handlers, Clear(h) PROVE BotOK'
  <2>1. pc'[h] = "load" /\ cli' = Nil /\ bot' = Nil
    BY <1>1, <1>t, <1>h DEF Clear
  <2> QED  BY <1>j, <2>1
<1>2. ASSUME NEW h \in Handlers, Load(h) PROVE BotOK'
  <2>1. /\ pc'[h] = "set" /\ pc[h] = "load" /\ exit = "no"
        /\ \A b \in Actors \ {h} : pc'[b] = pc[b]
        /\ UNCHANGED <<cli, bot, bots, unloaded>>
    BY <1>2, <1>t, <1>h DEF Load
  <2>2. Making => Making'
    BY <2>1, <1>h
  <2>3. Renewed'
    BY <2>1
  <2> HIDE DEF Renewed, Making
  <2> QED  BY <1>i, <1>j, <2>1, <2>2, <2>3
<1>2f. ASSUME NEW h \in Handlers, LoadFails(h) PROVE BotOK'
  <2>1. /\ pc[h] = "load" /\ exit = "no" /\ unloaded' = (cli = Nil)
        /\ \A b \in Actors \ {h} : pc'[b] = pc[b]
        /\ UNCHANGED <<cli, bot, bots>>
    BY <1>2f, <1>t, <1>h DEF LoadFails, Panics
  <2>2. Making => Making'
    BY <2>1, <1>h
  <2> HIDE DEF Renewed, Making
  <2> QED  BY <1>i, <1>j, <2>1, <2>2
<1>3. ASSUME NEW h \in Handlers, SetCli(h) PROVE BotOK'
  <2>1. pc'[h] = "enter" /\ h \in Actors /\ ~unloaded'
    BY <1>3, <1>t, <1>h DEF SetCli
  <2>2. cli' # Nil
    BY <1>3 DEF SetCli, Published, IInv, SecretOK, Nil
  <2> QED  BY <1>j, <2>1, <2>2
<1>4. ASSUME NEW a \in Actors, Enter(a) \/ LoginCalled(a) \/ LoginReturns(a)
      PROVE  BotOK'
  <2>1. \A b \in Actors \ {a} : pc'[b] = pc[b]
    BY <1>4, <1>t DEF Enter, LoginCalled, LoginReturns, Panics
  <2>2. cli = Nil \/ pc'[a] \in {"enter", "call", "wait", "make"}
    BY <1>4, <1>t DEF Enter, LoginCalled, LoginReturns
  <2>3. pc[a] \in {"enter", "call", "wait"} /\ exit = "no" /\ UNCHANGED fieldVars
    BY <1>4 DEF Enter, LoginCalled, LoginReturns
  <2> QED  BY <1>a, <2>1, <2>2, <2>3
<1>5. ASSUME NEW a \in Actors, Make(a) PROVE BotOK'
  <2>1. CASE cli = Nil
    <3>1. UNCHANGED fieldVars /\ \A b \in Actors \ {a} : pc'[b] = pc[b]
      BY <1>5, <1>t, <2>1 DEF Make, Panics, fieldVars
    <3> QED  BY <1>5, <1>a, <2>1, <3>1 DEF Make
  <2>2. CASE cli # Nil
    <3>1. /\ bots' = Append(bots, cli) /\ bot' = Len(bots) + 1 /\ cli' = cli
          /\ unloaded' = unloaded /\ exit = "no"
      BY <1>5, <2>2 DEF Make, Current
    <3>2. cli \in Nat
      BY <2>2, CliIsAClient DEF Clients
    <3>3. bot' # Nil /\ bots'[bot'] = cli'
      BY <1>t, <3>1, <3>2 DEF Nil
    <3>4. cli' # Nil /\ ~unloaded'
      BY <1>i, <2>2, <3>1
    <3> QED  BY <1>j, <3>3, <3>4
  <2> QED  BY <2>1, <2>2
<1>6. ASSUME NEW h \in Handlers, ShutDown(h) PROVE BotOK'
  <2>1. \A b \in Actors \ {h} : pc'[b] = pc[b]
    BY <1>6, <1>t DEF ShutDown, Panics
  <2> QED  BY <1>6, <1>a, <1>h, <2>1 DEF ShutDown
<1>6r. ASSUME NEW h \in Handlers, Reload(h) PROVE BotOK'
  <2>1. \A b \in Actors \ {h} : pc'[b] = pc[b]
    BY <1>6r, <1>t, ReloadEnds
  <2> QED  BY <1>6r, <1>a, <1>h, <2>1, ReloadEnds DEF Reload
<1>7. CASE Up
  <2>1. \A b \in Actors \ {Main} : pc'[b] = pc[b]
    BY <1>7, <1>t, UpEnds
  <2>2. pc[Main] = "up" /\ exit = "no"
    BY <1>7, UpEnds
  <2> QED  BY <1>7, <1>a, <1>h, <2>1, <2>2 DEF Up
<1>8. ASSUME \/ \E r \in starting : HTTPStarts(r) \/ HTTPListens(r)
             \/ \E g \in Clients : Drop(g) \/ Callback(g)
             \/ \E c \in Contents \cup {NoFile} : AdminEdits(c) \/ HandEdits(c)
             \/ UNCHANGED vars
      PROVE  BotOK'
  <2>1. UNCHANGED pc /\ UNCHANGED fieldVars /\ exit = "no"
    BY <1>8 DEF HTTPStarts, HTTPListens, Drop, Callback, CallbackBegins,
                CallbackRetries, CallbackReturns, AdminEdits, HandEdits, vars
  <2>2. (Renewed => Renewed') /\ (Making => Making')
    BY <2>1
  <2> HIDE DEF Renewed, Making
  <2> QED  BY <1>i, <1>j, <2>1, <2>2 DEF fieldVars
<1> QED
  BY <1>h, <1>0, <1>1, <1>2, <1>2f, <1>3, <1>4, <1>5, <1>6, <1>6r, <1>7, <1>8
     DEF Next, Starts, Restarts

(***************************************************************************)
(* The HTTP server                                                         *)
(***************************************************************************)

HTTPOK == OneOK /\ ListenOK /\ MadeOK

\* A step that leaves the servers as they are, and after which no more actors than
\* before are about to start one.
LEMMA ListenFrame ==
  ASSUME IInv, UNCHANGED httpVars, exit = "no" \/ UNCHANGED exit,
         Between' \subseteq Between
  PROVE  HTTPOK'
<1>1. ListenOK' /\ MadeOK'
  BY DEF IInv, ListenOK, MadeOK, httpVars, serverVars
<1>2. Live(server)' = Live(server)
  BY DEF Live, httpVars, serverVars
<1>3. OneOK'
  BY <1>2 DEF IInv, OneOK, httpVars, serverVars
<1> QED  BY <1>1, <1>3 DEF HTTPOK

\* A server is launched by someone who was about to start it and is not any more,
\* unless that was the end of the process.
LEMMA LaunchKept ==
  ASSUME IInv, exit = "no", GetConf # NoFile, NEW a \in Between, Launch(a),
         UNCHANGED <<http, httpBot, early>>,
         exit' = "no" => Between' = Between \ {a}
  PROVE  HTTPOK'
<1>t. /\ starting \subseteq [bot : Nat, server : Clients, begun : BOOLEAN]
      /\ http \in Addresses
      /\ server \in [Clients -> {"none", "due", "new", "open", "closed"}]
      /\ address \in [Clients -> Ports \cup {Off}]
      /\ early \in BOOLEAN /\ beside \in BOOLEAN
  BY DEF IInv, TypeOK, HttpTypes
<1>1. CASE UNCHANGED serverVars
  <2>1. Between' \subseteq Between \/ exit' # "no"
    OBVIOUS
  <2>2. CASE Between' \subseteq Between
    BY <1>1, <2>2, ListenFrame DEF httpVars
  <2>3. CASE exit' # "no"
    BY <1>1, <2>3 DEF IInv, HTTPOK, OneOK, ListenOK, MadeOK, serverVars
  <2> QED  BY <2>1, <2>2, <2>3
<1>2. CASE ~UNCHANGED serverVars
  <2>1. PICK i \in Unused :
           /\ starting' = starting \cup
                             {[bot |-> bot, server |-> i, begun |-> FALSE]}
           /\ server' = [server EXCEPT ![i] = "due"]
           /\ address' = [address EXCEPT ![i] = GetConf.http]
           /\ beside' = (beside \/ Between \ {a} # {})
    BY <1>2 DEF Launch
  <2>2. i \in Clients /\ server[i] = "none"
    BY <2>1 DEF Unused
  <2>3. \A k \in Clients : server'[k] = IF k = i THEN "due" ELSE server[k]
    BY <1>t, <2>1
  <2>4. \A k \in Clients \ {i} : address'[k] = address[k]
    BY <1>t, <2>1
  <2>5. http # Nil => http \in Clients /\ http # i
    BY <1>t, <2>2, ConstantsAssumption
       DEF Addresses, Clients, Nil, IInv, MadeOK
  <2> DEFINE s == [bot |-> bot, server |-> i, begun |-> FALSE]
  <2>6. starting' = starting \cup {s} /\ s.server = i /\ ~s.begun
    BY <2>1
  <2> HIDE DEF s
  <2>7. \A r \in starting : r.server \in Clients /\ r.server # i
    BY <1>t, <2>2 DEF IInv, MadeOK
  <2>8. MadeOK'
    <3>1. http' # Nil => server'[http'] \notin {"none", "due"}
      BY <2>3, <2>5 DEF IInv, MadeOK
    <3>2. ASSUME NEW r \in starting'
          PROVE  /\ r.begun => http' # Nil
                 /\ server'[r.server] # "none"
                 /\ ~r.begun => server'[r.server] = "due"
      <4>1. CASE r = s
        BY <4>1, <2>2, <2>3, <2>6
      <4>2. CASE r \in starting
        BY <4>2, <2>3, <2>7 DEF IInv, MadeOK
      <4> QED  BY <2>6, <4>1, <4>2
    <3>3. ASSUME NEW r \in starting', NEW q \in starting', q.server = r.server
          PROVE  q = r
      BY <2>6, <2>7, <3>3 DEF IInv, MadeOK
    <3> QED  BY <3>1, <3>2, <3>3 DEF MadeOK
  <2>9. ListenOK'
    <3>1. ASSUME exit = "no", ~early, NEW k \in Clients, server'[k] = "open"
          PROVE  \/ k = http' \/ address'[k] # address'[http']
                 \/ /\ http' # Nil /\ server'[http'] = "new"
                    /\ \E r \in starting' : r.begun
      <4>1. k # i /\ server[k] = "open"
        BY <2>3, <3>1
      <4>2. \/ k = http \/ address[k] # address[http]
            \/ http # Nil /\ server[http] = "new" /\ \E r \in starting : r.begun
        BY <3>1, <4>1 DEF IInv, ListenOK
      <4>3. CASE http = Nil
        <5>1. address'[Nil] = address[Nil]
          BY <1>t, <2>1, <2>2 DEF Nil, Clients
        <5> QED  BY <2>4, <4>1, <4>2, <4>3, <5>1
      <4>4. CASE http # Nil
        BY <2>3, <2>4, <2>5, <2>6, <4>1, <4>2, <4>4
      <4> QED  BY <4>3, <4>4
    <3> QED  BY <3>1 DEF ListenOK
  <2>10. OneOK'
    <3> SUFFICES ASSUME exit' = "no", ~beside'
                 PROVE  /\ Between' = {}
                        /\ \A k, l \in Live(server)' : k = l
                        /\ \A k \in Clients : server'[k] \notin {"new", "open"}
      BY DEF OneOK
    <3>1. ~beside /\ Between \ {a} = {}
      BY <1>t, <2>1
    <3>2. Live(server) = {}
      BY <3>1 DEF IInv, OneOK
    <3>3. \A k \in Clients : server[k] \notin {"due", "new", "open"}
      BY <3>2 DEF Live
    <3>4. \A k \in Live(server)' : k = i
      BY <2>3, <3>3 DEF Live
    <3> QED  BY <2>3, <3>1, <3>3, <3>4
  <2> QED  BY <2>8, <2>9, <2>10 DEF HTTPOK
<1> QED  BY <1>1, <1>2

\* The start of the servers, whether or not it panics.
LEMMA StartKept ==
  ASSUME IInv, exit = "no", NEW a \in Between, StartPanics(a) \/ StartsAll(a),
         UNCHANGED <<http, httpBot, early>>,
         exit' = "no" => Between' = Between \ {a}
  PROVE  HTTPOK'
<1>1. CASE GetConf # NoFile /\ Launch(a)
  BY <1>1, LaunchKept
<1>2. CASE UNCHANGED serverVars
  <2>1. CASE exit' = "no"
    BY <1>2, <2>1, ListenFrame DEF httpVars
  <2>2. CASE exit' # "no"
    BY <1>2, <2>2 DEF IInv, HTTPOK, OneOK, ListenOK, MadeOK, serverVars
  <2> QED  BY <2>1, <2>2
<1> QED  BY <1>1, <1>2 DEF StartPanics, StartsAll

LEMMA HTTPStep == IInv /\ [Next]_vars => HTTPOK'
<1> SUFFICES ASSUME IInv, [Next]_vars PROVE HTTPOK'
  OBVIOUS
<1> USE DEF At
<1>t. /\ starting \subseteq [bot : Nat, server : Clients, begun : BOOLEAN]
      /\ http \in Addresses
      /\ server \in [Clients -> {"none", "due", "new", "open", "closed"}]
      /\ early \in BOOLEAN /\ beside \in BOOLEAN
      /\ pc \in [Actors -> Labels]
  BY DEF IInv, TypeOK, HttpTypes, ActorTypes
<1>h. Main \in Actors /\ \A h \in Handlers : h \in Actors /\ h # Main
  BY ConstantsAssumption DEF Actors
<1>n. http # Nil => http \in Clients
  BY <1>t, ConstantsAssumption DEF Addresses, Clients, Nil
<1>i. exit = "no" /\ ~early =>
         \A i \in Clients : server[i] = "open" =>
            \/ i = http \/ address[i] # address[http]
            \/ http # Nil /\ server[http] = "new" /\ \E r \in starting : r.begun
  BY DEF IInv, ListenOK
<1>m. /\ http # Nil => server[http] \notin {"none", "due"}
      /\ \A r \in starting :
            /\ r.begun => http # Nil
            /\ server[r.server] # "none"
            /\ ~r.begun => server[r.server] = "due"
            /\ \A q \in starting : q.server = r.server => q = r
  BY DEF IInv, MadeOK
<1>o. exit = "no" /\ ~beside =>
         /\ Between # {} => Live(server) = {}
         /\ \A i, k \in Live(server) : i = k
         /\ \A i \in Clients : server[i] \in {"new", "open"} => i = http
  BY DEF IInv, OneOK
\* A step of the actor a, at a label that is not the one before a start.
<1>a. ASSUME NEW a \in Actors, NEW label, Goto(a, label), label # "reload",
             a = Main /\ pc[Main] = "done" => label = "done"
      PROVE  Between' \subseteq Between
  BY <1>a, <1>t DEF Between, Goto
<1>b. ASSUME NEW a \in Actors, Panics(a) PROVE Between' \subseteq Between
  <2>1. CASE a = Main
    BY <1>b, <2>1 DEF Panics, Between
  <2>2. CASE a # Main
    BY <1>a, <1>b, <2>2 DEF Panics
  <2> QED  BY <2>1, <2>2
<1>1. CASE Up
  <2>1. Main \in Between
    BY <1>1, UpEnds DEF Between
  <2>2. ASSUME exit' = "no" PROVE Between' = Between \ {Main}
    BY <1>1, <2>2, <1>t, <1>h, UpEnds DEF Between, Goto
  <2> QED  BY <1>1, <2>1, <2>2, StartKept DEF Up
<1>2. ASSUME NEW h \in Handlers, Reload(h) PROVE HTTPOK'
  <2>1. h \in Between
    BY <1>2 DEF Reload, Between
  <2>2. Between' = Between \ {h}
    BY <1>2, <1>t, <1>h, ReloadEnds DEF Between, Goto
  <2> QED  BY <1>2, <2>1, <2>2, StartKept DEF Reload
<1>3. ASSUME NEW h \in Handlers, ShutDown(h) PROVE HTTPOK'
  <2>1. CASE Panics(h)
    <3>1. CASE UNCHANGED <<server, early, beside>>
      BY <1>3, <1>b, <1>h, <2>1, <3>1, ListenFrame DEF ShutDown, httpVars, serverVars
    <3>2. CASE ~UNCHANGED <<server, early, beside>>
      <4>1. pc'[h] \in {"reload", "down"}
        BY <1>3, <1>h, <1>t, <3>2 DEF ShutDown, Goto
      <4>2. pc'[h] = "idle"
        BY <1>h, <1>t, <2>1 DEF Panics, Goto
      <4> QED  BY <4>1, <4>2
    <3> QED  BY <3>1, <3>2
  <2>2. CASE /\ UNCHANGED <<server, early, exit>>
             /\ beside' = (beside \/ Live(server) # {})
    <3>1. ListenOK' /\ MadeOK'
      BY <1>3, <2>2 DEF ShutDown, IInv, ListenOK, MadeOK
    <3>2. OneOK'
      <4>1. Live(server)' = Live(server)
        BY <2>2 DEF Live
      <4>2. ~beside' => ~beside /\ Live(server) = {}
        BY <1>t, <2>2
      <4> QED  BY <1>3, <1>o, <2>2, <4>1, <4>2 DEF ShutDown, OneOK
    <3> QED  BY <3>1, <3>2 DEF HTTPOK
  <2>3. CASE /\ http # Nil /\ server' = Closed
             /\ early' = (early \/ server[http] = "new")
             /\ beside' = (beside \/ Live(server) \ {http} # {})
    <3>1. /\ exit = "no" /\ UNCHANGED <<http, starting, address>>
          /\ http \in Clients
          /\ \A k \in Clients :
                server'[k] = IF k = http THEN "closed" ELSE server[k]
      BY <1>3, <1>n, <1>t, <2>3 DEF ShutDown, Closed
    <3>2. \A r \in starting : r.server \in Clients
      BY <1>t
    <3>3. MadeOK'
      <4>1. server'[http] = "closed"
        BY <3>1
      <4>2. \A r \in starting : ~r.begun => r.server # http
        BY <1>m, <2>3
      <4> QED  BY <1>m, <3>1, <3>2, <4>1, <4>2 DEF MadeOK
    <3>4. ListenOK'
      BY <1>i, <2>3, <3>1 DEF ListenOK
    <3>5. OneOK'
      <4>1. ~beside' => ~beside /\ Live(server) \ {http} = {}
        BY <1>t, <2>3
      <4>2. Live(server)' = Live(server) \ {http}
        BY <3>1 DEF Live
      <4>3. ~beside' => \A i \in Clients : server'[i] \notin {"new", "open"}
        BY <4>1, <4>2 DEF Live
      <4> QED  BY <4>1, <4>2, <4>3 DEF OneOK
    <3> QED  BY <3>3, <3>4, <3>5 DEF HTTPOK
  <2> QED  BY <1>3, <2>1, <2>2, <2>3 DEF ShutDown
<1>4. ASSUME NEW r \in starting, HTTPStarts(r) PROVE HTTPOK'
  <2> DEFINE s == [r EXCEPT !.begun = TRUE]
  <2>1. r.server \in Clients /\ s.server = r.server
    BY <1>t
  <2>2. s.begun /\ s \in starting' /\ starting' = (starting \ {r}) \cup {s}
    BY <1>4, <1>t DEF HTTPStarts
  <2>3. /\ http' = r.server /\ exit = "no" /\ exit' = exit /\ ~r.begun
        /\ UNCHANGED <<pc, address, early, beside>>
        /\ \A k \in Clients : server'[k] = IF k = r.server THEN "new" ELSE server[k]
    BY <1>4, <1>t DEF HTTPStarts
  <2> HIDE DEF s
  <2>4. http' # Nil /\ server'[http'] = "new"
    BY <2>1, <2>3 DEF Clients, Nil
  <2>5. ListenOK'
    BY <2>2, <2>4 DEF ListenOK
  <2>6. MadeOK'
    <3>1. ASSUME NEW q \in starting \ {r}
          PROVE  q.server \in Clients /\ q.server # r.server
      BY <1>m, <1>t
    <3>2. ASSUME NEW q \in starting'
          PROVE  server'[q.server] # "none" /\ (~q.begun => server'[q.server] = "due")
      <4>1. CASE q = s
        BY <2>1, <2>2, <2>3, <4>1
      <4>2. CASE q \in starting \ {r}
        BY <1>m, <2>3, <3>1, <4>2
      <4> QED  BY <2>2, <4>1, <4>2
    <3>3. ASSUME NEW q \in starting', NEW p \in starting', p.server = q.server
          PROVE  p = q
      BY <1>m, <2>1, <2>2, <3>1, <3>3
    <3> QED  BY <2>4, <3>2, <3>3 DEF MadeOK
  <2>7. OneOK'
    <3>1. server[r.server] = "due"
      BY <1>m, <2>3
    <3>2. Live(server)' = Live(server) /\ r.server \in Live(server)
      BY <2>1, <2>3, <3>1 DEF Live
    <3>3. Between' = Between
      BY <2>3 DEF Between
    <3>4. ~beside => \A k \in Clients : server'[k] \in {"new", "open"} => k = r.server
      <4>1. \A k \in Clients : server'[k] \in {"new", "open"} => k \in Live(server)
        BY <2>1, <2>3, <3>1 DEF Live
      <4> QED  BY <1>o, <2>3, <3>2, <4>1
    <3> QED  BY <1>o, <2>3, <3>2, <3>3, <3>4 DEF OneOK
  <2> QED  BY <2>5, <2>6, <2>7 DEF HTTPOK
<1>5. ASSUME NEW r \in starting, HTTPListens(r) PROVE HTTPOK'
  <2>1. /\ r.begun /\ exit = "no" /\ UNCHANGED <<http, early, beside, address, pc>>
        /\ starting' = starting \ {r}
    BY <1>5 DEF HTTPListens
  <2>2. http # Nil /\ http \in Clients /\ Between' = Between
    BY <2>1, <1>m, <1>n DEF Between
  <2>3. CASE UNCHANGED <<server, exit>> /\ server[http] = "closed"
    <3>1. MadeOK'
      BY <1>m, <2>1, <2>3 DEF MadeOK
    <3>2. ListenOK'
      BY <1>i, <2>1, <2>3 DEF ListenOK
    <3>3. Live(server)' = Live(server)
      BY <2>3 DEF Live
    <3>4. OneOK'
      BY <1>o, <2>1, <2>2, <2>3, <3>3 DEF OneOK
    <3> QED  BY <3>1, <3>2, <3>4 DEF HTTPOK
  <2>4. CASE /\ server[http] # "closed" /\ ~InUse
             /\ server' = [server EXCEPT ![http] = "open"] /\ UNCHANGED exit
    <3>1. \A k \in Clients : server'[k] = IF k = http THEN "open" ELSE server[k]
      BY <1>t, <2>4
    <3>2. server[http] \in {"new", "open"}
      BY <1>m, <1>t, <2>2, <2>4
    <3>3. MadeOK'
      <4>1. \A q \in starting : q.server \in Clients
        BY <1>t
      <4>2. \A q \in starting : ~q.begun => q.server # http
        BY <1>m, <3>2
      <4> QED  BY <1>m, <2>1, <2>2, <3>1, <4>1, <4>2 DEF MadeOK
    <3>4. ListenOK'
      <4>1. \A k \in Clients : server[k] = "open" => address[k] # address[http]
        BY <2>4 DEF InUse
      <4> QED  BY <2>1, <2>2, <3>1, <4>1 DEF ListenOK
    <3>5. Live(server)' = Live(server)
      BY <3>1, <3>2 DEF Live
    <3>6. OneOK'
      BY <1>o, <2>1, <2>2, <2>4, <3>1, <3>5 DEF OneOK
    <3> QED  BY <3>3, <3>4, <3>6 DEF HTTPOK
  <2>5. CASE exit' = "port" /\ UNCHANGED server
    <3>1. MadeOK'
      BY <1>m, <2>1, <2>5 DEF MadeOK
    <3> QED  BY <2>5, <3>1 DEF HTTPOK, OneOK, ListenOK
  <2> QED  BY <1>5, <2>3, <2>4, <2>5 DEF HTTPListens
<1>6. ASSUME NEW a \in Actors,
             Enter(a) \/ LoginCalled(a) \/ LoginReturns(a) \/ Make(a)
      PROVE  HTTPOK'
  <2>1. Between' \subseteq Between
    <3>1. CASE Panics(a)
      BY <1>b, <3>1
    <3>2. CASE UNCHANGED pc
      BY <3>2 DEF Between
    <3>3. CASE ~Panics(a) /\ ~UNCHANGED pc
      <4>1. /\ pc[a] \in {"enter", "call", "wait", "make"}
            /\ \E label \in {"call", "wait", "make", "up", "down"} : Goto(a, label)
        BY <1>6, <3>3 DEF Enter, LoginCalled, LoginReturns, Make
      <4> QED  BY <1>a, <4>1
    <3> QED  BY <3>1, <3>2, <3>3
  <2> QED  BY <1>6, <2>1, ListenFrame DEF Enter, LoginCalled, LoginReturns, Make
<1>7. ASSUME NEW h \in Handlers,
             Authorize(h) \/ Clear(h) \/ Load(h) \/ LoadFails(h) \/ SetCli(h)
      PROVE  HTTPOK'
  <2>1. Between' \subseteq Between
    <3>1. CASE LoadFails(h)
      BY <1>b, <1>h, <3>1 DEF LoadFails
    <3>2. CASE ~LoadFails(h)
      <4>1. \E label \in {"clear", "load", "set", "enter"} : Goto(h, label)
        BY <1>7, <3>2 DEF Authorize, Clear, Load, SetCli
      <4> QED  BY <1>a, <1>h, <4>1
    <3> QED  BY <3>1, <3>2
  <2> QED  BY <1>7, <2>1, ListenFrame DEF Authorize, Clear, Load, LoadFails, SetCli
<1>8. ASSUME \/ \E g \in Clients : Drop(g) \/ Callback(g)
             \/ \E c \in Contents \cup {NoFile} : AdminEdits(c) \/ HandEdits(c)
             \/ UNCHANGED vars
      PROVE  HTTPOK'
  <2>1. UNCHANGED pc /\ UNCHANGED httpVars /\ (exit = "no" \/ UNCHANGED exit)
    BY <1>8 DEF Drop, Callback, CallbackBegins, CallbackRetries, CallbackReturns,
                AdminEdits, HandEdits, vars
  <2>2. Between' \subseteq Between
    BY <2>1 DEF Between
  <2> QED  BY <2>1, <2>2, ListenFrame
<1> QED
  BY <1>h, <1>1, <1>2, <1>3, <1>4, <1>5, <1>6, <1>7, <1>8
     DEF Next, Starts, Restarts

(***************************************************************************)
(* The theorems                                                            *)
(***************************************************************************)

LEMMA InitIInv == Init => IInv
<1> SUFFICES ASSUME Init PROVE IInv
  OBVIOUS
<1> USE DEF Init
<1>h. /\ Main \in Actors
      /\ \A h \in Handlers : h \in Actors /\ pc[h] = "idle"
      /\ pc[Main] = "enter"
  BY ConstantsAssumption DEF Actors
<1>1. RoomOK
  <2>1. Loading = {}
    BY <1>h DEF Loading
  <2> QED  BY <2>1, FS_EmptySet, ConstantsAssumption DEF RoomOK
<1>2. WaitOK
  BY <1>h DEF WaitOK, Actors
<1>3. SecretOK
  <2>1. Known \subseteq {0, 1}
    BY <1>h DEF Known, Actors, Nil
  <2> QED  BY <1>h, <2>1 DEF SecretOK
<1>4. CallbackOK /\ SessionOK /\ BotOK
  BY <1>h DEF CallbackOK, SessionOK, LoggingIn, BotOK, Nil
<1>5. OneOK /\ ListenOK /\ MadeOK
  <2>1. Live(server) = {}
    BY DEF Live
  <2> QED  BY <2>1 DEF OneOK, ListenOK, MadeOK
<1> QED  BY <1>1, <1>2, <1>3, <1>4, <1>5, TypeInit DEF IInv

LEMMA StepIInv == IInv /\ [Next]_vars => IInv'
<1> SUFFICES ASSUME IInv, [Next]_vars PROVE IInv'
  OBVIOUS
<1> QED
  BY TypeStep, RoomStep, WaitStep, SecretStep, CallbackStep, SessionStep, BotStep,
     HTTPStep DEF HTTPOK, IInv

\* The strengthened invariant of hot restarts.
THEOREM Invariance == Spec => []IInv
BY InitIInv, StepIInv, PTL DEF Spec

\* Every variable of the web server has its type, and a restart that is past the
\* load has the configuration that it loaded (DoReLogin).
THEOREM TypeCorrect == Spec => []TypeOK
<1>1. IInv => TypeOK
  BY DEF IInv
<1> QED  BY <1>1, Invariance, PTL

\* However many restarts overlap, with one another, the start and the callbacks,
\* the bot that is left is one of the client that is left; there is neither if the
\* last restarts found no configuration (AdminDoRestart, DoReLogin, Dologin).
THEOREM BotIsOfTheClient == Spec => []BotFollowsClient
<1>1. IInv => BotFollowsClient
  <2> SUFFICES ASSUME IInv, AtRest
               PROVE  IF unloaded THEN bot = Nil /\ cli = Nil
                                  ELSE bot # Nil /\ bots[bot] = cli
    BY DEF BotFollowsClient
  <2>1. \A a \in Actors : pc[a] \in {"done", "idle"}
    BY DEF AtRest, Actors
  <2> QED  BY <2>1 DEF AtRest, Actors, IInv, BotOK
<1> QED  BY <1>1, Invariance, PTL

\* However many callbacks of old and new clients log in at one time, the client
\* that is left is online, unless its session was lost before OnDisconnected was
\* called for it, or a restart found no configuration and left no client (Dologin,
\* logincore, DoReLogin).
THEOREM SessionIsKept == Spec => []SessionKept
<1>1. IInv => SessionKept
  <2> SUFFICES ASSUME IInv, AtRest
               PROVE  cli \in online \/ unwatched \/ (unloaded /\ cli = Nil)
    BY DEF SessionKept
  <2>1. \A a \in Actors : pc[a] \in {"done", "idle"}
    BY DEF AtRest, Actors
  <2>2. cli = Nil => unloaded
    BY <2>1 DEF AtRest, Actors, IInv, BotOK
  <2>3. ~LoggingIn
    BY <2>1 DEF AtRest, LoggingIn
  <2> QED  BY <2>2, <2>3 DEF AtRest, IInv, SessionOK
<1> QED  BY <1>1, Invariance, PTL

\* A server that is left listening is the one that the next ShutDown closes, if each
\* restart shut down the server before it started the next and none overlapped;
\* otherwise it has another address than that one, unless a server was shut down
\* before it listened (httpServer.Run, httpServer.ShutDown, DoReLogin).
THEOREM ListenerStaysKnown == Spec => []ListenerIsKnown
<1>1. IInv => ListenerIsKnown
  <2> SUFFICES ASSUME IInv, AtRest, NEW i \in Clients, server[i] = "open"
               PROVE  \/ i = http
                      \/ beside /\ (early \/ address[i] # address[http])
    BY DEF ListenerIsKnown
  <2>1. beside \/ i = http
    BY DEF AtRest, IInv, OneOK
  <2>2. early \/ i = http \/ address[i] # address[http]
    BY DEF AtRest, IInv, ListenOK
  <2> QED  BY <2>1, <2>2
<1> QED  BY <1>1, Invariance, PTL
=============================================================================
