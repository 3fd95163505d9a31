------------------------------- MODULE Login -------------------------------
(***************************************************************************)
(* The login dialogue and the control of the process: logincore with the   *)
(* questions it asks at the console or over the admin API (do_web_write),  *)
(* the callback that logs in again when the session is lost                *)
(* (server/apiAdmin.go), and the loop of main that waits for               *)
(* do_process_restart (main.go).                                           *)
(*                                                                         *)
(* One client, hence one dialogue at a time; HotRestart is about clients   *)
(* that are replaced.  Inputs travel through WebInput, a channel with room *)
(* for one.  What an input says is decided when it is read; until then it  *)
(* is no more than meant for the question that is open, or not.            *)
(*                                                                         *)
(* A definition marked "Mutation" is no part of the model: it is a faulty  *)
(* version of the definition after it, which a property must reject.       *)
(***************************************************************************)
EXTENDS Naturals, Sequences

CONSTANTS
    Users,          \* the calls of do_web_write that are under way at a time
    Callers,        \* the calls of do_process_restart
    Configs,        \* records web (web_input), max (max_relogin_times), relogin
    MaxLost,        \* bound: times the session is lost
    MaxChildren,    \* bound: processes started by do_process_restart
    Tries           \* the limit of attempts in a bad network, 5 in the code

ASSUME ConstantsAssumption ==
    /\ Configs \subseteq [web : BOOLEAN, max : Nat, relogin : BOOLEAN]
    /\ MaxLost \in Nat /\ MaxChildren \in Nat /\ Tries \in Nat

VARIABLES
    conf,       \* s.Conf
    pc,         \* where logincore is; "idle": it is not running
    relogin,    \* its parameter
    res,        \* its variable res, as long as it is looked at
    times,      \* its variable times
    count,      \* its variable count
    writing,    \* the users whose input waits for room in the channel
    fresh,      \* those whose input is meant for the question that is open
    calling,    \* the callers that wait for room in the channel Restart
    WebInput,   \* the channel
    Restart,    \* the channel Restart holds a request
    Console,    \* the channel Console holds a signal
    serving,    \* main has come to its loop
    children,   \* processes started by restart
    lost,       \* times the session has been lost
    exit,       \* "no", or the process ended: "relogin" (given up), "over"
    failed,     \* ghost: logins of this dialogue counted as failed
    stray,      \* ghost: an input was given without a question of its own
    wrong       \* ghost: a question took an input not meant for it

dialogue == <<pc, relogin, res, times, count, failed>>
requests == <<writing, fresh, calling>>
channels == <<WebInput, Restart, Console>>
process == <<serving, children, lost, exit>>
ghosts == <<stray, wrong>>
vars == <<conf, dialogue, requests, channels, process, ghosts>>

\* Results of Login and of the Submit calls: a question, a bad network, a
\* frozen account (or a wrong password, whose message is replaced by one that
\* mentions it), another listed error, and one the switch does not list.
Results == {"success", "slider", "captcha", "sms", "verify", "unsafe", "network",
            "frozen", "other", "unlisted"}

\* Where logincore waits for text, from WebInput or from the console, and where
\* for Enter at the console in either case.
Questions == {"slider", "ticket", "captcha", "sms", "choice", "code", "unsafe"}
Enters == {"enterSMS", "enterVerify", "enterOther"}

Init ==
    /\ conf \in Configs
    /\ pc = "login" /\ relogin = FALSE /\ res = "none"
    /\ times = 1 /\ count = 0 /\ failed = 0
    /\ writing = {} /\ fresh = {} /\ calling = {}
    /\ WebInput = <<>> /\ Restart = FALSE /\ Console = FALSE
    /\ serving = FALSE /\ children = 0 /\ lost = 0 /\ exit = "no"
    /\ stray = FALSE /\ wrong = FALSE

Alive == exit = "no"
At(label) == Alive /\ pc = label
Goto(label) == pc' = label
Ends(how) == exit' = how /\ UNCHANGED <<serving, children, lost>>

----------------------------------------------------------------------------
(* logincore *)

Kept == <<conf, requests, channels, ghosts>>

\* A login or a submission that gives no result leaves res nil.
LoginReturns ==
    /\ At("login")
    /\ \/ res' = "none" /\ Goto("Relogin")
       \/ res' \in Results /\ Goto("Again")
    /\ count' = 0
    /\ UNCHANGED <<Kept, relogin, times, failed, process>>

\* Login succeeded: the dialogue is over.  The first one, in Dologin, is
\* followed by UpServer and the loop of main.
Succeeds ==
    /\ At("Again") /\ res = "success"
    /\ Goto("idle") /\ serving' = TRUE
    /\ UNCHANGED <<Kept, relogin, res, times, count, failed, children, lost, exit>>

\* Mutation: Enter is asked for before a message is sent, with web_input too.
AsksEnter == [slider |-> "slider", captcha |-> "captcha", verify |-> "choice",
              unsafe |-> "unsafe", sms |-> "enterSMS", other |-> "enterOther",
              unlisted |-> "Relogin"]

\* The question that each result leads to.  With web_input nobody is asked
\* before a message is sent to the phone.
Asks == [slider |-> "slider", captcha |-> "captcha", verify |-> "choice",
         unsafe |-> "unsafe", sms |-> IF conf.web THEN "sendSMS" ELSE "enterSMS",
         other |-> "enterOther", unlisted |-> "Relogin"]

Decide ==
    /\ At("Again") /\ res \in DOMAIN Asks
    /\ Goto(Asks[res]) /\ res' = "none"
    /\ UNCHANGED <<Kept, relogin, times, count, failed, process>>

\* Mutation: a change of the server counts as an attempt to log in again.
NetworkCounts ==
    /\ At("Again") /\ res = "network"
    /\ IF count < Tries THEN Goto("login") /\ count' = count + 1
       ELSE Goto("enterOther") /\ UNCHANGED count
    /\ res' = "none"
    /\ times' = IF relogin /\ conf.max # 0 THEN times + 1 ELSE times
    /\ UNCHANGED <<Kept, relogin, failed, process>>

\* Past the limit a bad network is an error like any other.
Network ==
    /\ At("Again") /\ res = "network"
    /\ IF count < Tries THEN Goto("login") /\ count' = count + 1
       ELSE Goto("enterOther") /\ UNCHANGED count
    /\ res' = "none"
    /\ UNCHANGED <<Kept, relogin, times, failed, process>>

Frozen ==
    /\ At("Again") /\ res = "frozen"
    /\ Ends("over") /\ UNCHANGED <<Kept, dialogue>>

\* Without a result the code reads res.Error all the same.
Submits ==
    \/ res' \in Results /\ Goto("Again") /\ UNCHANGED process
    \/ Ends("over") /\ UNCHANGED <<pc, res>>     \* nil dereference

\* Option 2 of the slider: the ticket does not come in time, or is refused
\* without a result, or there is a result.
SolvesSlider ==
    \/ Ends("over") /\ UNCHANGED <<pc, res>>
    \/ Goto("login") /\ res' = "none" /\ UNCHANGED process
    \/ res' \in Results /\ Goto("Again") /\ UNCHANGED process

\* What follows an answer, which contains a choice or does not.
Answered ==
    /\ \/ /\ pc = "slider"
          /\ \/ Goto("ticket") /\ UNCHANGED <<res, process>>
             \/ Goto("login") /\ UNCHANGED <<res, process>>
             \/ SolvesSlider
       \/ /\ pc = "choice"
          /\ Goto("sendCode") \/ Goto("enterVerify")
          /\ UNCHANGED <<res, process>>
       \/ pc = "unsafe" /\ Goto("login") /\ UNCHANGED <<res, process>>
       \/ pc \in {"ticket", "captcha", "sms", "code"} /\ Submits
    /\ UNCHANGED <<relogin, times, count, failed>>

\* Mutation: at an unsafe device it looks into the channel without waiting.
Polls == pc = "unsafe" \/ WebInput # <<>>

\* text = <-WebInput
HasInput == WebInput # <<>>

\* From now on no input is meant for an open question.
Closed == fresh' = {} /\ WebInput' = <<>>

ReadWeb ==
    /\ Alive /\ pc \in Questions /\ conf.web /\ HasInput
    /\ Answered
    /\ wrong' = (wrong \/ (WebInput # <<>> /\ Head(WebInput) # "meant"))
    /\ Closed
    /\ UNCHANGED <<conf, writing, calling, Restart, Console, stray>>

ReadConsole ==
    /\ Alive /\ pc \in Questions /\ ~conf.web
    /\ Answered
    /\ UNCHANGED Kept

Enter ==
    /\ Alive /\ pc \in Enters
    /\ \/ pc = "enterSMS" /\ Goto("sendSMS") /\ UNCHANGED process
       \/ pc = "enterVerify" /\ Goto("login") /\ UNCHANGED process
       \/ pc = "enterOther" /\ Ends("over") /\ UNCHANGED pc
    /\ UNCHANGED <<Kept, relogin, res, times, count, failed>>

\* RequestSMS succeeds, or too many messages have been asked for.
SendsSMS ==
    /\ Alive
    /\ \/ pc = "sendSMS" /\ Goto("sms") /\ UNCHANGED process
       \/ pc = "sendSMS" /\ Goto("login") /\ UNCHANGED process
       \/ pc = "sendCode" /\ Goto("code") /\ UNCHANGED process
       \/ pc = "sendCode" /\ Ends("over") /\ UNCHANGED pc
    /\ UNCHANGED <<Kept, relogin, res, times, count, failed>>

Exhausted == conf.max # 0 /\ times > conf.max

\* The label Relogin.  Without a limit times is not counted (a bound).
Relogin ==
    /\ At("Relogin")
    /\ failed' = IF relogin /\ conf.max # 0 THEN failed + 1 ELSE failed
    /\ IF ~relogin THEN Goto("login") /\ UNCHANGED <<times, process>>
       ELSE IF Exhausted THEN Ends("relogin") /\ UNCHANGED <<pc, times>>
       ELSE /\ Goto("login") /\ UNCHANGED process
            /\ times' = IF conf.max = 0 THEN times ELSE times + 1
    /\ UNCHANGED <<Kept, relogin, res, count>>

\* The session is lost, and OnDisconnected calls logincore(true).
Lost ==
    /\ Alive /\ serving /\ pc = "idle" /\ res = "success" /\ lost < MaxLost
    /\ lost' = lost + 1
    /\ IF conf.relogin
       THEN Goto("login") /\ relogin' = TRUE /\ times' = 1 /\ res' = "none"
       ELSE UNCHANGED <<pc, relogin, times>> /\ res' = "offline"
    /\ failed' = 0
    /\ UNCHANGED <<Kept, count, serving, children, exit>>

----------------------------------------------------------------------------
(* The admin API: do_web_write, do_process_restart, do_restart_docker.     *)
(* A send to a full channel waits.                                         *)

Outside == <<conf, dialogue, process>>
Open == pc \in Questions /\ conf.web

\* Somebody answers: the question that is open, or one of the past, or none.
\* Nothing shows that an answer is in the channel and not yet read.
Looks(u) ==
    /\ Alive /\ u \notin writing
    /\ writing' = writing \cup {u}
    /\ fresh' = IF Open THEN fresh \cup {u} ELSE fresh
    /\ stray' = (stray \/ ~Open \/ fresh # {} \/ WebInput # <<>>)
    /\ UNCHANGED <<Outside, calling, channels, wrong>>

\* WebInput <- input
Writes(u) ==
    /\ Alive /\ u \in writing /\ WebInput = <<>>
    /\ WebInput' = <<IF u \in fresh THEN "meant" ELSE "other">>
    /\ writing' = writing \ {u} /\ fresh' = fresh \ {u}
    /\ UNCHANGED <<Outside, calling, Restart, Console, ghosts>>

CallsRestart(c) ==
    /\ Alive /\ c \notin calling
    /\ calling' = calling \cup {c}
    /\ UNCHANGED <<Outside, writing, fresh, channels, ghosts>>

\* Restart <- struct{}{}
AsksRestart(c) ==
    /\ Alive /\ c \in calling /\ ~Restart
    /\ Restart' = TRUE /\ calling' = calling \ {c}
    /\ UNCHANGED <<Outside, writing, fresh, WebInput, Console, ghosts>>

\* Console <- os.Kill, which nobody receives: the next call waits for ever.
AsksDocker ==
    /\ Alive /\ ~Console
    /\ Console' = TRUE
    /\ UNCHANGED <<Outside, requests, WebInput, Restart, ghosts>>

\* An interrupt ends the process until main has called Notify; from then on it
\* goes to Console, or nowhere when that is full.
Interrupt ==
    /\ Alive
    /\ IF serving THEN Console' = TRUE /\ UNCHANGED process
       ELSE Ends("over") /\ UNCHANGED Console
    /\ UNCHANGED <<conf, dialogue, requests, WebInput, Restart, ghosts>>

\* Mutation: main receives once.
RestartsOnce ==
    /\ Alive /\ serving /\ Restart /\ children = 0
    /\ Restart' = FALSE /\ children' = 1
    /\ UNCHANGED <<conf, dialogue, requests, WebInput, Console, serving, lost,
                   exit, ghosts>>

\* for range r { restart(arg) }: a child is started, and the loop goes on.
Restarts ==
    /\ Alive /\ serving /\ Restart
    /\ Restart' = FALSE
    /\ children' = IF children < MaxChildren THEN children + 1 ELSE children
    /\ UNCHANGED <<conf, dialogue, requests, WebInput, Console, serving, lost,
                   exit, ghosts>>

Dialogue ==
    \/ LoginReturns \/ Succeeds \/ Decide \/ Network \/ Frozen
    \/ ReadWeb \/ SendsSMS \/ Relogin

Next ==
    \/ Dialogue \/ ReadConsole \/ Enter \/ Lost
    \/ AsksDocker \/ Interrupt \/ Restarts
    \/ \E u \in Users : Looks(u) \/ Writes(u)
    \/ \E c \in Callers : CallsRestart(c) \/ AsksRestart(c)

Spec == Init /\ [][Next]_vars

\* Goroutines run, senders to a channel are served in turn, an open question is
\* answered by somebody, and a server asked again and again accepts at last.
\* With web_input nobody need be at the console.
Fairness ==
    /\ WF_vars(Dialogue) /\ SF_vars((Dialogue \/ ReadConsole) /\ res' = "success")
    /\ WF_vars(~conf.web /\ (ReadConsole \/ Enter))
    /\ WF_vars(Open /\ \E u \in Users : Looks(u))
    /\ WF_vars(\E u \in Users : Writes(u))
    /\ WF_vars(Restarts) /\ \A c \in Callers : SF_vars(AsksRestart(c))

FairSpec == Spec /\ Fairness

----------------------------------------------------------------------------
(* Properties                                                              *)

\* The types of the variables; a question is asked only while the process
\* lives and main is in Dologin, or in the callback.
TypeOK ==
    /\ conf \in Configs
    /\ pc \in Questions \cup Enters
              \cup {"idle", "login", "Again", "Relogin", "sendSMS", "sendCode"}
    /\ relogin \in BOOLEAN /\ res \in Results \cup {"none", "offline"}
    /\ times \in Nat /\ count \in 0 .. Tries /\ failed \in Nat
    /\ fresh \subseteq writing /\ writing \subseteq Users
    /\ calling \subseteq Callers
    /\ WebInput \in Seq({"meant", "other"}) /\ Len(WebInput) <= 1
    /\ Restart \in BOOLEAN /\ Console \in BOOLEAN
    /\ serving \in BOOLEAN /\ children \in 0 .. MaxChildren
    /\ lost \in 0 .. MaxLost
    /\ stray \in BOOLEAN /\ wrong \in BOOLEAN
    /\ relogin => serving
    /\ pc = "idle" => serving

\* An answer is taken by the question it was given for, unless somebody, at any
\* time before, has given an input while no question was open, or one had
\* already been given for it (do_web_write, <-WebInput).  Then all that follows
\* may be shifted by one.
WrongNeedsStray == wrong => stray

\* A lost session is given up only where there is a limit, and not before
\* max_relogin_times attempts to log in again have failed: questions and bad
\* networks in between are not taken for attempts (the label Relogin).  The code
\* makes one attempt more than docs/config.md promises.
NotGivenUpEarly == exit = "relogin" => conf.max # 0 /\ failed >= conf.max

\* A dialogue comes to an end, or the process does.  With web_input it may hang
\* in two places, where it asks for Enter at the console all the same: after the
\* choice to verify with the phone, and after an error it gives up at.
LoginEnds ==
    pc # "idle" ~> \/ pc = "idle" \/ ~Alive
                   \/ conf.web /\ pc \in {"enterVerify", "enterOther"}

\* Once main serves, every call of do_process_restart returns, although the
\* channel has room for one and is not read before (main, 273).
RestartReturns ==
    \A c \in Callers : serving /\ c \in calling ~> c \notin calling \/ ~Alive
=============================================================================
