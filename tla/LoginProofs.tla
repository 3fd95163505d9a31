---------------------------- MODULE LoginProofs ----------------------------
(***************************************************************************)
(* Login for any number of users and callers, any configurations, any      *)
(* limit of attempts and any bounds.                                       *)
(***************************************************************************)
EXTENDS Login, TLAPS

Labels == Questions \cup Enters
          \cup {"idle", "login", "Again", "Relogin", "sendSMS", "sendCode"}

\* While no input has been stray there is one on its way at the most, its
\* question is open, and it is meant for that question.
OneOnItsWay ==
    ~stray =>
        /\ ~wrong
        /\ writing = fresh
        /\ \A u, v \in writing : u = v
        /\ writing # {} => WebInput = <<>> /\ Open
        /\ WebInput # <<>> => Open /\ Head(WebInput) = "meant"

\* The failures of a dialogue that logs in again are one less than times, until
\* it gives up.
Counted ==
    /\ relogin => conf.relogin
    /\ ~relogin \/ conf.max = 0 => failed = 0
    /\ Alive /\ relogin /\ conf.max # 0 => times = failed + 1 /\ times <= conf.max + 1
    /\ failed <= conf.max + 1
    /\ exit = "relogin" => conf.max # 0 /\ failed = conf.max + 1

----------------------------------------------------------------------------
(* Types                                                                   *)

\* A configuration is one of those that ConstantsAssumption is about.
LEMMA ConfigType ==
    ASSUME TypeOK
    PROVE  /\ conf.web \in BOOLEAN /\ conf.max \in Nat /\ conf.relogin \in BOOLEAN
    BY ConstantsAssumption DEF TypeOK

\* An answered question leads to another label, or the process ends.
LEMMA AnsweredType ==
    ASSUME TypeOK, Alive, pc \in Questions, Answered
    PROVE  /\ pc' \in Labels \ {"idle"} /\ res' \in Results \cup {"none", "offline"}
           /\ exit' \in {"no", "over"} /\ UNCHANGED <<serving, children, lost>>
           /\ UNCHANGED <<relogin, times, count, failed>>
<1>1. CASE pc = "slider"
    BY <1>1 DEF TypeOK, Alive, Answered, SolvesSlider, Submits, Ends, Goto, process,
                Labels, Questions, Enters, Results
<1>2. CASE pc = "choice"
    BY <1>2 DEF TypeOK, Alive, Answered, Goto, process, Labels, Questions, Enters
<1>3. CASE pc = "unsafe"
    BY <1>3 DEF TypeOK, Alive, Answered, Goto, process, Labels, Questions, Enters
<1>4. CASE pc \notin {"slider", "choice", "unsafe"}
    BY <1>4 DEF TypeOK, Alive, Answered, Submits, Ends, Goto, process, Labels,
                Questions, Enters, Results
<1> QED BY <1>1, <1>2, <1>3, <1>4

\* Each step of the dialogue keeps the types.
LEMMA DialogueTypes ==
    ASSUME TypeOK, Dialogue \/ ReadConsole \/ Enter \/ Lost
    PROVE  TypeOK'
<1> USE DEF Kept, requests, channels, process, ghosts, Goto, Ends, Alive, At
<1>1. CASE LoginReturns
  BY <1>1, ConstantsAssumption DEF LoginReturns, TypeOK, Results
<1>2. CASE Succeeds
  BY <1>2 DEF Succeeds, TypeOK
<1>3. CASE Decide
  <2>1. pc' \in Labels \ {"idle"}
    BY <1>3 DEF Decide, Asks, Labels, Questions, Enters
  <2> QED  BY <1>3, <2>1 DEF Decide, TypeOK, Labels
<1>4. CASE Network
  BY <1>4, ConstantsAssumption DEF Network, TypeOK, Enters
<1>5. CASE Frozen
  BY <1>5 DEF Frozen, TypeOK, dialogue
<1>6. CASE ReadWeb
  <2>1. pc' \in Labels \ {"idle"} /\ res' \in Results \cup {"none", "offline"}
        /\ UNCHANGED <<serving, children, lost, relogin, times, count, failed>>
    BY <1>6, AnsweredType DEF ReadWeb
  <2>2. wrong' \in BOOLEAN
    BY <1>6 DEF ReadWeb
  <2>3. fresh' = {} /\ WebInput' = <<>>
        /\ UNCHANGED <<conf, writing, calling, Restart, Console, stray>>
    BY <1>6 DEF ReadWeb, Closed
  <2> QED  BY <2>1, <2>2, <2>3 DEF TypeOK, Labels
<1>7. CASE SendsSMS
  BY <1>7 DEF SendsSMS, TypeOK, Questions
<1>8. CASE Relogin
  BY <1>8 DEF Relogin, TypeOK
<1>9. CASE ReadConsole
  <2>1. pc' \in Labels \ {"idle"} /\ res' \in Results \cup {"none", "offline"}
        /\ UNCHANGED <<serving, children, lost, relogin, times, count, failed>>
    BY <1>9, AnsweredType DEF ReadConsole
  <2> QED  BY <1>9, <2>1 DEF ReadConsole, TypeOK, Labels
<1>10. CASE Enter
  BY <1>10 DEF Enter, TypeOK
<1>11. CASE Lost
  <2>1. lost' \in 0 .. MaxLost /\ serving /\ pc = "idle" /\ failed' = 0
    BY <1>11, ConstantsAssumption DEF Lost, TypeOK
  <2>2. /\ pc' \in {"login", "idle"} /\ res' \in {"none", "offline"}
        /\ relogin' \in BOOLEAN /\ times' \in Nat
    <3>1. CASE conf.relogin
      BY <1>11, <3>1 DEF Lost
    <3>2. CASE ~conf.relogin
      BY <1>11, <3>2 DEF Lost, TypeOK
    <3> QED  BY <3>1, <3>2
  <2> QED  BY <1>11, <2>1, <2>2 DEF Lost, TypeOK
<1> QED  BY <1>1, <1>2, <1>3, <1>4, <1>5, <1>6, <1>7, <1>8, <1>9, <1>10, <1>11
         DEF Dialogue

\* So does each step of the admin API, of main and of whoever interrupts.
LEMMA OutsideTypes ==
    ASSUME TypeOK,
           \/ AsksDocker \/ Interrupt \/ Restarts
           \/ \E u \in Users : Looks(u) \/ Writes(u)
           \/ \E c \in Callers : CallsRestart(c) \/ AsksRestart(c)
    PROVE  TypeOK'
<1> USE DEF Outside, dialogue, requests, channels, process, ghosts, Alive, Ends
<1>1. CASE AsksDocker
  BY <1>1 DEF AsksDocker, TypeOK
<1>2. CASE Interrupt
  BY <1>2 DEF Interrupt, TypeOK
<1>3. CASE Restarts
  <2>1. children' \in 0 .. MaxChildren
    BY <1>3, ConstantsAssumption DEF Restarts, TypeOK
  <2>2. Restart' = FALSE
    BY <1>3 DEF Restarts
  <2> QED  BY <1>3, <2>1, <2>2 DEF Restarts, TypeOK
<1>4. ASSUME NEW u \in Users, Looks(u)
      PROVE  TypeOK'
  <2>1. stray' \in BOOLEAN
    BY <1>4 DEF Looks
  <2> QED  BY <1>4, <2>1 DEF Looks, TypeOK
<1>5. ASSUME NEW u \in Users, Writes(u)
      PROVE  TypeOK'
  <2>1. WebInput' \in Seq({"meant", "other"}) /\ Len(WebInput') <= 1
    BY <1>5 DEF Writes
  <2>2. fresh' \subseteq writing' /\ writing' \subseteq Users
    BY <1>5 DEF Writes, TypeOK
  <2> QED  BY <1>5, <2>1, <2>2 DEF Writes, TypeOK
<1>6. ASSUME NEW c \in Callers, CallsRestart(c) \/ AsksRestart(c)
      PROVE  TypeOK'
  <2>1. CASE CallsRestart(c)
    BY <1>6, <2>1 DEF CallsRestart, TypeOK
  <2>2. CASE AsksRestart(c)
    BY <1>6, <2>2 DEF AsksRestart, TypeOK
  <2> QED  BY <1>6, <2>1, <2>2
<1> QED  BY <1>1, <1>2, <1>3, <1>4, <1>5, <1>6

LEMMA StutterTypes == TypeOK /\ UNCHANGED vars => TypeOK'
BY DEF TypeOK, vars, dialogue, requests, channels, process, ghosts

LEMMA TypeInit == Init => TypeOK
<1> SUFFICES ASSUME Init PROVE TypeOK
  OBVIOUS
<1>1. WebInput \in Seq({"meant", "other"}) /\ Len(WebInput) <= 1
  BY DEF Init
<1>2. count \in 0 .. Tries /\ children \in 0 .. MaxChildren /\ lost \in 0 .. MaxLost
  BY ConstantsAssumption DEF Init
<1>3. ~relogin /\ ~serving /\ pc = "login"
  BY DEF Init
<1> QED  BY <1>1, <1>2, <1>3 DEF Init, TypeOK

\* logincore never runs before main is there to start it, nothing is read from
\* an empty channel, and the counters stay in their ranges, for all constants.
THEOREM TypeCorrect == Spec => []TypeOK
<1>1. TypeOK /\ [Next]_vars => TypeOK'
  BY DialogueTypes, OutsideTypes, StutterTypes DEF Next
<1> QED  BY <1>1, TypeInit, PTL DEF Spec

----------------------------------------------------------------------------
(* Inputs                                                                  *)

\* A step that gives and reads no input, and by which no question ceases to be
\* open, leaves an input on its way as it is.
LEMMA NothingSaid ==
    ASSUME OneOnItsWay, UNCHANGED <<writing, fresh, WebInput, stray, wrong>>,
           Open => Open'
    PROVE  OneOnItsWay'
BY DEF OneOnItsWay

\* The dialogue leaves an open question only by reading an input.
LEMMA DialogueInputs ==
    ASSUME TypeOK, OneOnItsWay, Dialogue \/ ReadConsole \/ Enter \/ Lost
    PROVE  OneOnItsWay'
<1>1. CASE ReadWeb
  <2>1. stray' = stray /\ writing' = writing /\ fresh' = {} /\ WebInput' = <<>>
    BY <1>1 DEF ReadWeb, Closed
  <2>2. SUFFICES ASSUME ~stray
                 PROVE  ~wrong' /\ writing = {}
    BY <2>1, <2>2 DEF OneOnItsWay
  <2>3. WebInput # <<>> /\ writing = {} /\ ~wrong /\ Head(WebInput) = "meant"
    BY <1>1, <2>2 DEF ReadWeb, HasInput, OneOnItsWay
  <2> QED  BY <1>1, <2>3 DEF ReadWeb
<1>2. CASE ~ReadWeb
  <2>1. ~Open
    BY <1>2 DEF Dialogue, ReadConsole, Enter, Lost, Open, LoginReturns, Succeeds,
                Decide, Network, Frozen, SendsSMS, Relogin, At, Questions, Enters
  <2>2. UNCHANGED <<writing, fresh, WebInput, stray, wrong>>
    BY <1>2 DEF Dialogue, ReadConsole, Enter, Lost, LoginReturns, Succeeds, Decide,
                Network, Frozen, SendsSMS, Relogin, Kept, requests, channels, ghosts
  <2> QED  BY <2>1, <2>2, NothingSaid
<1> QED  BY <1>1, <1>2

LEMMA OutsideInputs ==
    ASSUME TypeOK, OneOnItsWay,
           \/ AsksDocker \/ Interrupt \/ Restarts
           \/ \E u \in Users : Looks(u) \/ Writes(u)
           \/ \E c \in Callers : CallsRestart(c) \/ AsksRestart(c)
    PROVE  OneOnItsWay'
<1>1. CASE \/ AsksDocker \/ Interrupt \/ Restarts
           \/ \E c \in Callers : CallsRestart(c) \/ AsksRestart(c)
  <2>1. UNCHANGED <<writing, fresh, WebInput, stray, wrong>> /\ (Open => Open')
    BY <1>1 DEF AsksDocker, Interrupt, Restarts, CallsRestart, AsksRestart, Outside,
                requests, channels, dialogue, ghosts, Open
  <2> QED  BY <2>1, NothingSaid
<1>2. ASSUME NEW u \in Users, Looks(u)
      PROVE  OneOnItsWay'
  <2>1. wrong' = wrong /\ WebInput' = WebInput /\ writing' = writing \cup {u}
        /\ (Open => Open')
    BY <1>2 DEF Looks, Outside, dialogue, channels, Open
  <2> SUFFICES ASSUME ~stray'
               PROVE  /\ ~wrong' /\ writing' = fresh'
                      /\ \A v, w \in writing' : v = w
                      /\ WebInput' = <<>> /\ Open'
    BY DEF OneOnItsWay
  <2>2. ~stray /\ Open /\ fresh = {} /\ WebInput = <<>>
    BY <1>2 DEF Looks
  <2>3. writing = {} /\ ~wrong
    BY <2>2 DEF OneOnItsWay
  <2>4. fresh' = {u}
    BY <1>2, <2>2 DEF Looks
  <2> QED  BY <2>1, <2>2, <2>3, <2>4
<1>3. ASSUME NEW u \in Users, Writes(u)
      PROVE  OneOnItsWay'
  <2>1. /\ UNCHANGED <<stray, wrong>> /\ (Open => Open')
        /\ writing' = writing \ {u} /\ fresh' = fresh \ {u} /\ u \in writing
    BY <1>3 DEF Writes, Outside, dialogue, ghosts, Open
  <2> SUFFICES ASSUME ~stray
               PROVE  /\ ~wrong' /\ writing' = fresh' /\ writing' = {} /\ Open'
                      /\ Head(WebInput') = "meant"
    BY <2>1 DEF OneOnItsWay
  <2>2. writing = {u} /\ fresh = {u} /\ Open /\ ~wrong
    BY <2>1 DEF OneOnItsWay
  <2>3. Head(WebInput') = "meant"
    BY <1>3, <2>2 DEF Writes
  <2> QED  BY <2>1, <2>2, <2>3
<1> QED  BY <1>1, <1>2, <1>3

\* No question ever takes an input not meant for it, unless somebody has given
\* one out of turn: for any number of users, whatever Login answers.
THEOREM AnswersMatch == Spec => []WrongNeedsStray
<1>1. Init => TypeOK /\ OneOnItsWay
  <2> SUFFICES ASSUME Init PROVE OneOnItsWay
    BY TypeInit
  <2> QED  BY DEF Init, OneOnItsWay
<1>2. TypeOK /\ OneOnItsWay /\ [Next]_vars => OneOnItsWay'
  <2>1. TypeOK /\ OneOnItsWay /\ UNCHANGED vars => OneOnItsWay'
    BY NothingSaid DEF vars, dialogue, requests, channels, ghosts, Open
  <2> QED  BY <2>1, DialogueInputs, OutsideInputs DEF Next
<1>3. OneOnItsWay => WrongNeedsStray
  BY DEF OneOnItsWay, WrongNeedsStray
<1> QED  BY <1>1, <1>2, <1>3, TypeCorrect, PTL DEF Spec

----------------------------------------------------------------------------
(* Attempts                                                                *)

\* Steps that count nothing; the process may end, but is not given up.
LEMMA NothingCounted ==
    ASSUME TypeOK, Counted, UNCHANGED <<conf, relogin, times, failed>>,
           exit' = exit \/ exit' = "over"
    PROVE  Counted'
BY ConfigType DEF Counted, Alive, TypeOK

LEMMA ReloginCounts == ASSUME TypeOK, Counted, Relogin PROVE Counted'
<1>1. conf' = conf /\ relogin' = relogin /\ Alive
  BY DEF Relogin, Kept, At
<1>2. CASE ~relogin
  <2>1. failed' = failed /\ UNCHANGED <<times, exit>>
    BY <1>2 DEF Relogin, process
  <2> QED  BY <1>1, <2>1, NothingCounted
<1>3. CASE relogin /\ conf.max = 0
  <2>1. failed' = failed /\ times' = times /\ exit' = exit
    BY <1>3 DEF Relogin, process, Exhausted
  <2> QED  BY <1>1, <2>1, NothingCounted
<1>4. CASE relogin /\ conf.max # 0
  <2>1. failed' = failed + 1 /\ times = failed + 1 /\ times <= conf.max + 1
    BY <1>1, <1>4 DEF Relogin, Counted
  <2>2. CASE times > conf.max
    <3>1. exit' = "relogin"
      BY <1>4, <2>2 DEF Relogin, Exhausted, Ends
    <3> QED  BY <1>1, <1>4, <2>1, <2>2, <3>1, ConfigType
             DEF Counted, Alive, TypeOK
  <2>3. CASE ~(times > conf.max)
    <3>1. exit' = exit /\ times' = times + 1
      BY <1>4, <2>3 DEF Relogin, Exhausted, process
    <3> QED  BY <1>1, <1>4, <2>1, <2>3, <3>1, ConfigType
             DEF Counted, Alive, TypeOK
  <2> QED  BY <2>2, <2>3
<1> QED  BY <1>2, <1>3, <1>4

LEMMA LostCounts == ASSUME TypeOK, Counted, Lost PROVE Counted'
<1>1. conf' = conf /\ exit' = exit /\ failed' = 0 /\ Alive
  BY DEF Lost, Kept
<1>2. CASE conf.relogin
  <2>1. relogin' = TRUE /\ times' = 1
    BY <1>2 DEF Lost
  <2> QED  BY <1>1, <1>2, <2>1, ConfigType DEF Counted, Alive, TypeOK
<1>3. CASE ~conf.relogin
  <2>1. relogin' = relogin /\ ~relogin
    BY <1>3 DEF Lost, Counted
  <2> QED  BY <1>1, <1>3, <2>1, ConfigType DEF Counted, Alive, TypeOK
<1> QED  BY <1>2, <1>3

LEMMA OthersCount ==
    ASSUME TypeOK, Counted, Next, ~Relogin, ~Lost
    PROVE  Counted'
<1> SUFFICES /\ UNCHANGED <<conf, relogin, times, failed>>
             /\ exit' = exit \/ exit' = "over"
  BY NothingCounted
<1> USE DEF Kept, Outside, dialogue, process, requests, channels, ghosts, Ends
<1>1. CASE LoginReturns \/ Succeeds \/ Decide \/ Network \/ Frozen
  BY <1>1 DEF LoginReturns, Succeeds, Decide, Network, Frozen
<1>2. CASE ReadWeb \/ ReadConsole
  <2>1. Alive /\ pc \in Questions /\ Answered /\ conf' = conf
    BY <1>2 DEF ReadWeb, ReadConsole
  <2> QED  BY <2>1, AnsweredType DEF Alive
<1>3. CASE SendsSMS \/ Enter
  BY <1>3 DEF SendsSMS, Enter
<1>4. CASE AsksDocker \/ Interrupt \/ Restarts
  BY <1>4 DEF AsksDocker, Interrupt, Restarts
<1>5. CASE \/ \E u \in Users : Looks(u) \/ Writes(u)
           \/ \E c \in Callers : CallsRestart(c) \/ AsksRestart(c)
  BY <1>5 DEF Looks, Writes, CallsRestart, AsksRestart
<1> QED  BY <1>1, <1>2, <1>3, <1>4, <1>5 DEF Next, Dialogue

\* A lost session is given up where there is a limit, and only after
\* max_relogin_times attempts have failed, for every value of max_relogin_times.
THEOREM AttemptsAreMade == Spec => []NotGivenUpEarly
<1>1. Init => Counted
  <2> SUFFICES ASSUME Init PROVE Counted
    OBVIOUS
  <2>1. relogin = FALSE /\ failed = 0 /\ exit = "no" /\ TypeOK
    BY TypeInit DEF Init
  <2> QED  BY <2>1, ConfigType DEF Counted
<1>2. TypeOK /\ Counted /\ [Next]_vars => Counted'
  <2>1. TypeOK /\ Counted /\ UNCHANGED vars => Counted'
    BY NothingCounted DEF vars, dialogue, process
  <2> QED  BY <2>1, ReloginCounts, LostCounts, OthersCount
<1>3. TypeOK /\ Counted => NotGivenUpEarly
  BY ConfigType DEF Counted, NotGivenUpEarly
<1> QED  BY <1>1, <1>2, <1>3, TypeCorrect, PTL DEF Spec
=============================================================================
