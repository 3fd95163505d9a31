-------------------------- MODULE ReverseWSProofs --------------------------
(* Theorems about ReverseWS, for any sets of connections, pushes, requests   *)
(* and configurations.                                                       *)
EXTENDS ReverseWS, TLAPS

(***************************************************************************)
(* Type correctness                                                        *)
(***************************************************************************)

\* The initial state is well typed.
LEMMA TypeInit == Init => TypeOK
  BY ConstantsAssumption DEF Init, TypeOK, PushPC, ReqPC, Workers

\* Every step keeps the types, in particular that a push in progress has a
\* connection and that the push pointer is never nil again.
LEMMA TypeStep == TypeOK /\ [Next]_vars => TypeOK'
<1> SUFFICES ASSUME TypeOK, [Next]_vars PROVE TypeOK'
  OBVIOUS
<1> USE ConstantsAssumption DEF TypeOK, PushPC, ReqPC, Workers, connVars,
        runVars, pushVars, reqVars
<1>1. ASSUME RunSkipAPI PROVE TypeOK'
  BY <1>1 DEF RunSkipAPI
<1>2. ASSUME RunAPIFails PROVE TypeOK'
  BY <1>2 DEF RunAPIFails
<1>3. ASSUME RunPublish PROVE TypeOK'
  BY <1>3 DEF RunPublish
<1>4. ASSUME RunGivesUp PROVE TypeOK'
  BY <1>4 DEF RunGivesUp
<1>5. ASSUME NEW c \in Conns, RunAPI(c) PROVE TypeOK'
  BY <1>5 DEF RunAPI, ConnectAPI, Dialled
<1>6. ASSUME NEW c \in Conns, RunPush(c) PROVE TypeOK'
  BY <1>6 DEF RunPush, ConnectPush, Dialled
<1>7. ASSUME NEW c \in Conns, ListenSleeps(c) PROVE TypeOK'
  BY <1>7 DEF ListenSleeps, ReadFails
<1>8. ASSUME NEW c \in Conns, ListenEnds(c) PROVE TypeOK'
  BY <1>8 DEF ListenEnds, ReadFails, ListenReturns
<1>9. ASSUME NEW c \in Conns, ListenWakes(c) PROVE TypeOK'
  BY <1>9 DEF ListenWakes, ListenReturns, Spawned
<1>10. ASSUME NEW c \in Conns, DialAPI(c) PROVE TypeOK'
  BY <1>10 DEF DialAPI, ConnectAPI, Dialled
<1>11. ASSUME NEW c \in Conns, LinkBreaks(c) PROVE TypeOK'
  BY <1>11 DEF LinkBreaks
<1>12. ASSUME NEW c \in Conns, Collect(c) PROVE TypeOK'
  BY <1>12 DEF Collect
<1>13. ASSUME NEW p \in Pushers, PushDropped(p) PROVE TypeOK'
  BY <1>13 DEF PushDropped, vars
<1>14. ASSUME NEW p \in Pushers, PushLoad(p) PROVE TypeOK'
  BY <1>14 DEF PushLoad, HasConn
<1>15. ASSUME NEW p \in Pushers, PushLock(p) PROVE TypeOK'
  BY <1>15 DEF PushLock, CanLock
<1>16. ASSUME NEW p \in Pushers, PushDeadline(p) PROVE TypeOK'
  BY <1>16 DEF PushDeadline, Reread
<1>17. ASSUME NEW p \in Pushers, PushBegin(p) PROVE TypeOK'
  BY <1>17 DEF PushBegin, Reread
<1>18. ASSUME NEW p \in Pushers, PushOk(p) PROVE TypeOK'
  BY <1>18 DEF PushOk, Return
<1>19. ASSUME NEW p \in Pushers, PushFails(p) PROVE TypeOK'
  BY <1>19 DEF PushFails, FailedWrite
<1>20. ASSUME NEW p \in Pushers, PushPanics(p) PROVE TypeOK'
  BY <1>20 DEF PushPanics, Return
<1>21. ASSUME NEW p \in Pushers, PushCloses(p) PROVE TypeOK'
  BY <1>21 DEF PushCloses, AfterClose, Reread, Return
<1>22. ASSUME NEW p \in Pushers, NEW c \in Conns, PushDial(p, c) PROVE TypeOK'
  BY <1>22 DEF PushDial, ConnectPush, Dialled
<1>23. ASSUME NEW p \in Pushers, PushPublish(p) PROVE TypeOK'
  BY <1>23 DEF PushPublish, Return
<1>24. ASSUME NEW r \in Requests, CallPanics(r) PROVE TypeOK'
  BY <1>24 DEF CallPanics, Forget
<1>25. ASSUME NEW r \in Requests, AnswerLock(r) PROVE TypeOK'
  BY <1>25 DEF AnswerLock, CanLock
<1>26. ASSUME NEW r \in Requests, AnswerEnds(r) PROVE TypeOK'
  BY <1>26 DEF AnswerEnds, FailedWrite, Forget
<1>27. ASSUME NEW r \in Requests, AnswerPanics(r) PROVE TypeOK'
  BY <1>27 DEF AnswerPanics, Forget
<1>28. ASSUME NEW r \in Requests, NEW c \in Conns, Receive(r, c) PROVE TypeOK'
  BY <1>28 DEF Receive
<1>29. ASSUME UNCHANGED vars PROVE TypeOK'
  BY <1>29 DEF vars
<1> QED
  BY <1>1, <1>2, <1>3, <1>4, <1>5, <1>6, <1>7, <1>8, <1>9, <1>10, <1>11,
     <1>12, <1>13, <1>14, <1>15, <1>16, <1>17, <1>18, <1>19, <1>20, <1>21,
     <1>22, <1>23, <1>24, <1>25, <1>26, <1>27, <1>28, <1>29
  DEF Next, Run, Listen, PushStep, PushEnds, AnswerStep

\* TypeOK holds in every reachable state: no goroutine of the reverse client
\* ever uses a connection that has not been dialled.
THEOREM TypeCorrect == Spec => []TypeOK
<1>1. Init => TypeOK
  BY TypeInit
<1>2. TypeOK /\ [Next]_vars => TypeOK'
  BY TypeStep
<1> QED
  BY <1>1, <1>2, PTL DEF Spec

(***************************************************************************)
(* The mutexes                                                             *)
(***************************************************************************)

\* Every step keeps the owner of each mutex in step with the program counters.
LEMMA LockStep == TypeOK /\ LockOwner /\ [Next]_vars => LockOwner'
<1> SUFFICES ASSUME TypeOK, LockOwner, [Next]_vars PROVE LockOwner'
  OBVIOUS
<1> USE ConstantsAssumption DEF TypeOK, PushPC, ReqPC, Workers, connVars,
        runVars, pushVars, reqVars, LockOwner, Holds, InPush
<1>1. ASSUME RunSkipAPI PROVE LockOwner'
  BY <1>1 DEF RunSkipAPI
<1>2. ASSUME RunAPIFails PROVE LockOwner'
  BY <1>2 DEF RunAPIFails
<1>3. ASSUME RunPublish PROVE LockOwner'
  BY <1>3 DEF RunPublish
<1>4. ASSUME RunGivesUp PROVE LockOwner'
  BY <1>4 DEF RunGivesUp
<1>5. ASSUME NEW c \in Conns, RunAPI(c) PROVE LockOwner'
  BY <1>5 DEF RunAPI, ConnectAPI, Dialled
<1>6. ASSUME NEW c \in Conns, RunPush(c) PROVE LockOwner'
  BY <1>6 DEF RunPush, ConnectPush, Dialled
<1>7. ASSUME NEW c \in Conns, ListenSleeps(c) PROVE LockOwner'
  BY <1>7 DEF ListenSleeps, ReadFails
<1>8. ASSUME NEW c \in Conns, ListenEnds(c) PROVE LockOwner'
  BY <1>8 DEF ListenEnds, ReadFails, ListenReturns
<1>9. ASSUME NEW c \in Conns, ListenWakes(c) PROVE LockOwner'
  BY <1>9 DEF ListenWakes, ListenReturns, Spawned
<1>10. ASSUME NEW c \in Conns, DialAPI(c) PROVE LockOwner'
  BY <1>10 DEF DialAPI, ConnectAPI, Dialled
<1>11. ASSUME NEW c \in Conns, LinkBreaks(c) PROVE LockOwner'
  BY <1>11 DEF LinkBreaks
<1>12. ASSUME NEW c \in Conns, Collect(c) PROVE LockOwner'
  BY <1>12 DEF Collect
<1>13. ASSUME NEW p \in Pushers, PushDropped(p) PROVE LockOwner'
  BY <1>13 DEF PushDropped, vars
<1>14. ASSUME NEW p \in Pushers, PushLoad(p) PROVE LockOwner'
  BY <1>14 DEF PushLoad, HasConn
<1>15. ASSUME NEW p \in Pushers, PushLock(p) PROVE LockOwner'
  BY <1>15 DEF PushLock, CanLock
<1>16. ASSUME NEW p \in Pushers, PushDeadline(p) PROVE LockOwner'
  BY <1>16 DEF PushDeadline, Reread
<1>17. ASSUME NEW p \in Pushers, PushBegin(p) PROVE LockOwner'
  BY <1>17 DEF PushBegin, Reread
<1>18. ASSUME NEW p \in Pushers, PushOk(p) PROVE LockOwner'
  BY <1>18 DEF PushOk, Return
<1>19. ASSUME NEW p \in Pushers, PushFails(p) PROVE LockOwner'
  BY <1>19 DEF PushFails, FailedWrite
<1>20. ASSUME NEW p \in Pushers, PushPanics(p) PROVE LockOwner'
  BY <1>20 DEF PushPanics, Return
<1>21. ASSUME NEW p \in Pushers, PushCloses(p) PROVE LockOwner'
  BY <1>21 DEF PushCloses, AfterClose, Reread, Return
<1>22. ASSUME NEW p \in Pushers, NEW c \in Conns, PushDial(p, c) PROVE LockOwner'
  BY <1>22 DEF PushDial, ConnectPush, Dialled
<1>23. ASSUME NEW p \in Pushers, PushPublish(p) PROVE LockOwner'
  BY <1>23 DEF PushPublish, Return
<1>24. ASSUME NEW r \in Requests, CallPanics(r) PROVE LockOwner'
  BY <1>24 DEF CallPanics, Forget
<1>25. ASSUME NEW r \in Requests, AnswerLock(r) PROVE LockOwner'
  BY <1>25 DEF AnswerLock, CanLock
<1>26. ASSUME NEW r \in Requests, AnswerEnds(r) PROVE LockOwner'
  BY <1>26 DEF AnswerEnds, FailedWrite, Forget
<1>27. ASSUME NEW r \in Requests, AnswerPanics(r) PROVE LockOwner'
  BY <1>27 DEF AnswerPanics, Forget
<1>28. ASSUME NEW r \in Requests, NEW c \in Conns, Receive(r, c) PROVE LockOwner'
  BY <1>28 DEF Receive
<1>29. ASSUME UNCHANGED vars PROVE LockOwner'
  BY <1>29 DEF vars
<1> QED
  BY <1>1, <1>2, <1>3, <1>4, <1>5, <1>6, <1>7, <1>8, <1>9, <1>10, <1>11,
     <1>12, <1>13, <1>14, <1>15, <1>16, <1>17, <1>18, <1>19, <1>20, <1>21,
     <1>22, <1>23, <1>24, <1>25, <1>26, <1>27, <1>28, <1>29
  DEF Next, Run, Listen, PushStep, PushEnds, AnswerStep

(***************************************************************************)
(* The API role and the readers                                            *)
(***************************************************************************)

\* Every step keeps the API role with one goroutine.
LEMMA ApiStep == TypeOK /\ ApiExclusive /\ [Next]_vars => ApiExclusive'
<1> SUFFICES ASSUME TypeOK, ApiExclusive, [Next]_vars PROVE ApiExclusive'
  OBVIOUS
<1> USE ConstantsAssumption DEF TypeOK, PushPC, ReqPC, Workers, connVars,
        runVars, pushVars, reqVars, ApiExclusive, ServesAPI
<1>1. ASSUME RunSkipAPI PROVE ApiExclusive'
  BY <1>1 DEF RunSkipAPI
<1>2. ASSUME RunAPIFails PROVE ApiExclusive'
  BY <1>2 DEF RunAPIFails
<1>3. ASSUME RunPublish PROVE ApiExclusive'
  BY <1>3 DEF RunPublish
<1>4. ASSUME RunGivesUp PROVE ApiExclusive'
  BY <1>4 DEF RunGivesUp
<1>5. ASSUME NEW c \in Conns, RunAPI(c) PROVE ApiExclusive'
  BY <1>5 DEF RunAPI, ConnectAPI, Dialled
<1>6. ASSUME NEW c \in Conns, RunPush(c) PROVE ApiExclusive'
  BY <1>6 DEF RunPush, ConnectPush, Dialled
<1>7. ASSUME NEW c \in Conns, ListenSleeps(c) PROVE ApiExclusive'
  BY <1>7 DEF ListenSleeps, ReadFails
<1>8. ASSUME NEW c \in Conns, ListenEnds(c) PROVE ApiExclusive'
  BY <1>8 DEF ListenEnds, ReadFails, ListenReturns, Spawned
<1>9. ASSUME NEW c \in Conns, ListenWakes(c) PROVE ApiExclusive'
  BY <1>9 DEF ListenWakes, ListenReturns, Spawned
<1>10. ASSUME NEW c \in Conns, DialAPI(c) PROVE ApiExclusive'
  BY <1>10 DEF DialAPI, ConnectAPI, Dialled
<1>11. ASSUME NEW c \in Conns, LinkBreaks(c) PROVE ApiExclusive'
  BY <1>11 DEF LinkBreaks
<1>12. ASSUME NEW c \in Conns, Collect(c) PROVE ApiExclusive'
  BY <1>12 DEF Collect
<1>13. ASSUME NEW p \in Pushers, PushDropped(p) PROVE ApiExclusive'
  BY <1>13 DEF PushDropped, vars
<1>14. ASSUME NEW p \in Pushers, PushLoad(p) PROVE ApiExclusive'
  BY <1>14 DEF PushLoad, HasConn
<1>15. ASSUME NEW p \in Pushers, PushLock(p) PROVE ApiExclusive'
  BY <1>15 DEF PushLock, CanLock
<1>16. ASSUME NEW p \in Pushers, PushDeadline(p) PROVE ApiExclusive'
  BY <1>16 DEF PushDeadline, Reread
<1>17. ASSUME NEW p \in Pushers, PushBegin(p) PROVE ApiExclusive'
  BY <1>17 DEF PushBegin, Reread
<1>18. ASSUME NEW p \in Pushers, PushOk(p) PROVE ApiExclusive'
  BY <1>18 DEF PushOk, Return
<1>19. ASSUME NEW p \in Pushers, PushFails(p) PROVE ApiExclusive'
  BY <1>19 DEF PushFails, FailedWrite
<1>20. ASSUME NEW p \in Pushers, PushPanics(p) PROVE ApiExclusive'
  BY <1>20 DEF PushPanics, Return
<1>21. ASSUME NEW p \in Pushers, PushCloses(p) PROVE ApiExclusive'
  BY <1>21 DEF PushCloses, AfterClose, Reread, Return
<1>22. ASSUME NEW p \in Pushers, NEW c \in Conns, PushDial(p, c) PROVE ApiExclusive'
  BY <1>22 DEF PushDial, ConnectPush, Dialled
<1>23. ASSUME NEW p \in Pushers, PushPublish(p) PROVE ApiExclusive'
  BY <1>23 DEF PushPublish, Return
<1>24. ASSUME NEW r \in Requests, CallPanics(r) PROVE ApiExclusive'
  BY <1>24 DEF CallPanics, Forget
<1>25. ASSUME NEW r \in Requests, AnswerLock(r) PROVE ApiExclusive'
  BY <1>25 DEF AnswerLock, CanLock
<1>26. ASSUME NEW r \in Requests, AnswerEnds(r) PROVE ApiExclusive'
  BY <1>26 DEF AnswerEnds, FailedWrite, Forget
<1>27. ASSUME NEW r \in Requests, AnswerPanics(r) PROVE ApiExclusive'
  BY <1>27 DEF AnswerPanics, Forget
<1>28. ASSUME NEW r \in Requests, NEW c \in Conns, Receive(r, c) PROVE ApiExclusive'
  BY <1>28 DEF Receive
<1>29. ASSUME UNCHANGED vars PROVE ApiExclusive'
  BY <1>29 DEF vars
<1> QED
  BY <1>1, <1>2, <1>3, <1>4, <1>5, <1>6, <1>7, <1>8, <1>9, <1>10, <1>11,
     <1>12, <1>13, <1>14, <1>15, <1>16, <1>17, <1>18, <1>19, <1>20, <1>21,
     <1>22, <1>23, <1>24, <1>25, <1>26, <1>27, <1>28, <1>29
  DEF Next, Run, Listen, PushStep, PushEnds, AnswerStep

\* Every step keeps a reader on each universal connection that works.
LEMMA ReaderStep == TypeOK /\ LiveUniversalIsRead /\ [Next]_vars => LiveUniversalIsRead'
<1> SUFFICES ASSUME TypeOK, LiveUniversalIsRead, [Next]_vars PROVE LiveUniversalIsRead'
  OBVIOUS
<1> USE ConstantsAssumption DEF TypeOK, PushPC, ReqPC, Workers, connVars,
        runVars, pushVars, reqVars, LiveUniversalIsRead, Universal
<1>1. ASSUME RunSkipAPI PROVE LiveUniversalIsRead'
  BY <1>1 DEF RunSkipAPI
<1>2. ASSUME RunAPIFails PROVE LiveUniversalIsRead'
  BY <1>2 DEF RunAPIFails
<1>3. ASSUME RunPublish PROVE LiveUniversalIsRead'
  BY <1>3 DEF RunPublish
<1>4. ASSUME RunGivesUp PROVE LiveUniversalIsRead'
  BY <1>4 DEF RunGivesUp
<1>5. ASSUME NEW c \in Conns, RunAPI(c) PROVE LiveUniversalIsRead'
  BY <1>5 DEF RunAPI, ConnectAPI, Dialled, Universal
<1>6. ASSUME NEW c \in Conns, RunPush(c) PROVE LiveUniversalIsRead'
  BY <1>6 DEF RunPush, ConnectPush, Dialled
<1>7. ASSUME NEW c \in Conns, ListenSleeps(c) PROVE LiveUniversalIsRead'
  BY <1>7 DEF ListenSleeps, ReadFails
<1>8. ASSUME NEW c \in Conns, ListenEnds(c) PROVE LiveUniversalIsRead'
  BY <1>8 DEF ListenEnds, ReadFails, ListenReturns
<1>9. ASSUME NEW c \in Conns, ListenWakes(c) PROVE LiveUniversalIsRead'
  BY <1>9 DEF ListenWakes, ListenReturns, Spawned
<1>10. ASSUME NEW c \in Conns, DialAPI(c) PROVE LiveUniversalIsRead'
  BY <1>10 DEF DialAPI, ConnectAPI, Dialled
<1>11. ASSUME NEW c \in Conns, LinkBreaks(c) PROVE LiveUniversalIsRead'
  BY <1>11 DEF LinkBreaks
<1>12. ASSUME NEW c \in Conns, Collect(c) PROVE LiveUniversalIsRead'
  BY <1>12 DEF Collect
<1>13. ASSUME NEW p \in Pushers, PushDropped(p) PROVE LiveUniversalIsRead'
  BY <1>13 DEF PushDropped, vars
<1>14. ASSUME NEW p \in Pushers, PushLoad(p) PROVE LiveUniversalIsRead'
  BY <1>14 DEF PushLoad, HasConn
<1>15. ASSUME NEW p \in Pushers, PushLock(p) PROVE LiveUniversalIsRead'
  BY <1>15 DEF PushLock, CanLock
<1>16. ASSUME NEW p \in Pushers, PushDeadline(p) PROVE LiveUniversalIsRead'
  BY <1>16 DEF PushDeadline, Reread
<1>17. ASSUME NEW p \in Pushers, PushBegin(p) PROVE LiveUniversalIsRead'
  BY <1>17 DEF PushBegin, Reread
<1>18. ASSUME NEW p \in Pushers, PushOk(p) PROVE LiveUniversalIsRead'
  BY <1>18 DEF PushOk, Return
<1>19. ASSUME NEW p \in Pushers, PushFails(p) PROVE LiveUniversalIsRead'
  BY <1>19 DEF PushFails, FailedWrite
<1>20. ASSUME NEW p \in Pushers, PushPanics(p) PROVE LiveUniversalIsRead'
  BY <1>20 DEF PushPanics, Return
<1>21. ASSUME NEW p \in Pushers, PushCloses(p) PROVE LiveUniversalIsRead'
  BY <1>21 DEF PushCloses, AfterClose, Reread, Return
<1>22. ASSUME NEW p \in Pushers, NEW c \in Conns, PushDial(p, c) PROVE LiveUniversalIsRead'
  BY <1>22 DEF PushDial, ConnectPush, Dialled
<1>23. ASSUME NEW p \in Pushers, PushPublish(p) PROVE LiveUniversalIsRead'
  BY <1>23 DEF PushPublish, Return
<1>24. ASSUME NEW r \in Requests, CallPanics(r) PROVE LiveUniversalIsRead'
  BY <1>24 DEF CallPanics, Forget
<1>25. ASSUME NEW r \in Requests, AnswerLock(r) PROVE LiveUniversalIsRead'
  BY <1>25 DEF AnswerLock, CanLock
<1>26. ASSUME NEW r \in Requests, AnswerEnds(r) PROVE LiveUniversalIsRead'
  BY <1>26 DEF AnswerEnds, FailedWrite, Forget
<1>27. ASSUME NEW r \in Requests, AnswerPanics(r) PROVE LiveUniversalIsRead'
  BY <1>27 DEF AnswerPanics, Forget
<1>28. ASSUME NEW r \in Requests, NEW c \in Conns, Receive(r, c) PROVE LiveUniversalIsRead'
  BY <1>28 DEF Receive
<1>29. ASSUME UNCHANGED vars PROVE LiveUniversalIsRead'
  BY <1>29 DEF vars
<1> QED
  BY <1>1, <1>2, <1>3, <1>4, <1>5, <1>6, <1>7, <1>8, <1>9, <1>10, <1>11,
     <1>12, <1>13, <1>14, <1>15, <1>16, <1>17, <1>18, <1>19, <1>20, <1>21,
     <1>22, <1>23, <1>24, <1>25, <1>26, <1>27, <1>28, <1>29
  DEF Next, Run, Listen, PushStep, PushEnds, AnswerStep

\* Every step keeps the push pointer set once the client serves.
LEMMA NeverDroppedStep == TypeOK /\ NeverDropped /\ [Next]_vars => NeverDropped'
<1> SUFFICES ASSUME TypeOK, NeverDropped, [Next]_vars PROVE NeverDropped'
  OBVIOUS
<1> USE ConstantsAssumption DEF TypeOK, PushPC, ReqPC, Workers, connVars,
        runVars, pushVars, reqVars, NeverDropped, Reconnect, HasPushURL,
        Universal
<1>1. ASSUME RunSkipAPI PROVE NeverDropped'
  BY <1>1 DEF RunSkipAPI
<1>2. ASSUME RunAPIFails PROVE NeverDropped'
  BY <1>2 DEF RunAPIFails
<1>3. ASSUME RunPublish PROVE NeverDropped'
  BY <1>3 DEF RunPublish
<1>4. ASSUME RunGivesUp PROVE NeverDropped'
  BY <1>4 DEF RunGivesUp
<1>5. ASSUME NEW c \in Conns, RunAPI(c) PROVE NeverDropped'
  BY <1>5 DEF RunAPI, ConnectAPI, Dialled
<1>6. ASSUME NEW c \in Conns, RunPush(c) PROVE NeverDropped'
  BY <1>6 DEF RunPush, ConnectPush, Dialled
<1>7. ASSUME NEW c \in Conns, ListenSleeps(c) PROVE NeverDropped'
  BY <1>7 DEF ListenSleeps, ReadFails
<1>8. ASSUME NEW c \in Conns, ListenEnds(c) PROVE NeverDropped'
  BY <1>8 DEF ListenEnds, ReadFails, ListenReturns
<1>9. ASSUME NEW c \in Conns, ListenWakes(c) PROVE NeverDropped'
  BY <1>9 DEF ListenWakes, ListenReturns, Spawned
<1>10. ASSUME NEW c \in Conns, DialAPI(c) PROVE NeverDropped'
  BY <1>10 DEF DialAPI, ConnectAPI, Dialled
<1>11. ASSUME NEW c \in Conns, LinkBreaks(c) PROVE NeverDropped'
  BY <1>11 DEF LinkBreaks
<1>12. ASSUME NEW c \in Conns, Collect(c) PROVE NeverDropped'
  BY <1>12 DEF Collect
<1>13. ASSUME NEW p \in Pushers, PushDropped(p) PROVE NeverDropped'
  BY <1>13 DEF PushDropped, vars
<1>14. ASSUME NEW p \in Pushers, PushLoad(p) PROVE NeverDropped'
  BY <1>14 DEF PushLoad, HasConn
<1>15. ASSUME NEW p \in Pushers, PushLock(p) PROVE NeverDropped'
  BY <1>15 DEF PushLock, CanLock
<1>16. ASSUME NEW p \in Pushers, PushDeadline(p) PROVE NeverDropped'
  BY <1>16 DEF PushDeadline, Reread
<1>17. ASSUME NEW p \in Pushers, PushBegin(p) PROVE NeverDropped'
  BY <1>17 DEF PushBegin, Reread
<1>18. ASSUME NEW p \in Pushers, PushOk(p) PROVE NeverDropped'
  BY <1>18 DEF PushOk, Return
<1>19. ASSUME NEW p \in Pushers, PushFails(p) PROVE NeverDropped'
  BY <1>19 DEF PushFails, FailedWrite
<1>20. ASSUME NEW p \in Pushers, PushPanics(p) PROVE NeverDropped'
  BY <1>20 DEF PushPanics, Return
<1>21. ASSUME NEW p \in Pushers, PushCloses(p) PROVE NeverDropped'
  BY <1>21 DEF PushCloses, AfterClose, Reread, Return
<1>22. ASSUME NEW p \in Pushers, NEW c \in Conns, PushDial(p, c) PROVE NeverDropped'
  BY <1>22 DEF PushDial, ConnectPush, Dialled
<1>23. ASSUME NEW p \in Pushers, PushPublish(p) PROVE NeverDropped'
  BY <1>23 DEF PushPublish, Return
<1>24. ASSUME NEW r \in Requests, CallPanics(r) PROVE NeverDropped'
  BY <1>24 DEF CallPanics, Forget
<1>25. ASSUME NEW r \in Requests, AnswerLock(r) PROVE NeverDropped'
  BY <1>25 DEF AnswerLock, CanLock
<1>26. ASSUME NEW r \in Requests, AnswerEnds(r) PROVE NeverDropped'
  BY <1>26 DEF AnswerEnds, FailedWrite, Forget
<1>27. ASSUME NEW r \in Requests, AnswerPanics(r) PROVE NeverDropped'
  BY <1>27 DEF AnswerPanics, Forget
<1>28. ASSUME NEW r \in Requests, NEW c \in Conns, Receive(r, c) PROVE NeverDropped'
  BY <1>28 DEF Receive
<1>29. ASSUME UNCHANGED vars PROVE NeverDropped'
  BY <1>29 DEF vars
<1> QED
  BY <1>1, <1>2, <1>3, <1>4, <1>5, <1>6, <1>7, <1>8, <1>9, <1>10, <1>11,
     <1>12, <1>13, <1>14, <1>15, <1>16, <1>17, <1>18, <1>19, <1>20, <1>21,
     <1>22, <1>23, <1>24, <1>25, <1>26, <1>27, <1>28, <1>29
  DEF Next, Run, Listen, PushStep, PushEnds, AnswerStep

(***************************************************************************)
(* Roles and unpublished connections                                       *)
(***************************************************************************)

\* Every step keeps what role the connections in use have.
LEMMA RolesStep == TypeOK /\ RolesOK /\ [Next]_vars => RolesOK'
<1> SUFFICES ASSUME TypeOK, RolesOK, [Next]_vars PROVE RolesOK'
  OBVIOUS
<1> USE ConstantsAssumption DEF TypeOK, PushPC, ReqPC, Workers, connVars,
        runVars, pushVars, reqVars, RolesOK, Referenced
<1>1. ASSUME RunSkipAPI PROVE RolesOK'
  BY <1>1 DEF RunSkipAPI
<1>2. ASSUME RunAPIFails PROVE RolesOK'
  BY <1>2 DEF RunAPIFails
<1>3. ASSUME RunPublish PROVE RolesOK'
  BY <1>3 DEF RunPublish
<1>4. ASSUME RunGivesUp PROVE RolesOK'
  BY <1>4 DEF RunGivesUp
<1>5. ASSUME NEW c \in Conns, RunAPI(c) PROVE RolesOK'
  BY <1>5 DEF RunAPI, ConnectAPI, Dialled
<1>6. ASSUME NEW c \in Conns, RunPush(c) PROVE RolesOK'
  BY <1>6 DEF RunPush, ConnectPush, Dialled
<1>7. ASSUME NEW c \in Conns, ListenSleeps(c) PROVE RolesOK'
  BY <1>7 DEF ListenSleeps, ReadFails
<1>8. ASSUME NEW c \in Conns, ListenEnds(c) PROVE RolesOK'
  BY <1>8 DEF ListenEnds, ReadFails, ListenReturns
<1>9. ASSUME NEW c \in Conns, ListenWakes(c) PROVE RolesOK'
  BY <1>9 DEF ListenWakes, ListenReturns, Spawned
<1>10. ASSUME NEW c \in Conns, DialAPI(c) PROVE RolesOK'
  BY <1>10 DEF DialAPI, ConnectAPI, Dialled
<1>11. ASSUME NEW c \in Conns, LinkBreaks(c) PROVE RolesOK'
  BY <1>11 DEF LinkBreaks
<1>12. ASSUME NEW c \in Conns, Collect(c) PROVE RolesOK'
  BY <1>12 DEF Collect
<1>13. ASSUME NEW p \in Pushers, PushDropped(p) PROVE RolesOK'
  BY <1>13 DEF PushDropped, vars
<1>14. ASSUME NEW p \in Pushers, PushLoad(p) PROVE RolesOK'
  BY <1>14 DEF PushLoad, HasConn
<1>15. ASSUME NEW p \in Pushers, PushLock(p) PROVE RolesOK'
  BY <1>15 DEF PushLock, CanLock
<1>16. ASSUME NEW p \in Pushers, PushDeadline(p) PROVE RolesOK'
  BY <1>16 DEF PushDeadline, Reread
<1>17. ASSUME NEW p \in Pushers, PushBegin(p) PROVE RolesOK'
  BY <1>17 DEF PushBegin, Reread
<1>18. ASSUME NEW p \in Pushers, PushOk(p) PROVE RolesOK'
  BY <1>18 DEF PushOk, Return
<1>19. ASSUME NEW p \in Pushers, PushFails(p) PROVE RolesOK'
  BY <1>19 DEF PushFails, FailedWrite
<1>20. ASSUME NEW p \in Pushers, PushPanics(p) PROVE RolesOK'
  BY <1>20 DEF PushPanics, Return
<1>21. ASSUME NEW p \in Pushers, PushCloses(p) PROVE RolesOK'
  BY <1>21 DEF PushCloses, AfterClose, Reread, Return
<1>22. ASSUME NEW p \in Pushers, NEW c \in Conns, PushDial(p, c) PROVE RolesOK'
  BY <1>22 DEF PushDial, ConnectPush, Dialled
<1>23. ASSUME NEW p \in Pushers, PushPublish(p) PROVE RolesOK'
  BY <1>23 DEF PushPublish, Return
<1>24. ASSUME NEW r \in Requests, CallPanics(r) PROVE RolesOK'
  BY <1>24 DEF CallPanics, Forget
<1>25. ASSUME NEW r \in Requests, AnswerLock(r) PROVE RolesOK'
  BY <1>25 DEF AnswerLock, CanLock
<1>26. ASSUME NEW r \in Requests, AnswerEnds(r) PROVE RolesOK'
  BY <1>26 DEF AnswerEnds, FailedWrite, Forget
<1>27. ASSUME NEW r \in Requests, AnswerPanics(r) PROVE RolesOK'
  BY <1>27 DEF AnswerPanics, Forget
<1>28. ASSUME NEW r \in Requests, NEW c \in Conns, Receive(r, c) PROVE RolesOK'
  BY <1>28 DEF Receive
<1>29. ASSUME UNCHANGED vars PROVE RolesOK'
  BY <1>29 DEF vars
<1> QED
  BY <1>1, <1>2, <1>3, <1>4, <1>5, <1>6, <1>7, <1>8, <1>9, <1>10, <1>11,
     <1>12, <1>13, <1>14, <1>15, <1>16, <1>17, <1>18, <1>19, <1>20, <1>21,
     <1>22, <1>23, <1>24, <1>25, <1>26, <1>27, <1>28, <1>29
  DEF Next, Run, Listen, PushStep, PushEnds, AnswerStep

\* Every step keeps a dialled connection private until it is stored.
LEMMA FreshStep == TypeOK /\ RolesOK /\ FreshOK /\ [Next]_vars => FreshOK'
<1> SUFFICES ASSUME TypeOK, RolesOK, FreshOK, [Next]_vars PROVE FreshOK'
  OBVIOUS
<1> USE ConstantsAssumption DEF TypeOK, PushPC, ReqPC, Workers, connVars,
        runVars, pushVars, reqVars, FreshOK, RolesOK
<1>1. ASSUME RunSkipAPI PROVE FreshOK'
  BY <1>1 DEF RunSkipAPI
<1>2. ASSUME RunAPIFails PROVE FreshOK'
  BY <1>2 DEF RunAPIFails
<1>3. ASSUME RunPublish PROVE FreshOK'
  BY <1>3 DEF RunPublish
<1>4. ASSUME RunGivesUp PROVE FreshOK'
  BY <1>4 DEF RunGivesUp
<1>5. ASSUME NEW c \in Conns, RunAPI(c) PROVE FreshOK'
  BY <1>5 DEF RunAPI, ConnectAPI, Dialled
<1>6. ASSUME NEW c \in Conns, RunPush(c) PROVE FreshOK'
  BY <1>6 DEF RunPush, ConnectPush, Dialled
<1>7. ASSUME NEW c \in Conns, ListenSleeps(c) PROVE FreshOK'
  BY <1>7 DEF ListenSleeps, ReadFails
<1>8. ASSUME NEW c \in Conns, ListenEnds(c) PROVE FreshOK'
  BY <1>8 DEF ListenEnds, ReadFails, ListenReturns
<1>9. ASSUME NEW c \in Conns, ListenWakes(c) PROVE FreshOK'
  BY <1>9 DEF ListenWakes, ListenReturns, Spawned
<1>10. ASSUME NEW c \in Conns, DialAPI(c) PROVE FreshOK'
  BY <1>10 DEF DialAPI, ConnectAPI, Dialled
<1>11. ASSUME NEW c \in Conns, LinkBreaks(c) PROVE FreshOK'
  BY <1>11 DEF LinkBreaks
<1>12. ASSUME NEW c \in Conns, Collect(c) PROVE FreshOK'
  BY <1>12 DEF Collect
<1>13. ASSUME NEW p \in Pushers, PushDropped(p) PROVE FreshOK'
  BY <1>13 DEF PushDropped, vars
<1>14. ASSUME NEW p \in Pushers, PushLoad(p) PROVE FreshOK'
  BY <1>14 DEF PushLoad, HasConn
<1>15. ASSUME NEW p \in Pushers, PushLock(p) PROVE FreshOK'
  BY <1>15 DEF PushLock, CanLock
<1>16. ASSUME NEW p \in Pushers, PushDeadline(p) PROVE FreshOK'
  BY <1>16 DEF PushDeadline, Reread
<1>17. ASSUME NEW p \in Pushers, PushBegin(p) PROVE FreshOK'
  BY <1>17 DEF PushBegin, Reread
<1>18. ASSUME NEW p \in Pushers, PushOk(p) PROVE FreshOK'
  BY <1>18 DEF PushOk, Return
<1>19. ASSUME NEW p \in Pushers, PushFails(p) PROVE FreshOK'
  BY <1>19 DEF PushFails, FailedWrite
<1>20. ASSUME NEW p \in Pushers, PushPanics(p) PROVE FreshOK'
  BY <1>20 DEF PushPanics, Return
<1>21. ASSUME NEW p \in Pushers, PushCloses(p) PROVE FreshOK'
  BY <1>21 DEF PushCloses, AfterClose, Reread, Return
<1>22. ASSUME NEW p \in Pushers, NEW c \in Conns, PushDial(p, c) PROVE FreshOK'
  BY <1>22 DEF PushDial, ConnectPush, Dialled
<1>23. ASSUME NEW p \in Pushers, PushPublish(p) PROVE FreshOK'
  BY <1>23 DEF PushPublish, Return
<1>24. ASSUME NEW r \in Requests, CallPanics(r) PROVE FreshOK'
  BY <1>24 DEF CallPanics, Forget
<1>25. ASSUME NEW r \in Requests, AnswerLock(r) PROVE FreshOK'
  BY <1>25 DEF AnswerLock, CanLock
<1>26. ASSUME NEW r \in Requests, AnswerEnds(r) PROVE FreshOK'
  BY <1>26 DEF AnswerEnds, FailedWrite, Forget
<1>27. ASSUME NEW r \in Requests, AnswerPanics(r) PROVE FreshOK'
  BY <1>27 DEF AnswerPanics, Forget
<1>28. ASSUME NEW r \in Requests, NEW c \in Conns, Receive(r, c) PROVE FreshOK'
  BY <1>28 DEF Receive
<1>29. ASSUME UNCHANGED vars PROVE FreshOK'
  BY <1>29 DEF vars
<1> QED
  BY <1>1, <1>2, <1>3, <1>4, <1>5, <1>6, <1>7, <1>8, <1>9, <1>10, <1>11,
     <1>12, <1>13, <1>14, <1>15, <1>16, <1>17, <1>18, <1>19, <1>20, <1>21,
     <1>22, <1>23, <1>24, <1>25, <1>26, <1>27, <1>28, <1>29
  DEF Next, Run, Listen, PushStep, PushEnds, AnswerStep

\* Every step keeps the API connections free of deadlines.
LEMMA DeadlineStep == TypeOK /\ RolesOK /\ ApiNeverTimesOut /\ [Next]_vars => ApiNeverTimesOut'
<1> SUFFICES ASSUME TypeOK, RolesOK, ApiNeverTimesOut, [Next]_vars PROVE ApiNeverTimesOut'
  OBVIOUS
<1> USE ConstantsAssumption DEF TypeOK, PushPC, ReqPC, Workers, connVars,
        runVars, pushVars, reqVars, ApiNeverTimesOut, RolesOK
<1>1. ASSUME RunSkipAPI PROVE ApiNeverTimesOut'
  BY <1>1 DEF RunSkipAPI
<1>2. ASSUME RunAPIFails PROVE ApiNeverTimesOut'
  BY <1>2 DEF RunAPIFails
<1>3. ASSUME RunPublish PROVE ApiNeverTimesOut'
  BY <1>3 DEF RunPublish
<1>4. ASSUME RunGivesUp PROVE ApiNeverTimesOut'
  BY <1>4 DEF RunGivesUp
<1>5. ASSUME NEW c \in Conns, RunAPI(c) PROVE ApiNeverTimesOut'
  BY <1>5 DEF RunAPI, ConnectAPI, Dialled
<1>6. ASSUME NEW c \in Conns, RunPush(c) PROVE ApiNeverTimesOut'
  BY <1>6 DEF RunPush, ConnectPush, Dialled
<1>7. ASSUME NEW c \in Conns, ListenSleeps(c) PROVE ApiNeverTimesOut'
  BY <1>7 DEF ListenSleeps, ReadFails
<1>8. ASSUME NEW c \in Conns, ListenEnds(c) PROVE ApiNeverTimesOut'
  BY <1>8 DEF ListenEnds, ReadFails, ListenReturns
<1>9. ASSUME NEW c \in Conns, ListenWakes(c) PROVE ApiNeverTimesOut'
  BY <1>9 DEF ListenWakes, ListenReturns, Spawned
<1>10. ASSUME NEW c \in Conns, DialAPI(c) PROVE ApiNeverTimesOut'
  BY <1>10 DEF DialAPI, ConnectAPI, Dialled
<1>11. ASSUME NEW c \in Conns, LinkBreaks(c) PROVE ApiNeverTimesOut'
  BY <1>11 DEF LinkBreaks
<1>12. ASSUME NEW c \in Conns, Collect(c) PROVE ApiNeverTimesOut'
  BY <1>12 DEF Collect
<1>13. ASSUME NEW p \in Pushers, PushDropped(p) PROVE ApiNeverTimesOut'
  BY <1>13 DEF PushDropped, vars
<1>14. ASSUME NEW p \in Pushers, PushLoad(p) PROVE ApiNeverTimesOut'
  BY <1>14 DEF PushLoad, HasConn
<1>15. ASSUME NEW p \in Pushers, PushLock(p) PROVE ApiNeverTimesOut'
  BY <1>15 DEF PushLock, CanLock
<1>16. ASSUME NEW p \in Pushers, PushDeadline(p) PROVE ApiNeverTimesOut'
  BY <1>16 DEF PushDeadline, Reread
<1>17. ASSUME NEW p \in Pushers, PushBegin(p) PROVE ApiNeverTimesOut'
  BY <1>17 DEF PushBegin, Reread
<1>18. ASSUME NEW p \in Pushers, PushOk(p) PROVE ApiNeverTimesOut'
  BY <1>18 DEF PushOk, Return
<1>19. ASSUME NEW p \in Pushers, PushFails(p) PROVE ApiNeverTimesOut'
  BY <1>19 DEF PushFails, FailedWrite, CanFail
<1>20. ASSUME NEW p \in Pushers, PushPanics(p) PROVE ApiNeverTimesOut'
  BY <1>20 DEF PushPanics, Return
<1>21. ASSUME NEW p \in Pushers, PushCloses(p) PROVE ApiNeverTimesOut'
  BY <1>21 DEF PushCloses, AfterClose, Reread, Return
<1>22. ASSUME NEW p \in Pushers, NEW c \in Conns, PushDial(p, c) PROVE ApiNeverTimesOut'
  BY <1>22 DEF PushDial, ConnectPush, Dialled
<1>23. ASSUME NEW p \in Pushers, PushPublish(p) PROVE ApiNeverTimesOut'
  BY <1>23 DEF PushPublish, Return
<1>24. ASSUME NEW r \in Requests, CallPanics(r) PROVE ApiNeverTimesOut'
  BY <1>24 DEF CallPanics, Forget
<1>25. ASSUME NEW r \in Requests, AnswerLock(r) PROVE ApiNeverTimesOut'
  BY <1>25 DEF AnswerLock, CanLock
<1>26. ASSUME NEW r \in Requests, AnswerEnds(r) PROVE ApiNeverTimesOut'
  BY <1>26 DEF AnswerEnds, FailedWrite, Forget, CanFail
<1>27. ASSUME NEW r \in Requests, AnswerPanics(r) PROVE ApiNeverTimesOut'
  BY <1>27 DEF AnswerPanics, Forget
<1>28. ASSUME NEW r \in Requests, NEW c \in Conns, Receive(r, c) PROVE ApiNeverTimesOut'
  BY <1>28 DEF Receive
<1>29. ASSUME UNCHANGED vars PROVE ApiNeverTimesOut'
  BY <1>29 DEF vars
<1> QED
  BY <1>1, <1>2, <1>3, <1>4, <1>5, <1>6, <1>7, <1>8, <1>9, <1>10, <1>11,
     <1>12, <1>13, <1>14, <1>15, <1>16, <1>17, <1>18, <1>19, <1>20, <1>21,
     <1>22, <1>23, <1>24, <1>25, <1>26, <1>27, <1>28, <1>29
  DEF Next, Run, Listen, PushStep, PushEnds, AnswerStep

(***************************************************************************)
(* The inductive invariant and the safety theorems                         *)
(***************************************************************************)

\* The conjunction of what the lemmas above preserve.
IInv ==
    /\ TypeOK
    /\ LockOwner
    /\ ApiExclusive
    /\ LiveUniversalIsRead
    /\ NeverDropped
    /\ RolesOK
    /\ FreshOK
    /\ ApiNeverTimesOut

\* IInv holds when the client starts.
LEMMA InvInit == Init => IInv
<1> SUFFICES ASSUME Init PROVE IInv
  OBVIOUS
<1>1. TypeOK
  BY TypeInit
<1>2. LockOwner
  BY ConstantsAssumption DEF Init, LockOwner, Holds, Workers, InPush
<1>3. ApiExclusive /\ LiveUniversalIsRead /\ NeverDropped
  BY DEF Init, ApiExclusive, ServesAPI, LiveUniversalIsRead, NeverDropped
<1>4. RolesOK /\ FreshOK /\ ApiNeverTimesOut
  BY ConstantsAssumption DEF Init, RolesOK, FreshOK, ApiNeverTimesOut
<1> QED
  BY <1>1, <1>2, <1>3, <1>4 DEF IInv

\* IInv is inductive.
LEMMA InvStep == IInv /\ [Next]_vars => IInv'
  BY TypeStep, LockStep, ApiStep, ReaderStep, NeverDroppedStep, RolesStep,
     FreshStep, DeadlineStep DEF IInv

\* IInv holds in every reachable state.
LEMMA Invariance == Spec => []IInv
<1>1. Init => IInv
  BY InvInit
<1>2. IInv /\ [Next]_vars => IInv'
  BY InvStep
<1> QED
  BY <1>1, <1>2, PTL DEF Spec

\* A connection's mutex is held by a goroutine exactly while that goroutine is
\* between its Lock and its Unlock.
THEOREM LocksNeverLeak == Spec => []LockOwner
<1>1. IInv => LockOwner
  BY DEF IInv
<1> QED
  BY <1>1, Invariance, PTL

\* Overlapping writes on one connection involve a push that holds the mutex of
\* another one, so without a reconnection they do not happen.
THEOREM OverlapsExplained == Spec => []OverlapNeedsStaleLock
<1>1. IInv => OverlapNeedsStaleLock
  <2> SUFFICES ASSUME IInv, NEW c \in Conns, NEW v \in Workers,
                      NEW w \in Workers, v # w, Writes(v, c), Writes(w, c),
                      ~ \E p \in {v, w} \cap Pushers : mine[p] # c
               PROVE FALSE
    BY DEF OverlapNeedsStaleLock
  <2>1. Holds(v, c)
    BY DEF Writes, Holds, InPush
  <2>2. Holds(w, c)
    BY DEF Writes, Holds, InPush
  <2>3. lock[c] = v /\ lock[c] = w
    BY <2>1, <2>2 DEF IInv, LockOwner
  <2> QED
    BY <2>3
<1> QED
  BY <1>1, Invariance, PTL

\* One goroutine at a time has the API role.
THEOREM ApiSafety == Spec => []ApiExclusive
<1>1. IInv => ApiExclusive
  BY DEF IInv
<1> QED
  BY <1>1, Invariance, PTL

\* A universal connection that works is read.
THEOREM ReaderSafety == Spec => []LiveUniversalIsRead
<1>1. IInv => LiveUniversalIsRead
  BY DEF IInv
<1> QED
  BY <1>1, Invariance, PTL

\* Write deadlines never break an API connection.
THEOREM DeadlineSafety == Spec => []ApiNeverTimesOut
<1>1. IInv => ApiNeverTimesOut
  BY DEF IInv
<1> QED
  BY <1>1, Invariance, PTL

\* No event is dropped for want of a connection when reconnecting is enabled.
THEOREM NothingDropped == Spec => []NeverDropped
<1>1. IInv => NeverDropped
  BY DEF IInv
<1> QED
  BY <1>1, Invariance, PTL

\* The push pointer only ever moves to a connection nobody has used yet.
THEOREM PointerMovesForward == Spec => PtrMovesForward
<1> DEFINE Forward == ptr' # ptr =>
                        /\ ptr' \in Conns
                        /\ ptr' \notin timed
                        /\ \A p \in Pushers : mine[p] # ptr' /\ target[p] # ptr'
<1>1. IInv /\ [Next]_vars => Forward
  <2> SUFFICES ASSUME IInv, [Next]_vars PROVE Forward
    OBVIOUS
  <2> USE DEF IInv, TypeOK, FreshOK, connVars, runVars, pushVars, reqVars
  <2>1. ASSUME RunSkipAPI PROVE Forward
    BY <2>1 DEF RunSkipAPI
  <2>2. ASSUME RunAPIFails PROVE Forward
    BY <2>2 DEF RunAPIFails
  <2>3. ASSUME RunPublish PROVE Forward
    BY <2>3 DEF RunPublish
  <2>4. ASSUME RunGivesUp PROVE Forward
    BY <2>4 DEF RunGivesUp
  <2>5. ASSUME NEW c \in Conns, RunAPI(c) PROVE Forward
    BY <2>5 DEF RunAPI, ConnectAPI, Dialled
  <2>6. ASSUME NEW c \in Conns, RunPush(c) PROVE Forward
    BY <2>6 DEF RunPush, ConnectPush, Dialled
  <2>7. ASSUME NEW c \in Conns, ListenSleeps(c) PROVE Forward
    BY <2>7 DEF ListenSleeps, ReadFails
  <2>8. ASSUME NEW c \in Conns, ListenEnds(c) PROVE Forward
    BY <2>8 DEF ListenEnds, ReadFails, ListenReturns
  <2>9. ASSUME NEW c \in Conns, ListenWakes(c) PROVE Forward
    BY <2>9 DEF ListenWakes, ListenReturns, Spawned
  <2>10. ASSUME NEW c \in Conns, DialAPI(c) PROVE Forward
    BY <2>10 DEF DialAPI, ConnectAPI, Dialled
  <2>11. ASSUME NEW c \in Conns, LinkBreaks(c) PROVE Forward
    BY <2>11 DEF LinkBreaks
  <2>12. ASSUME NEW c \in Conns, Collect(c) PROVE Forward
    BY <2>12 DEF Collect
  <2>13. ASSUME NEW p \in Pushers, PushDropped(p) PROVE Forward
    BY <2>13 DEF PushDropped, vars
  <2>14. ASSUME NEW p \in Pushers, PushLoad(p) PROVE Forward
    BY <2>14 DEF PushLoad, HasConn
  <2>15. ASSUME NEW p \in Pushers, PushLock(p) PROVE Forward
    BY <2>15 DEF PushLock, CanLock
  <2>16. ASSUME NEW p \in Pushers, PushDeadline(p) PROVE Forward
    BY <2>16 DEF PushDeadline, Reread
  <2>17. ASSUME NEW p \in Pushers, PushBegin(p) PROVE Forward
    BY <2>17 DEF PushBegin, Reread
  <2>18. ASSUME NEW p \in Pushers, PushOk(p) PROVE Forward
    BY <2>18 DEF PushOk, Return
  <2>19. ASSUME NEW p \in Pushers, PushFails(p) PROVE Forward
    BY <2>19 DEF PushFails, FailedWrite
  <2>20. ASSUME NEW p \in Pushers, PushPanics(p) PROVE Forward
    BY <2>20 DEF PushPanics, Return
  <2>21. ASSUME NEW p \in Pushers, PushCloses(p) PROVE Forward
    BY <2>21 DEF PushCloses, AfterClose, Reread, Return
  <2>22. ASSUME NEW p \in Pushers, NEW c \in Conns, PushDial(p, c) PROVE Forward
    BY <2>22 DEF PushDial, ConnectPush, Dialled
  <2>23. ASSUME NEW p \in Pushers, PushPublish(p) PROVE Forward
    BY <2>23 DEF PushPublish, Return
  <2>24. ASSUME NEW r \in Requests, CallPanics(r) PROVE Forward
    BY <2>24 DEF CallPanics, Forget
  <2>25. ASSUME NEW r \in Requests, AnswerLock(r) PROVE Forward
    BY <2>25 DEF AnswerLock, CanLock
  <2>26. ASSUME NEW r \in Requests, AnswerEnds(r) PROVE Forward
    BY <2>26 DEF AnswerEnds, FailedWrite, Forget
  <2>27. ASSUME NEW r \in Requests, AnswerPanics(r) PROVE Forward
    BY <2>27 DEF AnswerPanics, Forget
  <2>28. ASSUME NEW r \in Requests, NEW c \in Conns, Receive(r, c) PROVE Forward
    BY <2>28 DEF Receive
  <2>29. ASSUME UNCHANGED vars PROVE Forward
    BY <2>29 DEF vars
  <2> QED
    BY <2>1, <2>2, <2>3, <2>4, <2>5, <2>6, <2>7, <2>8, <2>9, <2>10, <2>11,
       <2>12, <2>13, <2>14, <2>15, <2>16, <2>17, <2>18, <2>19, <2>20, <2>21,
       <2>22, <2>23, <2>24, <2>25, <2>26, <2>27, <2>28, <2>29
    DEF Next, Run, Listen, PushStep, PushEnds, AnswerStep
<1>2. IInv /\ [Next]_vars => [Forward]_vars
  BY <1>1
<1> QED
  BY <1>2, Invariance, PTL DEF Spec, PtrMovesForward

(***************************************************************************)
(* No connection is left behind while pushes do not overlap                *)
(***************************************************************************)

\* At most one event is being pushed at a time.
NoOverlap == \A p, q \in Pushers : ppc[p] # "idle" /\ ppc[q] # "idle" => p = q

\* Every push connection that is open is the one in use, or is known to who has
\* dialled it; who is to replace the one in use has closed it.
OrphanOK ==
    /\ \A c \in Conns : role[c] = "push" /\ c \in open =>
          c \in {ptr, runConn} \cup {fresh[p] : p \in Pushers}
    /\ run # "publish" => runConn = NoConn
    /\ run # "serving" => ptr = NoConn /\ \A p \in Pushers : ppc[p] = "idle"
    /\ \A p \in Pushers :
          /\ ppc[p] # "publish" => fresh[p] = NoConn
          /\ ppc[p] \in {"dial", "publish"} => ptr \notin open

LEMMA OrphanInit == Init => OrphanOK
BY DEF Init, OrphanOK

\* A replacement closes the connection it replaces before it dials, and nobody
\* else stores one meanwhile.
LEMMA OrphanStep == IInv /\ NoOverlap /\ OrphanOK /\ [Next]_vars => OrphanOK'
<1> SUFFICES ASSUME IInv, NoOverlap, OrphanOK, [Next]_vars PROVE OrphanOK'
  OBVIOUS
<1> USE ConstantsAssumption DEF IInv, TypeOK, RolesOK, OrphanOK, connVars, runVars,
        pushVars, reqVars
<1>1. ASSUME RunSkipAPI \/ RunAPIFails \/ RunGivesUp PROVE OrphanOK'
  BY <1>1 DEF RunSkipAPI, RunAPIFails, RunGivesUp
<1>2. ASSUME NEW c \in Conns, RunAPI(c) \/ DialAPI(c) PROVE OrphanOK'
  BY <1>2 DEF RunAPI, DialAPI, ConnectAPI, Dialled
<1>3. ASSUME NEW c \in Conns, RunPush(c) PROVE OrphanOK'
  BY <1>3 DEF RunPush, ConnectPush, Dialled
<1>4. ASSUME RunPublish PROVE OrphanOK'
  BY <1>4 DEF RunPublish
<1>5. ASSUME NEW c \in Conns, Listen(c) \/ LinkBreaks(c) PROVE OrphanOK'
  BY <1>5 DEF Listen, ListenSleeps, ListenEnds, ListenWakes, ListenReturns, LinkBreaks
<1>6. ASSUME NEW c \in Conns, Collect(c) PROVE OrphanOK'
  BY <1>6 DEF Collect
<1>7. ASSUME NEW p \in Pushers,
             PushDropped(p) \/ PushLoad(p) \/ PushLock(p) \/ PushDeadline(p)
             \/ PushBegin(p) \/ PushFails(p)
      PROVE  OrphanOK'
  BY <1>7 DEF PushDropped, PushLoad, PushLock, PushDeadline, PushBegin, PushFails, vars
<1>8. ASSUME NEW p \in Pushers, PushOk(p) \/ PushPanics(p) PROVE OrphanOK'
  BY <1>8 DEF PushOk, PushPanics, Return
<1>9. ASSUME NEW p \in Pushers, PushCloses(p) PROVE OrphanOK'
  BY <1>9 DEF PushCloses, AfterClose, Reread, Return
<1>10. ASSUME NEW p \in Pushers, NEW c \in Conns, PushDial(p, c) PROVE OrphanOK'
  <2>1. /\ ppc[p] = "dial" /\ ppc' = [ppc EXCEPT ![p] = "publish"]
        /\ fresh' = [fresh EXCEPT ![p] = c] /\ open' = open \cup {c}
        /\ role[c] = "none" /\ role' = [role EXCEPT ![c] = "push"]
        /\ UNCHANGED <<ptr, run, runConn>>
    BY <1>10 DEF PushDial, ConnectPush, Dialled
  <2>2. ptr \notin open' /\ run = "serving"
    BY <2>1
  <2> QED  BY <2>1, <2>2
<1>11. ASSUME NEW p \in Pushers, PushPublish(p) PROVE OrphanOK'
  <2>1. /\ ppc[p] = "publish" /\ ppc' = [ppc EXCEPT ![p] = "idle"]
        /\ fresh' = [fresh EXCEPT ![p] = NoConn] /\ ptr' = fresh[p]
        /\ ptr \notin open /\ run = "serving"
        /\ UNCHANGED <<role, open, run, runConn>>
    BY <1>11 DEF PushPublish, Return
  <2>2. \A q \in Pushers : ppc'[q] = "idle"
    BY <2>1 DEF NoOverlap
  <2> QED  BY <2>1, <2>2
<1>12. ASSUME NEW r \in Requests, AnswerStep(r) PROVE OrphanOK'
  BY <1>12 DEF AnswerStep, CallPanics, AnswerLock, AnswerEnds, AnswerPanics, Forget
<1>13. ASSUME NEW r \in Requests, NEW c \in Conns, Receive(r, c) PROVE OrphanOK'
  BY <1>13 DEF Receive
<1>14. CASE UNCHANGED vars
  BY <1>14 DEF vars
<1> QED  BY <1>1, <1>2, <1>3, <1>4, <1>5, <1>6, <1>7, <1>8, <1>9, <1>10, <1>11,
            <1>12, <1>13, <1>14 DEF Next, Run, PushStep, PushEnds

\* While pushes do not overlap, every push connection still open is the one
\* events go to, or is about to be, however often the link is lost.
THEOREM NothingIsOrphaned == Spec /\ []NoOverlap => []NoOrphan
<1>1. OrphanOK => NoOrphan
  BY DEF OrphanOK, NoOrphan
<1> QED  BY <1>1, OrphanInit, OrphanStep, Invariance, PTL DEF Spec
=============================================================================
