------------------------- MODULE PttService_proofs --------------------------
(***************************************************************************)
(* Proofs about PttService: type correctness, that a handler which has     *)
(* ended leaves key, report, controller and microphone on one side, and    *)
(* that a stop no handler overlaps silences the service, for any queue.    *)
(***************************************************************************)
EXTENDS PttService, TLAPS

On == event \in {"press", "hold"}

(* What the reader has done so far in a handler that nothing disturbs.     *)
Progress ==
  /\ rpc \in Idle => /\ keys = (IF On THEN {Ptt} ELSE {})
                      /\ (pressed <=> On)
                      /\ (muted <=> ~On)
  /\ rpc \in Handling => event # "none"
  /\ rpc \in {"sendDown", "releaseKey", "sleep"} => keys = {Ptt}
  /\ rpc \in {"sleep", "releaseKey", "sendUp", "mute"} => event = "click"
  /\ rpc \in {"unmute", "openMic"} => On /\ pressed
  /\ rpc \in {"controller", "unmute", "openMic", "mute"}
       => keys = (IF On THEN {Ptt} ELSE {})
  /\ rpc = "mute" => ~pressed
  /\ rpc = "sendUp" => keys = {}
  /\ rpc \notin {"sendDown", "sendUp"} => reported = keys

(* Before any stop: each part of the service is up from its place on, the  *)
(* reader has not been there before, and nothing disturbs it.              *)
RunInv ==
  /\ pc \in StartSteps \ {"pair"} => rpc = "off"
  /\ pc \in {"connect", "run", "listen", "pair", "wait"} => micOn
  /\ pc \in {"run", "listen", "pair", "wait"} => connected
  /\ rpc = "off" => keys = {} /\ reported = {} /\ muted /\ ~pressed
                    /\ ~isPressed /\ event = "none"
  /\ rpc # "off" => (isPressed <=> (event = "press"))
  /\ pc \in {"pair", "wait"} => rpc # "off" /\ Progress

(* During a stop that is not overlapped: what is already silent.           *)
StopInv ==
  /\ pc = "exited" => rpc = "ended"
  /\ Stopping /\ ~overlap =>
       /\ rpc \notin Handling
       /\ keys # {} => connected
       /\ pc # "sendUp" /\ ~cut => reported = keys
  /\ pc \in {"releaseKey", "sendUp", "disconnect", "exiting", "exited"}
       /\ ~overlap => muted
  /\ pc = "sendUp" /\ ~overlap => keys = {}
  /\ pc \in {"disconnect", "exiting", "exited"} /\ ~overlap
       => keys = {} /\ (~cut => reported = {})

Inv == TypeOK /\ RunInv /\ StopInv

LEMMA TakeHead ==
  ASSUME NEW S, NEW s \in Seq(S), s # <<>>
  PROVE  Head(s) \in S /\ Tail(s) \in Seq(S) /\ Len(Tail(s)) = Len(s) - 1
  OBVIOUS

(* The queue of the kernel keeps its type and its bound. *)
LEMMA QueueType ==
  ASSUME TypeOK, Next
  PROVE  queue' \in Seq({"press", "release"}) /\ Len(queue') <= MaxQueue
<1> DEFINE QueueOK(q) == q \in Seq({"press", "release"}) /\ Len(q) <= MaxQueue
<1>1. QueueOK(queue) /\ MaxQueue \in Nat /\ Len(queue) \in Nat
  BY PttAssumption DEF TypeOK
<1>2. queue # <<>> => QueueOK(Tail(queue))
  BY <1>1, TakeHead
<1>3. ASSUME NEW action \in {"press", "release"}, MoveButton(action)
      PROVE  QueueOK(queue')
  <2>1. Append(queue, action) \in Seq({"press", "release"})
        /\ Len(Append(queue, action)) = Len(queue) + 1
    BY <1>1
  <2> QED
    BY <1>1, <1>3, <2>1 DEF MoveButton, Queued
<1>4. ReadPress \/ ReadRelease \/ IgnoreRelease => QueueOK(queue')
  BY <1>2 DEF ReadPress, ReadRelease, IgnoreRelease
<1>5. CASE UNCHANGED queue
  BY <1>1, <1>5
<1> QED
  BY <1>3, <1>4, <1>5
     DEF Next, Main, Reader, userVars, StartAudio, ConnectHid, Run, Listen,
         Pair, Signal, StopReader, StopService, StopAudio, StopMute,
         StopReleaseKey, StopSendUp, Disconnect, ExitProcess, CheckStop,
         ReadFails, PressKey, AddKey, SendDown, Sleep, ReleaseKey, SendUp,
         Controller, Unmute, OpenMic, MuteMic, LongPasses

LEMMA TypeStep ==
  ASSUME TypeOK, Next
  PROVE  TypeOK'
<1>0. queue' \in Seq({"press", "release"}) /\ Len(queue') <= MaxQueue
  BY QueueType
<1> USE <1>0 DEF TypeOK, StartSteps, StopSteps, Idle, Handling, mainVars,
                 readerVars, keyVars, userVars, observed
<1>1. CASE StartAudio
  BY <1>1 DEF StartAudio
<1>2. CASE ConnectHid
  BY <1>2 DEF ConnectHid
<1>3. CASE Run
  BY <1>3 DEF Run
<1>4. CASE Listen
  <2>1. stopFlag' \in BOOLEAN
    BY <1>4, Zenon DEF Listen
  <2> QED
    BY <1>4, <2>1 DEF Listen
<1>5. CASE Pair
  <2>1. paired' \in BOOLEAN
    BY <1>5, Zenon DEF Pair
  <2> QED
    BY <1>5, <2>1 DEF Pair
<1>6. CASE StopReader
  BY <1>6 DEF StopReader
<1>7. CASE StopService
  <2>1. running' \in BOOLEAN
    BY <1>7, Zenon DEF StopService
  <2> QED
    BY <1>7, <2>1 DEF StopService
<1>8. CASE StopAudio
  <2>1. micOn' \in BOOLEAN
    BY <1>8, Zenon DEF StopAudio
  <2> QED
    BY <1>8, <2>1 DEF StopAudio
<1>9. CASE StopMute
  BY <1>9 DEF StopMute
<1>10. CASE StopReleaseKey
  BY <1>10 DEF StopReleaseKey
<1>11. CASE StopSendUp
  BY <1>11 DEF StopSendUp
<1>12. CASE Disconnect
  <2>1. connected' \in BOOLEAN
    BY <1>12, Zenon DEF Disconnect
  <2> QED
    BY <1>12, <2>1 DEF Disconnect
<1>13. CASE ExitProcess
  BY <1>13 DEF ExitProcess
<1>14. CASE CheckStop
  BY <1>14 DEF CheckStop
<1>15. CASE ReadFails
  BY <1>15 DEF ReadFails
<1>16. CASE ReadPress
  <2>1. isPressed' \in BOOLEAN /\ overlap' \in BOOLEAN /\ long' \in BOOLEAN
    BY <1>16, Zenon DEF ReadPress
  <2> QED
    BY <1>16, <2>1 DEF ReadPress
<1>17. CASE ReadRelease
  <2>1. isPressed' \in BOOLEAN /\ overlap' \in BOOLEAN
    BY <1>17, Zenon DEF ReadRelease
  <2> QED
    BY <1>17, <2>1 DEF ReadRelease
<1>18. CASE IgnoreRelease
  BY <1>18 DEF IgnoreRelease
<1>19. CASE PressKey
  BY <1>19 DEF PressKey, AfterPressKey
<1>20. CASE AddKey
  BY <1>20 DEF AddKey, AfterPressKey
<1>21. CASE SendDown
  BY <1>21 DEF SendDown, AfterPressKey
<1>22. CASE Sleep
  BY <1>22 DEF Sleep
<1>23. CASE ReleaseKey
  BY <1>23 DEF ReleaseKey
<1>24. CASE SendUp
  BY <1>24 DEF SendUp
<1>25. CASE Controller
  BY <1>25 DEF Controller
<1>26. CASE Unmute
  BY <1>26 DEF Unmute
<1>27. CASE OpenMic
  <2>1. muted' \in BOOLEAN
    BY <1>27, Zenon DEF OpenMic
  <2> QED
    BY <1>27, <2>1 DEF OpenMic
<1>28. CASE MuteMic
  BY <1>28 DEF MuteMic
<1>29. CASE Signal
  BY <1>29 DEF Signal
<1>30. CASE LongPasses
  BY <1>30 DEF LongPasses
<1>31. ASSUME NEW action \in {"press", "release"}, MoveButton(action)
      PROVE  TypeOK'
  BY <1>31 DEF MoveButton
<1> QED
  BY <1>1, <1>2, <1>3, <1>4, <1>5, <1>6, <1>7, <1>8, <1>9, <1>10, <1>11,
     <1>12, <1>13, <1>14, <1>15, <1>16, <1>17, <1>18, <1>19, <1>20, <1>21,
     <1>22, <1>23, <1>24, <1>25, <1>26, <1>27, <1>28, <1>29, <1>30, <1>31
     DEF Next, Main, Reader

(* Every variable has its type: the threads only ever are at places of the *)
(* code, and no event is lost beyond the kernel's queue.                   *)
THEOREM TypeCorrect == Spec => []TypeOK
<1>1. Init => TypeOK
  <2>1. Init => /\ stopFlag \in BOOLEAN /\ running \in BOOLEAN
                /\ paired \in BOOLEAN /\ micOn \in BOOLEAN
                /\ muted \in BOOLEAN /\ pressed \in BOOLEAN
                /\ connected \in BOOLEAN /\ isPressed \in BOOLEAN
                /\ long \in BOOLEAN /\ overlap \in BOOLEAN
                /\ cut \in BOOLEAN
    BY Zenon DEF Init
  <2> QED
    BY <2>1, PttAssumption DEF Init, TypeOK, StartSteps
<1>2. TypeOK /\ [Next]_vars => TypeOK'
  <2>1. CASE UNCHANGED vars
    BY <2>1 DEF TypeOK, vars, mainVars, readerVars, keyVars, userVars, observed
  <2> QED
    BY <2>1, TypeStep
<1> QED
  BY <1>1, <1>2, PTL DEF Spec

(* One step per action; the reader's disturb Progress, the main thread's end it. *)
LEMMA RunStep ==
  ASSUME Inv, Next
  PROVE  RunInv'
<1> USE DEF Inv, TypeOK, RunInv, Progress, On, StartSteps, StopSteps, Idle,
           Handling, mainVars, readerVars, keyVars, userVars, observed
<1>1. CASE StartAudio
  BY <1>1 DEF StartAudio
<1>2. CASE ConnectHid
  BY <1>2 DEF ConnectHid
<1>3. CASE Run
  BY <1>3 DEF Run
<1>4. CASE Listen
  BY <1>4 DEF Listen
<1>5. CASE Pair
  BY <1>5 DEF Pair
<1>6. CASE StopReader
  BY <1>6 DEF StopReader
<1>7. CASE StopService
  BY <1>7 DEF StopService
<1>8. CASE StopAudio
  BY <1>8 DEF StopAudio
<1>9. CASE StopMute
  BY <1>9 DEF StopMute
<1>10. CASE StopReleaseKey
  BY <1>10 DEF StopReleaseKey
<1>11. CASE StopSendUp
  BY <1>11 DEF StopSendUp
<1>12. CASE Disconnect
  BY <1>12 DEF Disconnect
<1>13. CASE ExitProcess
  BY <1>13 DEF ExitProcess
<1>14. CASE CheckStop
  BY <1>14 DEF CheckStop
<1>15. CASE ReadFails
  BY <1>15 DEF ReadFails
<1>16. CASE ReadPress
  BY <1>16 DEF ReadPress
<1>17. CASE ReadRelease
  BY <1>17 DEF ReadRelease
<1>18. CASE IgnoreRelease
  BY <1>18 DEF IgnoreRelease
<1>19. CASE PressKey
  BY <1>19 DEF PressKey, AfterPressKey
<1>20. CASE AddKey
  BY <1>20 DEF AddKey, AfterPressKey
<1>21. CASE SendDown
  BY <1>21 DEF SendDown, AfterPressKey
<1>22. CASE Sleep
  BY <1>22 DEF Sleep
<1>23. CASE ReleaseKey
  BY <1>23 DEF ReleaseKey
<1>24. CASE SendUp
  BY <1>24 DEF SendUp
<1>25. CASE Controller
  BY <1>25 DEF Controller
<1>26. CASE Unmute
  BY <1>26 DEF Unmute
<1>27. CASE OpenMic
  BY <1>27 DEF OpenMic
<1>28. CASE MuteMic
  BY <1>28 DEF MuteMic
<1>29. CASE Signal
  BY <1>29 DEF Signal
<1>30. CASE LongPasses
  BY <1>30 DEF LongPasses
<1>31. ASSUME NEW action \in {"press", "release"}, MoveButton(action)
      PROVE  RunInv'
  BY <1>31 DEF MoveButton
<1> QED
  BY <1>1, <1>2, <1>3, <1>4, <1>5, <1>6, <1>7, <1>8, <1>9, <1>10, <1>11,
     <1>12, <1>13, <1>14, <1>15, <1>16, <1>17, <1>18, <1>19, <1>20, <1>21,
     <1>22, <1>23, <1>24, <1>25, <1>26, <1>27, <1>28, <1>29, <1>30, <1>31
     DEF Next, Main, Reader

(* The reader cannot disturb a stop that it does not overlap. *)
LEMMA StopStep ==
  ASSUME Inv, Next
  PROVE  StopInv'
<1> USE DEF Inv, TypeOK, RunInv, Progress, StopInv, Stopping, StartSteps,
           StopSteps, Idle, Handling, mainVars, readerVars, keyVars, userVars, observed
<1>1. CASE StartAudio
  BY <1>1 DEF StartAudio
<1>2. CASE ConnectHid
  BY <1>2 DEF ConnectHid
<1>3. CASE Run
  BY <1>3 DEF Run
<1>4. CASE Listen
  BY <1>4 DEF Listen
<1>5. CASE Pair
  BY <1>5 DEF Pair
<1>6. CASE StopReader
  BY <1>6 DEF StopReader
<1>7. CASE StopService
  BY <1>7 DEF StopService
<1>8. CASE StopAudio
  BY <1>8 DEF StopAudio
<1>9. CASE StopMute
  BY <1>9 DEF StopMute
<1>10. CASE StopReleaseKey
  BY <1>10 DEF StopReleaseKey
<1>11. CASE StopSendUp
  BY <1>11 DEF StopSendUp
<1>12. CASE Disconnect
  BY <1>12 DEF Disconnect
<1>13. CASE ExitProcess
  BY <1>13 DEF ExitProcess
<1>14. CASE CheckStop
  BY <1>14 DEF CheckStop
<1>15. CASE ReadFails
  BY <1>15 DEF ReadFails
<1>16. CASE ReadPress
  BY <1>16 DEF ReadPress
<1>17. CASE ReadRelease
  BY <1>17 DEF ReadRelease
<1>18. CASE IgnoreRelease
  BY <1>18 DEF IgnoreRelease
<1>19. CASE PressKey
  BY <1>19 DEF PressKey, AfterPressKey
<1>20. CASE AddKey
  BY <1>20 DEF AddKey, AfterPressKey
<1>21. CASE SendDown
  BY <1>21 DEF SendDown, AfterPressKey
<1>22. CASE Sleep
  BY <1>22 DEF Sleep
<1>23. CASE ReleaseKey
  BY <1>23 DEF ReleaseKey
<1>24. CASE SendUp
  BY <1>24 DEF SendUp
<1>25. CASE Controller
  BY <1>25 DEF Controller
<1>26. CASE Unmute
  BY <1>26 DEF Unmute
<1>27. CASE OpenMic
  BY <1>27 DEF OpenMic
<1>28. CASE MuteMic
  BY <1>28 DEF MuteMic
<1>29. CASE Signal
  BY <1>29 DEF Signal
<1>30. CASE LongPasses
  BY <1>30 DEF LongPasses
<1>31. ASSUME NEW action \in {"press", "release"}, MoveButton(action)
      PROVE  StopInv'
  BY <1>31 DEF MoveButton
<1> QED
  BY <1>1, <1>2, <1>3, <1>4, <1>5, <1>6, <1>7, <1>8, <1>9, <1>10, <1>11,
     <1>12, <1>13, <1>14, <1>15, <1>16, <1>17, <1>18, <1>19, <1>20, <1>21,
     <1>22, <1>23, <1>24, <1>25, <1>26, <1>27, <1>28, <1>29, <1>30, <1>31
     DEF Next, Main, Reader

LEMMA Inductive == Spec => []Inv
<1>1. Init => RunInv /\ StopInv
  <2>1. Init => muted /\ ~pressed /\ ~isPressed
    BY Zenon DEF Init
  <2> QED
    BY <2>1 DEF Init, RunInv, StopInv, StartSteps, StopSteps, Stopping, Handling
<1>2. RunInv /\ StopInv /\ TypeOK /\ [Next]_vars => RunInv' /\ StopInv'
  <2>1. CASE UNCHANGED vars
    BY <2>1 DEF RunInv, StopInv, Progress, On, Stopping, vars, mainVars,
                readerVars, keyVars, userVars, observed
  <2> QED
    BY <2>1, RunStep, StopStep DEF Inv
<1> QED
  BY <1>1, <1>2, TypeCorrect, PTL DEF Spec, Inv

(* While the service runs, key, report, controller and microphone follow   *)
(* the last event, for a kernel queue of any length.                       *)
THEOREM HandlersComplete == Spec => []PttFollowsEvents
<1>1. Inv => PttFollowsEvents
  <2>1. SUFFICES ASSUME Inv, pc \in {"pair", "wait"}, rpc \in Idle
                 PROVE  /\ keys = (IF On THEN {Ptt} ELSE {}) /\ reported = keys
                        /\ (pressed <=> On)
                        /\ (muted <=> ~On)
                        /\ (isPressed <=> (event = "press"))
    BY DEF PttFollowsEvents, HandlerDone, On
  <2>2. rpc # "off" /\ Progress /\ rpc \notin {"sendDown", "sendUp"}
        /\ (isPressed <=> (event = "press"))
    BY <2>1 DEF Inv, RunInv, Idle
  <2> QED
    BY <2>1, <2>2 DEF Progress
<1> QED
  BY <1>1, Inductive, PTL

(* A stop that no handler overlaps leaves the key up and the microphone     *)
(* muted, and the client knows it unless a signal came between the discard *)
(* of the key and its report.                                              *)
THEOREM StopIsSilent == Spec => []StopSilences
<1>1. Inv => StopSilences
  BY DEF Inv, StopInv, StopSilences
<1> QED
  BY <1>1, Inductive, PTL
=============================================================================
