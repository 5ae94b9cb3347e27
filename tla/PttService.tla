----------------------------- MODULE PttService -----------------------------
(* Push to talk in the Python service: src/src/main.py, service.py, with    *)
(* button.py, hid.py, audio.py and the event reader of hardware.py.         *)
(*                                                                          *)
(* Two threads share the state without a lock.  The main thread starts the  *)
(* service, waits, and runs the signal handler on top of whatever it does;  *)
(* the reader thread takes the events of the round button from the kernel   *)
(* and runs the whole handler, from the button to the microphone.  A step   *)
(* is one read or write of what the threads share.  Both platforms map push *)
(* to talk to the same key, so `keys` is {} or {Ptt}.                       *)
EXTENDS Sequences, Naturals

CONSTANTS
  Ptt,        \* the key code of push to talk, Right Alt
  MaxQueue    \* bound on the events that wait in the kernel

ASSUME PttAssumption == MaxQueue \in Nat \ {0}

VARIABLES
  pc,         \* place of the main thread
  rpc,        \* place of the reader thread
  stopFlag,   \* InputEventReader._stop
  running,    \* SpotifoneService.running
  paired,     \* SpotifoneService.paired
  micOn,      \* AudioService.running
  muted,      \* AudioService.muted
  pressed,    \* PTTController.pressed
  connected,  \* HIDService.connected
  keys,       \* HIDService._pressed_keys
  reported,   \* keys down according to what the client was last told
  isPressed,  \* ButtonState.is_pressed of the round button
  long,       \* at least hold_threshold has passed since press_time
  event,      \* the last event type, "none" before the first
  button,     \* the user holds the round button
  queue,      \* events of the button that the reader has yet to read
  overlap,    \* observer: a handler has been under way during stop()
  cut         \* observer: a signal has come in stop() between the discard of
              \* the key and its report

mainVars   == <<pc, stopFlag, running, paired, micOn, connected>>
readerVars == <<rpc, isPressed, event, pressed>>
keyVars    == <<keys, reported>>
userVars   == <<button, queue>>
observed   == <<overlap, cut>>
vars == <<mainVars, readerVars, keyVars, userVars, muted, long, observed>>

StartSteps == {"start", "connect", "run", "listen", "pair"}
StopSteps  == {"stopReader", "stopService", "stopAudio", "mute", "releaseKey",
               "sendUp", "disconnect", "exiting"}
Idle     == {"check", "read"}
Handling == {"pressKey", "addKey", "sendDown", "sleep", "releaseKey", "sendUp",
             "controller", "unmute", "openMic", "mute"}

Stopping == pc \in StopSteps

TypeOK ==
  /\ pc \in StartSteps \cup StopSteps \cup {"wait", "exited"}
  /\ rpc \in Idle \cup Handling \cup {"off", "ended"}
  /\ stopFlag \in BOOLEAN /\ running \in BOOLEAN /\ paired \in BOOLEAN
  /\ micOn \in BOOLEAN /\ muted \in BOOLEAN /\ pressed \in BOOLEAN
  /\ connected \in BOOLEAN
  /\ keys \in SUBSET {Ptt} /\ reported \in SUBSET {Ptt}
  /\ isPressed \in BOOLEAN /\ long \in BOOLEAN
  /\ event \in {"none", "press", "click", "hold"}
  /\ button \in BOOLEAN
  /\ queue \in Seq({"press", "release"}) /\ Len(queue) <= MaxQueue
  /\ overlap \in BOOLEAN /\ cut \in BOOLEAN

(* The hardware is wired and nothing has been started; the user may hold   *)
(* the button already.                                                     *)
Init ==
  /\ pc = "start" /\ rpc = "off"
  /\ stopFlag = FALSE /\ running = FALSE /\ paired = FALSE
  /\ micOn = FALSE /\ muted = TRUE /\ pressed = FALSE
  /\ connected = FALSE /\ keys = {} /\ reported = {}
  /\ isPressed = FALSE /\ long = FALSE /\ event = "none"
  /\ button \in BOOLEAN /\ queue = <<>>
  /\ overlap = FALSE /\ cut = FALSE

----------------------------------------------------------------------------
(* The main thread starts the service: audio, then HID, then the reader,   *)
(* which opens the device and from then on gets its events.                *)

StartAudio ==
  /\ pc = "start"
  /\ micOn' = TRUE
  /\ pc' = "connect"
  /\ UNCHANGED <<stopFlag, running, paired, connected, readerVars, keyVars,
                 userVars, muted, long, observed>>

ConnectHid ==
  /\ pc = "connect"
  /\ connected' = TRUE
  /\ pc' = "run"
  /\ UNCHANGED <<stopFlag, running, paired, micOn, readerVars, keyVars,
                 userVars, muted, long, observed>>

Run ==
  /\ pc = "run"
  /\ running' = TRUE
  /\ pc' = "listen"
  /\ UNCHANGED <<stopFlag, paired, micOn, connected, readerVars, keyVars,
                 userVars, muted, long, observed>>

Listen ==
  /\ pc = "listen"
  /\ stopFlag' = FALSE
  /\ rpc' = "check"
  /\ pc' = "pair"
  /\ UNCHANGED <<running, paired, micOn, connected, isPressed, event, pressed,
                 keyVars, userVars, muted, long, observed>>

(* A device is given on the command line or not. *)
Pair ==
  /\ pc = "pair"
  /\ paired' \in {paired, TRUE}
  /\ pc' = "wait"
  /\ UNCHANGED <<stopFlag, running, micOn, connected, readerVars, keyVars,
                 userVars, muted, long, observed>>

(* SIGTERM or SIGINT: the handler starts from the top wherever the main    *)
(* thread is, in an earlier call of the handler too, which never resumes.  *)
Signal ==
  /\ pc # "exited"
  /\ pc' = "stopReader"
  /\ overlap' = (overlap \/ rpc \in Handling)
  /\ cut' = (cut \/ pc = "sendUp")
  /\ UNCHANGED <<stopFlag, running, paired, micOn, connected, readerVars,
                 keyVars, userVars, muted, long>>

StopReader ==
  /\ pc = "stopReader"
  /\ stopFlag' = TRUE
  /\ pc' = "stopService"
  /\ UNCHANGED <<running, paired, micOn, connected, readerVars, keyVars,
                 userVars, muted, long, observed>>

StopService ==
  /\ pc = "stopService"
  /\ running' = FALSE
  /\ pc' = "stopAudio"
  /\ UNCHANGED <<stopFlag, paired, micOn, connected, readerVars, keyVars,
                 userVars, muted, long, observed>>

StopAudio ==
  /\ pc = "stopAudio"
  /\ micOn' = FALSE
  /\ pc' = "mute"
  /\ UNCHANGED <<stopFlag, running, paired, connected, readerVars, keyVars,
                 userVars, muted, long, observed>>

(* A fault: disconnect() without release_all(). *)
StopMuteMutant ==
  /\ pc = "mute"
  /\ muted' = TRUE
  /\ pc' = "disconnect"
  /\ UNCHANGED <<stopFlag, running, paired, micOn, connected, readerVars,
                 keyVars, userVars, long, observed>>

StopMute ==
  /\ pc = "mute"
  /\ muted' = TRUE
  /\ pc' = "releaseKey"
  /\ UNCHANGED <<stopFlag, running, paired, micOn, connected, readerVars,
                 keyVars, userVars, long, observed>>

(* release_all(): release_key() refuses when the service never connected,  *)
(* or an earlier call of the handler has disconnected it.                  *)
StopReleaseKey ==
  /\ pc = "releaseKey"
  /\ IF connected /\ Ptt \in keys
     THEN /\ keys' = keys \ {Ptt}
          /\ pc' = "sendUp"
     ELSE /\ pc' = "disconnect"
          /\ UNCHANGED keys
  /\ UNCHANGED <<stopFlag, running, paired, micOn, connected, readerVars,
                 reported, userVars, muted, long, observed>>

StopSendUp ==
  /\ pc = "sendUp"
  /\ reported' = reported \ {Ptt}
  /\ pc' = "disconnect"
  /\ UNCHANGED <<stopFlag, running, paired, micOn, connected, readerVars, keys,
                 userVars, muted, long, observed>>

Disconnect ==
  /\ pc = "disconnect"
  /\ connected' = FALSE
  /\ pc' = "exiting"
  /\ UNCHANGED <<stopFlag, running, paired, micOn, readerVars, keyVars,
                 userVars, muted, long, observed>>

(* sys.exit(): the reader is a daemon thread and ends with the process.    *)
ExitProcess ==
  /\ pc = "exiting"
  /\ pc' = "exited"
  /\ rpc' = "ended"
  /\ UNCHANGED <<stopFlag, running, paired, micOn, connected, isPressed, event,
                 pressed, keyVars, userVars, muted, long, observed>>

Main ==
  \/ StartAudio \/ ConnectHid \/ Run \/ Listen \/ Pair
  \/ StopReader \/ StopService \/ StopAudio \/ StopMute
  \/ StopReleaseKey \/ StopSendUp \/ Disconnect \/ ExitProcess

----------------------------------------------------------------------------
(* The reader thread: _read_loop().                                        *)

CheckStop ==
  /\ rpc = "check"
  /\ rpc' = IF stopFlag THEN "ended" ELSE "read"
  /\ UNCHANGED <<mainVars, isPressed, event, pressed, keyVars, userVars, muted,
                 long, observed>>

(* A short read or an exception ends the thread. *)
ReadFails ==
  /\ rpc = "read"
  /\ rpc' = "ended"
  /\ UNCHANGED <<mainVars, isPressed, event, pressed, keyVars, userVars, muted,
                 long, observed>>

(* ButtonState.press() *)
ReadPress ==
  /\ rpc = "read"
  /\ queue # <<>> /\ Head(queue) = "press"
  /\ queue' = Tail(queue)
  /\ isPressed' = TRUE
  /\ long' = FALSE
  /\ event' = "press"
  /\ rpc' = "pressKey"
  /\ overlap' = (overlap \/ Stopping)
  /\ UNCHANGED <<mainVars, pressed, keyVars, button, muted, cut>>

(* A fault: a short press has an event type that nobody knows. *)
ReadReleaseMutant ==
  /\ rpc = "read"
  /\ queue # <<>> /\ Head(queue) = "release"
  /\ isPressed
  /\ queue' = Tail(queue)
  /\ isPressed' = FALSE
  /\ event' = IF long THEN "hold" ELSE "release"
  /\ rpc' = "pressKey"
  /\ overlap' = (overlap \/ Stopping)
  /\ UNCHANGED <<mainVars, pressed, keyVars, button, muted, long, cut>>

(* ButtonState.release(): the time is taken when the event is handled.     *)
ReadRelease ==
  /\ rpc = "read"
  /\ queue # <<>> /\ Head(queue) = "release"
  /\ isPressed
  /\ queue' = Tail(queue)
  /\ isPressed' = FALSE
  /\ event' = IF long THEN "hold" ELSE "click"
  /\ rpc' = "pressKey"
  /\ overlap' = (overlap \/ Stopping)
  /\ UNCHANGED <<mainVars, pressed, keyVars, button, muted, long, cut>>

(* The button was down before the reader was there: release() returns None. *)
IgnoreRelease ==
  /\ rpc = "read"
  /\ queue # <<>> /\ Head(queue) = "release"
  /\ ~isPressed
  /\ queue' = Tail(queue)
  /\ rpc' = "check"
  /\ UNCHANGED <<mainVars, isPressed, event, pressed, keyVars, button, muted,
                 long, observed>>

(* handle_ptt() presses the key whatever the event is ... *)
AfterPressKey == IF event = "click" THEN "sleep" ELSE "controller"

PressKey ==
  /\ rpc = "pressKey"
  /\ rpc' = IF connected THEN "addKey" ELSE AfterPressKey
  /\ UNCHANGED <<mainVars, isPressed, event, pressed, keyVars, userVars, muted,
                 long, observed>>

AddKey ==
  /\ rpc = "addKey"
  /\ keys' = keys \cup {Ptt}
  /\ rpc' = IF Ptt \in keys THEN AfterPressKey ELSE "sendDown"
  /\ UNCHANGED <<mainVars, isPressed, event, pressed, reported, userVars, muted,
                 long, observed>>

SendDown ==
  /\ rpc = "sendDown"
  /\ reported' = reported \cup {Ptt}
  /\ rpc' = AfterPressKey
  /\ UNCHANGED <<mainVars, isPressed, event, pressed, keys, userVars, muted,
                 long, observed>>

(* ... and releases it again, 50 ms later, for a click only. *)
Sleep ==
  /\ rpc = "sleep"
  /\ rpc' = IF connected THEN "releaseKey" ELSE "controller"
  /\ UNCHANGED <<mainVars, isPressed, event, pressed, keyVars, userVars, muted,
                 long, observed>>

ReleaseKey ==
  /\ rpc = "releaseKey"
  /\ keys' = keys \ {Ptt}
  /\ rpc' = IF Ptt \in keys THEN "sendUp" ELSE "controller"
  /\ UNCHANGED <<mainVars, isPressed, event, pressed, reported, userVars, muted,
                 long, observed>>

SendUp ==
  /\ rpc = "sendUp"
  /\ reported' = reported \ {Ptt}
  /\ rpc' = "controller"
  /\ UNCHANGED <<mainVars, isPressed, event, pressed, keys, userVars, muted,
                 long, observed>>

(* A fault: the controller treats a hold as a release, the key does not. *)
ControllerMutant ==
  /\ rpc = "controller"
  /\ pressed' = (event = "press")
  /\ rpc' = IF event = "press" THEN "unmute" ELSE "mute"
  /\ UNCHANGED <<mainVars, isPressed, event, keyVars, userVars, muted, long,
                 observed>>

(* PTTController.on_press() or on_release() *)
Controller ==
  /\ rpc = "controller"
  /\ pressed' = (event # "click")
  /\ rpc' = IF event = "click" THEN "mute" ELSE "unmute"
  /\ UNCHANGED <<mainVars, isPressed, event, keyVars, userVars, muted, long,
                 observed>>

(* unmute() looks whether the audio service runs, then opens the microphone. *)
Unmute ==
  /\ rpc = "unmute"
  /\ rpc' = IF micOn THEN "openMic" ELSE "check"
  /\ UNCHANGED <<mainVars, isPressed, event, pressed, keyVars, userVars, muted,
                 long, observed>>

OpenMic ==
  /\ rpc = "openMic"
  /\ muted' = FALSE
  /\ rpc' = "check"
  /\ UNCHANGED <<mainVars, isPressed, event, pressed, keyVars, userVars, long,
                 observed>>

MuteMic ==
  /\ rpc = "mute"
  /\ muted' = TRUE
  /\ rpc' = "check"
  /\ UNCHANGED <<mainVars, isPressed, event, pressed, keyVars, userVars, long,
                 observed>>

Reader ==
  \/ CheckStop \/ ReadFails \/ ReadPress \/ ReadRelease \/ IgnoreRelease
  \/ PressKey \/ AddKey \/ SendDown \/ Sleep \/ ReleaseKey \/ SendUp
  \/ Controller \/ Unmute \/ OpenMic \/ MuteMic

----------------------------------------------------------------------------
(* The user and the clock.  The kernel queues events while the device is   *)
(* open.                                                                   *)

Opened == rpc \notin {"off", "ended"}

Queued(action) == IF Opened THEN Append(queue, action) ELSE queue

MoveButton(action) ==
  /\ pc # "exited"
  /\ Len(queue) < MaxQueue
  /\ button = (action = "release")
  /\ button' = (action = "press")
  /\ queue' = Queued(action)
  /\ UNCHANGED <<mainVars, readerVars, keyVars, muted, long, observed>>

LongPasses ==
  /\ isPressed /\ ~long
  /\ long' = TRUE
  /\ UNCHANGED <<mainVars, readerVars, keyVars, userVars, muted, observed>>

Next ==
  \/ Main \/ Reader \/ Signal \/ LongPasses
  \/ \E action \in {"press", "release"} : MoveButton(action)

Spec == Init /\ [][Next]_vars

----------------------------------------------------------------------------
(* Safety                                                                  *)

HandlerDone == rpc \in Idle

(* While the service runs, every handler that has ended has left the key,  *)
(* the last report, the controller and the microphone on the same side:    *)
(* on after a press or a hold, off after a click and before any event.     *)
(* (_on_ptt, handle_ptt and PTTController are three objects that one event *)
(* updates one after the other.)                                           *)
PttFollowsEvents ==
  pc \in {"pair", "wait"} /\ HandlerDone =>
    LET on == event \in {"press", "hold"} IN
      /\ keys = (IF on THEN {Ptt} ELSE {})
      /\ reported = keys
      /\ (pressed <=> on)
      /\ (muted <=> ~on)
      /\ (isPressed <=> (event = "press"))

(* A stop that no handler overlaps leaves the key up and the microphone     *)
(* muted, wherever signals start it again; and it has told the client so,  *)
(* unless one of them came between the discard of the key and its report.  *)
(* (With a handler under way none of this is sure: the reader may have     *)
(* passed the test of `connected` or of `running`.)                        *)
StopSilences ==
  pc \in {"exiting", "exited"} /\ ~overlap =>
    /\ keys = {} /\ muted
    /\ ~cut => reported = {}

(* service.py says: "button release -> HID key up + mic mute (click or     *)
(* hold)".  When the reader has handled the release and nothing waits.     *)
ReleaseReleases ==
  pc = "wait" /\ HandlerDone /\ ~isPressed /\ queue = <<>> =>
    keys = {} /\ muted
=============================================================================
