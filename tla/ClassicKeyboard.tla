-------------------------- MODULE ClassicKeyboard ---------------------------
(* The Python button listener, src/src/button_listener.py, composed with    *)
(* the keyboard server of HidServer.  The listener reads one event of       *)
(* /dev/input/event0 at a time and makes the sends it calls for one by one: *)
(* a send waits while the server's queue is full and is lost (OSError) when *)
(* the server is not there.  Between two sends of a handler everybody else  *)
(* may act.  The microphone daemon is represented by the last command sent  *)
(* to it; it is taken to be there.                                          *)
EXTENDS HidServer

CONSTANTS Alt, Shift, Slash   \* RIGHT_ALT, LEFT_SHIFT, SLASH

ASSUME ListenerAssumption ==
  /\ Modifiers = {Alt, Shift} /\ Keys = {Slash}
  /\ Alt # Shift

VARIABLES
  listening,  \* the listener runs
  func,       \* the user holds the function button
  outbox,     \* sends that the handler under way has yet to make
  micOn       \* the last command to the microphone was START

listenerVars == <<listening, func, outbox, micOn>>
allVars == <<vars, listenerVars>>

Hid(code, pressed) == [to |-> "hid", code |-> code, pressed |-> pressed]
Mic(start) == [to |-> "mic", code |-> NoKey, pressed |-> start]

Sends == [to : {"hid"}, code : Modifiers \cup Keys, pressed : BOOLEAN]
         \cup [to : {"mic"}, code : {NoKey}, pressed : BOOLEAN]

ListenerTypeOK ==
  /\ TypeOK
  /\ listening \in BOOLEAN /\ func \in BOOLEAN /\ micOn \in BOOLEAN
  /\ outbox \in Seq(Sends)

ListenerInit ==
  /\ Init
  /\ listening = TRUE /\ func = FALSE /\ outbox = <<>> /\ micOn = FALSE

(* Events of the kernel wait while a handler sends. *)
ReadsNext == listening /\ outbox = <<>>

PressFunction ==
  /\ ReadsNext /\ ~func
  /\ func' = TRUE
  /\ outbox' = <<Hid(Alt, TRUE), Mic(TRUE)>>
  /\ UNCHANGED <<vars, listening, micOn>>

ReleaseFunction ==
  /\ ReadsNext /\ func
  /\ func' = FALSE
  /\ outbox' = <<Hid(Alt, FALSE), Mic(FALSE)>>
  /\ UNCHANGED <<vars, listening, micOn>>

(* A fault: Shift is not released after the slash. *)
PressPresetMutant ==
  /\ ReadsNext
  /\ outbox' = <<Hid(Shift, TRUE), Hid(Slash, TRUE), Hid(Slash, FALSE)>>
  /\ UNCHANGED <<vars, listening, func, micOn>>

(* send_question_mark() *)
PressPreset ==
  /\ ReadsNext
  /\ outbox' = <<Hid(Shift, TRUE), Hid(Slash, TRUE),
                 Hid(Slash, FALSE), Hid(Shift, FALSE)>>
  /\ UNCHANGED <<vars, listening, func, micOn>>

(* send_hid() *)
SendHid ==
  /\ outbox # <<>> /\ Head(outbox).to = "hid"
  /\ SendKey([code |-> Head(outbox).code, pressed |-> Head(outbox).pressed])
  /\ outbox' = Tail(outbox)
  /\ UNCHANGED <<listening, func, micOn>>

SendLost ==
  /\ outbox # <<>> /\ Head(outbox).to = "hid"
  /\ ~up
  /\ outbox' = Tail(outbox)
  /\ UNCHANGED <<vars, listening, func, micOn>>

(* send_mic() *)
SendMic ==
  /\ outbox # <<>> /\ Head(outbox).to = "mic"
  /\ micOn' = Head(outbox).pressed
  /\ outbox' = Tail(outbox)
  /\ UNCHANGED <<vars, listening, func>>

(* A short read ends the listener, whatever is held down. *)
ListenerEnds ==
  /\ ReadsNext
  /\ listening' = FALSE
  /\ UNCHANGED <<vars, func, outbox, micOn>>

Listener ==
  \/ PressFunction \/ ReleaseFunction \/ PressPreset
  \/ SendHid \/ SendLost \/ SendMic \/ ListenerEnds

ServerSide == (Server \/ Stop \/ Start \/ Host) /\ UNCHANGED listenerVars

ListenerNext == ServerSide \/ Listener

ListenerSpec ==
  ListenerInit /\ [][ListenerNext]_allVars
  /\ WF_allVars(Server /\ UNCHANGED listenerVars)

----------------------------------------------------------------------------
(* When the listener waits for an event, no button is held and the server  *)
(* has handled every event, nothing is down on any host, no modifier is    *)
(* remembered and the microphone is off: whatever sends were lost to a     *)
(* server that was away, and whatever links were lost in the middle of     *)
(* send_question_mark() or between a press and its release.                *)
QuietHostClean ==
  listening /\ outbox = <<>> /\ ~func /\ ipcq = <<>> =>
    /\ \A h \in Hosts : seen[h] = AllUp
    /\ mods = {}
    /\ ~micOn
=============================================================================
