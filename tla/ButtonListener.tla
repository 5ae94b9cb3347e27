--------------------------- MODULE ButtonListener ---------------------------
(***************************************************************************)
(* The button listener, daemon/button_listener.c: one thread that reads    *)
(* the two input devices and sends key events to the HID daemon, push to   *)
(* talk commands to the microphone daemon and a toggle to the menu.        *)
(*                                                                         *)
(* A handler computes its sends at once and leaves them in outbox; they    *)
(* are the sendto() calls it makes one by one, each of which waits while   *)
(* the receiver's queue is full.  Time passes while the loop waits in      *)
(* select() and while it sends (the taps sleep between their events).      *)
(*                                                                         *)
(* The second half of the variables are observations: they record what     *)
(* was sent and how far the wheel was turned, and no action reads them.    *)
(***************************************************************************)
EXTENDS WheelFilter, FiniteSets, SequencesExt

CONSTANTS
  Alt, Gui, Shift,     \* HID_RIGHT_ALT, HID_LEFT_GUI, HID_LEFT_SHIFT
  Tab,                 \* HID_TAB
  Presets,             \* the keys of the preset buttons, sent as they are
  AppSwitchTimeout,    \* APP_SWITCH_TIMEOUT_MS
  ClickDebounce,       \* KNOB_CLICK_DEBOUNCE_MS
  HidMax,              \* bound: datagrams the HID daemon's socket queues
  Turns,               \* values of the wheel's events
  MaxInputs,           \* bound: user inputs in a behaviour
  MaxTime              \* bound: the clock

ModifierKeys == {Alt, Gui, Shift}
KeyCodes     == ModifierKeys \cup {Tab} \cup Presets

ASSUME ListenerAssumption ==
  /\ Cardinality(ModifierKeys) = 3
  /\ Tab \notin ModifierKeys
  /\ IsFiniteSet(Presets) /\ Presets \cap (ModifierKeys \cup {Tab}) = {}
  /\ AppSwitchTimeout \in Nat \ {0}
  /\ ClickDebounce \in Nat /\ ClickDebounce >= EmitInterval
  /\ AppSwitchTimeout >= EmitInterval
  /\ HidMax \in Nat \ {0}
  /\ Turns \subseteq Int
  /\ MaxInputs \in Nat /\ MaxTime \in Nat

Devices == {"buttons", "knob"}

NoArg == 0

InputEvents == [kind : {"press", "release"}, arg : {Alt} \cup Presets]
                 \cup [kind : {"click", "mute"}, arg : {NoArg}]
                 \cup [kind : {"turn"}, arg : Turns]

KeyEvents == [kind : {"press", "release"}, arg : KeyCodes]
Sends     == [to : {"hid"}, kind : {"press", "release"}, arg : KeyCodes]
               \cup [to : {"mic"}, kind : {"start", "stop"}, arg : {Alt}]
               \cup [to : {"menu"}, kind : {"toggle"}, arg : {Alt}]

VARIABLES
  pc,         \* where the main loop is
  ready,      \* the devices the last select() returned as readable
  now,        \* the time main() reads after select()
  active,     \* app_switch_active
  activeAt,   \* app_switch_last_ms
  clickAt,    \* knob_click_last_ms
  wheel,      \* the smoothing filter
  outbox,     \* the sends the running handler has still to make
  input,      \* per device, the events the kernel has queued
  hidq,       \* datagrams on the HID daemon's socket
  hidUp,      \* the HID daemon has its socket bound
  clock,      \* CLOCK_MONOTONIC, cut to what the loop tells apart
  polled,     \* the loop has made a round since the clock last moved
  phys,       \* the buttons held down by the user
  inputs,     \* user inputs so far
  down,       \* observed: the keys whose last send is a press
  micOn,      \* observed: the last command to the microphone was a start
  stepAt,     \* observed: time of the last step sent, 0 for none
  turned,     \* observed: since the switcher was entered, how far the
  stepped     \*   wheel was turned and how many steps were sent

local    == <<ready, now, active, activeAt, clickAt, wheel>>
user     == <<phys, inputs>>
receiver == <<hidq, hidUp>>
time     == <<clock, polled>>
sent     == <<down, micOn>>
session  == <<stepAt, turned, stepped>>
vars     == <<pc, ready, now, active, activeAt, clickAt, wheel, outbox, input,
              hidq, hidUp, clock, polled, phys, inputs, down, micOn, stepAt,
              turned, stepped>>

Steps == [fwd : Nat, bwd : Nat]
NoSteps == [fwd |-> 0, bwd |-> 0]

TypeOK ==
  /\ pc \in {"select", "wheel", "timeout", "buttons", "knob", "entered", "stopped"}
  /\ ready \subseteq Devices
  /\ now \in Nat /\ activeAt \in Nat /\ clickAt \in Nat /\ clock \in Nat
  /\ active \in BOOLEAN /\ polled \in BOOLEAN /\ hidUp \in BOOLEAN
  /\ wheel \in WheelStates
  /\ outbox \in Seq(Sends)
  /\ input \in [Devices -> Seq(InputEvents)]
  /\ hidq \in Seq(KeyEvents)
  /\ phys \subseteq {Alt} \cup Presets
  /\ inputs \in 0..MaxInputs
  /\ down \subseteq KeyCodes /\ micOn \in BOOLEAN
  /\ stepAt \in Nat /\ turned \in Steps /\ stepped \in Steps

Init ==
  /\ pc = "select"
  /\ ready = {}
  /\ now = 1 /\ clock = 1
  /\ active = FALSE
  /\ activeAt = 0
  /\ clickAt = 0
  /\ wheel = WheelReset
  /\ outbox = <<>>
  /\ input = [d \in Devices |-> <<>>]
  /\ hidq = <<>>
  /\ hidUp \in BOOLEAN
  /\ polled = FALSE
  /\ phys = {}
  /\ inputs = 0
  /\ down = {} /\ micOn = FALSE
  /\ stepAt = 0 /\ turned = NoSteps /\ stepped = NoSteps

-----------------------------------------------------------------------------
(* What the handlers send. *)

Press(key)   == [to |-> "hid", kind |-> "press", arg |-> key]
Release(key) == [to |-> "hid", kind |-> "release", arg |-> key]
MicStart     == [to |-> "mic", kind |-> "start", arg |-> Alt]
MicStop      == [to |-> "mic", kind |-> "stop", arg |-> Alt]
MenuToggle   == [to |-> "menu", kind |-> "toggle", arg |-> Alt]

SendTap(key)  == <<Press(key), Release(key)>>
AppSwitchEnter == <<Press(Gui)>> \o SendTap(Tab)

(* Mutant: Shift is not released after a backward step, nor on exit. *)
AppSwitchExitMutant == <<Release(Tab), Release(Shift)>>

AppSwitchExit  == <<Release(Tab), Release(Shift), Release(Gui)>>

AppSwitchStep(direction) ==
  IF direction < 0 THEN <<Press(Shift)>> \o SendTap(Tab) \o <<Release(Shift)>>
  ELSE SendTap(Tab)

(* The releases main() makes once the loop has ended. *)
ShutdownReleases ==
  LET keys == SetToSeq(Presets)
  IN <<Release(Alt)>> \o [i \in DOMAIN keys |-> Release(keys[i])]

(* One sendto(): it waits while the queue is full, and fails at once when  *)
(* nobody has the socket bound.                                            *)
Send ==
  /\ outbox # <<>>
  /\ outbox' = Tail(outbox)
  /\ LET m == Head(outbox)
     IN \/ /\ m.to = "hid" /\ hidUp
           /\ Len(hidq) < HidMax
           /\ hidq' = Append(hidq, [kind |-> m.kind, arg |-> m.arg])
           /\ down' = IF m.kind = "press" THEN down \cup {m.arg} ELSE down \ {m.arg}
           /\ UNCHANGED micOn
        \/ /\ m.to = "hid" /\ ~hidUp
           /\ down' = IF m.kind = "press" THEN down \cup {m.arg} ELSE down \ {m.arg}
           /\ UNCHANGED <<hidq, micOn>>
        \/ /\ m.to = "mic"
           /\ micOn' = (m.kind = "start")
           /\ UNCHANGED <<hidq, down>>
        \/ /\ m.to = "menu"
           /\ UNCHANGED <<hidq, down, micOn>>
  /\ UNCHANGED <<pc, local, input, hidUp, time, user, session>>

-----------------------------------------------------------------------------
(* The main loop.  Every handler starts once the sends before it are done. *)

At(phase) == pc = phase /\ outbox = <<>>

(* With nothing to read and the switcher closed a round changes nothing. *)
Select ==
  /\ At("select")
  /\ ready' = {d \in Devices : input[d] # <<>>}
  /\ now' = clock
  /\ polled' = TRUE
  /\ pc' = IF active THEN "wheel" ELSE IF ready' = {} THEN "select" ELSE "buttons"
  /\ UNCHANGED <<active, activeAt, clickAt, wheel, outbox, input, receiver,
                 clock, user, sent, session>>

EmitStep ==
  /\ At("wheel")
  /\ LET step == StepOf(wheel, clock)
     IN /\ step # 0
        /\ outbox' = AppSwitchStep(step)
        /\ stepped' = IF step > 0 THEN [stepped EXCEPT !.fwd = @ + 1]
                      ELSE [stepped EXCEPT !.bwd = @ + 1]
  /\ wheel' = AfterTry(wheel, clock)
  /\ activeAt' = clock
  /\ now' = clock
  /\ stepAt' = clock
  /\ pc' = "timeout"
  /\ UNCHANGED <<ready, active, clickAt, input, receiver, time, user, sent,
                 turned>>

EmitNothing ==
  /\ At("wheel")
  /\ StepOf(wheel, clock) = 0
  /\ wheel' = AfterTry(wheel, clock)
  /\ pc' = "timeout"
  /\ UNCHANGED <<ready, now, active, activeAt, clickAt, outbox, input, receiver,
                 time, user, sent, session>>

AfterTimeout == IF ready = {} THEN "select" ELSE "buttons"

TimeoutExit ==
  /\ At("timeout")
  /\ now - activeAt >= AppSwitchTimeout
  /\ outbox' = AppSwitchExit
  /\ active' = FALSE
  /\ wheel' = WheelReset
  /\ pc' = AfterTimeout
  /\ UNCHANGED <<ready, now, activeAt, clickAt, input, receiver, time, user,
                 sent, session>>

(* Mutant: a round may pass over the timeout though it has been reached. *)
TimeoutPassesMutant ==
  /\ At("timeout")
  /\ pc' = AfterTimeout
  /\ UNCHANGED <<local, outbox, input, receiver, time, user, sent, session>>

TimeoutPasses ==
  /\ At("timeout")
  /\ now - activeAt < AppSwitchTimeout
  /\ pc' = AfterTimeout
  /\ UNCHANGED <<local, outbox, input, receiver, time, user, sent, session>>

(* Reads one event of a device; the handlers below say what is made of it. *)
Reads(device, kinds) ==
  /\ At(device)
  /\ device \in ready
  /\ Head(input[device]).kind \in kinds
  /\ ready' = ready \ {device}
  /\ input' = [input EXCEPT ![device] = Tail(@)]

AfterEvent(device) == IF device = "buttons" THEN "knob" ELSE "select"

(* A device that was not readable is passed over. *)
NotReadable(device) ==
  /\ At(device)
  /\ device \notin ready
  /\ pc' = AfterEvent(device)
  /\ UNCHANGED <<local, outbox, input, receiver, time, user, sent, session>>

(* Mutant: only the key follows the button's press. *)
HandleRoundButtonMutant ==
  /\ Reads("buttons", {"press", "release"})
  /\ Head(input["buttons"]).arg = Alt
  /\ outbox' = IF Head(input["buttons"]).kind = "press"
               THEN <<Press(Alt)>> ELSE <<Release(Alt), MicStop>>
  /\ pc' = AfterEvent("buttons")
  /\ UNCHANGED <<now, active, activeAt, clickAt, wheel, receiver, time, user,
                 sent, session>>

HandleRoundButton ==
  /\ Reads("buttons", {"press", "release"})
  /\ Head(input["buttons"]).arg = Alt
  /\ outbox' = IF Head(input["buttons"]).kind = "press"
               THEN <<Press(Alt), MicStart>> ELSE <<Release(Alt), MicStop>>
  /\ pc' = AfterEvent("buttons")
  /\ UNCHANGED <<now, active, activeAt, clickAt, wheel, receiver, time, user,
                 sent, session>>

HandlePreset ==
  /\ Reads("buttons", {"press", "release"})
  /\ Head(input["buttons"]).arg \in Presets
  /\ LET key == Head(input["buttons"]).arg
     IN outbox' = IF Head(input["buttons"]).kind = "press"
                  THEN <<Press(key)>> ELSE <<Release(key)>>
  /\ pc' = AfterEvent("buttons")
  /\ UNCHANGED <<now, active, activeAt, clickAt, wheel, receiver, time, user,
                 sent, session>>

HandleMute ==
  /\ Reads("buttons", {"mute"})
  /\ outbox' = <<MenuToggle>>
  /\ pc' = AfterEvent("buttons")
  /\ UNCHANGED <<now, active, activeAt, clickAt, wheel, receiver, time, user,
                 sent, session>>

Bounced == clock - clickAt < ClickDebounce /\ clickAt # 0

HandleClickBounced(device) ==
  /\ Reads(device, {"click"})
  /\ Bounced
  /\ pc' = AfterEvent(device)
  /\ UNCHANGED <<now, active, activeAt, clickAt, wheel, outbox, receiver, time,
                 user, sent, session>>

(* handle_knob_click when the switcher is closed: it is marked active, with *)
(* the time at which the keys have been sent, by Entered.                  *)
HandleClickEnter(device) ==
  /\ Reads(device, {"click"})
  /\ ~Bounced /\ ~active
  /\ clickAt' = clock
  /\ outbox' = AppSwitchEnter
  /\ active' = TRUE
  /\ pc' = "entered"
  /\ UNCHANGED <<now, activeAt, wheel, receiver, time, user, sent, session>>

Entered ==
  /\ At("entered")
  /\ activeAt' = clock
  /\ wheel' = WheelReset
  /\ turned' = NoSteps /\ stepped' = NoSteps
  /\ pc' = "knob"
  /\ UNCHANGED <<ready, now, active, clickAt, outbox, input, receiver, time,
                 user, sent, stepAt>>

HandleClickExit(device) ==
  /\ Reads(device, {"click"})
  /\ ~Bounced /\ active
  /\ clickAt' = clock
  /\ outbox' = AppSwitchExit
  /\ active' = FALSE
  /\ wheel' = WheelReset
  /\ pc' = AfterEvent(device)
  /\ UNCHANGED <<now, activeAt, receiver, time, user, sent, session>>

(* Any turn, even one the filter drops, keeps the switcher open. *)
HandleTurn ==
  /\ Reads("knob", {"turn"})
  /\ pc' = AfterEvent("knob")
  /\ LET delta == Head(input["knob"]).arg
     IN IF active
        THEN /\ wheel' = OnDelta(wheel, delta, clock)
             /\ activeAt' = clock
             /\ turned' = [fwd |-> turned.fwd + (IF delta > 0 THEN delta ELSE 0),
                           bwd |-> turned.bwd + (IF delta < 0 THEN -delta ELSE 0)]
        ELSE UNCHANGED <<wheel, activeAt, turned>>
  /\ UNCHANGED <<now, active, clickAt, outbox, receiver, time, user, sent,
                 stepAt, stepped>>

(* Mutant: keys are released at shutdown, the switcher is not left. *)
StopMutant ==
  /\ At("select")
  /\ pc' = "stopped"
  /\ outbox' = ShutdownReleases
  /\ active' = FALSE
  /\ UNCHANGED <<ready, now, activeAt, clickAt, wheel, input, receiver, time,
                 user, sent, session>>

(* SIGTERM ends the loop; what is held is released, best effort. *)
Stop ==
  /\ At("select")
  /\ pc' = "stopped"
  /\ outbox' = IF active THEN AppSwitchExit \o ShutdownReleases ELSE ShutdownReleases
  /\ active' = FALSE
  /\ UNCHANGED <<ready, now, activeAt, clickAt, wheel, input, receiver, time,
                 user, sent, session>>

(* A new process: what the devices queued for the old one is gone. *)
Start ==
  /\ At("stopped")
  /\ pc' = "select"
  /\ ready' = {}
  /\ activeAt' = 0 /\ clickAt' = 0
  /\ wheel' = WheelReset
  /\ input' = [d \in Devices |-> <<>>]
  /\ stepAt' = 0 /\ turned' = NoSteps /\ stepped' = NoSteps
  /\ UNCHANGED <<now, active, outbox, receiver, time, user, sent>>

Loop ==
  \/ Send \/ Select
  \/ EmitStep \/ EmitNothing \/ TimeoutExit \/ TimeoutPasses
  \/ HandleRoundButton \/ HandlePreset \/ HandleMute \/ HandleTurn \/ Entered
  \/ \E device \in Devices :
       \/ NotReadable(device) \/ HandleClickBounced(device)
       \/ HandleClickEnter(device) \/ HandleClickExit(device)

(* The clock moves while the loop waits for input or for a send. *)
Tick ==
  /\ clock < MaxTime
  /\ outbox # <<>> \/ (pc = "select" /\ polled)
  /\ clock' = clock + 1
  /\ polled' = FALSE
  /\ UNCHANGED <<pc, local, outbox, input, receiver, user, sent, session>>

-----------------------------------------------------------------------------
(* The user.  A knob click may reach one device or both. *)

Queue(devices, event) ==
  /\ inputs < MaxInputs
  /\ inputs' = inputs + 1
  /\ input' = [d \in Devices |-> IF d \in devices THEN Append(input[d], event)
                                 ELSE input[d]]
  /\ UNCHANGED <<pc, local, outbox, receiver, time, sent, session>>

PressButton(key) ==
  /\ key \notin phys
  /\ phys' = phys \cup {key}
  /\ Queue({"buttons"}, [kind |-> "press", arg |-> key])

ReleaseButton(key) ==
  /\ key \in phys
  /\ phys' = phys \ {key}
  /\ Queue({"buttons"}, [kind |-> "release", arg |-> key])

ClickKnob(devices) ==
  /\ devices # {}
  /\ Queue(devices, [kind |-> "click", arg |-> NoArg])
  /\ UNCHANGED phys

TurnKnob(delta) ==
  /\ Queue({"knob"}, [kind |-> "turn", arg |-> delta])
  /\ UNCHANGED phys

PressMute ==
  /\ Queue({"buttons"}, [kind |-> "mute", arg |-> NoArg])
  /\ UNCHANGED phys

User ==
  \/ \E key \in {Alt} \cup Presets : PressButton(key) \/ ReleaseButton(key)
  \/ \E devices \in SUBSET Devices : ClickKnob(devices)
  \/ \E delta \in Turns : TurnKnob(delta)
  \/ PressMute

-----------------------------------------------------------------------------
(* The HID daemon at the other end of the socket. *)

HidReceives ==
  /\ hidq # <<>>
  /\ hidq' = Tail(hidq)
  /\ UNCHANGED <<pc, local, outbox, input, hidUp, time, user, sent, session>>

HidRestarts ==
  /\ hidUp' = ~hidUp
  /\ hidq' = <<>>
  /\ UNCHANGED <<pc, local, outbox, input, time, user, sent, session>>

Listener == Loop \/ Tick \/ Stop \/ Start

Next == Listener \/ User \/ HidReceives \/ HidRestarts

Spec == Init /\ [][Next]_vars

-----------------------------------------------------------------------------
(* The events of a button that wait to be read.                            *)
Waiting(key) ==
  {i \in DOMAIN input["buttons"] :
     /\ input["buttons"][i].kind \in {"press", "release"}
     /\ input["buttons"][i].arg = key}

(* A button's key has been handled as pressed: the next event of it to be  *)
(* read is its release, or there is none and the button is held.           *)
HandledDown(key) ==
  /\ Waiting(key) = {} => key \in phys
  /\ \A i \in Waiting(key) :
       (\A j \in Waiting(key) : i <= j) => input["buttons"][i].kind = "release"

(* Whenever no send is pending, the keys left down are those of buttons     *)
(* the user holds, and Command exactly while the switcher is open: Shift   *)
(* and Tab never stay down, and nothing stays down after a shutdown.       *)
KeysLeftDown ==
  outbox = <<>> =>
    /\ down \ {Gui} \subseteq {key \in {Alt} \cup Presets : HandledDown(key)}
    /\ Gui \in down <=> active
    /\ pc = "stopped" => down = {}

(* Whenever no send is pending, the dictation key is left down only while  *)
(* the last command to the microphone was a start, also across a listener  *)
(* that stops, misses the release and starts again (README.md:198-199).    *)
DictationHeard == outbox = <<>> /\ Alt \in down => micOn

(* Command is held no longer than the timeout after the last step, turn or *)
(* click, as long as the sends do not wait (button_listener.c:69, "if user *)
(* forgets to exit app switcher, auto-release Cmd").                       *)
CommandHoldBounded ==
  At("select") /\ polled /\ Gui \in down => clock - activeAt < AppSwitchTimeout

(* In a session of the switcher no more steps are sent in a direction than *)
(* the wheel was turned in it, however the ticks were filtered.            *)
NoExtraSteps ==
  stepped.fwd <= turned.fwd /\ stepped.bwd <= turned.bwd

(* Steps are spaced by the emit interval, also across two sessions. *)
StepsSpaced ==
  [][stepAt' # stepAt /\ stepAt # 0 /\ stepAt' # 0
       => stepAt' - stepAt >= EmitInterval]_vars

(* "Hysteresis on direction reversal: require sustained opposite movement" *)
(* (button_listener.c:76): a step against the direction of the last one,   *)
(* unless the wheel was idle since, needs as much movement that way in the *)
(* session as the threshold, however forward and backward ticks mix.       *)
ReversalsSustained ==
  [][/\ stepped'.bwd > stepped.bwd /\ wheel.outDir = 1
          => turned.bwd >= ReverseThreshold
     /\ stepped'.fwd > stepped.fwd /\ wheel.outDir = -1
          => turned.fwd >= ReverseThreshold]_vars
=============================================================================
