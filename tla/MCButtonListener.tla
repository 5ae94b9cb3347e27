-------------------------- MODULE MCButtonListener --------------------------
(* Instances of ButtonListener.  The time unit is an emit interval or less *)
(* and the four intervals keep their order: event debounce < emit interval *)
(* < idle reset, click debounce < timeout.                                 *)
EXTENDS ButtonListener

CONSTANTS alt, gui, shift, tab, left

TwoWays   == {-1, 1}
Coalesced == {-2, 1}

(* The user plays with the knob alone, and the HID daemon is not running:  *)
(* every send fails at once, but time may pass before it as before any.    *)
KnobUser ==
  \/ \E devices \in {{"knob"}, Devices} : ClickKnob(devices)
  \/ \E delta \in Turns : TurnKnob(delta)

HidDown  == Init /\ hidUp = FALSE
KnobSpec == HidDown /\ [][Loop \/ Tick \/ KnobUser]_vars

(* With a coarse unit of time, which no tap takes, time passes during the  *)
(* sends only while one waits for a full queue.                            *)
SendWaits   == outbox # <<>> /\ hidUp /\ Len(hidq) = HidMax
WaitingTick == Tick /\ (outbox = <<>> \/ SendWaits)

(* The user plays with the buttons and clicks the knob on one device. *)
ButtonUser ==
  \/ \E key \in {Alt} \cup Presets : PressButton(key) \/ ReleaseButton(key)
  \/ ClickKnob({"buttons"})
  \/ PressMute

ButtonSpec == Init /\ [][Loop \/ WaitingTick \/ Stop \/ Start
                            \/ ButtonUser \/ HidReceives \/ HidRestarts]_vars
=============================================================================
