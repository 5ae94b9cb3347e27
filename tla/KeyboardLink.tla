---------------------------- MODULE KeyboardLink ----------------------------
(* What a keyboard daemon promises, whatever sockets, watches and messages  *)
(* it is made of: at most one computer is linked; a key event that reaches  *)
(* it changes the modifiers held and is seen, with them, by the linked      *)
(* computer and by no other; a computer whose link ends sees every key up;  *)
(* and the modifiers held are forgotten only while no computer is linked.   *)
(* Both daemons promise it; the C daemon also lets another computer take    *)
(* the link of the one that has it.                                         *)
EXTENDS FiniteSets

CONSTANTS
  Hosts, NoHost, Modifiers, Keys, NoKey,
  Takeover    \* whether a linked host can be replaced by another

VARIABLES
  link,   \* the host that reports reach, or NoHost
  held,   \* the modifiers held down, according to the key events
  seen    \* what each host believes to be down

vars == <<link, held, seen>>

AllUp == [mods |-> {}, key |-> NoKey]

Init ==
  /\ link = NoHost
  /\ held = {}
  /\ seen = [h \in Hosts |-> AllUp]

(* The modifiers held after an event, and the key that its report names.   *)
HeldAfter(code, down) ==
  IF code \notin Modifiers THEN held
  ELSE IF down THEN held \cup {code} ELSE held \ {code}

KeyAfter(code, down) == IF code \in Keys /\ down THEN code ELSE NoKey

KeyEvent(code, down) ==
  /\ held' = HeldAfter(code, down)
  /\ seen' = [h \in Hosts |->
                IF h = link
                THEN [mods |-> held', key |-> KeyAfter(code, down)]
                ELSE seen[h]]
  /\ UNCHANGED link

Link(h) ==
  /\ link = NoHost
  /\ link' = h
  /\ UNCHANGED <<held, seen>>

(* The link ends; held keys are forgotten now, or later when it is noticed. *)
Unlink ==
  /\ link # NoHost
  /\ link' = NoHost
  /\ held' \in {held, {}}
  /\ seen' = [seen EXCEPT ![link] = AllUp]

(* ... and a link to another host, or anew to the same one, takes its place. *)
Replace(h) ==
  /\ Takeover /\ link # NoHost
  /\ link' = h
  /\ seen' = [seen EXCEPT ![link] = AllUp]
  /\ UNCHANGED held

Forget ==
  /\ link = NoHost
  /\ held' = {}
  /\ UNCHANGED <<link, seen>>

Next ==
  \/ \E code \in Modifiers \cup Keys, down \in BOOLEAN : KeyEvent(code, down)
  \/ \E h \in Hosts : Link(h) \/ Replace(h)
  \/ Unlink
  \/ Forget

Spec == Init /\ [][Next]_vars
=============================================================================
