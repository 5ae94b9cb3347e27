----------------------- MODULE ClassicKeyboard_proofs -----------------------
(* Proofs about ClassicKeyboard, the listener and the server together, for   *)
(* any hosts, descriptors and bounds: the types, that the composition does   *)
(* nothing the server alone does not promise, and that nothing is left down  *)
(* when the listener rests.                                                  *)
EXTENDS ClassicKeyboard, HidServer_proofs

(* A key is down: held by the server, or shown to a host by its last report. *)
DownNow(c) == c \in mods \/ (c \in Keys /\ \E h \in Hosts : seen[h].key = c)

Press(c)   == [code |-> c, pressed |-> TRUE]
Release(c) == [code |-> c, pressed |-> FALSE]

(* Once the queue is handled, c will be up: whatever presses it now or later *)
(* in the queue is followed there by a release.                              *)
Settles(c) ==
  /\ DownNow(c) => \E j \in DOMAIN ipcq : ipcq[j] = Release(c)
  /\ \A i \in DOMAIN ipcq : ipcq[i] = Press(c) =>
       \E j \in DOMAIN ipcq : i < j /\ ipcq[j] = Release(c)

(* The handler under way is still to send the release of c.                  *)
Owed(c) == \E i \in DOMAIN outbox : outbox[i] = Hid(c, FALSE)

KeysSettle ==
  \A c \in Modifiers \cup Keys : Settles(c) \/ Owed(c) \/ (c = Alt /\ func)

MicSettles ==
  micOn => func \/ \E i \in DOMAIN outbox : outbox[i] = Mic(FALSE)

(* What the handlers can have left to send.                                  *)
AltDown   == Hid(Alt, TRUE)
AltUp     == Hid(Alt, FALSE)
ShiftDown == Hid(Shift, TRUE)
ShiftUp   == Hid(Shift, FALSE)
SlashDown == Hid(Slash, TRUE)
SlashUp   == Hid(Slash, FALSE)
MicStart  == Mic(TRUE)
MicStop   == Mic(FALSE)

Pressed  == <<AltDown, MicStart>>
Started  == <<MicStart>>
Released == <<AltUp, MicStop>>
Stopped  == <<MicStop>>
Preset1  == <<ShiftDown, SlashDown, SlashUp, ShiftUp>>
Preset2  == <<SlashDown, SlashUp, ShiftUp>>
Preset3  == <<SlashUp, ShiftUp>>
Preset4  == <<ShiftUp>>

OutboxShape ==
  \/ outbox \in {<<>>, Preset1, Preset2, Preset3, Preset4}
  \/ func /\ outbox \in {Pressed, Started}
  \/ ~func /\ outbox \in {Released, Stopped}

(* A server that is away has nothing queued, remembered or ready.            *)
AwayIsIdle ==
  ~up => /\ ipcq = <<>> /\ mods = {} /\ todo = NothingReady
         /\ ctrl = NoFd /\ intr = NoFd

(* A host that sees anything down sees the modifiers that the server holds.  *)
SeenMatches == \A h \in Hosts : seen[h] # AllUp => seen[h].mods = mods

ClassicInv ==
  /\ Inv /\ OutboxShape /\ KeysSettle /\ MicSettles /\ AwayIsIdle /\ SeenMatches

----------------------------------------------------------------------------
(* Types.                                                                    *)

ListenerTypes ==
  /\ listening \in BOOLEAN /\ func \in BOOLEAN /\ micOn \in BOOLEAN
  /\ outbox \in Seq(Sends)

LEMMA CodeFacts ==
  /\ Modifiers \cup Keys = {Alt, Shift, Slash}
  /\ Alt # Shift /\ Alt # Slash /\ Shift # Slash /\ Slash # NoKey
  BY ListenerAssumption, ServerAssumption

LEMMA SendTypes ==
  /\ \A c \in {Alt, Shift, Slash} : Hid(c, TRUE) \in Sends /\ Hid(c, FALSE) \in Sends
  /\ Mic(TRUE) \in Sends /\ Mic(FALSE) \in Sends
  BY CodeFacts DEF Sends, Hid, Mic

LEMMA Tuples ==
  ASSUME NEW S, NEW a \in S, NEW b \in S, NEW c \in S, NEW d \in S
  PROVE  <<a, b>> \in Seq(S) /\ <<a, b, c, d>> \in Seq(S)
  OBVIOUS

LEMMA ListenerTypesKept ==
  ASSUME ListenerTypes, [ListenerNext]_allVars
  PROVE  ListenerTypes'
  <1> USE DEF ListenerTypes
  <1>0. CASE UNCHANGED listenerVars
    BY <1>0 DEF listenerVars
  <1>1. CASE PressFunction
    <2>1. <<Hid(Alt, TRUE), Mic(TRUE)>> \in Seq(Sends)
      BY SendTypes, Tuples
    <2> QED BY <1>1, <2>1 DEF PressFunction
  <1>2. CASE ReleaseFunction
    <2>1. <<Hid(Alt, FALSE), Mic(FALSE)>> \in Seq(Sends)
      BY SendTypes, Tuples
    <2> QED BY <1>2, <2>1 DEF ReleaseFunction
  <1>3. CASE PressPreset
    <2>1. <<Hid(Shift, TRUE), Hid(Slash, TRUE), Hid(Slash, FALSE),
            Hid(Shift, FALSE)>> \in Seq(Sends)
      BY SendTypes, Tuples
    <2> QED BY <1>3, <2>1 DEF PressPreset
  <1>4. CASE SendHid
    BY <1>4 DEF SendHid
  <1>5. CASE SendLost
    BY <1>5 DEF SendLost
  <1>6. CASE SendMic
    <2>1. Head(outbox) \in Sends /\ Tail(outbox) \in Seq(Sends)
      BY <1>6, HeadTail DEF SendMic
    <2>2. Head(outbox).pressed \in BOOLEAN
      BY <2>1 DEF Sends
    <2> QED BY <1>6, <2>1, <2>2 DEF SendMic
  <1>7. CASE ListenerEnds
    BY <1>7 DEF ListenerEnds
  <1>8. CASE ServerSide \/ UNCHANGED allVars
    BY <1>0, <1>8 DEF ServerSide, allVars
  <1> QED BY <1>1, <1>2, <1>3, <1>4, <1>5, <1>6, <1>7, <1>8
          DEF ListenerNext, Listener

(* The key event that the listener sends next.                               *)
NextEvent == [code |-> Head(outbox).code, pressed |-> Head(outbox).pressed]

LEMMA NextEventType ==
  ASSUME ListenerTypes, outbox # <<>>, Head(outbox).to = "hid"
  PROVE  /\ NextEvent \in KeyEvents
         /\ Head(outbox) = Hid(NextEvent.code, NextEvent.pressed)
  <1>1. Head(outbox) \in Sends
    BY HeadTail DEF ListenerTypes
  <1>2. Head(outbox) \in [to : {"hid"}, code : Modifiers \cup Keys,
                         pressed : BOOLEAN]
    BY <1>1 DEF Sends
  <1> QED BY <1>2 DEF NextEvent, KeyEvents, Hid

(* To the server, the listener is one of the processes that send key events. *)
LEMMA StepOfServer ==
  ASSUME ListenerTypes, [ListenerNext]_allVars
  PROVE  [Next]_vars
  <1>1. CASE ServerSide
    BY <1>1 DEF ServerSide, Next
  <1>2. CASE SendHid
    BY <1>2, NextEventType DEF SendHid, NextEvent, Next
  <1> QED BY <1>1, <1>2
          DEF ListenerNext, Listener, PressFunction, ReleaseFunction,
              PressPreset, SendLost, SendMic, ListenerEnds, allVars

LEMMA InitTypes == ListenerInit => ListenerTypes
  <1> SUFFICES ASSUME ListenerInit PROVE ListenerTypes
    OBVIOUS
  <1>1. listening \in BOOLEAN /\ func \in BOOLEAN /\ micOn \in BOOLEAN
    BY Zenon DEF ListenerInit
  <1>2. outbox \in Seq(Sends)
    BY DEF ListenerInit
  <1> QED BY <1>1, <1>2 DEF ListenerTypes

(* The composition implements the server: whatever is proved of Spec holds   *)
(* with the listener as the sender, in particular the refinement of          *)
(* KeyboardLink.                                                             *)
THEOREM ServerKept == ListenerSpec => Spec
  <1>1. ListenerInit => Init
    BY DEF ListenerInit
  <1> QED BY <1>1, InitTypes, ListenerTypesKept, StepOfServer, PTL
          DEF ListenerSpec, Spec

(* With the listener's events, and with any of them lost, a host that cannot *)
(* be reached believes no key to be down, every channel held is watched, and *)
(* the server keeps the promises of KeyboardLink.                            *)
THEOREM PairKeepsLink ==
  ListenerSpec => []NoGhostKeys /\ []HeldWatched /\ ImplementsLink
  BY ServerKept, NoKeyLeftDown, HeldAreWatched, KeepsLink, PTL

(* Sockets, watches, queues and what the listener has yet to send keep their *)
(* types.                                                                    *)
THEOREM ListenerTypeCorrect == ListenerSpec => []ListenerTypeOK
  <1>1. ListenerSpec => []ListenerTypes
    BY InitTypes, ListenerTypesKept, PTL DEF ListenerSpec
  <1>2. TypeOK /\ ListenerTypes => ListenerTypeOK
    BY DEF ListenerTypes, ListenerTypeOK
  <1> QED BY <1>1, <1>2, ServerKept, TypeCorrect, PTL

----------------------------------------------------------------------------
(* What a step does to the key events and to the keys that are down.         *)

LEMMA QueueTouched ==
  ASSUME Server \/ Stop \/ Start \/ Host
  PROVE  UNCHANGED ipcq \/ OnIpcData \/ Stop
  <1>1. CASE Server
    BY <1>1 DEF Server, Poll, OnControlConnected, OnInterruptConnected,
                OnConnectionRefused, RequestDisconnection, OnHup, OnCtrlNone,
                OnCtrlClosed, OnCtrlData
  <1>2. CASE Start \/ Host
    BY <1>2 DEF Start, Setup, StartIpcSocket, Host, HostConnects,
                BlueZDisconnects, HostSends, HostCloses, HostClosesEarly
  <1> QED BY <1>1, <1>2

(* Apart from the reports, steps of the server and of the hosts can only     *)
(* take keys up: all of them, or all that a host sees.                       *)
OnlyReleases ==
  \/ mods' = {} /\ seen' = [h \in Hosts |-> AllUp]
  \/ mods' = mods /\ \A h \in Hosts : seen'[h] \in {seen[h], AllUp}

LEMMA LinkEffect ==
  ASSUME Inv, Next
  PROVE  OnlyReleases \/ Reported
  <1>1. CASE Quiet
    BY <1>1 DEF Quiet, OnlyReleases
  <1>2. CASE LetGo
    BY <1>2 DEF LetGo, OnlyReleases
  <1>3. CASE OnControlConnected \/ OnInterruptConnected
    BY <1>3 DEF OnControlConnected, OnInterruptConnected, OnlyReleases
  <1>4. ASSUME NEW fd \in Fds, HostCloses(fd) PROVE OnlyReleases
    BY <1>4 DEF HostCloses, SeenWithout, OnlyReleases
  <1> QED BY <1>1, <1>2, <1>3, <1>4, StepKinds

LEMMA NothingDown ==
  ASSUME NEW c \in Modifiers \cup Keys
  PROVE  ~(c \in {}) /\ (c \in Keys => AllUp.key # c) /\ AllUp.mods = {}
  BY ServerAssumption, CodeFacts DEF AllUp

LEMMA ReleasesOnly ==
  ASSUME OnlyReleases, NEW c \in Modifiers \cup Keys, DownNow(c)'
  PROVE  DownNow(c)
  BY NothingDown DEF OnlyReleases, DownNow

(* A report: what is down after it was pressed by its event, or was down and *)
(* is not released by it.                                                    *)
LEMMA ReportEffect ==
  ASSUME Inv, OnIpcData, NEW c \in Modifiers \cup Keys, DownNow(c)'
  PROVE  \/ Head(ipcq) = Press(c)
         \/ DownNow(c) /\ Head(ipcq) # Release(c)
  <1> DEFINE e == Head(ipcq)
  <1>1. e \in KeyEvents
    BY HeadTail DEF Inv, TypeOK, ReadyHolds, OnIpcData
  <1>2. e.code = c /\ e.pressed => e = Press(c)
    BY <1>1 DEF KeyEvents, Press
  <1>3. Modifiers \cap Keys = {} /\ (c \in Keys => c # NoKey)
    BY ServerAssumption, CodeFacts
  <1>4. seen \in [Hosts -> KeyStates] /\ mods \subseteq Modifiers
    BY DEF Inv, TypeOK
  <1>5. e = Release(c) => e.code = c /\ ~e.pressed
    BY DEF Release
  <1>6. c \in ModsAfter(e) => \/ e = Press(c)
                              \/ c \in mods /\ e # Release(c)
    <2> HIDE DEF e
    <2> QED BY <1>2, <1>4, <1>5 DEF ModsAfter
  <1>7. c \in Keys /\ KeyAfter(e) = c => e = Press(c)
    <2> HIDE DEF e
    <2> QED BY <1>2, <1>3 DEF KeyAfter
  <1>8. CASE HandleDisconnect
    <2>1. mods' = {} /\ seen' = [h \in Hosts |-> AllUp]
      BY <1>8, Disconnected DEF Inv
    <2> QED BY <2>1, NothingDown DEF DownNow
  <1>9. CASE ReportDropped(ModsAfter(e))
    <2>1. mods' = ModsAfter(e) /\ \A h \in Hosts : seen'[h] = AllUp
      BY <1>9, AllUpUnlinked DEF ReportDropped
    <2>2. c \in ModsAfter(e)
      BY <2>1, NothingDown DEF DownNow
    <2> QED BY <1>6, <2>2 DEF DownNow
  <1>10. CASE ReportDelivered(ModsAfter(e), KeyAfter(e))
    <2> DEFINE m == ModsAfter(e)
               k == KeyAfter(e)
    <2>1. mods' = m
      BY <1>10 DEF ReportDelivered
    <2>2. ASSUME c \in Keys, NEW h \in Hosts, seen'[h].key = c PROVE k = c
      <3>1. seen'[h] = IF h = fdt[intr].host /\ fdt[intr].psm = InterruptPsm
                       THEN [mods |-> m, key |-> k] ELSE seen[h]
        BY <1>10 DEF ReportDelivered
      <3>2. ~(h = fdt[intr].host /\ fdt[intr].psm = InterruptPsm)
              => seen[h] = AllUp
        BY DEF Inv, NoGhostKeys
      <3> HIDE DEF m, k
      <3> QED BY <2>2, <3>1, <3>2, NothingDown
    <2> QED BY <1>6, <1>7, <2>1, <2>2 DEF DownNow
  <1> QED BY <1>8, <1>9, <1>10 DEF OnIpcData, SendReport

----------------------------------------------------------------------------
(* The keys settle.                                                          *)

(* Handling the first event brings its release, or another one, nearer.      *)
LEMMA SettlesHandled ==
  ASSUME Inv, OnIpcData, NEW c \in Modifiers \cup Keys, Settles(c)
  PROVE  Settles(c)'
  <1>1. /\ ipcq \in Seq(KeyEvents) /\ ipcq # <<>> /\ ipcq' = Tail(ipcq)
    BY DEF Inv, TypeOK, ReadyHolds, OnIpcData
  <1>2. /\ Head(ipcq) = ipcq[1] /\ Len(ipcq) \in Nat \ {0}
        /\ DOMAIN ipcq = 1..Len(ipcq) /\ DOMAIN ipcq' = 1..Len(ipcq) - 1
        /\ \A i \in DOMAIN ipcq' : ipcq'[i] = ipcq[i + 1]
    BY <1>1
  <1>3. ASSUME NEW j \in DOMAIN ipcq, j > 1
        PROVE  j - 1 \in DOMAIN ipcq' /\ ipcq'[j - 1] = ipcq[j]
    BY <1>2, <1>3
  <1>4. ASSUME DownNow(c)'
        PROVE  \E j \in DOMAIN ipcq' : ipcq'[j] = Release(c)
    <2>1. CASE ipcq[1] = Press(c)
      <3>1. PICK j \in DOMAIN ipcq : 1 < j /\ ipcq[j] = Release(c)
        BY <1>2, <2>1 DEF Settles
      <3> QED BY <1>3, <3>1
    <2>2. CASE DownNow(c) /\ ipcq[1] # Release(c)
      <3>1. PICK j \in DOMAIN ipcq : ipcq[j] = Release(c)
        BY <2>2 DEF Settles
      <3>2. j > 1
        BY <1>2, <2>2, <3>1
      <3> QED BY <1>3, <3>1, <3>2
    <2> QED BY <1>2, <1>4, <2>1, <2>2, ReportEffect
  <1>5. ASSUME NEW i \in DOMAIN ipcq', ipcq'[i] = Press(c)
        PROVE  \E j \in DOMAIN ipcq' : i < j /\ ipcq'[j] = Release(c)
    <2>1. i + 1 \in DOMAIN ipcq /\ ipcq[i + 1] = Press(c) /\ i \in Nat
      BY <1>2, <1>5
    <2>2. PICK j \in DOMAIN ipcq : i + 1 < j /\ ipcq[j] = Release(c)
      BY <2>1 DEF Settles
    <2>3. j > 1 /\ i < j - 1
      BY <1>2, <2>1, <2>2
    <2> QED BY <1>3, <2>2, <2>3
  <1> QED BY <1>4, <1>5 DEF Settles

(* A key stays settled unless it is pressed again.                           *)
LEMMA SettlesQueued ==
  ASSUME Inv, NEW e \in KeyEvents, SendKey(e), NEW c \in Modifiers \cup Keys,
         e = Release(c) \/ (e # Press(c) /\ Settles(c))
  PROVE  Settles(c)'
  <1>1. /\ DOMAIN ipcq \subseteq DOMAIN ipcq'
        /\ \A i \in DOMAIN ipcq : ipcq'[i] = ipcq[i]
        /\ DOMAIN ipcq' = DOMAIN ipcq \cup {Len(ipcq) + 1}
        /\ ipcq'[Len(ipcq) + 1] = e
        /\ \A i \in DOMAIN ipcq : i < Len(ipcq) + 1
    BY DEF Inv, TypeOK, SendKey
  <1>2. DownNow(c)' <=> DownNow(c)
    BY DEF SendKey, linkVars, DownNow
  <1>3. Press(c) # Release(c)
    BY DEF Press, Release
  <1>4. CASE e = Release(c)
    BY <1>1, <1>3, <1>4 DEF Settles
  <1>5. CASE e # Press(c) /\ Settles(c)
    BY <1>1, <1>2, <1>5 DEF Settles
  <1> QED BY <1>4, <1>5

(* Any other step of the server or of a host.                                *)
LEMMA SettlesServer ==
  ASSUME Inv, Server \/ Stop \/ Start \/ Host,
         NEW c \in Modifiers \cup Keys, Settles(c)
  PROVE  Settles(c)'
  <1> USE DEF Next
  <1>1. CASE OnIpcData
    BY <1>1, SettlesHandled
  <1>2. CASE Stop
    <2>1. ipcq' = <<>> /\ OnlyReleases
      BY <1>2, LinkEffect DEF Stop, Reported, OnIpcData
    <2>2. mods' = {} /\ seen' = [h \in Hosts |-> AllUp]
      <3>1. Fds \in SUBSET Fds /\ intr \in Fds \cup {NoFd}
        BY DEF Inv, TypeOK
      <3> QED BY <1>2, <3>1, Closed DEF Stop, Inv
    <2> QED BY <2>1, <2>2, NothingDown DEF Settles, DownNow
  <1>3. CASE UNCHANGED ipcq /\ OnlyReleases
    BY <1>3, ReleasesOnly DEF Settles
  <1>4. Next
    OBVIOUS
  <1> QED BY <1>1, <1>2, <1>3, <1>4, QueueTouched, LinkEffect DEF Reported

(* A server that is away has no key down and none on its way.                *)
LEMMA SettledAway ==
  ASSUME Inv, AwayIsIdle, ~up, NEW c \in Modifiers \cup Keys
  PROVE  Settles(c)
  <1>1. \A h \in Hosts : seen[h] = AllUp
    BY DEF AwayIsIdle, Inv, NoGhostKeys
  <1>2. mods = {} /\ ipcq = <<>>
    BY DEF AwayIsIdle
  <1> QED BY <1>1, <1>2, NothingDown DEF Settles, DownNow
----------------------------------------------------------------------------
(* What the handler under way has left to send.                              *)

LEMMA Handlers ==
  /\ Head(Pressed) = AltDown /\ Tail(Pressed) = Started
  /\ Head(Started) = MicStart /\ Tail(Started) = <<>>
  /\ Head(Released) = AltUp /\ Tail(Released) = Stopped
  /\ Head(Stopped) = MicStop /\ Tail(Stopped) = <<>>
  /\ Head(Preset1) = ShiftDown /\ Tail(Preset1) = Preset2
  /\ Head(Preset2) = SlashDown /\ Tail(Preset2) = Preset3
  /\ Head(Preset3) = SlashUp /\ Tail(Preset3) = Preset4
  /\ Head(Preset4) = ShiftUp /\ Tail(Preset4) = <<>>
  BY DEF Pressed, Started, Released, Stopped, Preset1, Preset2, Preset3, Preset4

LEMMA Owing ==
  /\ 3 \in DOMAIN Preset2 /\ Preset2[3] = ShiftUp
  /\ 1 \in DOMAIN Preset3 /\ Preset3[1] = SlashUp
  /\ 1 \in DOMAIN Released /\ Released[1] = AltUp
  /\ 2 \in DOMAIN Released /\ Released[2] = MicStop
  BY DEF Released, Preset2, Preset3

LEMMA SendNames ==
  /\ \A c : Hid(c, TRUE) = AltDown => c = Alt
  /\ \A c : Hid(c, TRUE) = ShiftDown => c = Shift
  /\ \A c : Hid(c, TRUE) = SlashDown => c = Slash
  /\ \A c : Hid(c, TRUE) \notin {AltUp, ShiftUp, SlashUp, MicStart, MicStop}
  /\ Hid(Alt, FALSE) = AltUp /\ Hid(Shift, FALSE) = ShiftUp
  /\ Hid(Slash, FALSE) = SlashUp
  BY DEF Hid, Mic, AltDown, AltUp, ShiftDown, ShiftUp, SlashDown, SlashUp,
         MicStart, MicStop

LEMMA ShapeAfterSend ==
  ASSUME OutboxShape, outbox # <<>>, outbox' = Tail(outbox), UNCHANGED func
  PROVE  OutboxShape'
  BY Handlers DEF OutboxShape

LEMMA ShapeKept ==
  ASSUME OutboxShape, [ListenerNext]_allVars
  PROVE  OutboxShape'
  <1>1. CASE PressFunction \/ ReleaseFunction \/ PressPreset
    <2>1. \/ func' /\ outbox' = Pressed
          \/ ~func' /\ outbox' = Released
          \/ outbox' = Preset1
      BY <1>1 DEF PressFunction, ReleaseFunction, PressPreset, AltDown, AltUp,
                  ShiftDown, ShiftUp, SlashDown, SlashUp, MicStart, MicStop,
                  Pressed, Released, Preset1
    <2> QED BY <2>1 DEF OutboxShape
  <1>2. CASE SendHid \/ SendLost \/ SendMic
    BY <1>2, ShapeAfterSend DEF SendHid, SendLost, SendMic
  <1>3. CASE UNCHANGED <<outbox, func>>
    BY <1>3 DEF OutboxShape
  <1> QED BY <1>1, <1>2, <1>3
          DEF ListenerNext, Listener, ServerSide, ListenerEnds, listenerVars,
              allVars

(* What is owed is still owed after another send.                            *)
LEMMA OwedStays ==
  ASSUME ListenerTypes, outbox # <<>>, outbox' = Tail(outbox),
         NEW s, s # Head(outbox), \E i \in DOMAIN outbox : outbox[i] = s
  PROVE  \E i \in DOMAIN outbox' : outbox'[i] = s
  <1>1. PICK i \in DOMAIN outbox : outbox[i] = s
    OBVIOUS
  <1>2. /\ outbox \in Seq(Sends) /\ Head(outbox) = outbox[1]
        /\ DOMAIN outbox = 1..Len(outbox) /\ Len(outbox) \in Nat
        /\ DOMAIN outbox' = 1..Len(outbox) - 1
        /\ \A j \in DOMAIN outbox' : outbox'[j] = outbox[j + 1]
    BY DEF ListenerTypes
  <1>3. i - 1 \in DOMAIN outbox' /\ outbox'[i - 1] = outbox[i]
    BY <1>1, <1>2
  <1> QED BY <1>1, <1>3

(* A key that a handler presses is one it still owes the release of, or the  *)
(* one that stands for the function button.                                  *)
LEMMA PressIsOwed ==
  ASSUME OutboxShape, outbox # <<>>, outbox' = Tail(outbox),
         NEW c, Head(outbox) = Hid(c, TRUE)
  PROVE  Owed(c)' \/ (c = Alt /\ func)
  <1>1. CASE outbox = Pressed
    <2>1. func
      BY <1>1, Handlers, SendNames, CodeFacts DEF OutboxShape
    <2> QED BY <1>1, <2>1, Handlers, SendNames
  <1>2. CASE outbox = Preset1
    BY <1>2, Handlers, Owing, SendNames DEF Owed
  <1>3. CASE outbox = Preset2
    BY <1>3, Handlers, Owing, SendNames DEF Owed
  <1> QED BY <1>1, <1>2, <1>3, Handlers, SendNames DEF OutboxShape

----------------------------------------------------------------------------
(* The invariant is inductive.                                               *)

LEMMA SettlesUnchanged ==
  ASSUME UNCHANGED vars, NEW c, Settles(c)
  PROVE  Settles(c)'
  BY DEF vars, linkVars, Settles, DownNow

LEMMA KeysSettleKept ==
  ASSUME ClassicInv, ListenerTypes, [ListenerNext]_allVars
  PROVE  KeysSettle'
  <1> SUFFICES ASSUME NEW c \in Modifiers \cup Keys
               PROVE  Settles(c)' \/ Owed(c)' \/ (c = Alt /\ func')
    BY DEF KeysSettle
  <1>0. Inv /\ OutboxShape /\ AwayIsIdle
        /\ (Settles(c) \/ Owed(c) \/ (c = Alt /\ func))
    BY DEF ClassicInv, KeysSettle
  <1>a. outbox = <<>> => ~Owed(c)
    BY DEF Owed
  <1>1. CASE PressFunction \/ PressPreset \/ ListenerEnds
    <2>1. outbox = <<>> /\ UNCHANGED vars
      BY <1>1 DEF PressFunction, PressPreset, ListenerEnds, ReadsNext
    <2>2. func => func'
      BY <1>1, Zenon DEF PressFunction, PressPreset, ListenerEnds
    <2> QED BY <1>0, <1>a, <2>1, <2>2, SettlesUnchanged
  <1>2. CASE ReleaseFunction
    <2>1. outbox = <<>> /\ UNCHANGED vars
          /\ outbox' = Released
      BY <1>2 DEF ReleaseFunction, ReadsNext, Released, AltUp, MicStop
    <2> QED BY <1>0, <1>a, <2>1, Owing, SettlesUnchanged, SendNames DEF Owed
  <1>3. CASE SendHid
    <2>1. /\ outbox # <<>> /\ outbox' = Tail(outbox) /\ UNCHANGED func
          /\ SendKey(NextEvent) /\ NextEvent \in KeyEvents
          /\ Head(outbox) = Hid(NextEvent.code, NextEvent.pressed)
      BY <1>3, NextEventType DEF SendHid, NextEvent
    <2>2. CASE NextEvent = Release(c)
      BY <1>0, <2>1, <2>2, SettlesQueued
    <2>3. CASE NextEvent = Press(c)
      <3>1. Head(outbox) = Hid(c, TRUE)
        BY <2>1, <2>3 DEF Press
      <3> QED BY <1>0, <2>1, <3>1, PressIsOwed
    <2>4. CASE NextEvent # Press(c) /\ NextEvent # Release(c)
      <3>1. Head(outbox) # Hid(c, FALSE)
        BY <2>1, <2>4 DEF Hid, KeyEvents, Release
      <3>2. Owed(c) => Owed(c)'
        BY <2>1, <3>1, OwedStays DEF Owed
      <3> QED BY <1>0, <2>1, <2>4, <3>2, SettlesQueued
    <2> QED BY <2>2, <2>3, <2>4
  <1>4. CASE SendLost
    BY <1>0, <1>4, SettledAway, SettlesUnchanged DEF SendLost
  <1>5. CASE SendMic
    <2>1. Head(outbox) # Hid(c, FALSE)
      BY <1>5 DEF SendMic, Hid
    <2>2. Owed(c) => Owed(c)'
      BY <1>5, <2>1, OwedStays DEF SendMic, Owed
    <2> QED BY <1>0, <1>5, <2>2, SettlesUnchanged DEF SendMic
  <1>6. CASE ServerSide
    <2>1. Owed(c) => Owed(c)'
      BY <1>6 DEF ServerSide, listenerVars, Owed
    <2> QED BY <1>0, <1>6, <2>1, SettlesServer DEF ServerSide, listenerVars
  <1>7. CASE UNCHANGED allVars
    BY <1>0, <1>7, SettlesUnchanged DEF allVars, listenerVars, Owed
  <1> QED BY <1>1, <1>2, <1>3, <1>4, <1>5, <1>6, <1>7 DEF ListenerNext, Listener

LEMMA MicSettlesKept ==
  ASSUME OutboxShape, MicSettles, ListenerTypes, [ListenerNext]_allVars
  PROVE  MicSettles'
  <1> DEFINE Off == \E i \in DOMAIN outbox : outbox[i] = Mic(FALSE)
  <1>0. micOn => func \/ Off
    BY DEF MicSettles
  <1>a. outbox = <<>> => ~Off
    OBVIOUS
  <1>1. CASE PressFunction \/ PressPreset \/ ListenerEnds
    BY <1>0, <1>a, <1>1
       DEF PressFunction, PressPreset, ListenerEnds, ReadsNext, MicSettles
  <1>2. CASE ReleaseFunction
    <2>1. outbox' = Released
      BY <1>2 DEF ReleaseFunction, Released, AltUp, MicStop
    <2> QED BY <2>1, Owing DEF MicSettles, MicStop
  <1>3. CASE SendHid \/ SendLost
    <2>1. Head(outbox) # Mic(FALSE)
      BY <1>3 DEF SendHid, SendLost, Mic
    <2>2. Off => Off'
      BY <1>3, <2>1, OwedStays DEF SendHid, SendLost
    <2> QED BY <1>0, <1>3, <2>2 DEF SendHid, SendLost, MicSettles
  <1>4. CASE SendMic
    <2>1. CASE micOn'
      <3>1. Head(outbox).to = "mic" /\ Head(outbox).pressed = TRUE
        <4>1. Head(outbox) \in Sends
          BY <1>4, HeadTail DEF SendMic, ListenerTypes
        <4>2. Head(outbox).pressed \in BOOLEAN
          BY <4>1 DEF Sends
        <4> QED BY <1>4, <2>1, <4>2 DEF SendMic
      <3>2. Head(outbox) \notin {AltDown, AltUp, ShiftDown, ShiftUp, SlashDown,
                                SlashUp, MicStop}
        BY <3>1 DEF Hid, Mic, AltDown, AltUp, ShiftDown, ShiftUp, SlashDown,
                    SlashUp, MicStop
      <3>3. outbox # <<>>
        BY <1>4 DEF SendMic
      <3>4. func
        BY <3>2, <3>3, Handlers DEF OutboxShape
      <3> QED BY <1>4, <3>4 DEF SendMic, MicSettles
    <2> QED BY <2>1 DEF MicSettles
  <1>5. CASE UNCHANGED listenerVars
    BY <1>0, <1>5 DEF listenerVars, MicSettles
  <1> QED BY <1>1, <1>2, <1>3, <1>4, <1>5
          DEF ListenerNext, Listener, ServerSide, allVars

LEMMA AwayStaysIdle ==
  ASSUME AwayIsIdle, Next
  PROVE  AwayIsIdle'
  <1> DEFINE Idle == /\ ipcq = <<>> /\ mods = {} /\ todo = NothingReady
                     /\ ctrl = NoFd /\ intr = NoFd
  <1>1. CASE Stop
    BY <1>1 DEF Stop, AwayIsIdle
  <1>2. CASE Start
    BY <1>2 DEF Start, Setup, StartIpcSocket, linkVars, AwayIsIdle
  <1>3. CASE Host
    <2>1. UNCHANGED <<up, ipcq, mods, todo, ctrl, intr>>
      BY <1>3 DEF Host, HostConnects, BlueZDisconnects, HostSends, HostCloses,
                  HostClosesEarly, linkVars
    <2> QED BY <2>1 DEF AwayIsIdle
  <1>4. CASE \E e \in KeyEvents : SendKey(e)
    BY <1>4 DEF SendKey, AwayIsIdle
  <1>5. CASE Server
    <2>1. up
      BY <1>5 DEF Server, Poll, OnControlConnected, OnInterruptConnected,
                  OnConnectionRefused, RequestDisconnection, NextMessage,
                  OnIpcData, OnHup, OnCtrlNone, OnCtrlClosed, OnCtrlData, Turn,
                  AwayIsIdle, NothingReady
    <2>2. UNCHANGED up
      BY <1>5 DEF Server, Poll, OnControlConnected, OnInterruptConnected,
                  OnConnectionRefused, RequestDisconnection,
                  OnIpcData, OnHup, OnCtrlNone, OnCtrlClosed, OnCtrlData
    <2> QED BY <2>1, <2>2 DEF AwayIsIdle
  <1> QED BY <1>1, <1>2, <1>3, <1>4, <1>5 DEF Next

LEMMA SeenStillMatches ==
  ASSUME Inv, SeenMatches, Next
  PROVE  SeenMatches'
  <1>0. Hosts = DOMAIN seen
    BY DEF Inv, TypeOK
  <1>1. CASE OnlyReleases
    BY <1>1 DEF OnlyReleases, SeenMatches
  <1>2. CASE ReportDropped(ModsAfter(Head(ipcq)))
    BY <1>2, AllUpUnlinked DEF ReportDropped, SeenMatches
  <1>3. CASE ReportDelivered(ModsAfter(Head(ipcq)), KeyAfter(Head(ipcq)))
    <2> DEFINE m == ModsAfter(Head(ipcq))
               k == KeyAfter(Head(ipcq))
    <2> SUFFICES ASSUME NEW h \in Hosts, seen'[h] # AllUp
                 PROVE  seen'[h].mods = mods'
      BY DEF SeenMatches
    <2>1. /\ mods' = m
          /\ seen'[h] = IF h = fdt[intr].host /\ fdt[intr].psm = InterruptPsm
                        THEN [mods |-> m, key |-> k] ELSE seen[h]
      BY <1>3 DEF ReportDelivered
    <2>2. ~(h = fdt[intr].host /\ fdt[intr].psm = InterruptPsm)
            => seen[h] = AllUp
      BY DEF Inv, NoGhostKeys
    <2> HIDE DEF m, k
    <2> QED BY <2>1, <2>2
  <1> QED BY <1>1, <1>2, <1>3, LinkEffect DEF Reported

LEMMA ClassicNext ==
  ASSUME ClassicInv, ListenerTypes, [ListenerNext]_allVars
  PROVE  ClassicInv'
  <1>1. Inv' /\ OutboxShape' /\ KeysSettle' /\ MicSettles'
    BY StepOfServer, NextInv, ShapeKept, KeysSettleKept, MicSettlesKept
       DEF ClassicInv
  <1>2. AwayIsIdle' /\ SeenMatches'
    <2>1. CASE Next
      BY <2>1, AwayStaysIdle, SeenStillMatches DEF ClassicInv
    <2>2. CASE UNCHANGED vars
      BY <2>2 DEF ClassicInv, vars, linkVars, AwayIsIdle, SeenMatches
    <2> QED BY <2>1, <2>2, StepOfServer
  <1> QED BY <1>1, <1>2 DEF ClassicInv

LEMMA ClassicInit ==
  ASSUME ListenerInit
  PROVE  ClassicInv
  <1>1. Inv
    BY InitInv DEF ListenerInit
  <1>2. OutboxShape /\ MicSettles /\ AwayIsIdle /\ SeenMatches
    BY DEF ListenerInit, Init, OutboxShape, MicSettles, AwayIsIdle, SeenMatches
  <1>3. KeysSettle
    <2>1. ~up
      BY DEF ListenerInit, Init
    <2> QED BY <1>1, <1>2, <2>1, SettledAway DEF KeysSettle
  <1> QED BY <1>1, <1>2, <1>3 DEF ClassicInv

(* Whatever was lost on the way, a key that is down has its release in the   *)
(* queue, or the handler under way is still to send it, or it stands for the *)
(* button that the user holds.                                               *)
THEOREM ClassicInvHolds == ListenerSpec => []ClassicInv
  <1>1. ListenerInit => ListenerTypes /\ ClassicInv
    BY InitTypes, ClassicInit
  <1>2. ListenerTypes /\ ClassicInv /\ [ListenerNext]_allVars
          => ListenerTypes' /\ ClassicInv'
    BY ListenerTypesKept, ClassicNext
  <1> QED BY <1>1, <1>2, PTL DEF ListenerSpec

(* When the listener rests, no button is held and no event waits, nothing is *)
(* down on any host, no modifier is remembered and the microphone is off.    *)
THEOREM QuietClean == ListenerSpec => []QuietHostClean
  <1>1. ClassicInv => QuietHostClean
    <2> SUFFICES ASSUME ClassicInv, outbox = <<>>, ~func, ipcq = <<>>
                 PROVE  (\A h \in Hosts : seen[h] = AllUp) /\ mods = {} /\ ~micOn
      BY DEF QuietHostClean
    <2>1. \A c \in Modifiers \cup Keys : ~DownNow(c)
      BY DEF ClassicInv, KeysSettle, Settles, Owed
    <2>2. seen \in [Hosts -> KeyStates] /\ mods \subseteq Modifiers
      BY DEF ClassicInv, Inv, TypeOK
    <2>3. mods = {}
      BY <2>1, <2>2 DEF DownNow
    <2>4. ASSUME NEW h \in Hosts, seen[h] # AllUp PROVE FALSE
      <3>1. seen[h] \in KeyStates /\ seen[h].mods = {}
        BY <2>2, <2>3, <2>4 DEF ClassicInv, SeenMatches
      <3>2. seen[h].key = NoKey
        BY <2>1, <3>1 DEF DownNow, KeyStates
      <3> QED BY <2>4, <3>1, <3>2 DEF KeyStates, AllUp
    <2>5. ~micOn
      BY DEF ClassicInv, MicSettles
    <2> QED BY <2>3, <2>4, <2>5
  <1> QED BY <1>1, ClassicInvHolds, PTL
=============================================================================
