------------------------- MODULE HidKeyboard_proofs -------------------------
(***************************************************************************)
(* Proofs about HidKeyboard: type correctness, that the descriptors held   *)
(* are open and distinct, and that no host keeps a key down which the      *)
(* daemon cannot release, for any hosts, key codes and table sizes.        *)
(***************************************************************************)
EXTENDS HidKeyboard, TLAPS

(* What the control flow of a round guarantees: the Unix socket is read    *)
(* only while it has a datagram (nobody else reads it), the messages to be *)
(* dispatched are there, and connect_hid_to_host() runs with a host and    *)
(* without an interrupt channel.                                           *)
RoundInv ==
  /\ pc = "ipc" /\ IpcFd \in rfds => ipcq # <<>>
  /\ batch <= Len(busq) /\ Len(busq) <= BusMax
  /\ pc \in {"connect17", "connect19"} => target \in Hosts /\ intr = NoFd

TypeInv == TypeOK /\ RoundInv

LEMMA FdFacts ==
  /\ IpcFd = 0 /\ ListenFd = 1 /\ NoFd = -1
  /\ \A fd \in Fds : fd \in Int /\ fd >= 2
  /\ NoFd \notin Fds
  BY HidAssumption DEF IpcFd, ListenFd, NoFd, Fds

LEMMA FreeFacts ==
  /\ Free.host \notin Hosts /\ Free.psm = 0 /\ Free.input = "none"
  /\ \A c \in Channels : c # Free /\ c.host \in Hosts
                         /\ c.psm \in {ControlPsm, InterruptPsm}
                         /\ c.input \in {"none", "data", "eof"}
  BY HidAssumption DEF Free, Channels, ControlPsm, InterruptPsm

(* What a host sees of a keyboard keeps its type when channels close. *)
LEMMA SeenWithoutType ==
  ASSUME TypeOK, NEW S
  PROVE  SeenWithout(S) \in [Hosts -> KeyStates]
  BY DEF SeenWithout, TypeOK, KeyStates, AllUp

LEMMA TableWithoutType ==
  ASSUME TypeOK, NEW S
  PROVE  TableWithout(S) \in [Fds -> Channels \cup {Free}]
  BY DEF TableWithout, TypeOK

LEMMA CloseType ==
  ASSUME TypeOK, CloseHidConnections
  PROVE  /\ fdt' \in [Fds -> Channels \cup {Free}]
         /\ seen' \in [Hosts -> KeyStates]
         /\ ctrl' = NoFd /\ intr' = NoFd /\ mods' = {}
  BY SeenWithoutType, TableWithoutType DEF CloseHidConnections

LEMMA ReportType ==
  ASSUME TypeOK, NEW m \in SUBSET Modifiers, NEW k \in Keys \cup {NoKey},
         SendHidReport(m, k)
  PROVE  /\ fdt' \in [Fds -> Channels \cup {Free}]
         /\ seen' \in [Hosts -> KeyStates]
         /\ ctrl' \in Fds \cup {NoFd} /\ intr' \in Fds \cup {NoFd}
         /\ mods' \subseteq Modifiers
<1>1. CASE ReportDropped(m)
  BY <1>1 DEF ReportDropped, TypeOK
<1>2. CASE ReportDelivered(m, k)
  BY <1>2 DEF ReportDelivered, TypeOK, KeyStates
<1>3. CASE intr # NoFd /\ CloseHidConnections
  BY <1>3, CloseType DEF TypeOK
<1> QED
  BY <1>1, <1>2, <1>3 DEF SendHidReport

(* Queues of the environment. *)
LEMMA TakeHead ==
  ASSUME NEW S, NEW s \in Seq(S), s # <<>>
  PROVE  Head(s) \in S /\ Tail(s) \in Seq(S) /\ Len(Tail(s)) = Len(s) - 1
  OBVIOUS

LEMMA SeqOfFunction ==
  ASSUME NEW S, NEW n \in Nat, NEW f \in [1..n -> S]
  PROVE  f \in Seq(S) /\ Len(f) = n
  OBVIOUS

LEMMA EndedChannelsType ==
  ASSUME busq \in Seq(BusMessages), NEW h
  PROVE  EndedChannels(h) \in Seq(BusMessages) /\ Len(EndedChannels(h)) = Len(busq)
<1>1. \A m \in BusMessages : [m EXCEPT !.input = "eof"] \in BusMessages
  BY DEF BusMessages
<1>2. DOMAIN busq = 1..Len(busq) /\ Len(busq) \in Nat
      /\ \A i \in 1..Len(busq) : busq[i] \in BusMessages
  OBVIOUS
<1>3. EndedChannels(h) \in [1..Len(busq) -> BusMessages]
  BY <1>1, <1>2 DEF EndedChannels
<1> QED
  BY <1>2, <1>3, SeqOfFunction

LEMMA RemoveAtType ==
  ASSUME NEW S, NEW s \in Seq(S), NEW i \in DOMAIN s
  PROVE  RemoveAt(s, i) \in Seq(S)
  BY DEF RemoveAt

LEMMA NextMessageType ==
  ASSUME TypeInv, NEW kind, NextMessage(kind)
  PROVE  /\ busq # <<>> /\ Head(busq) \in BusMessages
         /\ Head(busq).host \in Hosts /\ Head(busq).input \in {"none", "eof"}
         /\ busq' \in Seq(BusMessages) /\ batch' \in 0..BusMax
         /\ batch' <= Len(busq') /\ Len(busq') <= BusMax
<1>1. busq # <<>>
  BY HidAssumption DEF TypeInv, TypeOK, RoundInv, NextMessage
<1>2. Head(busq) \in BusMessages /\ Tail(busq) \in Seq(BusMessages)
      /\ Len(Tail(busq)) = Len(busq) - 1
  BY <1>1, TakeHead DEF TypeInv, TypeOK
<1> QED
  BY <1>1, <1>2, HidAssumption
     DEF TypeInv, TypeOK, RoundInv, NextMessage, BusMessages

-----------------------------------------------------------------------------
(* Type correctness. *)

LEMMA TypeInit == Init => TypeInv
<1> SUFFICES ASSUME Init PROVE TypeInv
  OBVIOUS
<1> USE FdFacts, HidAssumption DEF Init
<1>1. AllUp \in KeyStates
  BY DEF AllUp, KeyStates
<1>2. TypeOK
  <2>1. fdt \in [Fds -> Channels \cup {Free}] /\ seen \in [Hosts -> KeyStates]
    BY <1>1
  <2>2. ipcq \in Seq(IpcMessages) /\ backlog \in Seq(Hosts) /\ busq \in Seq(BusMessages)
    OBVIOUS
  <2>3. due \in BOOLEAN
    BY Zenon
  <2>4. ret \in {"ctrl", "select"} /\ batch \in 0..BusMax
    OBVIOUS
  <2> QED
    BY <2>1, <2>2, <2>3, <2>4 DEF TypeOK, Phases
<1>3. RoundInv
  BY DEF RoundInv
<1> QED
  BY <1>2, <1>3 DEF TypeInv

(* The steps of one round, up to the dispatch of the D-Bus messages. *)
LEMMA TypeRound ==
  ASSUME TypeInv,
         \/ Select \/ Skip \/ HandleIpcConnect \/ HandleIpcKey
         \/ HandleCtrlRequest \/ HandleCtrlClosed \/ HandleIntrAccept \/ ReadBus
  PROVE  TypeInv'
<1> USE FdFacts, HidAssumption DEF TypeInv, TypeOK, RoundInv, Phases, daemon, links, timer, call, queues
<1>1. CASE Select
  BY <1>1 DEF Select
<1>2. CASE Skip
  BY <1>2 DEF Skip
<1>3. CASE HandleIpcConnect
  <2>1. Head(ipcq) \in IpcMessages /\ Tail(ipcq) \in Seq(IpcMessages)
    BY <1>3, TakeHead DEF HandleIpcConnect
  <2>2. Head(ipcq).arg \in Hosts
    BY <1>3, <2>1 DEF HandleIpcConnect, IpcMessages
  <2> QED
    BY <1>3, <2>1, <2>2, CloseType DEF HandleIpcConnect
<1>4. CASE HandleIpcKey
  <2>1. Head(ipcq) \in IpcMessages /\ Tail(ipcq) \in Seq(IpcMessages)
    BY <1>4, TakeHead DEF HandleIpcKey
  <2>2. \E m \in SUBSET Modifiers, k \in Keys \cup {NoKey} : SendHidReport(m, k)
    <3>1. CASE Head(ipcq).arg \in Modifiers
      BY <1>4, <3>1 DEF HandleIpcKey
    <3>2. CASE Head(ipcq).arg \in Keys
      BY <1>4, <3>2 DEF HandleIpcKey
    <3> QED
      BY <1>4, <3>1, <3>2 DEF HandleIpcKey
  <2>3. PICK m \in SUBSET Modifiers, k \in Keys \cup {NoKey} : SendHidReport(m, k)
    BY <2>2
  <2> QED
    BY <1>4, <2>1, <2>3, ReportType DEF HandleIpcKey
<1>5. CASE HandleCtrlRequest
  <2>1. ctrl \in Fds /\ fdt[ctrl] \in Channels
    BY <1>5, FreeFacts DEF HandleCtrlRequest
  <2>2. fdt' \in [Fds -> Channels \cup {Free}]
    BY <1>5, <2>1 DEF HandleCtrlRequest, Channels
  <2> QED
    BY <1>5, <2>2 DEF HandleCtrlRequest
<1>6. CASE HandleCtrlClosed
  BY <1>6, CloseType DEF HandleCtrlClosed
<1>7. CASE HandleIntrAccept
  <2>1. CASE backlog = <<>> \/ FreeFds = {}
    BY <1>7, <2>1 DEF HandleIntrAccept
  <2>2. CASE ~(backlog = <<>> \/ FreeFds = {})
    <3>1. Head(backlog) \in Hosts /\ Tail(backlog) \in Seq(Hosts)
      BY <2>2, TakeHead
    <3>2. PICK fd \in LowestOf(FreeFds) :
            /\ fdt' = [TableWithout({intr}) EXCEPT
                         ![fd] = [host |-> Head(backlog), psm |-> InterruptPsm,
                                  input |-> "none"]]
            /\ seen' = SeenWithout({intr})
            /\ intr' = fd
            /\ backlog' = Tail(backlog)
      BY <1>7, <2>2 DEF HandleIntrAccept
    <3>3. fd \in Fds
      BY <3>2 DEF LowestOf, FreeFds
    <3>4. fdt' \in [Fds -> Channels \cup {Free}]
      BY <3>1, <3>2, <3>3, TableWithoutType DEF Channels
    <3>5. seen' \in [Hosts -> KeyStates]
      BY <3>2, SeenWithoutType
    <3> QED
      BY <1>7, <3>1, <3>2, <3>3, <3>4, <3>5 DEF HandleIntrAccept
  <2> QED
    BY <2>1, <2>2
<1>8. CASE ReadBus
  BY <1>8 DEF ReadBus
<1> QED
  BY <1>1, <1>2, <1>3, <1>4, <1>5, <1>6, <1>7, <1>8

(* The dispatch of D-Bus messages, the deferred and the outbound connection. *)
LEMMA NewConnectionType ==
  ASSUME TypeInv, DispatchNewConnection
  PROVE  /\ fdt' \in [Fds -> Channels \cup {Free}]
         /\ ctrl' \in Fds \cup {NoFd} /\ intr' \in Fds \cup {NoFd}
<1> DEFINE chan == [host |-> Head(busq).host, psm |-> ControlPsm,
                    input |-> Head(busq).input]
<1>1. chan \in Channels
  BY NextMessageType DEF DispatchNewConnection, Channels
<1>2. FreeFds \subseteq Fds /\ \A S : LowestOf(S) \subseteq S
  BY DEF FreeFds, LowestOf
<1>3. \A b, c \in Fds : [fdt EXCEPT ![b] = chan, ![c] = chan] \in [Fds -> Channels \cup {Free}]
  BY <1>1 DEF TypeInv, TypeOK
<1>4. \A b \in Fds : [fdt EXCEPT ![b] = chan] \in [Fds -> Channels \cup {Free}]
  BY <1>1 DEF TypeInv, TypeOK
<1> HIDE DEF chan
<1>5. \/ \E a, b, c \in Fds :
           \/ ctrl' = c /\ fdt' = [fdt EXCEPT ![b] = chan, ![c] = chan] /\ UNCHANGED intr
           \/ intr' = c /\ fdt' = [fdt EXCEPT ![b] = chan, ![c] = chan] /\ UNCHANGED ctrl
           \/ fdt' = [fdt EXCEPT ![b] = chan] /\ UNCHANGED <<ctrl, intr>>
      \/ UNCHANGED <<ctrl, intr, fdt>>
  BY <1>2 DEF DispatchNewConnection, chan
<1> QED
  BY <1>3, <1>4, <1>5 DEF TypeInv, TypeOK

LEMMA TypeDispatch ==
  ASSUME TypeInv,
         \/ DispatchNewConnection \/ DispatchRequestDisconnection
         \/ DispatchConnected \/ DispatchDone
         \/ DeferredConnect \/ DeferredCancel \/ DeferredIdle
  PROVE  TypeInv'
<1> USE FdFacts, HidAssumption DEF TypeInv, TypeOK, RoundInv, Phases, daemon, links, timer, call, queues
<1>1. CASE DispatchNewConnection
  BY <1>1, NextMessageType, NewConnectionType DEF DispatchNewConnection, NextMessage
<1>2. CASE DispatchRequestDisconnection
  BY <1>2, NextMessageType, CloseType DEF DispatchRequestDisconnection, NextMessage
<1>3. CASE DispatchConnected
  BY <1>3, NextMessageType DEF DispatchConnected, NextMessage
<1>4. CASE DispatchDone
  BY <1>4 DEF DispatchDone
<1>5. CASE DeferredConnect
  BY <1>5, CloseType DEF DeferredConnect
<1>6. CASE DeferredCancel
  BY <1>6 DEF DeferredCancel
<1>7. CASE DeferredIdle
  BY <1>7 DEF DeferredIdle
<1> QED
  BY <1>1, <1>2, <1>3, <1>4, <1>5, <1>6, <1>7

LEMMA TypeConnect ==
  ASSUME TypeInv,
         \/ ConnectControl \/ ConnectControlFails
         \/ ConnectInterrupt \/ ConnectInterruptNoSocket \/ ConnectInterruptRefused
  PROVE  TypeInv'
<1> USE FdFacts, HidAssumption DEF TypeInv, TypeOK, RoundInv, Phases, links, timer, call, queues
<1>1. \A psm \in {ControlPsm, InterruptPsm}, fd \in Fds :
        target \in Hosts =>
          [fdt EXCEPT ![fd] = [host |-> target, psm |-> psm, input |-> "none"]]
            \in [Fds -> Channels \cup {Free}]
  BY DEF Channels
<1>2. LowestOf(FreeFds) \subseteq Fds
  BY DEF LowestOf, FreeFds
<1>3. CASE ConnectControl
  <2>1. fdt' \in [Fds -> Channels \cup {Free}] /\ ctrl' \in Fds
    BY <1>1, <1>2, <1>3 DEF ConnectControl
  <2> QED
    BY <1>3, <2>1 DEF ConnectControl
<1>4. CASE ConnectControlFails
  BY <1>4 DEF ConnectControlFails, ConnectReturns
<1>5. CASE ConnectInterrupt
  BY <1>1, <1>2, <1>5 DEF ConnectInterrupt, ConnectReturns
<1>6. CASE ConnectInterruptNoSocket
  BY <1>6 DEF ConnectInterruptNoSocket, ConnectReturns
<1>7. CASE ConnectInterruptRefused
  BY <1>7, TableWithoutType DEF ConnectInterruptRefused, ConnectReturns
<1> QED
  BY <1>3, <1>4, <1>5, <1>6, <1>7

-----------------------------------------------------------------------------
(* The other processes. *)
LEMMA TypeEnvironment ==
  ASSUME TypeInv, TimerDue \/ Exit \/ Start \/ Peers
  PROVE  TypeInv'
<1> USE FdFacts, HidAssumption DEF TypeInv, TypeOK, RoundInv, Phases, daemon, links, call, queues
<1>1. CASE TimerDue
  BY <1>1 DEF TimerDue
<1>2. CASE Exit
  <2>1. AllUp \in KeyStates
    BY DEF AllUp, KeyStates
  <2>2. fdt' \in [Fds -> Channels \cup {Free}] /\ seen' \in [Hosts -> KeyStates]
    BY <1>2, <2>1 DEF Exit
  <2>3. due' \in BOOLEAN
    BY <1>2, Zenon DEF Exit
  <2>4. ipcq' \in Seq(IpcMessages) /\ backlog' \in Seq(Hosts) /\ busq' \in Seq(BusMessages)
    BY <1>2 DEF Exit
  <2> QED
    BY <1>2, <2>2, <2>3, <2>4 DEF Exit
<1>3. CASE Start
  BY <1>3 DEF Start
<1>4. ASSUME NEW m \in IpcMessages, SendIpc(m) PROVE TypeInv'
  BY <1>4 DEF SendIpc
<1>5. ASSUME NEW kind \in {"NewConnection", "RequestDisconnection", "Connected"},
             NEW h \in Hosts, Announce(kind, h)
      PROVE  TypeInv'
  <2>1. [kind |-> kind, host |-> h, input |-> "none"] \in BusMessages
    BY <1>5 DEF BusMessages
  <2> QED
    BY <1>5, <2>1 DEF Announce
<1>6. ASSUME NEW h \in Hosts, HostOpensInterrupt(h) PROVE TypeInv'
  BY <1>6 DEF HostOpensInterrupt
<1>7. ASSUME NEW fd \in Fds, HostSendsRequest(fd) PROVE TypeInv'
  <2>1. fdt[fd] \in Channels
    BY <1>7, FreeFacts DEF HostSendsRequest, ControlPsm
  <2>2. fdt' \in [Fds -> Channels \cup {Free}]
    BY <1>7, <2>1 DEF HostSendsRequest, Channels
  <2> QED
    BY <1>7, <2>2 DEF HostSendsRequest
<1>8. ASSUME NEW h \in Hosts, NEW psms, HostCloses(h, psms) PROVE TypeInv'
  <2>1. fdt' \in [Fds -> Channels \cup {Free}]
    <3>1. \A c \in Channels \cup {Free} :
             c.host = h => [c EXCEPT !.input = "eof"] \in Channels
      <4> TAKE c \in Channels \cup {Free}
      <4> HAVE c.host = h
      <4>1. c \in Channels
        BY FreeFacts
      <4> QED
        BY <4>1 DEF Channels
    <3>2. \A fd \in Fds : fdt[fd] \in Channels \cup {Free}
      OBVIOUS
    <3> QED
      BY <1>8, <3>1, <3>2 DEF HostCloses
  <2>2. seen' \in [Hosts -> KeyStates]
    <3>1. AllUp \in KeyStates
      BY DEF AllUp, KeyStates
    <3>2. seen' = seen \/ seen' = [seen EXCEPT ![h] = AllUp]
      BY <1>8, Zenon DEF HostCloses
    <3> QED
      BY <3>1, <3>2
  <2>3. backlog' \in Seq(Hosts)
    BY <1>8, RemoveAtType DEF HostCloses, LeaveBacklog
  <2>4. busq' \in Seq(BusMessages) /\ Len(busq') = Len(busq)
    <3>1. CASE ControlPsm \in psms
      BY <1>8, <3>1, EndedChannelsType DEF HostCloses
    <3>2. CASE ControlPsm \notin psms
      BY <1>8, <3>2 DEF HostCloses
    <3> QED
      BY <3>1, <3>2
  <2> QED
    BY <1>8, <2>1, <2>2, <2>3, <2>4 DEF HostCloses
<1> QED
  BY <1>1, <1>2, <1>3, <1>4, <1>5, <1>6, <1>7, <1>8
     DEF Peers, HostOpensControl, BlueZDisconnects

LEMMA TypeStep == TypeInv /\ [Next]_vars => TypeInv'
<1> SUFFICES ASSUME TypeInv, [Next]_vars PROVE TypeInv'
  OBVIOUS
<1>1. CASE UNCHANGED vars
  BY <1>1 DEF TypeInv, TypeOK, RoundInv, vars
<1> QED
  BY <1>1, TypeRound, TypeDispatch, TypeConnect, TypeEnvironment DEF Next, Daemon

(* Every variable of the daemon and of its environment keeps its type, and *)
(* the guards of a round hold: the daemon never takes a datagram or a      *)
(* message that is not there, and never connects without a host.           *)
THEOREM TypeCorrect == Spec => []TypeOK
<1>1. Spec => []TypeInv
  BY TypeInit, TypeStep, PTL DEF Spec
<1>2. TypeInv => TypeOK
  BY DEF TypeInv
<1> QED
  BY <1>1, <1>2, PTL

-----------------------------------------------------------------------------
(* The descriptors that are held. *)

LEMMA LowestFree ==
  ASSUME NEW S, NEW fd \in LowestOf(S), S \subseteq FreeFds
  PROVE  fd \in Fds /\ fdt[fd] = Free
  BY DEF LowestOf, FreeFds

(* A report leaves the descriptors as they are, or closes both. *)
LEMMA ReportLinks ==
  ASSUME NEW m, NEW k, SendHidReport(m, k)
  PROVE  \/ UNCHANGED <<ctrl, intr, fdt>>
         \/ ctrl' = NoFd /\ intr' = NoFd
  BY DEF SendHidReport, ReportDropped, ReportDelivered, CloseHidConnections

LEMMA KeyLinks ==
  ASSUME HandleIpcKey
  PROVE  \/ UNCHANGED <<ctrl, intr, fdt>>
         \/ ctrl' = NoFd /\ intr' = NoFd
  BY ReportLinks DEF HandleIpcKey

LEMMA OpenStep ==
  ASSUME TypeInv, DescriptorsOpen, [Next]_vars
  PROVE  DescriptorsOpen'
<1> USE FdFacts, FreeFacts DEF TypeInv, TypeOK, DescriptorsOpen, links, queues, daemon
<1>0. \A psm, input : \A h \in Hosts : [host |-> h, psm |-> psm, input |-> input] # Free
  BY HidAssumption DEF Free
<1>1. CASE UNCHANGED <<ctrl, intr, fdt>>
  BY <1>1
<1>2. CASE ctrl' = NoFd /\ intr' = NoFd
  BY <1>2
<1>3. CASE HandleCtrlRequest
  BY <1>3 DEF HandleCtrlRequest, Channels
<1>4. CASE HandleIntrAccept
  <2>1. CASE backlog = <<>> \/ FreeFds = {}
    BY <1>4, <2>1 DEF HandleIntrAccept
  <2>2. CASE ~(backlog = <<>> \/ FreeFds = {})
    <3>1. PICK fd \in LowestOf(FreeFds) :
            /\ fdt' = [TableWithout({intr}) EXCEPT
                         ![fd] = [host |-> Head(backlog), psm |-> InterruptPsm,
                                  input |-> "none"]]
            /\ intr' = fd
      BY <1>4, <2>2 DEF HandleIntrAccept
    <3>2. fd \in Fds /\ fdt[fd] = Free /\ ctrl' = ctrl /\ Head(backlog) \in Hosts
      BY <1>4, <2>2, LowestFree, TakeHead DEF HandleIntrAccept
    <3>3. fdt'[fd] # Free /\ ctrl # fd
      BY <1>0, <3>1, <3>2 DEF TableWithout
    <3>4. ctrl # NoFd => fdt'[ctrl] = fdt[ctrl]
      BY <3>1, <3>2, <3>3 DEF TableWithout
    <3> QED
      BY <3>1, <3>2, <3>3, <3>4
  <2> QED
    BY <2>1, <2>2
<1>5. CASE DispatchNewConnection
  <2> DEFINE chan == [host |-> Head(busq).host, psm |-> ControlPsm,
                      input |-> Head(busq).input]
  <2>1. chan # Free
    BY <1>0, <1>5, NextMessageType DEF DispatchNewConnection
  <2>2. \A fd \in FreeFds : fd \in Fds /\ fdt[fd] = Free
    BY DEF FreeFds
  <2>3. \A S : LowestOf(S) \subseteq S
    BY DEF LowestOf
  <2> HIDE DEF chan
  <2>4. \/ \E b, c \in FreeFds :
             \/ ctrl = NoFd /\ ctrl' = c /\ fdt' = [fdt EXCEPT ![b] = chan, ![c] = chan]
                /\ UNCHANGED intr
             \/ intr = NoFd /\ intr' = c /\ fdt' = [fdt EXCEPT ![b] = chan, ![c] = chan]
                /\ UNCHANGED ctrl
             \/ fdt' = [fdt EXCEPT ![b] = chan] /\ UNCHANGED <<ctrl, intr>>
        \/ UNCHANGED <<ctrl, intr, fdt>>
    BY <1>5, <2>3 DEF DispatchNewConnection, chan
  <2>5. ASSUME NEW b \in FreeFds, NEW c \in FreeFds,
               fdt' = [fdt EXCEPT ![b] = chan, ![c] = chan]
        PROVE  /\ fdt'[c] # Free /\ ctrl # c /\ intr # c
               /\ ctrl # NoFd => fdt'[ctrl] = fdt[ctrl]
               /\ intr # NoFd => fdt'[intr] = fdt[intr]
    BY <2>1, <2>2, <2>5
  <2>6. ASSUME NEW b \in FreeFds, fdt' = [fdt EXCEPT ![b] = chan]
        PROVE  /\ ctrl # NoFd => fdt'[ctrl] = fdt[ctrl]
               /\ intr # NoFd => fdt'[intr] = fdt[intr]
    BY <2>2, <2>6
  <2>7. \A c \in FreeFds : c # NoFd
    BY <2>2
  <2> QED
    BY <2>4, <2>5, <2>6, <2>7
<1>6. CASE ConnectControl
  <2>1. PICK fd \in LowestOf(FreeFds) :
          /\ fdt' = [fdt EXCEPT ![fd] = [host |-> target, psm |-> ControlPsm,
                                         input |-> "none"]]
          /\ ctrl' = fd
    BY <1>6 DEF ConnectControl
  <2> QED
    BY <1>0, <1>6, <2>1, LowestFree DEF ConnectControl, RoundInv
<1>7. CASE ConnectInterrupt
  <2>1. PICK fd \in LowestOf(FreeFds) :
          /\ fdt' = [fdt EXCEPT ![fd] = [host |-> target, psm |-> InterruptPsm,
                                         input |-> "none"]]
          /\ intr' = fd
    BY <1>7 DEF ConnectInterrupt
  <2> QED
    BY <1>0, <1>7, <2>1, LowestFree DEF ConnectInterrupt, RoundInv
<1>8. CASE ConnectInterruptRefused
  BY <1>8 DEF ConnectInterruptRefused, TableWithout
<1>9. ASSUME NEW fd \in Fds, HostSendsRequest(fd) PROVE DescriptorsOpen'
  BY <1>9 DEF HostSendsRequest, Channels, ControlPsm
<1>10. ASSUME NEW h \in Hosts, NEW psms, HostCloses(h, psms) PROVE DescriptorsOpen'
  BY <1>10 DEF HostCloses, Channels
<1>11. CASE Select \/ Skip \/ ReadBus \/ DispatchConnected \/ DispatchDone
            \/ DeferredCancel \/ DeferredIdle \/ ConnectControlFails
            \/ ConnectInterruptNoSocket \/ TimerDue \/ Start
  BY <1>1, <1>11 DEF Select, Skip, ReadBus, DispatchConnected, DispatchDone, DeferredCancel,
     DeferredIdle, ConnectControlFails, ConnectInterruptNoSocket, TimerDue, Start
<1>12. CASE HandleIpcConnect \/ HandleCtrlClosed \/ DispatchRequestDisconnection
            \/ DeferredConnect \/ Exit
  BY <1>2, <1>12 DEF HandleIpcConnect, HandleCtrlClosed, DispatchRequestDisconnection,
     DeferredConnect, Exit, CloseHidConnections
<1>13. CASE HandleIpcKey
  BY <1>1, <1>2, <1>13, KeyLinks
<1>14. CASE Peers
  BY <1>1, <1>9, <1>10, <1>14 DEF Peers, SendIpc, HostOpensControl, HostOpensInterrupt,
     Announce, BlueZDisconnects
<1>15. CASE UNCHANGED vars
  BY <1>1, <1>15 DEF vars
<1> QED
  BY <1>3, <1>4, <1>5, <1>6, <1>7, <1>8, <1>11, <1>12, <1>13, <1>14, <1>15 DEF Next, Daemon

-----------------------------------------------------------------------------
(* The keys the hosts believe to be down. *)

(* Closing the interrupt channel releases every key. *)
LEMMA CloseReleases ==
  ASSUME TypeOK, NoGhostKeys, NEW S, intr \in S
  PROVE  \A h \in Hosts : SeenWithout(S)[h] = AllUp
  BY FdFacts DEF TypeOK, NoGhostKeys, SeenWithout

LEMMA AllUpIsSafe ==
  ASSUME \A h \in Hosts : seen'[h] = AllUp
  PROVE  NoGhostKeys'
  BY DEF NoGhostKeys

(* No step that leaves the keys alone and keeps the interrupt channel, once *)
(* there is one, makes a ghost of a key.                                   *)
LEMMA ChannelKept ==
  ASSUME NoGhostKeys, UNCHANGED <<seen, mods>>,
         intr # NoFd => /\ intr' = intr
                        /\ fdt'[intr].host = fdt[intr].host
                        /\ fdt'[intr].psm = fdt[intr].psm
                        /\ fdt[intr].input # "eof" => fdt'[intr].input # "eof"
  PROVE  NoGhostKeys'
  BY DEF NoGhostKeys

LEMMA CloseIsSafe ==
  ASSUME TypeOK, NoGhostKeys, CloseHidConnections
  PROVE  NoGhostKeys'
  BY CloseReleases, AllUpIsSafe DEF CloseHidConnections

LEMMA ReportIsSafe ==
  ASSUME TypeOK, NoGhostKeys, NEW m, NEW k, SendHidReport(m, k)
  PROVE  NoGhostKeys'
<1>1. CASE ReportDropped(m)
  BY <1>1 DEF ReportDropped, NoGhostKeys
<1>2. CASE ReportDelivered(m, k)
  <2>1. CASE fdt[intr].psm = InterruptPsm
    <3> DEFINE reached == fdt[intr].host
    <3>1. /\ mods' = m
          /\ seen' = [seen EXCEPT ![reached] = [mods |-> m, key |-> k]]
          /\ UNCHANGED <<ctrl, intr, fdt>> /\ intr # NoFd /\ fdt[intr].input # "eof"
      BY <1>2, <2>1 DEF ReportDelivered
    <3>2. \A h \in Hosts : h # reached => seen'[h] = AllUp
      BY <3>1 DEF NoGhostKeys, TypeOK
    <3>3. reached \in Hosts => seen'[reached].mods = m
      BY <3>1 DEF TypeOK
    <3> QED
      BY <2>1, <3>1, <3>2, <3>3 DEF NoGhostKeys
  <2>2. CASE fdt[intr].psm # InterruptPsm
    BY <1>2, <2>2 DEF ReportDelivered, NoGhostKeys
  <2> QED
    BY <2>1, <2>2
<1>3. CASE intr # NoFd /\ CloseHidConnections
  BY <1>3, CloseIsSafe
<1> QED
  BY <1>1, <1>2, <1>3 DEF SendHidReport

LEMMA KeyIsSafe ==
  ASSUME TypeOK, NoGhostKeys, HandleIpcKey
  PROVE  NoGhostKeys'
  BY ReportIsSafe DEF HandleIpcKey

LEMMA NewConnectionIsSafe ==
  ASSUME TypeInv, DescriptorsOpen, NoGhostKeys, DispatchNewConnection
  PROVE  NoGhostKeys'
<1> DEFINE chan == [host |-> Head(busq).host, psm |-> ControlPsm,
                    input |-> Head(busq).input]
<1>1. \A fd \in FreeFds : fd \in Fds /\ fdt[fd] = Free
  BY DEF FreeFds
<1>2. \A S : LowestOf(S) \subseteq S
  BY DEF LowestOf
<1> HIDE DEF chan
<1>3. \/ \E b, c \in FreeFds :
           /\ intr # NoFd => intr' = intr
           /\ \/ fdt' = [fdt EXCEPT ![b] = chan, ![c] = chan]
              \/ fdt' = [fdt EXCEPT ![b] = chan]
      \/ UNCHANGED <<ctrl, intr, fdt>>
  BY <1>2 DEF DispatchNewConnection, chan
<1>4. UNCHANGED <<seen, mods>>
  BY DEF DispatchNewConnection
<1>5. intr # NoFd => intr \in Fds /\ intr \notin FreeFds
  BY DEF TypeInv, TypeOK, DescriptorsOpen, FreeFds
<1>6. intr # NoFd => intr' = intr /\ fdt'[intr] = fdt[intr]
  BY <1>1, <1>3, <1>5 DEF TypeInv, TypeOK
<1> QED
  BY <1>4, <1>6, ChannelKept

LEMMA GhostStep ==
  ASSUME TypeInv, DescriptorsOpen, NoGhostKeys, [Next]_vars
  PROVE  NoGhostKeys'
<1> USE FdFacts, FreeFacts DEF TypeInv, TypeOK, links, queues, daemon
<1>1. CASE UNCHANGED <<intr, mods, fdt, seen>>
  BY <1>1, ChannelKept
<1>2. CASE CloseHidConnections
  BY <1>2, CloseIsSafe
<1>3. CASE HandleCtrlRequest
  BY <1>3, ChannelKept DEF HandleCtrlRequest, DescriptorsOpen
<1>4. CASE HandleIntrAccept
  <2>1. CASE backlog = <<>> \/ FreeFds = {}
    BY <1>1, <1>4, <2>1 DEF HandleIntrAccept
  <2>2. CASE ~(backlog = <<>> \/ FreeFds = {})
    <3>1. seen' = SeenWithout({intr})
      BY <1>4, <2>2 DEF HandleIntrAccept
    <3> QED
      BY <3>1, CloseReleases, AllUpIsSafe
  <2> QED
    BY <2>1, <2>2
<1>5. CASE DispatchNewConnection
  BY <1>5, NewConnectionIsSafe
<1>6. CASE ConnectControl \/ ConnectInterrupt \/ ConnectInterruptRefused
  <2>1. intr = NoFd
    BY <1>6 DEF RoundInv, ConnectControl, ConnectInterrupt, ConnectInterruptRefused
  <2>2. UNCHANGED <<seen, mods>>
    BY <1>6 DEF ConnectControl, ConnectInterrupt, ConnectInterruptRefused
  <2> QED
    BY <2>1, <2>2, ChannelKept
<1>7. CASE Exit
  BY <1>7, AllUpIsSafe DEF Exit
<1>8. ASSUME NEW fd \in Fds, HostSendsRequest(fd) PROVE NoGhostKeys'
  BY <1>8, ChannelKept DEF HostSendsRequest
<1>9. ASSUME NEW h \in Hosts,
             NEW psms \in {{ControlPsm}, {InterruptPsm}, {ControlPsm, InterruptPsm}},
             HostCloses(h, psms)
      PROVE  NoGhostKeys'
  <2>1. UNCHANGED <<intr, mods>>
    BY <1>9 DEF HostCloses
  <2>2. CASE InterruptPsm \in psms
    <3>1. seen' = [seen EXCEPT ![h] = AllUp]
      BY <1>9, <2>2 DEF HostCloses
    <3>2. \A fd \in Fds : fdt[fd].host # h => fdt'[fd] = fdt[fd]
      BY <1>9 DEF HostCloses
    <3> QED
      BY <2>1, <3>1, <3>2 DEF NoGhostKeys
  <2>3. CASE InterruptPsm \notin psms
    <3>1. seen' = seen
      BY <1>9, <2>3 DEF HostCloses
    <3>2. \A fd \in Fds : fdt[fd].psm = InterruptPsm => fdt'[fd] = fdt[fd]
      BY <1>9, <2>3 DEF HostCloses
    <3> QED
      BY <2>1, <3>1, <3>2 DEF NoGhostKeys
  <2> QED
    BY <2>2, <2>3
<1>10. CASE Select \/ Skip \/ ReadBus \/ DispatchConnected \/ DispatchDone
            \/ DeferredCancel \/ DeferredIdle \/ ConnectControlFails
            \/ ConnectInterruptNoSocket \/ TimerDue \/ Start
  BY <1>1, <1>10 DEF Select, Skip, ReadBus, DispatchConnected, DispatchDone, DeferredCancel,
     DeferredIdle, ConnectControlFails, ConnectInterruptNoSocket, TimerDue, Start
<1>11. CASE HandleIpcConnect \/ HandleCtrlClosed \/ DispatchRequestDisconnection
            \/ DeferredConnect
  BY <1>2, <1>11 DEF HandleIpcConnect, HandleCtrlClosed, DispatchRequestDisconnection,
     DeferredConnect
<1>12. CASE Peers
  BY <1>1, <1>8, <1>9, <1>12 DEF Peers, SendIpc, HostOpensControl, HostOpensInterrupt,
     Announce, BlueZDisconnects
<1>13. CASE UNCHANGED vars
  BY <1>1, <1>13 DEF vars
<1> QED
  BY <1>3, <1>4, <1>5, <1>6, <1>7, <1>10, <1>11, <1>12, <1>13, KeyIsSafe DEF Next, Daemon

-----------------------------------------------------------------------------
(* The invariant that is inductive: types, the control flow of a round, and *)
(* the two properties; a ghost key can only be excluded because the held    *)
(* descriptors are open and the outbound connection finds no channel.       *)
SafetyInv == TypeInv /\ DescriptorsOpen /\ NoGhostKeys

THEOREM SafetyInvariant == Spec => []SafetyInv
<1>1. Init => SafetyInv
  BY TypeInit DEF Init, SafetyInv, DescriptorsOpen, NoGhostKeys
<1>2. SafetyInv /\ [Next]_vars => SafetyInv'
  BY TypeStep, OpenStep, GhostStep DEF SafetyInv
<1> QED
  BY <1>1, <1>2, PTL DEF Spec

(* The descriptors the daemon holds are open and distinct, however the      *)
(* handlers of a round, which work on one snapshot of select(), close and   *)
(* reopen them, and however the table fills up.                             *)
THEOREM HeldDescriptorsOpen == Spec => []DescriptorsOpen
<1>1. SafetyInv => DescriptorsOpen
  BY DEF SafetyInv
<1> QED
  BY <1>1, SafetyInvariant, PTL

(* No host ever keeps a key down that the daemon no longer tracks: when the *)
(* link is closed, lost, replaced or taken over by another host, every key  *)
(* that was reported on it is up again.                                     *)
THEOREM NoKeyLeftAtHost == Spec => []NoGhostKeys
<1>1. SafetyInv => NoGhostKeys
  BY DEF SafetyInv
<1> QED
  BY <1>1, SafetyInvariant, PTL

-----------------------------------------------------------------------------
(* The refinement of KeyboardLink. *)

(* A linked host is a host, and the only one that can have a key down. *)
LEMMA LinkedFacts ==
  ASSUME SafetyInv
  PROVE  /\ LinkedHost # NoHost =>
              /\ LinkedHost \in Hosts /\ intr # NoFd /\ intr \in Fds
              /\ fdt[intr] \in Channels
              /\ fdt[intr].host = LinkedHost
              /\ fdt[intr].psm = InterruptPsm /\ fdt[intr].input # "eof"
         /\ \A h \in Hosts : h # LinkedHost => seen[h] = AllUp
         /\ seen \in [Hosts -> KeyStates]
<1>1. intr # NoFd => intr \in Fds /\ fdt[intr] \in Channels
  BY DEF SafetyInv, TypeInv, TypeOK, DescriptorsOpen
<1>2. \A c \in Channels : c.host \in Hosts
  BY DEF Channels
<1> QED
  BY <1>1, <1>2 DEF LinkedHost, SafetyInv, TypeInv, TypeOK, NoGhostKeys

LEMMA InitImplements == Init => Abstract!Init
  BY DEF Init, Abstract!Init, LinkedHost, AllUp, Abstract!AllUp

(* The closed, lost or replaced link takes all keys up: as a function.      *)
LEMMA AllReleased ==
  ASSUME SafetyInv
  PROVE  /\ LinkedHost # NoHost =>
              [h \in Hosts |-> AllUp] = [seen EXCEPT ![LinkedHost] = AllUp]
         /\ LinkedHost = NoHost => [h \in Hosts |-> AllUp] = seen
  BY LinkedFacts, HidAssumption

(* close_hid_connections() and the end of the process end the link, or      *)
(* forget the modifiers.                                                    *)
LEMMA LettingGoImplements ==
  ASSUME SafetyInv, intr' = NoFd, mods' = {}, seen' = [h \in Hosts |-> AllUp]
  PROVE  Abstract!Next
<1>1. LinkedHost' = NoHost
  BY DEF LinkedHost
<1>2. CASE LinkedHost = NoHost
  BY <1>1, <1>2, AllReleased DEF Abstract!Next, Abstract!Forget
<1>3. CASE LinkedHost # NoHost
  BY <1>1, <1>3, AllReleased
     DEF Abstract!Next, Abstract!Unlink, AllUp, Abstract!AllUp
<1> QED
  BY <1>2, <1>3

LEMMA CloseImplements ==
  ASSUME SafetyInv, CloseHidConnections
  PROVE  Abstract!Next
<1>1. seen' = [h \in Hosts |-> AllUp]
  BY CloseReleases DEF CloseHidConnections, SafetyInv, TypeInv, SeenWithout
<1> QED
  BY <1>1, LettingGoImplements DEF CloseHidConnections

(* A key event is seen by the linked host, or by none; or its report fails. *)
LEMMA KeyImplements ==
  ASSUME SafetyInv, HandleIpcKey
  PROVE  Abstract!Next
<1> DEFINE code == Head(ipcq).arg
           down == Head(ipcq).kind = "press"
<1>1. code \in Modifiers \cup Keys /\ down \in BOOLEAN
  BY DEF HandleIpcKey
<1>2. \E m, k : /\ m = Abstract!HeldAfter(code, down)
                /\ k = Abstract!KeyAfter(code, down)
                /\ SendHidReport(m, k)
  BY HidAssumption DEF HandleIpcKey, Abstract!HeldAfter, Abstract!KeyAfter
<1>3. PICK m, k : /\ m = Abstract!HeldAfter(code, down)
                  /\ k = Abstract!KeyAfter(code, down)
                  /\ SendHidReport(m, k)
  BY <1>2
<1> HIDE DEF code, down
<1>4. ASSUME UNCHANGED <<intr, fdt>>, mods' = m,
             seen' = [h \in Hosts |-> IF h = LinkedHost
                                      THEN [mods |-> m, key |-> k] ELSE seen[h]]
      PROVE  Abstract!Next
  <2>1. LinkedHost' = LinkedHost
    BY <1>4 DEF LinkedHost
  <2>2. Abstract!KeyEvent(code, down)
    BY <1>3, <1>4, <2>1 DEF Abstract!KeyEvent
  <2> QED
    BY <1>1, <2>2 DEF Abstract!Next
<1>5. CASE ReportDropped(m)
  BY <1>4, <1>5, LinkedFacts, HidAssumption DEF ReportDropped, LinkedHost
<1>6. CASE ReportDelivered(m, k)
  <2>1. CASE fdt[intr].psm = InterruptPsm
    <3>1. seen' = [seen EXCEPT ![LinkedHost] = [mods |-> m, key |-> k]]
      BY <1>6, <2>1 DEF ReportDelivered, LinkedHost
    <3> QED
      BY <1>4, <1>6, <3>1, LinkedFacts DEF ReportDelivered
  <2>2. CASE fdt[intr].psm # InterruptPsm
    BY <1>4, <1>6, <2>2, LinkedFacts, HidAssumption DEF ReportDelivered, LinkedHost
  <2> QED
    BY <2>1, <2>2
<1>7. CASE CloseHidConnections
  BY <1>7, CloseImplements
<1> QED
  BY <1>3, <1>5, <1>6, <1>7 DEF SendHidReport

(* A step that leaves the keys and the linked host alone is a stutter.      *)
LEMMA LinkUntouched ==
  ASSUME UNCHANGED <<seen, mods>>, LinkedHost' = LinkedHost
  PROVE  UNCHANGED Abstract!vars
  BY DEF Abstract!vars

(* accept() on PSM 19 links a host, in the place of another if there is one. *)
LEMMA AcceptImplements ==
  ASSUME SafetyInv, HandleIntrAccept
  PROVE  Abstract!Next \/ UNCHANGED Abstract!vars
<1>1. CASE backlog = <<>> \/ FreeFds = {}
  <2>1. LinkedHost' = LinkedHost
    BY <1>1 DEF HandleIntrAccept, LinkedHost
  <2> QED
    BY <1>1, <2>1, LinkUntouched DEF HandleIntrAccept
<1>2. CASE ~(backlog = <<>> \/ FreeFds = {})
  <2> DEFINE new == [host |-> Head(backlog), psm |-> InterruptPsm, input |-> "none"]
  <2>1. PICK fd \in LowestOf(FreeFds) :
          /\ fdt' = [TableWithout({intr}) EXCEPT ![fd] = new]
          /\ seen' = SeenWithout({intr})
          /\ intr' = fd
    BY <1>2 DEF HandleIntrAccept
  <2>2. fd \in Fds /\ fd # NoFd /\ Head(backlog) \in Hosts
    BY <1>2, FdFacts, LowestFree, TakeHead DEF SafetyInv, TypeInv, TypeOK
  <2>3. fdt'[fd] = new
    BY <2>1, <2>2 DEF TableWithout
  <2>4. LinkedHost' = Head(backlog)
    BY <2>1, <2>2, <2>3 DEF LinkedHost
  <2>5. seen' = [h \in Hosts |-> AllUp]
    BY <2>1, CloseReleases DEF SafetyInv, TypeInv, SeenWithout
  <2>6. mods' = mods
    BY DEF HandleIntrAccept
  <2>7. CASE LinkedHost = NoHost
    BY <2>2, <2>4, <2>5, <2>6, <2>7, AllReleased DEF Abstract!Next, Abstract!Link
  <2>8. CASE LinkedHost # NoHost
    <3>1. Abstract!Replace(Head(backlog))
      BY <2>4, <2>5, <2>6, <2>8, AllReleased
         DEF Abstract!Replace, AllUp, Abstract!AllUp
    <3> QED
      BY <2>2, <3>1 DEF Abstract!Next
  <2> QED
    BY <2>7, <2>8
<1> QED
  BY <1>1, <1>2

(* The outbound connection links a host: there is no link meanwhile.        *)
LEMMA ConnectImplements ==
  ASSUME SafetyInv, ConnectControl \/ ConnectInterrupt \/ ConnectInterruptRefused
  PROVE  Abstract!Next \/ UNCHANGED Abstract!vars
<1>1. intr = NoFd /\ target \in Hosts /\ UNCHANGED <<seen, mods>>
  BY DEF SafetyInv, TypeInv, RoundInv, ConnectControl, ConnectInterrupt,
         ConnectInterruptRefused
<1>2. LinkedHost = NoHost
  BY <1>1 DEF LinkedHost
<1>3. CASE ConnectControl \/ ConnectInterruptRefused
  <2>1. LinkedHost' = NoHost
    BY <1>1, <1>3 DEF LinkedHost, ConnectControl, ConnectInterruptRefused
  <2> QED
    BY <1>1, <1>2, <2>1, LinkUntouched
<1>4. CASE ConnectInterrupt
  <2>1. PICK fd \in LowestOf(FreeFds) :
          /\ fdt' = [fdt EXCEPT ![fd] = [host |-> target, psm |-> InterruptPsm,
                                         input |-> "none"]]
          /\ intr' = fd
    BY <1>4 DEF ConnectInterrupt
  <2>2. fd \in Fds /\ fd # NoFd
    BY FdFacts, LowestFree
  <2>3. LinkedHost' = target
    BY <2>1, <2>2 DEF LinkedHost, SafetyInv, TypeInv, TypeOK
  <2> QED
    BY <1>1, <1>2, <2>3 DEF Abstract!Next, Abstract!Link
<1> QED
  BY <1>3, <1>4

(* A channel that BlueZ hands over is a control channel, on whichever side  *)
(* the daemon files it: it never makes a link, and never touches one.       *)
LEMMA NewConnectionImplements ==
  ASSUME SafetyInv, DispatchNewConnection
  PROVE  UNCHANGED Abstract!vars
<1> DEFINE chan == [host |-> Head(busq).host, psm |-> ControlPsm,
                    input |-> Head(busq).input]
<1>1. \A fd \in FreeFds : fd \in Fds /\ fdt[fd] = Free
  BY DEF FreeFds
<1>2. \A S : LowestOf(S) \subseteq S
  BY DEF LowestOf
<1>3. chan.psm # InterruptPsm
  BY DEF ControlPsm, InterruptPsm
<1> HIDE DEF chan
<1>4. \/ \E b, c \in FreeFds :
           \/ intr = NoFd /\ intr' = c /\ fdt' = [fdt EXCEPT ![b] = chan, ![c] = chan]
           \/ intr' = intr /\ fdt' = [fdt EXCEPT ![b] = chan, ![c] = chan]
           \/ intr' = intr /\ fdt' = [fdt EXCEPT ![b] = chan]
      \/ UNCHANGED <<ctrl, intr, fdt>>
  BY <1>2 DEF DispatchNewConnection, chan
<1>5. intr # NoFd => intr \in Fds /\ intr \notin FreeFds
  BY DEF SafetyInv, TypeInv, TypeOK, DescriptorsOpen, FreeFds
<1>6. fdt \in [Fds -> Channels \cup {Free}]
  BY DEF SafetyInv, TypeInv, TypeOK
<1>7. CASE intr # NoFd
  <2>1. intr' = intr /\ fdt'[intr] = fdt[intr]
    BY <1>1, <1>4, <1>5, <1>6, <1>7
  <2> QED
    BY <2>1, LinkUntouched DEF LinkedHost, DispatchNewConnection
<1>8. CASE intr = NoFd
  <2>1. intr' = NoFd \/ fdt'[intr'] = chan
    BY <1>1, <1>4, <1>6, <1>8
  <2> QED
    BY <1>3, <1>8, <2>1, LinkUntouched DEF LinkedHost, DispatchNewConnection
<1> QED
  BY <1>7, <1>8

(* A host that closes its interrupt channel ends the link; any other leaves *)
(* it alone.                                                                *)
LEMMA HostClosesImplements ==
  ASSUME SafetyInv, NEW h \in Hosts, NEW psms, HostCloses(h, psms)
  PROVE  Abstract!Next \/ UNCHANGED Abstract!vars
<1>1. UNCHANGED <<intr, mods>>
  BY DEF HostCloses, daemon
<1>2. \A fd \in Fds : fdt'[fd] = IF fdt[fd].host = h /\ fdt[fd].psm \in psms
                                 THEN [fdt[fd] EXCEPT !.input = "eof"] ELSE fdt[fd]
  BY DEF HostCloses
<1>3. \A fd \in Fds : fdt[fd] \in Channels =>
        [fdt[fd] EXCEPT !.input = "eof"].input = "eof"
  BY DEF Channels
<1>4. seen' = IF InterruptPsm \in psms THEN [seen EXCEPT ![h] = AllUp] ELSE seen
  BY Zenon DEF HostCloses
<1>5. CASE LinkedHost = h /\ InterruptPsm \in psms
  <2>1. LinkedHost # NoHost
    BY <1>5, HidAssumption
  <2>2. LinkedHost' = NoHost
    BY <1>1, <1>2, <1>3, <1>5, <2>1, LinkedFacts DEF LinkedHost
  <2> QED
    BY <1>1, <1>4, <1>5, <2>1, <2>2
       DEF Abstract!Next, Abstract!Unlink, AllUp, Abstract!AllUp
<1>6. CASE ~(LinkedHost = h /\ InterruptPsm \in psms)
  <2>1. seen' = seen
    BY <1>4, <1>6, LinkedFacts
  <2>2. LinkedHost' = LinkedHost
    <3>1. CASE LinkedHost # NoHost
      <4>1. fdt'[intr] = fdt[intr]
        BY <1>2, <1>6, <3>1, LinkedFacts
      <4> QED
        BY <1>1, <4>1 DEF LinkedHost
    <3>2. CASE LinkedHost = NoHost
      <4>1. intr # NoFd => intr \in Fds /\ fdt[intr] \in Channels
        BY DEF SafetyInv, TypeInv, TypeOK, DescriptorsOpen
      <4>2. CASE intr = NoFd
        BY <1>1, <3>2, <4>2 DEF LinkedHost
      <4>3. CASE intr # NoFd
        <5>1. fdt[intr].host \in Hosts /\ fdt[intr].host # NoHost
          BY <4>1, <4>3, HidAssumption DEF Channels
        <5>2. fdt[intr].psm # InterruptPsm \/ fdt[intr].input = "eof"
          BY <3>2, <4>3, <5>1 DEF LinkedHost
        <5>3. fdt'[intr].psm = fdt[intr].psm
              /\ (fdt[intr].input = "eof" => fdt'[intr].input = "eof")
          BY <1>2, <4>1, <4>3 DEF Channels
        <5> QED
          BY <1>1, <3>2, <5>2, <5>3 DEF LinkedHost
      <4> QED
        BY <4>2, <4>3
    <3> QED
      BY <3>1, <3>2
  <2> QED
    BY <1>1, <2>1, <2>2, LinkUntouched
<1> QED
  BY <1>5, <1>6

LEMMA RequestImplements ==
  ASSUME SafetyInv, HandleCtrlRequest \/ \E fd \in Fds : HostSendsRequest(fd)
  PROVE  UNCHANGED Abstract!vars
<1>0. ControlPsm # InterruptPsm
  BY DEF ControlPsm, InterruptPsm
<1>1. UNCHANGED <<intr, mods, seen>>
  BY DEF HandleCtrlRequest, HostSendsRequest, daemon
<1>2. intr # NoFd =>
        \/ fdt'[intr] = fdt[intr]
        \/ fdt[intr].psm = ControlPsm /\ fdt'[intr].psm = ControlPsm
  <2>1. intr # NoFd => intr \in Fds /\ fdt[intr] \in Channels /\ ctrl # intr
    BY DEF SafetyInv, TypeInv, TypeOK, DescriptorsOpen
  <2>2. CASE HandleCtrlRequest
    BY <2>1, <2>2 DEF HandleCtrlRequest, SafetyInv, TypeInv, TypeOK
  <2>3. ASSUME NEW fd \in Fds, HostSendsRequest(fd)
        PROVE  intr # NoFd =>
                 \/ fdt'[intr] = fdt[intr]
                 \/ fdt[intr].psm = ControlPsm /\ fdt'[intr].psm = ControlPsm
    BY <2>1, <2>3 DEF HostSendsRequest, SafetyInv, TypeInv, TypeOK, Channels
  <2> QED
    BY <2>2, <2>3
<1>3. LinkedHost' = LinkedHost
  BY <1>0, <1>1, <1>2 DEF LinkedHost
<1> QED
  BY <1>1, <1>3, LinkUntouched

LEMMA StepImplements ==
  ASSUME SafetyInv, [Next]_vars
  PROVE  [Abstract!Next]_Abstract!vars
<1> USE DEF links, queues, daemon
<1>1. CASE UNCHANGED <<intr, mods, fdt, seen>>
  BY <1>1, LinkUntouched DEF LinkedHost
<1>2. CASE CloseHidConnections
  BY <1>2, CloseImplements
<1>3. CASE Exit
  BY <1>3, LettingGoImplements DEF Exit
<1>4. CASE Select \/ Skip \/ ReadBus \/ DispatchConnected \/ DispatchDone
            \/ DeferredCancel \/ DeferredIdle \/ ConnectControlFails
            \/ ConnectInterruptNoSocket \/ TimerDue \/ Start
  BY <1>1, <1>4 DEF Select, Skip, ReadBus, DispatchConnected, DispatchDone, DeferredCancel,
     DeferredIdle, ConnectControlFails, ConnectInterruptNoSocket, TimerDue, Start
<1>5. CASE HandleIpcConnect \/ HandleCtrlClosed \/ DispatchRequestDisconnection
            \/ DeferredConnect
  BY <1>2, <1>5 DEF HandleIpcConnect, HandleCtrlClosed, DispatchRequestDisconnection,
     DeferredConnect
<1>6. CASE Peers
  BY <1>1, <1>6, RequestImplements, HostClosesImplements
     DEF Peers, SendIpc, HostOpensControl, HostOpensInterrupt, Announce,
         BlueZDisconnects
<1>7. CASE UNCHANGED vars
  BY <1>1, <1>7 DEF vars
<1> QED
  BY <1>3, <1>4, <1>5, <1>6, <1>7, KeyImplements, AcceptImplements, ConnectImplements,
     NewConnectionImplements, RequestImplements DEF Next, Daemon

(* The C daemon keeps the promise of KeyboardLink, for any number of hosts,  *)
(* keys and descriptors: one computer linked at a time, which alone sees a  *)
(* report, with the modifiers of all key events so far; keys released when  *)
(* its link ends or is taken over; modifiers forgotten only without a link. *)
THEOREM KeepsLink == Spec => ImplementsLink
  BY InitImplements, StepImplements, SafetyInvariant, PTL
     DEF Spec, ImplementsLink, Abstract!Spec
=============================================================================
