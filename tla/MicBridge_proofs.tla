-------------------------- MODULE MicBridge_proofs --------------------------
(***************************************************************************)
(* Proofs about MicBridge: type correctness, that the state reported       *)
(* between two rounds tells the truth about the microphone and the         *)
(* channels, and that at most one packet of the microphone follows a stop, *)
(* for any number of descriptors and any queue sizes.                      *)
(***************************************************************************)
EXTENDS MicBridge, TLAPS

(* What the control flow of the two threads guarantees: the control socket *)
(* is read only while it has a datagram (nobody else reads it), a connect  *)
(* call has a socket, and the audio thread a descriptor it copied.         *)
FlowInv ==
  /\ pc = "control" /\ CtrlFd \in rfds => ctrlq # <<>>
  /\ pc = "connect" => newfd \in Fds
  /\ ap \in {"choose", "write", "close"} => cur \in Fds
  /\ ret \notin {"set_state", "control", "connect"}

TypeInv == TypeOK /\ FlowInv

(* State and streaming, with the set_state() under way. *)
StreamingInv ==
  /\ state = "STREAMING" =>
       streaming \/ (pc = "set_state" /\ goal \in {"AUDIO_READY", "IDLE"})
  /\ pc = "set_state" /\ goal = "STREAMING" => streaming

(* State and the two channels, with the set_state() under way. *)
IdleInv ==
  /\ state = "IDLE" =>
       (rfcomm = NoFd /\ sco = NoFd) \/ (pc = "set_state" /\ goal # "IDLE")
  /\ pc = "set_state" /\ goal = "IDLE" => rfcomm = NoFd /\ sco = NoFd

(* Packets that followed a stop, and the one the audio thread may hold. *)
LateInv ==
  /\ late <= 1
  /\ streaming => late = 0
  /\ late # 0 => ~capture

IInv == TypeInv /\ StreamingInv /\ IdleInv /\ LateInv

LEMMA FdFacts ==
  /\ CtrlFd = 0 /\ NoFd = -1
  /\ \A fd \in Fds : fd \in Int /\ fd >= 1
  /\ NoFd \notin Fds /\ CtrlFd \notin Fds /\ 1 \in Fds
  BY MicAssumption DEF CtrlFd, NoFd, Fds

LEMMA FreshType ==
  ASSUME NEW kind \in {"free", "listen", "sco", "rfcomm"}
  PROVE  Fresh(kind) \in Channels
  BY DEF Fresh, Channels

(* A descriptor table keeps its type when descriptors are closed, opened,  *)
(* asked a command on, or relieved of what was read from them.             *)
LEMMA ClosedType ==
  ASSUME NEW table \in [Fds -> Channels], NEW S
  PROVE  Closed(table, S) \in [Fds -> Channels]
  BY FreshType DEF Closed, Free

LEMMA OpenedType ==
  ASSUME TypeOK, NEW fd \in Fds, NEW kind \in {"listen", "sco", "rfcomm"}
  PROVE  Opened(fd, kind) \in [Fds -> Channels]
  BY FreshType DEF Opened, TypeOK

LEMMA AskType ==
  ASSUME TypeOK, NEW table \in [Fds -> Channels], NEW greeting \in BOOLEAN
  PROVE  Ask(table, greeting) \in [Fds -> Channels]
<1>1. CASE rfcomm = NoFd
  BY <1>1 DEF Ask
<1>2. CASE rfcomm \in Fds
  <2>1. table[rfcomm] \in Channels
    BY <1>2
  <2>2. [table[rfcomm] EXCEPT !.owed = TRUE, !.greeted = @ \/ greeting] \in Channels
    BY <2>1, Zenon DEF Channels
  <2> QED
    BY <1>2, <2>2 DEF Ask
<1> QED
  BY <1>1, <1>2 DEF TypeOK

LEMMA AnsweredType ==
  ASSUME TypeOK
  PROVE  Answered \in [Fds -> Channels]
<1>1. \A c \in Channels : [c EXCEPT !.input = "none"] \in Channels
  BY DEF Channels
<1> QED
  BY <1>1 DEF Answered, TypeOK

LEMMA LowestType ==
  ASSUME NEW S \in SUBSET Fds, NEW fd \in LowestOf(S)
  PROVE  fd \in Fds
  BY DEF LowestOf

(* Queues. *)
LEMMA TakeHead ==
  ASSUME NEW S, NEW s \in Seq(S), s # <<>>
  PROVE  Head(s) \in S /\ Tail(s) \in Seq(S)
  OBVIOUS

LEMMA PutLast ==
  ASSUME NEW S, NEW s \in Seq(S), NEW e \in S
  PROVE  Append(s, e) \in Seq(S) /\ Append(s, e) # <<>>
<1>1. Append(s, e) \in Seq(S) /\ Len(Append(s, e)) = Len(s) + 1 /\ Len(s) \in Nat
  OBVIOUS
<1>2. Len(<<>>) = 0
  OBVIOUS
<1> QED
  BY <1>1, <1>2

-----------------------------------------------------------------------------
(* Type correctness. *)

LEMMA TypeEnds == Ends => TypeInv'
<1> SUFFICES ASSUME Ends PROVE TypeInv'
  OBVIOUS
<1>1. fdt' \in [Fds -> Channels]
  BY FreshType DEF Ends, Free
<1>2. ap' \in {"copy", "choose", "write", "close", "forget", "lower"} /\ pc' \in Phases
      /\ goal' \in States /\ ret' \in Phases /\ state' \in States /\ slc' \in SlcSteps
  BY DEF Ends, Phases, States, SlcSteps
<1>3. rfds' \subseteq Fds \cup {CtrlFd} /\ newfd' \in Fds \cup {NoFd}
  BY DEF Ends
<1>4. /\ rfcomm' \in Fds \cup {NoFd} /\ listen' \in Fds \cup {NoFd}
      /\ sco' \in Fds \cup {NoFd} /\ cur' \in Fds \cup {NoFd}
  BY DEF Ends
<1>5. /\ ctrlq' \in Seq(Commands) /\ busq' \in Seq(BusMessages)
      /\ late' \in 0..2 /\ held' \in 0..BufMax
  BY MicAssumption DEF Ends
<1>6. toStart' \in BOOLEAN /\ streaming' \in BOOLEAN /\ capture' \in BOOLEAN /\ waiting' \in BOOLEAN
  BY DEF Ends
<1>7. FlowInv'
  BY DEF Ends, FlowInv
<1> QED
  BY <1>1, <1>2, <1>3, <1>4, <1>5, <1>6, <1>7 DEF TypeInv, TypeOK

LEMMA TypeInit == Init => TypeInv
<1> SUFFICES ASSUME Init PROVE TypeInv
  OBVIOUS
<1>1. fdt \in [Fds -> Channels]
  BY FreshType DEF Init, Free
<1>2. /\ toStart \in BOOLEAN /\ streaming \in BOOLEAN
      /\ capture \in BOOLEAN /\ waiting \in BOOLEAN
  BY Zenon DEF Init
<1> QED
  BY <1>1, <1>2, FdFacts, MicAssumption DEF Init, TypeInv, TypeOK, FlowInv, Phases, States, SlcSteps

(* The loop itself and the commands of the control socket. *)
LEMMA TypeControl ==
  ASSUME TypeInv,
         \/ SetState \/ Select \/ SelectFails \/ Skip
         \/ HandleStart \/ HandleStop \/ HandleOther \/ HandleConnect
         \/ ReadPayload \/ ConnectReturns
  PROVE  TypeInv'
<1> USE FdFacts DEF TypeInv, TypeOK, FlowInv, Phases, States, loop, after, link, audio, outside,
                    Then, ThenSetState
<1>1. CASE SetState
  BY <1>1 DEF SetState
<1>2. CASE Select
  <2>1. Readable \subseteq Fds \cup {CtrlFd} /\ (CtrlFd \in Readable => ctrlq # <<>>)
    BY DEF Readable
  <2> QED
    BY <1>2, <2>1 DEF Select
<1>3. CASE SelectFails
  BY <1>3, TypeEnds DEF SelectFails
<1>4. CASE Skip
  BY <1>4 DEF Skip
<1>5. ASSUME NEW command, Takes(command)
      PROVE  pc = "control" /\ ctrlq' \in Seq(Commands)
  BY <1>5, TakeHead DEF Takes
<1>6. CASE HandleStart
  BY <1>5, <1>6 DEF HandleStart
<1>7. CASE HandleStop
  <2>1. streaming' \in BOOLEAN
    BY <1>7, Zenon DEF HandleStop
  <2> QED
    BY <1>5, <1>7, <2>1 DEF HandleStop
<1>8. CASE HandleOther
  BY <1>5, <1>8 DEF HandleOther
<1>9. CASE HandleConnect
  BY <1>5, <1>9 DEF HandleConnect
<1>10. CASE ReadPayload
  <2>1. ctrlq' \in Seq(Commands)
    BY <1>10, TakeHead DEF ReadPayload
  <2>2. CASE \E fd \in LowestOf(FreeFds) : newfd' = fd /\ fdt' = Opened(fd, "rfcomm")
    <3>1. PICK fd \in LowestOf(FreeFds) : newfd' = fd /\ fdt' = Opened(fd, "rfcomm")
      BY <2>2
    <3>2. fd \in Fds
      BY LowestType DEF FreeFds
    <3>3. fdt' \in [Fds -> Channels]
      BY <3>1, <3>2, OpenedType
    <3> QED
      BY <1>10, <2>1, <3>1, <3>2, <3>3 DEF ReadPayload
  <2>3. CASE UNCHANGED <<newfd, fdt>> /\ Then("rfcomm")
    BY <1>10, <2>1, <2>3 DEF ReadPayload
  <2> QED
    BY <1>10, <2>2, <2>3 DEF ReadPayload
<1>11. CASE ConnectReturns
  <2>1. fdt' \in [Fds -> Channels]
    BY <1>11, ClosedType DEF ConnectReturns
  <2> QED
    BY <1>11, <2>1 DEF ConnectReturns
<1> QED
  BY <1>1, <1>2, <1>3, <1>4, <1>6, <1>7, <1>8, <1>9, <1>10, <1>11

LEMMA DisconnectType ==
  ASSUME TypeInv, NEW phase \in Phases \ {"set_state", "control", "connect"}, Disconnect(phase)
  PROVE  /\ fdt' \in [Fds -> Channels]
         /\ waiting' \in BOOLEAN
         /\ streaming' \in BOOLEAN /\ ~streaming' /\ slc' \in SlcSteps
         /\ held' \in 0..BufMax
         /\ rfcomm' = NoFd /\ sco' = NoFd
         /\ pc' = "set_state" /\ goal' \in States /\ ret' = phase
<1>1. waiting' \in BOOLEAN
  BY Zenon DEF Disconnect, Shuts, TypeInv, TypeOK
<1>2. streaming' \in BOOLEAN /\ ~streaming'
  BY Zenon DEF Disconnect
<1> QED
  BY <1>1, <1>2, ClosedType, MicAssumption
     DEF Disconnect, ThenSetState, TypeInv, TypeOK, SlcSteps, States

(* The RFCOMM channel and the SCO listener. *)
LEMMA TypeLink ==
  ASSUME TypeInv,
         \/ HandleRfcommEnd \/ DropData \/ AdvanceSlc \/ SelectCodec \/ KeepData
         \/ AcceptSco
  PROVE  TypeInv'
<1> USE FdFacts DEF TypeInv, TypeOK, FlowInv, Phases, States, loop, after, link, audio, outside,
                    Then, ThenSetState
<1>0. 0 \in 0..BufMax /\ (Fits => held + 1 \in 0..BufMax)
  BY MicAssumption DEF Fits
<1>1. CASE HandleRfcommEnd
  BY <1>1, DisconnectType DEF HandleRfcommEnd
<1>2. CASE AdvanceSlc
  <2>1. slc' \in SlcSteps /\ held' \in 0..BufMax
    BY <1>0, <1>2 DEF AdvanceSlc, AdvanceTo, InHandshake, SlcSteps
  <2>2. fdt' \in [Fds -> Channels]
    <3>1. Answered \in [Fds -> Channels]
      BY AnsweredType
    <3>2. Ask(Answered, FALSE) \in [Fds -> Channels]
      BY <3>1, AskType
    <3>3. fdt' = Answered \/ fdt' = Ask(Answered, FALSE)
      BY <1>2, Zenon DEF AdvanceSlc
    <3> QED
      BY <3>1, <3>2, <3>3
  <2>3. \/ pc' = "sco" /\ UNCHANGED <<goal, ret>>
        \/ pc' = "set_state" /\ goal' = "SLC_ESTABLISHED" /\ ret' = "sco"
    BY <1>2, Zenon DEF AdvanceSlc
  <2>4. UNCHANGED <<loop, state, streaming, rfcomm, listen, sco, audio, outside, late>>
    BY <1>2 DEF AdvanceSlc
  <2> QED
    BY <2>1, <2>2, <2>3, <2>4
<1>3. CASE SelectCodec
  <2> DEFINE unlistened == Closed(Answered, {listen})
             unused     == {f \in Fds : unlistened[f] = Free}
  <2>1. unlistened \in [Fds -> Channels]
    BY ClosedType, AnsweredType
  <2>2. listen' \in Fds \cup {NoFd} /\ fdt' \in [Fds -> Channels]
    <3>1. CASE \E fd \in LowestOf(unused) :
                 /\ listen' = fd
                 /\ fdt' = Ask([unlistened EXCEPT ![fd] = Fresh("listen")], FALSE)
      <4>1. PICK fd \in LowestOf(unused) :
                 /\ listen' = fd
                 /\ fdt' = Ask([unlistened EXCEPT ![fd] = Fresh("listen")], FALSE)
        BY <3>1
      <4>2. fd \in Fds
        BY LowestType
      <4>3. [unlistened EXCEPT ![fd] = Fresh("listen")] \in [Fds -> Channels]
        BY <2>1, FreshType
      <4> HIDE DEF unlistened
      <4> QED
        BY <4>1, <4>2, <4>3, AskType
    <3>2. CASE listen' = NoFd /\ fdt' = Ask(unlistened, FALSE)
      BY <2>1, <3>2, AskType
    <3> QED
      BY <1>3, <3>1, <3>2 DEF SelectCodec
  <2>3. waiting' \in BOOLEAN
    BY <1>3, Zenon DEF SelectCodec
  <2> QED
    BY <1>0, <1>3, <2>2, <2>3 DEF SelectCodec
<1>4. CASE KeepData \/ DropData
  <2>1. held' \in 0..BufMax
    BY <1>0, <1>4 DEF KeepData, DropData
  <2>2. /\ fdt' = Answered /\ pc' = "sco"
        /\ UNCHANGED <<after, loop, state, streaming, rfcomm, slc, listen, sco,
                       audio, outside, late>>
    BY <1>4 DEF KeepData, DropData
  <2> QED
    BY <2>1, <2>2, AnsweredType
<1>5. CASE AcceptSco
  <2>1. CASE UNCHANGED <<sco, fdt, streaming, waiting, late>> /\ Then("dbus")
    BY <1>5, <2>1 DEF AcceptSco
  <2>2. CASE /\ waiting' = FALSE
             /\ \E fd \in LowestOf(FreeFds) :
                  fdt' = Closed(Opened(fd, "sco"), {sco}) /\ sco' = fd
             /\ streaming' = TRUE /\ late' = 0
             /\ ThenSetState("STREAMING", "dbus")
    <3>1. PICK fd \in LowestOf(FreeFds) :
                  fdt' = Closed(Opened(fd, "sco"), {sco}) /\ sco' = fd
      BY <2>2
    <3>2. fd \in Fds
      BY LowestType DEF FreeFds
    <3>3. fdt' \in [Fds -> Channels]
      BY <3>1, <3>2, OpenedType, ClosedType
    <3>4. waiting' \in BOOLEAN /\ streaming' \in BOOLEAN
      BY <2>2, Zenon
    <3>5. UNCHANGED <<loop, state, link, listen, audio, ctrlq, busq>>
      BY <1>5 DEF AcceptSco
    <3>6. pc' = "set_state" /\ goal' = "STREAMING" /\ ret' = "dbus" /\ late' = 0
      BY <2>2
    <3>7. sco' \in Fds
      BY <3>1, <3>2
    <3> QED
      BY <3>3, <3>4, <3>5, <3>6, <3>7
  <2> QED
    BY <1>5, <2>1, <2>2 DEF AcceptSco
<1> QED
  BY <1>1, <1>2, <1>3, <1>4, <1>5

(* BlueZ's messages and the end of a round. *)
LEMMA TypeSettle ==
  ASSUME TypeInv,
         NoMessage \/ NewConnection \/ RequestDisconnection \/ InitiateSlc \/ DetectLink
  PROVE  TypeInv'
<1> USE FdFacts DEF TypeInv, TypeOK, FlowInv, Phases, States, loop, after, link, audio, outside,
                    Then, ThenSetState
<1>1. CASE NoMessage
  BY <1>1 DEF NoMessage
<1>2. ASSUME NEW kind, Dispatches(kind)
      PROVE  pc = "dbus" /\ busq' \in Seq(BusMessages) /\ rfds' = {}
  BY <1>2, TakeHead DEF Dispatches
<1>3. CASE NewConnection
  <2>1. CASE \E a \in LowestOf(FreeFds) : \E fd \in LowestOf(FreeFds \ {a}) :
               /\ fdt' = Closed(Opened(fd, "rfcomm"), {rfcomm})
               /\ Shuts({rfcomm})
               /\ rfcomm' = fd
               /\ ThenSetState("RFCOMM_CONNECTED", "settle")
    <3>0. PICK a \in LowestOf(FreeFds) : \E fd \in LowestOf(FreeFds \ {a}) :
               /\ fdt' = Closed(Opened(fd, "rfcomm"), {rfcomm})
               /\ Shuts({rfcomm})
               /\ rfcomm' = fd
               /\ ThenSetState("RFCOMM_CONNECTED", "settle")
      BY <2>1
    <3>1. PICK fd \in LowestOf(FreeFds \ {a}) :
               /\ fdt' = Closed(Opened(fd, "rfcomm"), {rfcomm})
               /\ Shuts({rfcomm})
               /\ rfcomm' = fd
               /\ ThenSetState("RFCOMM_CONNECTED", "settle")
      BY <3>0
    <3>2. fd \in Fds
      BY LowestType DEF FreeFds
    <3>3. fdt' \in [Fds -> Channels]
      BY <3>1, <3>2, OpenedType, ClosedType
    <3>4. waiting' \in BOOLEAN
      BY <3>1, Zenon DEF Shuts
    <3>5. /\ busq' \in Seq(BusMessages) /\ rfds' = {}
          /\ UNCHANGED <<newfd, toStart, state, streaming, slc, held, listen, sco,
                         audio, ctrlq, late>>
      BY <1>2, <1>3 DEF NewConnection
    <3>6. pc' = "set_state" /\ goal' = "RFCOMM_CONNECTED" /\ ret' = "settle"
      BY <3>1
    <3>7. rfcomm' \in Fds
      BY <3>1, <3>2
    <3> QED
      BY <3>3, <3>4, <3>5, <3>6, <3>7
  <2>2. CASE Then("settle") /\ UNCHANGED <<rfcomm, fdt, waiting>>
    BY <1>2, <1>3, <2>2 DEF NewConnection
  <2> QED
    BY <1>3, <2>1, <2>2 DEF NewConnection
<1>4. CASE RequestDisconnection
  BY <1>2, <1>4, DisconnectType DEF RequestDisconnection
<1>5. CASE InitiateSlc
  <2>1. fdt' \in [Fds -> Channels]
    BY <1>5, AskType DEF InitiateSlc
  <2>2. toStart' \in BOOLEAN
    BY <1>5, Zenon DEF InitiateSlc
  <2>3. slc' \in SlcSteps
    BY <1>5 DEF InitiateSlc, SlcSteps
  <2>4. /\ pc' = "select"
        /\ UNCHANGED <<after, rfds, newfd, state, streaming, rfcomm, held, listen,
                       sco, audio, outside, late>>
    BY <1>5 DEF InitiateSlc
  <2> QED
    BY <2>1, <2>2, <2>3, <2>4
<1>6. CASE DetectLink
  <2>1. toStart' \in BOOLEAN
    BY <1>6, Zenon DEF DetectLink
  <2> QED
    BY <1>6, <2>1 DEF DetectLink
<1> QED
  BY <1>1, <1>3, <1>4, <1>5, <1>6

LEMMA TypeAudio ==
  ASSUME TypeInv, Audio
  PROVE  TypeInv'
<1> USE FdFacts DEF TypeInv, TypeOK, FlowInv, Phases, States, loop, after, link, AudioStep, AudioAgain
<1>1. CASE CopySco
  BY <1>1 DEF CopySco
<1>2. CASE Choose
  BY <1>2 DEF Choose
<1>3. CASE NoData
  <2>1. capture' \in BOOLEAN
    BY <1>3, Zenon DEF NoData, AudioAgain
  <2> QED
    BY <1>3, <2>1 DEF NoData
<1>4. CASE Write
  <2>1. late' \in 0..2
    BY <1>4 DEF Write
  <2>2. capture' \in BOOLEAN
    BY <1>4, Zenon DEF Write, AudioAgain
  <2> QED
    BY <1>4, <2>1, <2>2 DEF Write
<1>5. CASE WriteFails
  <2>1. capture' \in BOOLEAN
    BY <1>5, Zenon DEF WriteFails, AudioAgain
  <2> QED
    BY <1>5, <2>1 DEF WriteFails
<1>6. CASE CloseSco
  <2>1. waiting' \in BOOLEAN
    BY <1>6, Zenon DEF CloseSco, Shuts
  <2> QED
    BY <1>6, <2>1, ClosedType DEF CloseSco
<1>7. CASE ForgetSco
  BY <1>7 DEF ForgetSco
<1>8. CASE LowerState
  <2>1. capture' \in BOOLEAN
    BY <1>8, Zenon DEF LowerState, AudioAgain
  <2> QED
    BY <1>8, <2>1 DEF LowerState
<1> QED
  BY <1>1, <1>2, <1>3, <1>4, <1>5, <1>6, <1>7, <1>8 DEF Audio

(* Exit, restart, and everybody else. *)
LEMMA TypeWorld ==
  ASSUME TypeInv,
         \/ Exit \/ Start \/ Clients \/ Gateway
         \/ \E fd \in Fds : GatewaySelectsCodec(fd) \/ GatewaySendsPart(fd)
  PROVE  TypeInv'
<1> USE FdFacts DEF TypeInv, TypeOK, FlowInv, Phases, States, loop, after, link, audio, outside,
                    Then, World
<1>1. CASE Exit
  BY <1>1, TypeEnds DEF Exit
<1>2. CASE Start
  BY <1>2, OpenedType DEF Start
<1>3. ASSUME NEW command \in Commands, SendCommand(command) PROVE TypeInv'
  BY <1>3, PutLast DEF SendCommand
<1>4. ASSUME NEW kind \in BusMessages, Announce(kind) PROVE TypeInv'
  BY <1>4, PutLast DEF Announce
<1>5. ASSUME NEW fd \in Fds, NEW channel \in Channels, GatewaySends(fd, channel)
      PROVE  TypeInv'
  BY <1>5 DEF GatewaySends
<1>6. \A c \in Channels : /\ [c EXCEPT !.owed = FALSE, !.input = "reply"] \in Channels
                          /\ [c EXCEPT !.input = "bcs"] \in Channels
                          /\ [c EXCEPT !.input = "part"] \in Channels
                          /\ [c EXCEPT !.input = "eof"] \in Channels
  BY DEF Channels
<1>7. ASSUME NEW fd \in Fds, GatewayAnswers(fd) PROVE TypeInv'
  BY <1>5, <1>6, <1>7 DEF GatewayAnswers
<1>8. ASSUME NEW fd \in Fds, GatewaySelectsCodec(fd) \/ GatewaySendsPart(fd)
      PROVE  TypeInv'
  BY <1>5, <1>6, <1>8 DEF GatewaySelectsCodec, GatewaySendsPart
<1>9. ASSUME NEW fd \in Fds, PeerCloses(fd) PROVE TypeInv'
  <2>1. fdt' = [fdt EXCEPT ![fd] = [fdt[fd] EXCEPT !.input = "eof"]]
    BY <1>9 DEF PeerCloses
  <2>2. fdt' \in [Fds -> Channels]
    BY <1>6, <2>1
  <2> QED
    BY <1>9, <2>2 DEF PeerCloses
<1>10. CASE GatewayOpensSco
  BY <1>10 DEF GatewayOpensSco
<1>11. CASE GatewayLeaves
  <2>1. waiting' \in BOOLEAN
    BY <1>11, Zenon DEF GatewayLeaves
  <2> QED
    BY <1>11, <2>1 DEF GatewayLeaves
<1> QED
  BY <1>1, <1>2, <1>3, <1>4, <1>7, <1>8, <1>9, <1>10, <1>11 DEF Clients, Gateway

LEMMA TypeStep == TypeInv /\ [Next]_vars => TypeInv'
<1> SUFFICES ASSUME TypeInv, [Next]_vars PROVE TypeInv'
  OBVIOUS
<1>1. CASE Main
  BY <1>1, TypeControl, TypeLink, TypeSettle DEF Main
<1>2. CASE Audio
  BY <1>2, TypeAudio
<1>3. CASE Exit \/ Start \/ Clients \/ Gateway \/ \E fd \in Fds : GatewaySelectsCodec(fd) \/ GatewaySendsPart(fd)
  BY <1>3, TypeWorld
<1>4. CASE UNCHANGED vars
  BY <1>4 DEF vars, TypeInv, TypeOK, FlowInv
<1> QED
  BY <1>1, <1>2, <1>3, <1>4 DEF Next

(* Every variable keeps its type. *)
THEOREM TypeCorrect == Spec => []TypeOK
<1>1. TypeInv => TypeOK
  BY DEF TypeInv
<1> QED
  BY <1>1, TypeInit, TypeStep, PTL DEF Spec

-----------------------------------------------------------------------------
(* The state is what set_state() was last told, and streaming and the      *)
(* channels are changed before it is told: hence the clauses of            *)
(* StreamingInv and IdleInv about a set_state() that is under way.         *)

(* Nothing that only moves the program counter on, and never to a          *)
(* set_state(), changes what the two invariants say.                       *)
LEMMA CalmStep ==
  ASSUME pc # "set_state", pc' # "set_state", UNCHANGED <<state, streaming, rfcomm, sco>>
  PROVE  /\ StreamingInv => StreamingInv'
         /\ IdleInv => IdleInv'
  BY DEF StreamingInv, IdleInv

(* The actions of the main thread for which that is so. *)
LEMMA CalmMain ==
  ASSUME \/ Select \/ Skip \/ HandleOther \/ HandleConnect \/ ReadPayload
         \/ SelectCodec \/ DropData \/ KeepData \/ NoMessage \/ DetectLink \/ InitiateSlc
  PROVE  pc # "set_state" /\ pc' # "set_state" /\ UNCHANGED <<state, streaming, rfcomm, sco>>
<1> USE DEF loop, link, Then, Takes, ReadsRfcomm
<1>1. CASE Select
  BY <1>1 DEF Select
<1>2. CASE Skip
  BY <1>2 DEF Skip
<1>3. CASE HandleOther
  BY <1>3 DEF HandleOther
<1>4. CASE HandleConnect
  BY <1>4 DEF HandleConnect
<1>5. CASE ReadPayload
  BY <1>5 DEF ReadPayload
<1>6. CASE SelectCodec
  BY <1>6 DEF SelectCodec, Reads
<1>7. CASE DropData \/ KeepData
  BY <1>7 DEF DropData, KeepData, Reads
<1>8. CASE NoMessage
  BY <1>8 DEF NoMessage
<1>9. CASE DetectLink
  BY <1>9 DEF DetectLink
<1>10. CASE InitiateSlc
  BY <1>10 DEF InitiateSlc
<1> QED
  BY <1>1, <1>2, <1>3, <1>4, <1>5, <1>6, <1>7, <1>8, <1>9, <1>10

(* Everybody but the main thread leaves the program counter alone, and     *)
(* changes the state to RFCOMM_CONNECTED and sco_fd to -1 only.            *)
LEMMA OtherStep ==
  ASSUME \/ Audio \/ Clients \/ Gateway \/ (\E fd \in Fds : GatewaySelectsCodec(fd) \/ GatewaySendsPart(fd))
         \/ UNCHANGED vars
  PROVE  /\ UNCHANGED <<pc, goal, ret, streaming, rfcomm>>
         /\ state' \in {state, "RFCOMM_CONNECTED"}
         /\ sco' \in {sco, NoFd}
<1>1. CASE Audio
  BY <1>1 DEF Audio, CopySco, Choose, NoData, Write, WriteFails, CloseSco, ForgetSco,
              LowerState, AudioStep, after, link
<1>2. CASE Clients \/ Gateway \/ \E fd \in Fds : GatewaySelectsCodec(fd) \/ GatewaySendsPart(fd)
  BY <1>2 DEF Clients, Gateway, SendCommand, Announce, GatewayAnswers, GatewaySelectsCodec,
              GatewaySendsPart, GatewaySends, PeerCloses, GatewayOpensSco, GatewayLeaves, World, after, link
<1>3. CASE UNCHANGED vars
  BY <1>3 DEF vars
<1> QED
  BY <1>1, <1>2, <1>3

LEMMA StreamingStep == StreamingInv /\ [Next]_vars => StreamingInv'
<1> SUFFICES ASSUME StreamingInv, [Next]_vars PROVE StreamingInv'
  OBVIOUS
<1> USE DEF StreamingInv, ThenSetState, Then, Takes, ReadsRfcomm, loop, link, after
<1>1. CASE SetState
  BY <1>1 DEF SetState
<1>2. CASE Ends
  BY <1>2 DEF Ends
<1>3. CASE HandleStart
  BY <1>3 DEF HandleStart
<1>4. CASE HandleStop
  BY <1>4 DEF HandleStop
<1>5. CASE ConnectReturns
  BY <1>5 DEF ConnectReturns
<1>6. CASE HandleRfcommEnd
  BY <1>6 DEF HandleRfcommEnd, Disconnect
<1>7. CASE AdvanceSlc
  BY <1>7 DEF AdvanceSlc, Reads
<1>8. CASE AcceptSco
  BY <1>8 DEF AcceptSco
<1>9. CASE NewConnection
  BY <1>9 DEF NewConnection, Dispatches
<1>10. CASE RequestDisconnection
  BY <1>10 DEF RequestDisconnection, Disconnect, Dispatches
<1>11. CASE Start
  BY <1>11 DEF Start
<1>12. CASE \/ Select \/ Skip \/ HandleOther \/ HandleConnect \/ ReadPayload
            \/ SelectCodec \/ DropData \/ KeepData \/ NoMessage \/ DetectLink \/ InitiateSlc
  BY <1>12, CalmMain, CalmStep
<1>13. CASE \/ Audio \/ Clients \/ Gateway \/ (\E fd \in Fds : GatewaySelectsCodec(fd) \/ GatewaySendsPart(fd))
            \/ UNCHANGED vars
  BY <1>13, OtherStep
<1> QED
  BY <1>1, <1>2, <1>3, <1>4, <1>5, <1>6, <1>7, <1>8, <1>9, <1>10, <1>11, <1>12, <1>13
     DEF Next, Main, SelectFails, Exit

(* The set_state() that ends is the only one: ret is never another. *)
LEMMA IdleStep == TypeInv /\ IdleInv /\ [Next]_vars => IdleInv'
<1> SUFFICES ASSUME TypeInv, IdleInv, [Next]_vars PROVE IdleInv'
  OBVIOUS
<1> USE DEF IdleInv, ThenSetState, Then, Takes, ReadsRfcomm, loop, link, after
<1>1. CASE SetState
  BY <1>1 DEF SetState, TypeInv, FlowInv
<1>2. CASE Ends
  BY <1>2 DEF Ends
<1>3. CASE HandleStart
  BY <1>3 DEF HandleStart
<1>4. CASE HandleStop
  BY <1>4 DEF HandleStop
<1>5. CASE ConnectReturns
  BY <1>5 DEF ConnectReturns
<1>6. CASE HandleRfcommEnd
  BY <1>6 DEF HandleRfcommEnd, Disconnect
<1>7. CASE AdvanceSlc
  BY <1>7 DEF AdvanceSlc, Reads
<1>8. CASE AcceptSco
  BY <1>8 DEF AcceptSco
<1>9. CASE NewConnection
  BY <1>9 DEF NewConnection, Dispatches
<1>10. CASE RequestDisconnection
  BY <1>10 DEF RequestDisconnection, Disconnect, Dispatches
<1>11. CASE Start
  BY <1>11 DEF Start
<1>12. CASE \/ Select \/ Skip \/ HandleOther \/ HandleConnect \/ ReadPayload
            \/ SelectCodec \/ DropData \/ KeepData \/ NoMessage \/ DetectLink \/ InitiateSlc
  BY <1>12, CalmMain, CalmStep
<1>13. CASE \/ Audio \/ Clients \/ Gateway \/ (\E fd \in Fds : GatewaySelectsCodec(fd) \/ GatewaySendsPart(fd))
            \/ UNCHANGED vars
  BY <1>13, OtherStep
<1> QED
  BY <1>1, <1>2, <1>3, <1>4, <1>5, <1>6, <1>7, <1>8, <1>9, <1>10, <1>11, <1>12, <1>13
     DEF Next, Main, SelectFails, Exit

(* What the audio thread holds was read while streaming was on, and nothing *)
(* was written late then; only its own step writes one packet late.        *)
LEMMA LateStep == TypeInv /\ LateInv /\ [Next]_vars => LateInv'
<1> SUFFICES ASSUME TypeInv, LateInv, [Next]_vars PROVE LateInv'
  OBVIOUS
<1>0. late \in Nat /\ late <= 1
  BY DEF TypeInv, TypeOK, LateInv
<1> USE <1>0 DEF LateInv, loop, link, audio
<1>1. CASE UNCHANGED <<streaming, capture, late>>
  BY <1>1
<1>2. CASE streaming' = TRUE /\ late' = 0
  BY <1>2
<1>3. CASE ~streaming' /\ UNCHANGED <<capture, late>>
  BY <1>3
<1>4. CASE ~streaming' /\ late' = 0
  BY <1>4
<1>5. CASE Choose
  BY <1>5 DEF Choose, AudioStep
<1>6. CASE Write
  <2>1. UNCHANGED streaming /\ ~capture'
    BY <1>6 DEF Write, AudioStep, AudioAgain
  <2>2. late' = late \/ (capture /\ ~streaming /\ late' = late + 1)
    BY <1>6 DEF Write
  <2> QED
    BY <2>1, <2>2
<1>7. CASE ~capture' /\ UNCHANGED <<streaming, late>>
  BY <1>7
<1>8. ASSUME Main PROVE LateInv'
  <2>1. CASE SetState \/ Select \/ Skip \/ HandleOther \/ HandleConnect \/ ReadPayload
             \/ ConnectReturns \/ AdvanceSlc \/ SelectCodec \/ DropData \/ KeepData
             \/ NoMessage \/ NewConnection \/ InitiateSlc \/ DetectLink
    BY <1>1, <2>1 DEF SetState, Select, Skip, HandleOther, HandleConnect, ReadPayload,
       ConnectReturns, AdvanceSlc, SelectCodec, DropData, KeepData, NoMessage, NewConnection,
       InitiateSlc, DetectLink
  <2>2. CASE SelectFails
    BY <1>4, <2>2 DEF SelectFails, Ends
  <2>3. CASE HandleStart
    BY <1>2, <2>3 DEF HandleStart
  <2>4. CASE HandleStop
    BY <1>3, <2>4 DEF HandleStop
  <2>5. CASE HandleRfcommEnd
    BY <1>3, <2>5 DEF HandleRfcommEnd, Disconnect
  <2>6. CASE RequestDisconnection
    BY <1>3, <2>6 DEF RequestDisconnection, Disconnect
  <2>7. CASE AcceptSco
    BY <1>1, <1>2, <2>7 DEF AcceptSco
  <2> QED
    BY <1>8, <2>1, <2>2, <2>3, <2>4, <2>5, <2>6, <2>7 DEF Main
<1>9. ASSUME Audio PROVE LateInv'
  <2>1. CASE CopySco \/ CloseSco \/ ForgetSco
    BY <1>1, <2>1 DEF CopySco, CloseSco, ForgetSco, AudioStep
  <2>2. CASE NoData \/ WriteFails \/ LowerState
    BY <1>7, <2>2 DEF NoData, WriteFails, LowerState, AudioStep, AudioAgain
  <2> QED
    BY <1>5, <1>6, <1>9, <2>1, <2>2 DEF Audio
<1>10. CASE Exit
  BY <1>4, <1>10 DEF Exit, Ends
<1>11. CASE Start
  BY <1>1, <1>11 DEF Start
<1>12. CASE Clients \/ Gateway \/ \E fd \in Fds : GatewaySelectsCodec(fd) \/ GatewaySendsPart(fd)
  BY <1>1, <1>12 DEF Clients, Gateway, SendCommand, Announce, GatewayAnswers,
     GatewaySelectsCodec, GatewaySendsPart, GatewaySends, PeerCloses, GatewayOpensSco, GatewayLeaves, World
<1>13. CASE UNCHANGED vars
  BY <1>1, <1>13 DEF vars
<1> QED
  BY <1>8, <1>9, <1>10, <1>11, <1>12, <1>13 DEF Next

-----------------------------------------------------------------------------
THEOREM Inductive == Spec => []IInv
<1>1. Init => IInv
  <2>1. Init => StreamingInv /\ IdleInv
    BY DEF Init, StreamingInv, IdleInv
  <2>2. Init => LateInv
    BY DEF Init, LateInv
  <2> QED
    BY <2>1, <2>2, TypeInit DEF IInv
<1>2. IInv /\ [Next]_vars => IInv'
  BY TypeStep, StreamingStep, IdleStep, LateStep DEF IInv
<1> QED
  BY <1>1, <1>2, PTL DEF Spec

(* A status query is answered with STREAMING only while the microphone is  *)
(* on: whatever the audio thread does to the state in between, it never    *)
(* raises it.                                                              *)
THEOREM StatusIsTrue == Spec => []StatusTruthful
<1>1. IInv => StatusTruthful
  BY DEF IInv, StreamingInv, StatusTruthful
<1> QED
  BY <1>1, Inductive, PTL

(* An idle bridge holds no channel. *)
THEOREM IdleIsEmpty == Spec => []IdleHoldsNothing
<1>1. IInv => IdleHoldsNothing
  BY DEF IInv, IdleInv, IdleHoldsNothing
<1> QED
  BY <1>1, Inductive, PTL

(* At most one packet of the microphone follows a stop. *)
THEOREM MicStops == Spec => []NoMicAfterStop
<1>1. IInv => NoMicAfterStop
  BY DEF IInv, LateInv, NoMicAfterStop
<1> QED
  BY <1>1, Inductive, PTL
=============================================================================
