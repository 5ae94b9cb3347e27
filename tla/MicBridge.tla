----------------------------- MODULE MicBridge -----------------------------
(***************************************************************************)
(* The microphone daemon, daemon/mic_bridge.c: a hands-free unit whose main *)
(* thread multiplexes the control socket, the RFCOMM channel with its      *)
(* handshake (SLC), the SCO listener and BlueZ's D-Bus messages, and whose *)
(* audio thread writes microphone data to the SCO channel.                 *)
(*                                                                         *)
(* The two threads share state, streaming and sco_fd.  A step of the model *)
(* is what one thread does between two accesses that the other can tell    *)
(* apart; set_state() is a step of its own, as is every part of the audio  *)
(* thread's clean-up after a failed write.  Descriptors are numbers reused *)
(* lowest first, because both threads keep copies of them.                 *)
(***************************************************************************)
EXTENDS Integers, Sequences

CONSTANTS
  LastFd,    \* bound: the highest descriptor the process can open
  CtrlMax,   \* bound: datagrams the control socket queues
  BusMax,    \* bound: D-Bus messages in flight
  BufMax     \* pieces of data that fit in rfcomm_buf

ASSUME MicAssumption ==
  /\ LastFd \in Nat \ {0}
  /\ CtrlMax \in Nat \ {0}
  /\ BusMax \in Nat \ {0}
  /\ BufMax \in Nat \ {0}

CtrlFd == 0          \* ctrl_sock_fd is opened before the loop starts
Fds    == 1..LastFd
NoFd   == -1

States   == {"IDLE", "RFCOMM_CONNECTED", "SLC_ESTABLISHED", "AUDIO_READY", "STREAMING"}
SlcSteps == {"NONE", "BRSF_SENT", "CIND_TEST_SENT", "CIND_READ_SENT", "CMER_SENT",
             "CHLD_SENT", "COMPLETE"}

(* A connect command is one byte of a longer datagram, or the 7 bytes of   *)
(* its argument on their own.                                              *)
Commands    == {"start", "stop", "status", "connect", "payload"}
BusMessages == {"NewConnection", "RequestDisconnection"}

(* What a descriptor refers to.  On an RFCOMM channel the gateway may still *)
(* owe the answer to a command, may have sent OK or ERROR, a piece of data  *)
(* without them, or its choice of a codec; greeted: the handshake was       *)
(* started on this channel.                                                *)
Channels == [kind : {"free", "listen", "sco", "rfcomm"},
             input : {"none", "reply", "part", "bcs", "eof"},
             owed : BOOLEAN, greeted : BOOLEAN]
Fresh(kind) == [kind |-> kind, input |-> "none", owed |-> FALSE, greeted |-> FALSE]
Free        == Fresh("free")

VARIABLES
  pc,         \* where the main thread is
  goal,       \* the argument of the set_state() it is about to make
  ret,        \* where it goes on after that
  rfds,       \* the descriptors the last select() returned as readable
  newfd,      \* the socket of the running connect_rfcomm_outbound()
  toStart,    \* slc_initiate_pending
  state,
  streaming,
  slc,        \* slc_state
  held,       \* pieces of data in rfcomm_buf (rfcomm_buf_len)
  rfcomm,     \* rfcomm_fd
  listen,     \* sco_listen_fd
  sco,        \* sco_fd
  ap,         \* where the audio thread is
  cur,        \* its cur_sco
  capture,    \* it is about to write microphone data, not silence
  fdt,        \* the process's descriptor table
  waiting,    \* a host waits for accept() on the SCO listener
  ctrlq,      \* datagrams on /tmp/spotifone_mic.sock
  busq,       \* messages on the D-Bus connection
  late        \* observed: packets of microphone data written while
              \*   streaming is off, up to 2

loop    == <<rfds, newfd, toStart>>
after   == <<goal, ret>>
link    == <<rfcomm, slc, held>>
audio   == <<ap, cur, capture>>
outside == <<waiting, ctrlq, busq>>
vars    == <<pc, goal, ret, rfds, newfd, toStart, state, streaming, slc, held,
             rfcomm, listen, sco, ap, cur, capture, fdt, waiting, ctrlq, busq, late>>

Phases == {"select", "set_state", "control", "payload", "connect", "rfcomm", "sco",
           "dbus", "settle", "stopped"}

(* The type of every variable of the two threads and their environment. *)
TypeOK ==
  /\ pc \in Phases
  /\ goal \in States /\ ret \in Phases
  /\ rfds \subseteq Fds \cup {CtrlFd}
  /\ newfd \in Fds \cup {NoFd}
  /\ toStart \in BOOLEAN
  /\ state \in States /\ streaming \in BOOLEAN
  /\ slc \in SlcSteps /\ held \in 0..BufMax
  /\ rfcomm \in Fds \cup {NoFd} /\ listen \in Fds \cup {NoFd}
  /\ sco \in Fds \cup {NoFd} /\ cur \in Fds \cup {NoFd}
  /\ ap \in {"copy", "choose", "write", "close", "forget", "lower"}
  /\ capture \in BOOLEAN
  /\ fdt \in [Fds -> Channels]
  /\ waiting \in BOOLEAN
  /\ ctrlq \in Seq(Commands) /\ busq \in Seq(BusMessages)
  /\ late \in 0..2

Init ==
  /\ pc = "select" /\ goal = "IDLE" /\ ret = "select"
  /\ rfds = {} /\ newfd = NoFd /\ toStart = FALSE
  /\ state = "IDLE" /\ streaming = FALSE
  /\ slc = "NONE" /\ held = 0
  /\ rfcomm = NoFd /\ listen = 1 /\ sco = NoFd
  /\ ap = "copy" /\ cur = NoFd /\ capture = FALSE
  /\ fdt = [fd \in Fds |-> IF fd = 1 THEN Fresh("listen") ELSE Free]
  /\ waiting = FALSE /\ ctrlq = <<>> /\ busq = <<>>
  /\ late = 0

-----------------------------------------------------------------------------
(* Descriptors. *)

FreeFds == {fd \in Fds : fdt[fd] = Free}

(* The descriptor a system call returns when S are the unused ones. *)
LowestOf(S) == {fd \in S : \A other \in S : fd <= other}

(* A table after close() of the descriptors in S. *)
Closed(table, S) == [fd \in Fds |-> IF fd \in S THEN Free ELSE table[fd]]

(* A host that waits on the listener is turned away when it is closed. *)
Shuts(S) == waiting' = (waiting /\ listen \notin S)

Opened(fd, kind) == [fdt EXCEPT ![fd] = Fresh(kind)]

(* rfcomm_send_at(): a command the gateway will answer. *)
Ask(table, greeting) ==
  IF rfcomm # NoFd /\ table[rfcomm].kind = "rfcomm"
  THEN [table EXCEPT ![rfcomm].owed = TRUE, ![rfcomm].greeted = @ \/ greeting]
  ELSE table

Then(phase) == pc' = phase /\ UNCHANGED after
ThenSetState(s, phase) == pc' = "set_state" /\ goal' = s /\ ret' = phase

(* The end of the process: everything is closed, what was queued is lost. *)
Ends ==
  /\ pc' = "stopped" /\ goal' = "IDLE" /\ ret' = "select"
  /\ rfds' = {} /\ newfd' = NoFd /\ toStart' = FALSE
  /\ state' = "IDLE" /\ streaming' = FALSE
  /\ slc' = "NONE" /\ held' = 0
  /\ rfcomm' = NoFd /\ listen' = NoFd /\ sco' = NoFd
  /\ ap' = "copy" /\ cur' = NoFd /\ capture' = FALSE
  /\ fdt' = [fd \in Fds |-> Free]
  /\ waiting' = FALSE /\ ctrlq' = <<>> /\ busq' = <<>>
  /\ late' = 0

SetState ==
  /\ pc = "set_state"
  /\ state' = goal
  /\ pc' = ret
  /\ goal' = "IDLE" /\ ret' = "select"
  /\ UNCHANGED <<loop, streaming, link, listen, sco, audio, fdt, outside, late>>

-----------------------------------------------------------------------------
(* One round of the main loop. *)

Ended(fd) == fdt[fd].kind \in {"free", "listen"} \/ fdt[fd].input = "eof"

(* Mutant: the listener is looked at only once the handshake is over. *)
ListensMutant == listen # NoFd /\ slc = "COMPLETE"

Listens == listen # NoFd /\ state # "IDLE"

Readable ==
  (IF ctrlq # <<>> THEN {CtrlFd} ELSE {})
    \cup {fd \in {rfcomm} \cap Fds : fdt[fd].input # "none" \/ fdt[fd].kind = "sco"}
    \cup {fd \in {listen} \cap Fds : Listens /\ waiting}

SelectOk == \A fd \in {rfcomm} \cup (IF Listens THEN {listen} ELSE {}) :
              fd # NoFd => fdt[fd] # Free

Select ==
  /\ pc = "select" /\ SelectOk
  /\ rfds' = Readable
  /\ Then(IF Readable = {} THEN "dbus" ELSE "control")
  /\ UNCHANGED <<newfd, toStart, state, streaming, link, listen, sco, audio,
                 fdt, outside, late>>

(* A descriptor that has been closed makes select() fail and ends the loop. *)
SelectFails == pc = "select" /\ ~SelectOk /\ Ends

Skip ==
  /\ \/ pc = "control" /\ CtrlFd \notin rfds /\ Then("rfcomm")
     \/ pc = "rfcomm" /\ rfcomm \notin rfds /\ Then("sco")
     \/ pc = "sco" /\ listen \notin rfds /\ Then("dbus")
  /\ UNCHANGED <<loop, state, streaming, link, listen, sco, audio, fdt, outside, late>>

(* An argument on its own is taken for a command: its first byte decides.  *)
Takes(command) ==
  /\ pc = "control" /\ CtrlFd \in rfds
  /\ Head(ctrlq) \in {command, "payload"}
  /\ ctrlq' = Tail(ctrlq)

HandleStart ==
  /\ Takes("start")
  /\ streaming' = TRUE /\ late' = 0
  /\ IF state \in {"AUDIO_READY", "SLC_ESTABLISHED"}
     THEN ThenSetState("STREAMING", "rfcomm") ELSE Then("rfcomm")
  /\ UNCHANGED <<loop, state, link, listen, sco, audio, fdt, waiting, busq>>

(* Mutant: the state keeps saying STREAMING. *)
HandleStopMutant ==
  /\ Takes("stop")
  /\ streaming' = FALSE
  /\ Then("rfcomm")
  /\ UNCHANGED <<loop, state, link, listen, sco, audio, fdt, waiting, busq, late>>

HandleStop ==
  /\ Takes("stop")
  /\ streaming' = FALSE
  /\ IF state = "STREAMING" THEN ThenSetState("AUDIO_READY", "rfcomm")
     ELSE Then("rfcomm")
  /\ UNCHANGED <<loop, state, link, listen, sco, audio, fdt, waiting, busq, late>>

(* A status query, whose reply is not modelled, and unknown commands. *)
HandleOther ==
  /\ Takes("status")
  /\ Then("rfcomm")
  /\ UNCHANGED <<loop, state, streaming, link, listen, sco, audio, fdt, waiting,
                 busq, late>>

(* recvfrom() with room for one byte drops the rest of the datagram. *)
HandleConnect ==
  /\ Takes("connect")
  /\ Then("payload")
  /\ UNCHANGED <<loop, state, streaming, link, listen, sco, audio, fdt, waiting,
                 busq, late>>

(* ... and a second recvfrom() waits for whatever comes next. *)
ReadPayload ==
  /\ pc = "payload" /\ ctrlq # <<>>
  /\ ctrlq' = Tail(ctrlq)
  /\ \/ /\ Head(ctrlq) = "payload" /\ state = "IDLE"
        /\ \E fd \in LowestOf(FreeFds) : newfd' = fd /\ fdt' = Opened(fd, "rfcomm")
        /\ Then("connect")
     \/ /\ Head(ctrlq) # "payload" \/ state # "IDLE" \/ FreeFds = {}
        /\ Then("rfcomm")
        /\ UNCHANGED <<newfd, fdt>>
  /\ UNCHANGED <<rfds, toStart, state, streaming, link, listen, sco, audio,
                 waiting, busq, late>>

(* Mutant: the state is left as it is. *)
ConnectReturnsMutant ==
  /\ pc = "connect"
  /\ newfd' = NoFd
  /\ fdt' = Closed(fdt, {rfcomm})
  /\ rfcomm' = newfd
  /\ Then("rfcomm")
  /\ UNCHANGED <<rfds, toStart, state, streaming, slc, held, listen, sco, audio, outside,
                 late>>

ConnectReturns ==
  /\ pc = "connect"
  /\ newfd' = NoFd
  /\ \/ /\ fdt' = Closed(fdt, {rfcomm})
        /\ rfcomm' = newfd
        /\ ThenSetState("RFCOMM_CONNECTED", "rfcomm")
     \/ /\ fdt' = Closed(fdt, {newfd})
        /\ UNCHANGED rfcomm
        /\ Then("rfcomm")
  /\ UNCHANGED <<rfds, toStart, state, streaming, slc, held, listen, sco,
                 audio, outside, late>>

-----------------------------------------------------------------------------
(* handle_rfcomm_data() and the handshake. *)

ReadsRfcomm == pc = "rfcomm" /\ rfcomm \in rfds /\ rfcomm # NoFd

Answered == [fdt EXCEPT ![rfcomm].input = "none"]

(* Mutant: the SCO channel outlives the link. *)
DisconnectMutant(phase) ==
  /\ fdt' = Closed(fdt, {rfcomm})
  /\ rfcomm' = NoFd /\ sco' = sco
  /\ Shuts({rfcomm, sco})
  /\ streaming' = FALSE
  /\ slc' = "NONE" /\ held' = 0
  /\ ThenSetState("IDLE", phase)

(* Both channels are closed and everything about them is forgotten. *)
Disconnect(phase) ==
  /\ fdt' = Closed(fdt, {rfcomm, sco})
  /\ rfcomm' = NoFd /\ sco' = NoFd
  /\ Shuts({rfcomm, sco})
  /\ streaming' = FALSE
  /\ slc' = "NONE" /\ held' = 0
  /\ ThenSetState("IDLE", phase)

HandleRfcommEnd ==
  /\ ReadsRfcomm /\ Ended(rfcomm)
  /\ Disconnect("sco")
  /\ UNCHANGED <<loop, state, listen, audio, ctrlq, busq, late>>

InHandshake == slc \notin {"NONE", "COMPLETE"}

(* Mutant: the codecs are announced after the features. *)
AdvanceToMutant == IF slc = "BRSF_SENT" THEN {"BAC_SENT"} ELSE {"COMPLETE"}

(* advance_slc(): the command that follows each answer, OK or ERROR.  What  *)
(* the gateway answered to the first one decides whether there is a CHLD.  *)
AdvanceTo ==
  CASE slc = "BRSF_SENT"      -> {"CIND_TEST_SENT"}
    [] slc = "CIND_TEST_SENT" -> {"CIND_READ_SENT"}
    [] slc = "CIND_READ_SENT" -> {"CMER_SENT"}
    [] slc = "CMER_SENT"      -> {"CHLD_SENT", "COMPLETE"}
    [] slc = "CHLD_SENT"      -> {"COMPLETE"}

(* rfcomm_buf collects what is read until it makes an answer, or a line.   *)
Reads == ReadsRfcomm /\ ~Ended(rfcomm)
Fits  == held < BufMax

(* What does not fit is dropped, with all that was collected before it.    *)
DropData ==
  /\ Reads /\ ~Fits
  /\ held' = 0
  /\ fdt' = Answered
  /\ Then("sco")
  /\ UNCHANGED <<loop, state, streaming, rfcomm, slc, listen, sco, audio, outside,
                 late>>

(* Mutant: only OK advances the handshake, and ERROR is not looked for. *)
AdvanceSlcMutant ==
  /\ Reads /\ Fits /\ InHandshake /\ fdt[rfcomm].input = "reply"
  /\ held' = held + 1
  /\ fdt' = Answered
  /\ Then("sco")
  /\ UNCHANGED <<loop, state, streaming, rfcomm, slc, listen, sco, audio, outside,
                 late>>

AdvanceSlc ==
  /\ Reads /\ Fits /\ InHandshake /\ fdt[rfcomm].input = "reply"
  /\ held' = 0
  /\ slc' \in AdvanceTo
  /\ IF slc' = "COMPLETE"
     THEN fdt' = Answered /\ ThenSetState("SLC_ESTABLISHED", "sco")
     ELSE fdt' = Ask(Answered, FALSE) /\ Then("sco")
  /\ UNCHANGED <<loop, state, streaming, rfcomm, listen, sco, audio, outside, late>>

(* +BCS outside the handshake: the listener is opened anew, if it can be,  *)
(* and a host that waited on the old one is turned away.                   *)
SelectCodec ==
  /\ Reads /\ Fits /\ ~InHandshake /\ fdt[rfcomm].input = "bcs"
  /\ held' = 0
  /\ LET unlistened == Closed(Answered, {listen})
     IN \/ \E fd \in LowestOf({f \in Fds : unlistened[f] = Free}) :
             /\ listen' = fd
             /\ fdt' = Ask([unlistened EXCEPT ![fd] = Fresh("listen")], FALSE)
        \/ listen' = NoFd /\ fdt' = Ask(unlistened, FALSE)
  /\ waiting' = FALSE
  /\ Then("sco")
  /\ UNCHANGED <<loop, state, streaming, rfcomm, slc, sco, audio, ctrlq, busq, late>>

(* Data without an answer is kept during the handshake, +BCS too; outside  *)
(* of it whole lines go and the start of another one stays.  So does audio *)
(* data, read from a descriptor that is no longer the RFCOMM channel.      *)
KeepData ==
  /\ Reads /\ Fits
  /\ \/ InHandshake /\ fdt[rfcomm].input # "reply" /\ held' = held + 1
     \/ ~InHandshake /\ fdt[rfcomm].input # "bcs" /\ held' = 0
     \/ ~InHandshake /\ fdt[rfcomm].input \in {"part", "none"} /\ held' = held + 1
  /\ fdt' = Answered
  /\ Then("sco")
  /\ UNCHANGED <<loop, state, streaming, rfcomm, slc, listen, sco, audio, outside,
                 late>>

(* accept() waits when the host it was called for has gone; without a free *)
(* descriptor, or on one that is no listener any more, it fails at once.   *)
AcceptSco ==
  /\ pc = "sco" /\ listen \in rfds
  /\ IF FreeFds = {} \/ fdt[listen].kind # "listen"
     THEN Then("dbus") /\ UNCHANGED <<sco, fdt, streaming, waiting, late>>
     ELSE /\ waiting
          /\ waiting' = FALSE
          /\ \E fd \in LowestOf(FreeFds) : fdt' = Closed(Opened(fd, "sco"), {sco}) /\ sco' = fd
          /\ streaming' = TRUE /\ late' = 0
          /\ ThenSetState("STREAMING", "dbus")
  /\ UNCHANGED <<loop, state, link, listen, audio, ctrlq, busq>>

-----------------------------------------------------------------------------
(* dbus_connection_read_write_dispatch() dispatches one message, or reads  *)
(* when there is none to dispatch: a message counts as arrived once read.  *)
(* The descriptor snapshot is not looked at again in this round.           *)
NoMessage ==
  /\ pc = "dbus" /\ busq = <<>>
  /\ rfds' = {}
  /\ Then("settle")
  /\ UNCHANGED <<newfd, toStart, state, streaming, link, listen, sco, audio, fdt,
                 outside, late>>

Dispatches(kind) ==
  /\ pc = "dbus" /\ busq # <<>>
  /\ Head(busq) = kind
  /\ busq' = Tail(busq)
  /\ rfds' = {}

(* libdbus holds the lowest descriptor while the message lives, and the    *)
(* handler keeps the duplicate it is given.  slc_state stays as it is.     *)
NewConnection ==
  /\ Dispatches("NewConnection")
  /\ \/ \E a \in LowestOf(FreeFds) : \E fd \in LowestOf(FreeFds \ {a}) :
          /\ fdt' = Closed(Opened(fd, "rfcomm"), {rfcomm})
          /\ Shuts({rfcomm})
          /\ rfcomm' = fd
          /\ ThenSetState("RFCOMM_CONNECTED", "settle")
     \/ /\ \A a, b \in FreeFds : a = b
        /\ Then("settle")
        /\ UNCHANGED <<rfcomm, fdt, waiting>>
  /\ UNCHANGED <<newfd, toStart, state, streaming, slc, held, listen, sco, audio,
                 ctrlq, late>>

RequestDisconnection ==
  /\ Dispatches("RequestDisconnection")
  /\ Disconnect("settle")
  /\ UNCHANGED <<newfd, toStart, state, listen, audio, ctrlq, late>>

(* The handshake is started on a link that an earlier round has seen; the  *)
(* test that ends the round then finds it under way.                       *)
InitiateSlc ==
  /\ pc = "settle"
  /\ toStart /\ rfcomm # NoFd
  /\ toStart' = FALSE
  /\ slc' = "BRSF_SENT"
  /\ fdt' = Ask(fdt, TRUE)
  /\ Then("select")
  /\ UNCHANGED <<rfds, newfd, state, streaming, rfcomm, held, listen, sco, audio,
                 outside, late>>

DetectLink ==
  /\ pc = "settle"
  /\ ~(toStart /\ rfcomm # NoFd)
  /\ toStart' = (toStart \/ (state = "RFCOMM_CONNECTED" /\ slc = "NONE"))
  /\ Then("select")
  /\ UNCHANGED <<rfds, newfd, state, streaming, link, listen, sco, audio, fdt, outside,
                 late>>

Main ==
  \/ SetState \/ Select \/ SelectFails \/ Skip
  \/ HandleStart \/ HandleStop \/ HandleOther \/ HandleConnect
  \/ ReadPayload \/ ConnectReturns
  \/ HandleRfcommEnd \/ DropData \/ AdvanceSlc \/ SelectCodec \/ KeepData
  \/ AcceptSco
  \/ NoMessage \/ NewConnection \/ RequestDisconnection
  \/ InitiateSlc \/ DetectLink

-----------------------------------------------------------------------------
(* The audio thread. *)

AudioStep(from) ==
  /\ pc # "stopped" /\ ap = from
  /\ UNCHANGED <<pc, after, loop, streaming, link, listen, ctrlq, busq>>

CopySco ==
  /\ AudioStep("copy") /\ sco # NoFd
  /\ cur' = sco
  /\ ap' = "choose"
  /\ UNCHANGED <<capture, state, sco, fdt, late, waiting>>

(* Mutant: microphone data is written whenever there is a channel. *)
ChooseMutant ==
  /\ AudioStep("choose")
  /\ capture' = TRUE
  /\ ap' = "write"
  /\ UNCHANGED <<cur, state, sco, fdt, late, waiting>>

Choose ==
  /\ AudioStep("choose")
  /\ capture' = streaming
  /\ ap' = "write"
  /\ UNCHANGED <<cur, state, sco, fdt, late, waiting>>

(* The next round starts from sco_fd and streaming again. *)
AudioAgain ==
  /\ ap' = "copy"
  /\ cur' = NoFd /\ capture' = FALSE

(* The capture has no data: nothing is written in this round. *)
NoData ==
  /\ AudioStep("write") /\ capture
  /\ AudioAgain
  /\ UNCHANGED <<state, sco, fdt, late, waiting>>

(* What is written goes to whatever the copied number now refers to. *)
Write ==
  /\ AudioStep("write")
  /\ ~Ended(cur)
  /\ late' = IF capture /\ ~streaming /\ late < 2 THEN late + 1 ELSE late
  /\ AudioAgain
  /\ UNCHANGED <<state, sco, fdt, waiting>>

WriteFails ==
  /\ AudioStep("write")
  /\ Ended(cur)
  /\ ap' = "close" /\ capture' = FALSE
  /\ UNCHANGED <<cur, state, sco, fdt, late, waiting>>

CloseSco ==
  /\ AudioStep("close")
  /\ fdt' = Closed(fdt, {cur})
  /\ Shuts({cur})
  /\ ap' = "forget" /\ cur' = NoFd
  /\ UNCHANGED <<capture, state, sco, late>>

ForgetSco ==
  /\ AudioStep("forget")
  /\ sco' = NoFd
  /\ ap' = "lower"
  /\ UNCHANGED <<cur, capture, state, fdt, late, waiting>>

LowerState ==
  /\ AudioStep("lower")
  /\ state' = "RFCOMM_CONNECTED"
  /\ AudioAgain
  /\ UNCHANGED <<sco, fdt, late, waiting>>

Audio ==
  \/ CopySco \/ Choose \/ NoData \/ Write \/ WriteFails
  \/ CloseSco \/ ForgetSco \/ LowerState

-----------------------------------------------------------------------------
(* A signal, or a crash. *)
Exit == pc # "stopped" /\ Ends

(* The SCO listener may fail to come up: the daemon then runs without it. *)
Start ==
  /\ pc = "stopped"
  /\ Then("select")
  /\ \/ listen' = 1 /\ fdt' = Opened(1, "listen")
     \/ UNCHANGED <<listen, fdt>>
  /\ UNCHANGED <<loop, state, streaming, link, sco, audio, outside, late>>

-----------------------------------------------------------------------------
(* Button listener and other clients, the gateway (the computer), BlueZ. *)

World ==
  /\ pc # "stopped"
  /\ UNCHANGED <<pc, after, loop, state, streaming, link, listen, sco, audio, late>>

SendCommand(command) ==
  /\ World
  /\ Len(ctrlq) < CtrlMax
  /\ ctrlq' = Append(ctrlq, command)
  /\ UNCHANGED <<fdt, waiting, busq>>

Announce(kind) ==
  /\ World
  /\ Len(busq) < BusMax
  /\ busq' = Append(busq, kind)
  /\ UNCHANGED <<fdt, waiting, ctrlq>>

GatewaySends(fd, channel) ==
  /\ World
  /\ fdt[fd].input = "none"
  /\ fdt' = [fdt EXCEPT ![fd] = channel]
  /\ UNCHANGED outside

GatewayAnswers(fd) ==
  /\ fdt[fd].owed
  /\ GatewaySends(fd, [fdt[fd] EXCEPT !.owed = FALSE, !.input = "reply"])

GatewaySelectsCodec(fd) ==
  /\ fdt[fd].greeted /\ ~fdt[fd].owed
  /\ GatewaySends(fd, [fdt[fd] EXCEPT !.input = "bcs"])

(* A piece of an answer, or an unsolicited code. *)
GatewaySendsPart(fd) ==
  /\ fdt[fd].greeted
  /\ GatewaySends(fd, [fdt[fd] EXCEPT !.input = "part"])

PeerCloses(fd) ==
  /\ World
  /\ fd # newfd
  /\ fdt[fd].kind \in {"rfcomm", "sco"} /\ fdt[fd].input # "eof"
  /\ fdt' = [fdt EXCEPT ![fd].input = "eof"]
  /\ UNCHANGED outside

GatewayOpensSco ==
  /\ World
  /\ listen # NoFd /\ fdt[listen].kind = "listen" /\ ~waiting
  /\ \E fd \in Fds : fdt[fd].kind = "rfcomm" /\ fdt[fd].input # "eof"
  /\ waiting' = TRUE
  /\ UNCHANGED <<fdt, ctrlq, busq>>

GatewayLeaves ==
  /\ World
  /\ waiting
  /\ waiting' = FALSE
  /\ UNCHANGED <<fdt, ctrlq, busq>>

Gateway ==
  \/ \E fd \in Fds : GatewayAnswers(fd) \/ PeerCloses(fd)
  \/ GatewayOpensSco \/ GatewayLeaves
  \/ \E kind \in BusMessages : Announce(kind)

Clients == \E command \in Commands : SendCommand(command)

Next ==
  \/ Main \/ Audio \/ Exit \/ Start
  \/ Clients \/ Gateway
  \/ \E fd \in Fds : GatewaySelectsCodec(fd) \/ GatewaySendsPart(fd)

Spec == Init /\ [][Next]_vars

(* select() waits 50 ms at most, so the loop turns unless a call it makes   *)
(* waits for another process; accept() returns a host that comes while it  *)
(* waits.  Nobody else is bound to act.                                    *)
Fairness == WF_vars(Main) /\ SF_vars(AcceptSco)

-----------------------------------------------------------------------------
(* Between two rounds, the state that a status query is answered with says *)
(* STREAMING only while the microphone is on, whatever the audio thread    *)
(* has done to the state in between.                                       *)
StatusTruthful ==
  pc = "select" /\ state = "STREAMING" => streaming

(* Between two rounds, a bridge in state IDLE holds no channel: the check  *)
(* of connect_rfcomm_outbound never lets a second link in.                 *)
IdleHoldsNothing ==
  pc = "select" /\ state = "IDLE" => rfcomm = NoFd /\ sco = NoFd

(* After a STOP, a lost link or a disconnection, at most the one packet     *)
(* that the audio thread had already read from the microphone goes out.    *)
NoMicAfterStop == late <= 1

(* A host that opens an SCO channel is accepted or gives up, unless there  *)
(* is no link, no listener or no descriptor.                               *)
ScoServed == waiting ~> (~waiting \/ state = "IDLE" \/ listen = NoFd \/ FreeFds = {})

OnLink         == rfcomm # NoFd /\ fdt[rfcomm].kind = "rfcomm"
AnswerAt(step) == slc = step /\ OnLink /\ fdt[rfcomm].input = "reply"

(* While the loop turns, every answer of the gateway that fits in the      *)
(* buffer takes the handshake on, unless the audio thread, closing a number *)
(* it has copied, closes the link, or BlueZ hands over another one.        *)
HandshakeAdvances ==
  []<>(pc = "select") =>
    \A step \in SlcSteps \ {"NONE", "COMPLETE"} :
      (AnswerAt(step) /\ Fits) ~> (slc # step \/ ~OnLink \/ ~fdt[rfcomm].greeted)
=============================================================================
