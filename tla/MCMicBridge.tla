---------------------------- MODULE MCMicBridge ----------------------------
(* Instances of MicBridge.  Three descriptors are enough for both channels *)
(* and the listener, and few enough to run out: a number that the audio    *)
(* thread has copied is soon reused.                                       *)
EXTENDS MicBridge

(* What the repository's own processes send. *)
PushToTalk == \E command \in {"start", "stop", "status"} : SendCommand(command)

(* A gateway that knows from AT+BRSF=0 that there is no codec to choose. *)
TalkSpec == Init /\ [][Main \/ Audio \/ Exit \/ Start \/ PushToTalk \/ Gateway]_vars

(* The handshake, the choice of a codec and the audio channel, with nobody *)
(* who presses a button.  An answer of the handshake comes whole or in     *)
(* pieces; a codec is chosen after it.                                     *)
LinkGateway ==
  \/ \E fd \in Fds :
       \/ GatewayAnswers(fd) \/ PeerCloses(fd)
       \/ InHandshake /\ fdt[fd].owed /\ GatewaySendsPart(fd)
       \/ ~InHandshake /\ GatewaySelectsCodec(fd)
  \/ GatewayOpensSco \/ GatewayLeaves
  \/ Announce("NewConnection")

LinkSpec == Init /\ [][Main \/ Audio \/ LinkGateway]_vars /\ Fairness

(* A client that has the bridge connect to a gateway which connects too.   *)
ConnectClient ==
  \E command \in {"connect", "payload"} : SendCommand(command)

ConnectGateway ==
  \/ \E fd \in Fds : GatewayAnswers(fd) \/ PeerCloses(fd)
  \/ GatewayOpensSco
  \/ Announce("NewConnection")

ConnectSpec == Init /\ [][Main \/ Audio \/ Exit \/ Start
                             \/ ConnectClient \/ ConnectGateway]_vars
=============================================================================
