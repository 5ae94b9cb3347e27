------------------------- MODULE MCClassicKeyboard --------------------------
(* An instance of ClassicKeyboard.  Two numbers are few enough for every    *)
(* new channel to meet the watches that earlier ones have left behind.      *)
EXTENDS ClassicKeyboard

(* Input for the server is what arrives on a control channel; the listener *)
(* ends while the function button is held, if it ends at all.              *)
Outside ==
  \/ Server \/ Stop \/ Start
  \/ \E h \in Hosts, psm \in Psms : HostConnects(h, psm)
  \/ BlueZDisconnects
  \/ \E fd \in Fds : fdt[fd].psm = ControlPsm /\ HostSends(fd)
  \/ \E fd \in Fds : HostCloses(fd)
  \/ \E i \in DOMAIN busq : HostClosesEarly(i)

MCListener ==
  \/ PressFunction \/ ReleaseFunction \/ PressPreset
  \/ SendHid \/ SendLost \/ SendMic
  \/ func /\ ListenerEnds

MCSpec ==
  ListenerInit
  /\ [][(Outside /\ UNCHANGED listenerVars) \/ MCListener]_allVars
  /\ WF_allVars(Server /\ UNCHANGED listenerVars)
=============================================================================
