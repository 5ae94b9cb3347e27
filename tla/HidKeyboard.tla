---------------------------- MODULE HidKeyboard ----------------------------
(***************************************************************************)
(* The Classic Bluetooth HID daemon, daemon/hid_keyboard.c: one thread     *)
(* that multiplexes the key events of the button listener (a Unix datagram *)
(* socket), the HID control channel (L2CAP PSM 17), a listening socket for *)
(* the HID interrupt channel (PSM 19) and the D-Bus messages of BlueZ.     *)
(*                                                                         *)
(* One round of the main loop is split at the points where other           *)
(* processes can act in between: select() takes a snapshot of the ready    *)
(* descriptors, and the handlers run later, on that snapshot.  The two     *)
(* blocking connect() calls are steps of their own.  File descriptors are  *)
(* numbers, reused lowest first as the kernel does, because the snapshot   *)
(* names descriptors and not channels.                                     *)
(***************************************************************************)
EXTENDS Integers, SequencesExt

CONSTANTS
  Hosts,      \* the computers the device is paired with
  NoHost,     \* no computer
  Modifiers,  \* modifier key codes, 0xE0..0xE7
  Keys,       \* the other key codes
  NoKey,      \* key code 0 in a report
  LastFd,     \* bound: the highest descriptor the process can open
  IpcMax,     \* bound: datagrams the Unix socket queues
  BusMax      \* bound: D-Bus messages in flight

IpcFd    == 0   \* g_ipc_fd and g_intr_listen_fd are opened before the
ListenFd == 1   \* loop starts and keep their numbers
Fds      == 2..LastFd
NoFd     == -1

ASSUME HidAssumption ==
  /\ NoHost \notin Hosts
  /\ NoKey \notin Keys
  /\ Modifiers \cap Keys = {}
  /\ LastFd \in Nat /\ LastFd >= 2
  /\ IpcMax \in Nat \ {0}
  /\ BusMax \in Nat \ {0}

ControlPsm   == 17
InterruptPsm == 19

(* What a descriptor refers to: an L2CAP channel to a host, and what recv  *)
(* or send on it would meet: nothing to read, a request of the host, or    *)
(* the host's end closed.                                                  *)
Channels == [host : Hosts, psm : {ControlPsm, InterruptPsm},
             input : {"none", "data", "eof"}]
Free     == [host |-> NoHost, psm |-> 0, input |-> "none"]

IpcMessages == [kind : {"press", "release"}, arg : Modifiers \cup Keys]
                 \cup [kind : {"connect"}, arg : Hosts]
BusMessages == [kind : {"NewConnection", "RequestDisconnection", "Connected"},
                host : Hosts, input : {"none", "eof"}]

(* What a host believes is held down on this keyboard. *)
KeyStates == [mods : SUBSET Modifiers, key : Keys \cup {NoKey}]
AllUp     == [mods |-> {}, key |-> NoKey]

VARIABLES
  pc,       \* where the main loop is
  rfds,     \* the descriptors the last select() returned as readable
  ctrl,     \* g_ctrl_fd
  intr,     \* g_intr_fd
  mods,     \* g_modifiers
  pending,  \* g_pending_bdaddr while g_pending_connect_ms > 0, else NoHost
  due,      \* monotonic_ms() has reached g_pending_connect_ms
  target,   \* the argument of the running connect_hid_to_host()
  ret,      \* where connect_hid_to_host() returns to
  batch,    \* D-Bus messages read in this round and not yet dispatched
  fdt,      \* the process's descriptor table
  ipcq,     \* datagrams queued on /tmp/spotifone_hid.sock
  backlog,  \* PSM 19 connections waiting for accept()
  busq,     \* messages on the D-Bus connection
  seen      \* per host, the keys it believes to be down

daemon  == <<rfds, ctrl, intr, mods, pending, due, target, ret, batch>>
links   == <<ctrl, intr, mods, fdt, seen>>
timer   == <<pending, due>>
call    == <<target, ret>>
queues  == <<ipcq, backlog, busq>>
vars    == <<pc, rfds, ctrl, intr, mods, pending, due, target, ret, batch,
             fdt, ipcq, backlog, busq, seen>>

Phases == {"select", "ipc", "ctrl", "accept", "read", "dbus", "deferred",
           "connect17", "connect19", "stopped"}

(* The type of every variable of the daemon and of its environment. *)
TypeOK ==
  /\ pc \in Phases
  /\ rfds \subseteq Fds \cup {IpcFd, ListenFd}
  /\ ctrl \in Fds \cup {NoFd}
  /\ intr \in Fds \cup {NoFd}
  /\ mods \subseteq Modifiers
  /\ pending \in Hosts \cup {NoHost}
  /\ due \in BOOLEAN
  /\ target \in Hosts \cup {NoHost}
  /\ ret \in {"ctrl", "select"}
  /\ batch \in 0..BusMax
  /\ fdt \in [Fds -> Channels \cup {Free}]
  /\ ipcq \in Seq(IpcMessages)
  /\ backlog \in Seq(Hosts)
  /\ busq \in Seq(BusMessages)
  /\ seen \in [Hosts -> KeyStates]

Init ==
  /\ pc = "select"
  /\ rfds = {}
  /\ ctrl = NoFd
  /\ intr = NoFd
  /\ mods = {}
  /\ pending = NoHost
  /\ due = FALSE
  /\ target = NoHost
  /\ ret = "select"
  /\ batch = 0
  /\ fdt = [fd \in Fds |-> Free]
  /\ ipcq = <<>>
  /\ backlog = <<>>
  /\ busq = <<>>
  /\ seen = [h \in Hosts |-> AllUp]

-----------------------------------------------------------------------------
(* Descriptors. *)

FreeFds == {fd \in Fds : fdt[fd] = Free}

(* The descriptor a system call returns when S are the unused ones. *)
LowestOf(S) == {fd \in S : \A other \in S : fd <= other}

(* The table after close() of the descriptors in S. *)
TableWithout(S) == [fd \in Fds |-> IF fd \in S THEN Free ELSE fdt[fd]]

(* A host releases every key of a keyboard whose interrupt channel closes. *)
SeenWithout(S) ==
  [h \in Hosts |->
     IF \E fd \in S \cap Fds : fdt[fd].host = h /\ fdt[fd].psm = InterruptPsm
     THEN AllUp ELSE seen[h]]

(* Mutant: the interrupt channel is forgotten and not closed. *)
CloseHidConnectionsMutant ==
  /\ fdt' = TableWithout({ctrl})
  /\ seen' = SeenWithout({ctrl})
  /\ ctrl' = NoFd
  /\ intr' = NoFd
  /\ mods' = {}

CloseHidConnections ==
  /\ fdt' = TableWithout({ctrl, intr})
  /\ seen' = SeenWithout({ctrl, intr})
  /\ ctrl' = NoFd
  /\ intr' = NoFd
  /\ mods' = {}

(* send_hid_report: without an interrupt channel the report is dropped; a  *)
(* send that fails (host gone, or no room on the non-blocking socket)      *)
(* closes both channels.                                                   *)
ReportDropped(m) ==
  /\ intr = NoFd
  /\ mods' = m
  /\ UNCHANGED <<ctrl, intr, fdt, seen>>

(* Mutant: the report is made before the modifiers are updated. *)
ReportDeliveredMutant(m, key) ==
  /\ intr # NoFd
  /\ fdt[intr].input # "eof"
  /\ mods' = m
  /\ seen' = IF fdt[intr].psm = InterruptPsm
             THEN [seen EXCEPT ![fdt[intr].host] = [mods |-> mods, key |-> key]]
             ELSE seen
  /\ UNCHANGED <<ctrl, intr, fdt>>

ReportDelivered(m, key) ==
  /\ intr # NoFd
  /\ fdt[intr].input # "eof"
  /\ mods' = m
  /\ seen' = IF fdt[intr].psm = InterruptPsm
             THEN [seen EXCEPT ![fdt[intr].host] = [mods |-> m, key |-> key]]
             ELSE seen
  /\ UNCHANGED <<ctrl, intr, fdt>>

SendHidReport(m, key) ==
  \/ ReportDropped(m)
  \/ ReportDelivered(m, key)
  \/ intr # NoFd /\ CloseHidConnections

-----------------------------------------------------------------------------
(* One round of the main loop. *)

(* Mutant: the listening socket is left out of the descriptor set. *)
SelectMutant ==
  /\ pc = "select"
  /\ LET ready == (IF ipcq # <<>> THEN {IpcFd} ELSE {})
                    \cup {fd \in {ctrl} \cap Fds : fdt[fd].input # "none"}
     IN /\ rfds' = ready
        /\ pc' = IF ready = {} THEN "read" ELSE "ipc"
  /\ UNCHANGED <<links, timer, call, batch, queues>>

Select ==
  /\ pc = "select"
  /\ LET ready == (IF ipcq # <<>> THEN {IpcFd} ELSE {})
                    \cup (IF backlog # <<>> THEN {ListenFd} ELSE {})
                    \cup {fd \in {ctrl} \cap Fds : fdt[fd].input # "none"}
     IN /\ rfds' = ready
        /\ pc' = IF ready = {} THEN "read" ELSE "ipc"
  /\ UNCHANGED <<links, timer, call, batch, queues>>

(* A handler whose descriptor is not set in the snapshot is skipped. *)
Skip ==
  /\ \/ pc = "ipc" /\ IpcFd \notin rfds /\ pc' = "ctrl"
     \/ pc = "ctrl" /\ ctrl \notin rfds /\ pc' = "accept"
     \/ pc = "accept" /\ ListenFd \notin rfds /\ pc' = "read"
  /\ UNCHANGED <<daemon, fdt, seen, queues>>

HandleIpcConnect ==
  /\ pc = "ipc" /\ IpcFd \in rfds
  /\ Head(ipcq).kind = "connect"
  /\ ipcq' = Tail(ipcq)
  /\ target' = Head(ipcq).arg
  /\ ret' = "ctrl"
  /\ pc' = "connect17"
  /\ CloseHidConnections
  /\ UNCHANGED <<rfds, timer, batch, backlog, busq>>

(* Mutant: the 0xFF marker of a connect command is not tested. *)
HandleIpcKeyMutant ==
  /\ pc = "ipc" /\ IpcFd \in rfds
  /\ SendHidReport(mods \cup {Head(ipcq).arg}, NoKey)
  /\ ipcq' = Tail(ipcq)
  /\ pc' = "ctrl"
  /\ UNCHANGED <<rfds, timer, call, batch, backlog, busq>>

HandleIpcKey ==
  /\ pc = "ipc" /\ IpcFd \in rfds
  /\ LET press == Head(ipcq).kind = "press"
         code  == Head(ipcq).arg
     IN \/ /\ Head(ipcq).kind \in {"press", "release"} /\ code \in Modifiers
           /\ SendHidReport(IF press THEN mods \cup {code} ELSE mods \ {code}, NoKey)
        \/ /\ Head(ipcq).kind \in {"press", "release"} /\ code \in Keys
           /\ SendHidReport(mods, IF press THEN code ELSE NoKey)
  /\ ipcq' = Tail(ipcq)
  /\ pc' = "ctrl"
  /\ UNCHANGED <<rfds, timer, call, batch, backlog, busq>>

(* recv() meets a request (SET_PROTOCOL is answered), or it does not: the   *)
(* end of the channel and "nothing to read" both close the connections.    *)
HandleCtrlRequest ==
  /\ pc = "ctrl" /\ ctrl \in rfds
  /\ fdt[ctrl].input = "data"
  /\ fdt' = [fdt EXCEPT ![ctrl].input = "none"]
  /\ pc' = "accept"
  /\ UNCHANGED <<daemon, seen, queues>>

HandleCtrlClosed ==
  /\ pc = "ctrl" /\ ctrl \in rfds
  /\ fdt[ctrl].input # "data"
  /\ CloseHidConnections
  /\ pc' = "accept"
  /\ UNCHANGED <<rfds, timer, call, batch, queues>>

HandleIntrAccept ==
  /\ pc = "accept" /\ ListenFd \in rfds
  /\ pc' = "read"
  /\ IF backlog = <<>> \/ FreeFds = {}
     THEN UNCHANGED <<intr, fdt, seen, backlog>>
     ELSE \E fd \in LowestOf(FreeFds) :
            /\ fdt' = [TableWithout({intr}) EXCEPT
                         ![fd] = [host |-> Head(backlog), psm |-> InterruptPsm,
                                  input |-> "none"]]
            /\ seen' = SeenWithout({intr})
            /\ intr' = fd
            /\ backlog' = Tail(backlog)
  /\ UNCHANGED <<rfds, ctrl, mods, timer, call, batch, ipcq, busq>>

(* The descriptor snapshot is not looked at again in this round. *)
ReadBus ==
  /\ pc = "read"
  /\ batch' = Len(busq)
  /\ rfds' = {}
  /\ pc' = "dbus"
  /\ UNCHANGED <<links, timer, call, queues>>

-----------------------------------------------------------------------------
(* dbus_connection_dispatch(): the messages read in this round, in order. *)

NextMessage(kind) ==
  /\ pc = "dbus" /\ batch > 0
  /\ Head(busq).kind = kind
  /\ busq' = Tail(busq)
  /\ batch' = batch - 1

(* BlueZ hands over a PSM 17 channel.  libdbus holds one descriptor of it   *)
(* while the message lives, duplicates it for the caller, and the handler   *)
(* duplicates that one again and never closes it: of the three lowest      *)
(* descriptors the first is free again afterwards, the second stays open    *)
(* unused and the third is the channel.                                    *)
DispatchNewConnection ==
  /\ NextMessage("NewConnection")
  /\ LET chan == [host |-> Head(busq).host, psm |-> ControlPsm,
                  input |-> Head(busq).input]
     IN \/ \E a \in LowestOf(FreeFds) :
             \E b \in LowestOf(FreeFds \ {a}) :
               \E c \in LowestOf(FreeFds \ {a, b}) :
                 \/ /\ ctrl = NoFd
                    /\ ctrl' = c
                    /\ fdt' = [fdt EXCEPT ![b] = chan, ![c] = chan]
                    /\ UNCHANGED intr
                 \/ /\ ctrl # NoFd /\ intr = NoFd
                    /\ intr' = c
                    /\ fdt' = [fdt EXCEPT ![b] = chan, ![c] = chan]
                    /\ UNCHANGED ctrl
                 \/ /\ ctrl # NoFd /\ intr # NoFd
                    /\ fdt' = [fdt EXCEPT ![b] = chan]
                    /\ UNCHANGED <<ctrl, intr>>
        \/ /\ \E a, b \in FreeFds :
                /\ a < b /\ FreeFds = {a, b}
                /\ fdt' = [fdt EXCEPT ![b] = chan]
           /\ UNCHANGED <<ctrl, intr>>
        \/ /\ \A a, b \in FreeFds : a = b
           /\ UNCHANGED <<ctrl, intr, fdt>>
  /\ UNCHANGED <<pc, rfds, mods, timer, call, ipcq, backlog, seen>>

DispatchRequestDisconnection ==
  /\ NextMessage("RequestDisconnection")
  /\ CloseHidConnections
  /\ UNCHANGED <<pc, rfds, timer, call, ipcq, backlog>>

(* signal_filter: schedule a connection to the host that came in range. *)
DispatchConnected ==
  /\ NextMessage("Connected")
  /\ IF intr = NoFd
     THEN pending' = Head(busq).host /\ due' = FALSE
     ELSE UNCHANGED timer
  /\ UNCHANGED <<pc, rfds, links, call, ipcq, backlog>>

DispatchDone ==
  /\ pc = "dbus" /\ batch = 0
  /\ pc' = "deferred"
  /\ UNCHANGED <<daemon, fdt, seen, queues>>

-----------------------------------------------------------------------------
(* The deferred connection, and connect_hid_to_host(). *)

DeferredConnect ==
  /\ pc = "deferred"
  /\ pending # NoHost /\ intr = NoFd /\ due
  /\ pending' = NoHost
  /\ due' = FALSE
  /\ target' = pending
  /\ ret' = "select"
  /\ pc' = "connect17"
  /\ CloseHidConnections
  /\ UNCHANGED <<rfds, batch, queues>>

(* Mutant: the deadline survives a link that came up by other means. *)
DeferredCancelMutant ==
  /\ pc = "deferred"
  /\ pending # NoHost /\ intr # NoFd
  /\ pc' = "select"
  /\ UNCHANGED <<daemon, fdt, seen, queues>>

DeferredCancel ==
  /\ pc = "deferred"
  /\ pending # NoHost /\ intr # NoFd
  /\ pending' = NoHost
  /\ due' = FALSE
  /\ pc' = "select"
  /\ UNCHANGED <<rfds, links, call, batch, queues>>

DeferredIdle ==
  /\ pc = "deferred"
  /\ pending = NoHost \/ (intr = NoFd /\ ~due)
  /\ pc' = "select"
  /\ UNCHANGED <<daemon, fdt, seen, queues>>

ConnectReturns ==
  /\ pc' = ret
  /\ target' = NoHost
  /\ ret' = "select"

(* socket() and connect() on PSM 17. *)
ConnectControl ==
  /\ pc = "connect17"
  /\ \E fd \in LowestOf(FreeFds) :
       /\ fdt' = [fdt EXCEPT ![fd] = [host |-> target, psm |-> ControlPsm,
                                      input |-> "none"]]
       /\ ctrl' = fd
  /\ pc' = "connect19"
  /\ UNCHANGED <<rfds, intr, mods, timer, call, batch, queues, seen>>

ConnectControlFails ==
  /\ pc = "connect17"
  /\ ConnectReturns
  /\ UNCHANGED <<rfds, links, timer, batch, queues>>

(* socket() and connect() on PSM 19. *)
ConnectInterrupt ==
  /\ pc = "connect19"
  /\ \E fd \in LowestOf(FreeFds) :
       /\ fdt' = [fdt EXCEPT ![fd] = [host |-> target, psm |-> InterruptPsm,
                                      input |-> "none"]]
       /\ intr' = fd
  /\ ConnectReturns
  /\ UNCHANGED <<rfds, ctrl, mods, timer, batch, queues, seen>>

(* Without a descriptor for the second socket the function returns as it is. *)
ConnectInterruptNoSocket ==
  /\ pc = "connect19"
  /\ FreeFds = {}
  /\ ConnectReturns
  /\ UNCHANGED <<rfds, links, timer, batch, queues>>

(* Mutant: the control channel is closed and its number is kept. *)
ConnectInterruptRefusedMutant ==
  /\ pc = "connect19"
  /\ FreeFds # {}
  /\ fdt' = TableWithout({ctrl})
  /\ ConnectReturns
  /\ UNCHANGED <<rfds, ctrl, intr, mods, timer, batch, queues, seen>>

ConnectInterruptRefused ==
  /\ pc = "connect19"
  /\ FreeFds # {}
  /\ fdt' = TableWithout({ctrl})
  /\ ctrl' = NoFd
  /\ ConnectReturns
  /\ UNCHANGED <<rfds, intr, mods, timer, batch, queues, seen>>

-----------------------------------------------------------------------------
(* The end of the process, by SIGTERM or by a crash: the kernel closes its *)
(* descriptors, and what was queued for it is lost.                        *)
Exit ==
  /\ pc # "stopped"
  /\ pc' = "stopped"
  /\ rfds' = {}
  /\ ctrl' = NoFd
  /\ intr' = NoFd
  /\ mods' = {}
  /\ pending' = NoHost
  /\ due' = FALSE
  /\ target' = NoHost
  /\ ret' = "select"
  /\ batch' = 0
  /\ fdt' = [fd \in Fds |-> Free]
  /\ seen' = [h \in Hosts |-> AllUp]
  /\ ipcq' = <<>>
  /\ backlog' = <<>>
  /\ busq' = <<>>

Start ==
  /\ pc = "stopped"
  /\ pc' = "select"
  /\ UNCHANGED <<daemon, fdt, seen, queues>>

Daemon ==
  \/ Select \/ Skip
  \/ HandleIpcConnect \/ HandleIpcKey
  \/ HandleCtrlRequest \/ HandleCtrlClosed
  \/ HandleIntrAccept
  \/ ReadBus
  \/ DispatchNewConnection \/ DispatchRequestDisconnection
  \/ DispatchConnected \/ DispatchDone
  \/ DeferredConnect \/ DeferredCancel \/ DeferredIdle
  \/ ConnectControl \/ ConnectControlFails
  \/ ConnectInterrupt \/ ConnectInterruptNoSocket \/ ConnectInterruptRefused

(* 1500 ms have passed since the last Connected signal. *)
TimerDue ==
  /\ pending # NoHost /\ ~due
  /\ due' = TRUE
  /\ UNCHANGED <<pc, rfds, pending, links, call, batch, queues>>

-----------------------------------------------------------------------------
(* The other processes: senders on the Unix socket, hosts, and BlueZ. *)

SendIpc(m) ==
  /\ pc # "stopped"
  /\ Len(ipcq) < IpcMax
  /\ ipcq' = Append(ipcq, m)
  /\ UNCHANGED <<pc, daemon, fdt, backlog, busq, seen>>

Announce(kind, h) ==
  /\ pc # "stopped"
  /\ Len(busq) < BusMax
  /\ busq' = Append(busq, [kind |-> kind, host |-> h, input |-> "none"])
  /\ UNCHANGED <<pc, daemon, fdt, ipcq, backlog, seen>>

HasOpen(h, psm) ==
  \E fd \in Fds : fdt[fd].host = h /\ fdt[fd].psm = psm /\ fdt[fd].input # "eof"

(* A host opens the control channel: BlueZ accepts it on PSM 17. *)
HostOpensControl(h) ==
  /\ ~HasOpen(h, ControlPsm)
  /\ \A i \in DOMAIN busq : busq[i].kind = "NewConnection" => busq[i].host # h
  /\ Announce("NewConnection", h)

(* ... and then the interrupt channel, on the daemon's own listener. *)
HostOpensInterrupt(h) ==
  /\ pc # "stopped"
  /\ ~HasOpen(h, InterruptPsm)
  /\ \A i \in DOMAIN backlog : backlog[i] # h
  /\ \/ HasOpen(h, ControlPsm)
     \/ \E i \in DOMAIN busq : busq[i].kind = "NewConnection" /\ busq[i].host = h
  /\ backlog' = Append(backlog, h)
  /\ UNCHANGED <<pc, daemon, fdt, ipcq, busq, seen>>

HostSendsRequest(fd) ==
  /\ fd \in {ctrl, intr} /\ fdt[fd].psm = ControlPsm
  /\ fdt[fd].input = "none"
  /\ fdt' = [fdt EXCEPT ![fd].input = "data"]
  /\ UNCHANGED <<pc, daemon, queues, seen>>

(* A host that waits no longer leaves the queue of the listening socket. *)
LeaveBacklog(h) ==
  \/ \E i \in DOMAIN backlog : backlog[i] = h /\ backlog' = RemoveAt(backlog, i)
  \/ (\A i \in DOMAIN backlog : backlog[i] # h) /\ UNCHANGED backlog

(* The channel a message carries may be closed before it is handed over. *)
EndedChannels(h) ==
  [i \in DOMAIN busq |-> IF busq[i].host = h THEN [busq[i] EXCEPT !.input = "eof"]
                         ELSE busq[i]]

(* A host closes all its channels, or only those on one PSM; out of range   *)
(* it closes all of them.                                                  *)
HostCloses(h, psms) ==
  /\ \E fd \in Fds : fdt[fd].host = h /\ fdt[fd].psm \in psms /\ fdt[fd].input # "eof"
  /\ fdt' = [fd \in Fds |-> IF fdt[fd].host = h /\ fdt[fd].psm \in psms
                            THEN [fdt[fd] EXCEPT !.input = "eof"] ELSE fdt[fd]]
  /\ IF InterruptPsm \in psms
     THEN /\ seen' = [seen EXCEPT ![h] = AllUp]
          /\ LeaveBacklog(h)
     ELSE UNCHANGED <<seen, backlog>>
  /\ busq' = IF ControlPsm \in psms THEN EndedChannels(h) ELSE busq
  /\ UNCHANGED <<pc, daemon, ipcq>>

BlueZDisconnects(h) ==
  /\ HasOpen(h, ControlPsm)
  /\ Announce("RequestDisconnection", h)

Peers ==
  \/ \E m \in IpcMessages : SendIpc(m)
  \/ \E h \in Hosts : HostOpensControl(h) \/ HostOpensInterrupt(h)
                       \/ Announce("Connected", h) \/ BlueZDisconnects(h)
  \/ \E fd \in Fds : HostSendsRequest(fd)
  \/ \E h \in Hosts, psms \in {{ControlPsm}, {InterruptPsm}, {ControlPsm, InterruptPsm}} :
       HostCloses(h, psms)

Next == Daemon \/ TimerDue \/ Exit \/ Start \/ Peers

Spec == Init /\ [][Next]_vars

(* The main loop never waits longer than its 100 ms timeout and connect()   *)
(* returns; time passes; nothing restarts the daemon and no peer is bound  *)
(* to act.                                                                 *)
FairSpec == Spec /\ WF_vars(Daemon) /\ WF_vars(TimerDue)

-----------------------------------------------------------------------------
(* The two descriptors the daemon holds are open and are not the same one: *)
(* no handler of a round uses a number that an earlier one has closed.     *)
DescriptorsOpen ==
  /\ ctrl # NoFd => fdt[ctrl] # Free
  /\ intr # NoFd => fdt[intr] # Free
  /\ ctrl # NoFd => ctrl # intr

(* A host believes a key to be down only while it is the host at the other *)
(* end of g_intr_fd, with the modifiers that the daemon tracks: a host that*)
(* was replaced, closed or lost never keeps a key of this keyboard down.   *)
NoGhostKeys ==
  \A h \in Hosts : seen[h] # AllUp =>
    /\ intr # NoFd
    /\ fdt[intr].host = h /\ fdt[intr].psm = InterruptPsm /\ fdt[intr].input # "eof"
    /\ seen[h].mods = mods

(* Unless Connected signals keep coming, a scheduled connection is made or *)
(* cancelled: the deadline cannot be passed over.                          *)
DeferredConnectSettles ==
  <>[](\A i \in DOMAIN busq : busq[i].kind # "Connected")
    => (pending # NoHost ~> pending = NoHost)

(* A host waiting on PSM 19 is accepted or gives up, unless the process    *)
(* has run out of descriptors.                                             *)
WaitingHostServed ==
  \A h \in Hosts :
    (\E i \in DOMAIN backlog : backlog[i] = h)
      ~> (FreeFds = {} \/ \A i \in DOMAIN backlog : backlog[i] # h)

-----------------------------------------------------------------------------
(* The abstract keyboard: linked to the host at the other end of g_intr_fd, *)
(* if that is an interrupt channel which the host has not closed.  accept() *)
(* lets a host take the place of the one that is linked.                    *)
LinkedHost ==
  IF intr # NoFd /\ fdt[intr].psm = InterruptPsm /\ fdt[intr].input # "eof"
  THEN fdt[intr].host ELSE NoHost

Abstract ==
  INSTANCE KeyboardLink WITH link <- LinkedHost, held <- mods, Takeover <- TRUE

(* The daemon implements the abstract keyboard: whatever the order in which *)
(* the handlers of a round, outbound connections and hosts open, close and  *)
(* replace channels, a report reaches the linked host only, with exactly    *)
(* the modifiers of the key events so far, and these are not forgotten      *)
(* while a host is linked.                                                  *)
ImplementsLink == Abstract!Spec
=============================================================================
