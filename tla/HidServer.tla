----------------------------- MODULE HidServer ------------------------------
(* The Python keyboard server, src/src/hid_keyboard.py, with BlueZ and the  *)
(* hosts.  Its one thread runs a GLib loop: an iteration polls every source *)
(* once and then calls back the sources that were ready, in the order they  *)
(* were attached: D-Bus (one message), the Unix socket, then the watches.   *)
(* A callback is one action; between two of them the others may act.        *)
(*                                                                          *)
(* A watch names a descriptor by number and is removed by its own callback  *)
(* only: a channel closed from elsewhere leaves its watch behind, which is  *)
(* silent while the number is closed and speaks again when it is reused.    *)
EXTENDS Sequences, Naturals, FiniteSets

CONSTANTS
  Hosts, NoHost,
  Modifiers, Keys, NoKey,  \* key codes
  Fds, NoFd,               \* numbers that the sockets of channels may get
  MaxNew,                  \* bound on the channels opened in a behaviour
  IpcMax, BusMax           \* bounds on the queues of the two sockets

ASSUME ServerAssumption ==
  /\ NoHost \notin Hosts /\ NoFd \notin Fds
  /\ NoKey \notin Keys /\ Modifiers \cap Keys = {}
  /\ MaxNew \in Nat /\ IpcMax \in Nat \ {0} /\ BusMax \in Nat \ {0}

VARIABLES
  registered, \* setup() has registered the profile with BlueZ
  up,         \* the socket for key events is bound and the loop runs
  ctrl,       \* _ctrl_client, as the number of its descriptor, or NoFd
  intr,       \* _intr_client
  connected,  \* _connected
  mods,       \* _modifiers
  watches,    \* the watches attached so far, in order
  todo,       \* sources found ready by the last poll and not called back yet
  fdt,        \* the channel behind each number
  busq,       \* messages of BlueZ that wait
  ipcq,       \* key events in the Unix socket
  seen,       \* what each host believes to be down
  opened      \* channels opened so far

linkVars == <<ctrl, intr, connected, mods, fdt, seen>>
vars == <<registered, up, linkVars, watches, todo, busq, ipcq, opened>>

ControlPsm   == 17
InterruptPsm == 19
Psms == {ControlPsm, InterruptPsm}

AllUp == [mods |-> {}, key |-> NoKey]
KeyStates == [mods : SUBSET Modifiers, key : Keys \cup {NoKey}]

KeyEvents == [code : Modifiers \cup Keys, pressed : BOOLEAN]

(* A channel with what is to be read from it; "hup": the host closed it.   *)
Channels == [host : Hosts, psm : Psms, input : {"none", "data", "hup"}]
Free == [host |-> NoHost, psm |-> 0, input |-> "none"]

BusMessages == [kind : {"new"}, channel : Channels]
               \cup [kind : {"disconnect"}, channel : {Free}]

Watches == [fd : Fds, cb : {"ctrl", "intr"}]
Removed == [fd |-> NoFd, cb |-> "none"]

NothingReady == [dbus |-> FALSE, ipc |-> FALSE, hup |-> {}, data |-> {}]

TypeOK ==
  /\ registered \in BOOLEAN /\ up \in BOOLEAN /\ connected \in BOOLEAN
  /\ ctrl \in Fds \cup {NoFd} /\ intr \in Fds \cup {NoFd}
  /\ mods \subseteq Modifiers
  /\ watches \in Seq(Watches \cup {Removed})
  /\ todo \in [dbus : BOOLEAN, ipc : BOOLEAN,
               hup : SUBSET (DOMAIN watches), data : SUBSET (DOMAIN watches)]
  /\ fdt \in [Fds -> Channels \cup {Free}]
  /\ busq \in Seq(BusMessages) /\ Len(busq) <= BusMax
  /\ ipcq \in Seq(KeyEvents) /\ Len(ipcq) <= IpcMax
  /\ seen \in [Hosts -> KeyStates]
  /\ opened \in 0..MaxNew

Init ==
  /\ registered = FALSE /\ up = FALSE
  /\ ctrl = NoFd /\ intr = NoFd /\ connected = FALSE /\ mods = {}
  /\ watches = <<>> /\ todo = NothingReady
  /\ fdt = [fd \in Fds |-> Free]
  /\ busq = <<>> /\ ipcq = <<>>
  /\ seen = [h \in Hosts |-> AllUp]
  /\ opened = 0

----------------------------------------------------------------------------
(* The loop.                                                               *)

(* What poll() finds: a control watch waits for input and for the end, an  *)
(* interrupt watch for the end only.                                       *)
ReadyWatches(cbs, input) ==
  {w \in DOMAIN watches : /\ watches[w].cb \in cbs
                          /\ fdt[watches[w].fd].input = input}

(* A fault: the interrupt watch does not ask for the end of the channel. *)
ReadyMutant == [dbus |-> busq # <<>>,
                ipc  |-> ipcq # <<>>,
                hup  |-> ReadyWatches({"ctrl"}, "hup"),
                data |-> ReadyWatches({"ctrl"}, "data")]

Ready == [dbus |-> busq # <<>>,
          ipc  |-> ipcq # <<>>,
          hup  |-> ReadyWatches({"ctrl", "intr"}, "hup"),
          data |-> ReadyWatches({"ctrl"}, "data")]

Poll ==
  /\ up
  /\ todo = NothingReady /\ Ready # NothingReady
  /\ todo' = Ready
  /\ UNCHANGED <<registered, up, linkVars, watches, busq, ipcq, opened>>

(* The watch whose turn it is, when D-Bus and the Unix socket are done.    *)
Turn(w) ==
  /\ ~todo.dbus /\ ~todo.ipc
  /\ w \in todo.hup \cup todo.data
  /\ \A v \in todo.hup \cup todo.data : w <= v

Attached(fd, cb) == watches' = Append(watches, [fd |-> fd, cb |-> cb])

(* A callback that returns True stays, one that returns False or raises is *)
(* removed.                                                                *)
Keep(w) ==
  /\ todo' = [todo EXCEPT !.hup = @ \ {w}, !.data = @ \ {w}]
  /\ UNCHANGED watches

Remove(w) ==
  /\ todo' = [todo EXCEPT !.hup = @ \ {w}, !.data = @ \ {w}]
  /\ watches' = [watches EXCEPT ![w] = Removed]

----------------------------------------------------------------------------
(* Closing channels.                                                       *)

Held == {ctrl, intr} \ {NoFd}

(* A host that loses its interrupt channel releases all keys.              *)
SeenWithout(fds) ==
  [h \in Hosts |->
     IF \E fd \in fds : fdt[fd].host = h /\ fdt[fd].psm = InterruptPsm
     THEN AllUp ELSE seen[h]]

TableWithout(fds) == [fd \in Fds |-> IF fd \in fds THEN Free ELSE fdt[fd]]

(* A fault: only the control channel is closed, the other is forgotten. *)
HandleDisconnectMutant ==
  /\ connected' = FALSE
  /\ fdt' = TableWithout({ctrl} \ {NoFd})
  /\ seen' = SeenWithout({ctrl} \ {NoFd})
  /\ ctrl' = NoFd /\ intr' = NoFd
  /\ mods' = {}

(* _handle_disconnect() *)
HandleDisconnect ==
  /\ connected' = FALSE
  /\ fdt' = TableWithout(Held)
  /\ seen' = SeenWithout(Held)
  /\ ctrl' = NoFd /\ intr' = NoFd
  /\ mods' = {}

----------------------------------------------------------------------------
(* D-Bus: HIDProfile and _on_profile_connection().                         *)

NextMessage(kind) ==
  /\ todo.dbus
  /\ Head(busq).kind = kind
  /\ busq' = Tail(busq)
  /\ todo' = [todo EXCEPT !.dbus = FALSE]

(* The first channel is taken for the control channel, the second for the  *)
(* interrupt channel, whatever their PSM.  The number is one that is free; *)
(* which one depends on the duplicates that libdbus and NewConnection()    *)
(* hold at that moment.                                                    *)
OnControlConnected ==
  /\ NextMessage("new")
  /\ ctrl = NoFd
  /\ \E fd \in Fds :
       /\ fdt[fd] = Free
       /\ ctrl' = fd
       /\ connected' = (intr # NoFd)
       /\ fdt' = [fdt EXCEPT ![fd] = Head(busq).channel]
       /\ Attached(fd, "ctrl")
  /\ UNCHANGED <<registered, up, intr, mods, ipcq, seen, opened>>

(* A fault: the interrupt channel is not watched. *)
OnInterruptConnectedMutant ==
  /\ NextMessage("new")
  /\ ctrl # NoFd /\ intr = NoFd
  /\ \E fd \in Fds :
       /\ fdt[fd] = Free
       /\ intr' = fd
       /\ connected' = TRUE
       /\ fdt' = [fdt EXCEPT ![fd] = Head(busq).channel]
  /\ UNCHANGED <<registered, up, ctrl, mods, watches, ipcq, seen, opened>>

OnInterruptConnected ==
  /\ NextMessage("new")
  /\ ctrl # NoFd /\ intr = NoFd
  /\ \E fd \in Fds :
       /\ fdt[fd] = Free
       /\ intr' = fd
       /\ connected' = TRUE
       /\ fdt' = [fdt EXCEPT ![fd] = Head(busq).channel]
       /\ Attached(fd, "intr")
  /\ UNCHANGED <<registered, up, ctrl, mods, ipcq, seen, opened>>

(* A third channel is closed; and so is any when no descriptor is left or  *)
(* the duplication raises, which is logged.                                *)
OnConnectionRefused ==
  /\ NextMessage("new")
  /\ UNCHANGED <<registered, up, linkVars, watches, ipcq, opened>>

RequestDisconnection ==
  /\ NextMessage("disconnect")
  /\ HandleDisconnect
  /\ UNCHANGED <<registered, up, watches, ipcq, opened>>

----------------------------------------------------------------------------
(* The Unix socket: _on_ipc_data(), send_key_event() and _send_report().   *)

ReportDropped(newMods) ==
  /\ ~connected
  /\ mods' = newMods
  /\ UNCHANGED <<ctrl, intr, connected, fdt, seen>>

(* A fault: the report is built before the modifier is recorded. *)
ReportDeliveredMutant(newMods, key) ==
  /\ connected
  /\ fdt[intr].input # "hup"
  /\ mods' = newMods
  /\ seen' = [h \in Hosts |->
                IF h = fdt[intr].host /\ fdt[intr].psm = InterruptPsm
                THEN [mods |-> mods, key |-> key] ELSE seen[h]]
  /\ UNCHANGED <<ctrl, intr, connected, fdt>>

(* The host reads reports on its interrupt channel only.                   *)
ReportDelivered(newMods, key) ==
  /\ connected
  /\ fdt[intr].input # "hup"
  /\ mods' = newMods
  /\ seen' = [h \in Hosts |->
                IF h = fdt[intr].host /\ fdt[intr].psm = InterruptPsm
                THEN [mods |-> newMods, key |-> key] ELSE seen[h]]
  /\ UNCHANGED <<ctrl, intr, connected, fdt>>

(* send() raises when the host has closed, or for lack of room.            *)
SendReport(newMods, key) ==
  \/ ReportDropped(newMods)
  \/ ReportDelivered(newMods, key)
  \/ connected /\ HandleDisconnect

ModsAfter(e) ==
  IF e.code \notin Modifiers THEN mods
  ELSE IF e.pressed THEN mods \cup {e.code} ELSE mods \ {e.code}

(* A fault: the code of a modifier is also reported as a key. *)
KeyAfterMutant(e) == IF e.pressed THEN e.code ELSE NoKey

KeyAfter(e) == IF e.code \in Keys /\ e.pressed THEN e.code ELSE NoKey

OnIpcData ==
  /\ todo.ipc /\ ~todo.dbus
  /\ LET e == Head(ipcq) IN SendReport(ModsAfter(e), KeyAfter(e))
  /\ ipcq' = Tail(ipcq)
  /\ todo' = [todo EXCEPT !.ipc = FALSE]
  /\ UNCHANGED <<registered, up, watches, busq, opened>>

----------------------------------------------------------------------------
(* The watches: _on_ctrl_data() and _on_intr_hup().                        *)

OnHup(w) ==
  /\ Turn(w)
  /\ w \in todo.hup
  /\ HandleDisconnect
  /\ Remove(w)
  /\ UNCHANGED <<registered, up, busq, ipcq, opened>>

(* A control watch with input reads _ctrl_client, which may by now be      *)
(* another channel than the one that was ready, or None (an exception).    *)
OnCtrlNone(w) ==
  /\ Turn(w)
  /\ w \in todo.data \ todo.hup
  /\ ctrl = NoFd
  /\ Remove(w)
  /\ UNCHANGED <<registered, up, linkVars, busq, ipcq, opened>>

OnCtrlClosed(w) ==
  /\ Turn(w)
  /\ w \in todo.data \ todo.hup
  /\ ctrl # NoFd /\ fdt[ctrl].input = "hup"
  /\ HandleDisconnect
  /\ Remove(w)
  /\ UNCHANGED <<registered, up, busq, ipcq, opened>>

(* A request is read and answered; or there is nothing to read (EAGAIN).   *)
OnCtrlData(w) ==
  /\ Turn(w)
  /\ w \in todo.data \ todo.hup
  /\ ctrl # NoFd /\ fdt[ctrl].input # "hup"
  /\ fdt' = [fdt EXCEPT ![ctrl].input = "none"]
  /\ Keep(w)
  /\ UNCHANGED <<registered, up, ctrl, intr, connected, mods, seen, busq, ipcq,
                 opened>>

Server ==
  \/ Poll
  \/ OnControlConnected \/ OnInterruptConnected \/ OnConnectionRefused
  \/ RequestDisconnection
  \/ OnIpcData
  \/ \E w \in DOMAIN watches :
       OnHup(w) \/ OnCtrlNone(w) \/ OnCtrlClosed(w) \/ OnCtrlData(w)

----------------------------------------------------------------------------
(* The process ends by a signal (stop()) or a crash, and is started again: *)
(* setup(), and then start_ipc_socket() and run().  A host may connect in  *)
(* between; its message waits for the loop.                                *)

Stop ==
  /\ registered
  /\ registered' = FALSE /\ up' = FALSE
  /\ ctrl' = NoFd /\ intr' = NoFd /\ connected' = FALSE /\ mods' = {}
  /\ watches' = <<>> /\ todo' = NothingReady
  /\ fdt' = TableWithout(Fds) /\ seen' = SeenWithout(Fds)
  /\ busq' = <<>> /\ ipcq' = <<>>
  /\ UNCHANGED opened

Setup ==
  /\ ~registered
  /\ registered' = TRUE
  /\ UNCHANGED <<up, linkVars, watches, todo, busq, ipcq, opened>>

StartIpcSocket ==
  /\ registered /\ ~up
  /\ up' = TRUE
  /\ UNCHANGED <<registered, linkVars, watches, todo, busq, ipcq, opened>>

Start == Setup \/ StartIpcSocket

----------------------------------------------------------------------------
(* Hosts and BlueZ, which hands over every channel it accepts.             *)

Post(m) ==
  /\ registered /\ Len(busq) < BusMax
  /\ busq' = Append(busq, m)

HasChannel(h, psm) ==
  \/ \E fd \in Fds : /\ fdt[fd].host = h /\ fdt[fd].psm = psm
                     /\ fdt[fd].input # "hup"
  \/ \E i \in DOMAIN busq : /\ busq[i].channel.host = h
                            /\ busq[i].channel.psm = psm

HostConnects(h, psm) ==
  /\ opened < MaxNew
  /\ ~HasChannel(h, psm)
  /\ Post([kind |-> "new",
           channel |-> [host |-> h, psm |-> psm, input |-> "none"]])
  /\ opened' = opened + 1
  /\ UNCHANGED <<registered, up, linkVars, watches, todo, ipcq>>

BlueZDisconnects ==
  /\ Post([kind |-> "disconnect", channel |-> Free])
  /\ UNCHANGED <<registered, up, linkVars, watches, todo, ipcq, opened>>

HostSends(fd) ==
  /\ fdt[fd] # Free /\ fdt[fd].input = "none"
  /\ fdt' = [fdt EXCEPT ![fd].input = "data"]
  /\ UNCHANGED <<registered, up, ctrl, intr, connected, mods, seen, watches,
                 todo, busq, ipcq, opened>>

HostCloses(fd) ==
  /\ fdt[fd] # Free /\ fdt[fd].input # "hup"
  /\ fdt' = [fdt EXCEPT ![fd].input = "hup"]
  /\ seen' = SeenWithout({fd})
  /\ UNCHANGED <<registered, up, ctrl, intr, connected, mods, watches, todo,
                 busq, ipcq, opened>>

(* A channel is closed before NewConnection() is dispatched.               *)
HostClosesEarly(i) ==
  /\ i \in DOMAIN busq /\ busq[i].channel # Free
  /\ busq[i].channel.input # "hup"
  /\ busq' = [busq EXCEPT ![i].channel.input = "hup"]
  /\ UNCHANGED <<registered, up, linkVars, watches, todo, ipcq, opened>>

Host ==
  \/ \E h \in Hosts, psm \in Psms : HostConnects(h, psm)
  \/ BlueZDisconnects
  \/ \E fd \in Fds : HostSends(fd) \/ HostCloses(fd)
  \/ \E i \in DOMAIN busq : HostClosesEarly(i)

(* A process sends a key event; it waits while the queue is full.          *)
SendKey(e) ==
  /\ up /\ Len(ipcq) < IpcMax
  /\ ipcq' = Append(ipcq, e)
  /\ UNCHANGED <<registered, up, linkVars, watches, todo, busq, opened>>

Next == Server \/ Stop \/ Start \/ Host \/ \E e \in KeyEvents : SendKey(e)

Spec == Init /\ [][Next]_vars

----------------------------------------------------------------------------
(* Safety                                                                  *)

(* A host believes a key to be down only while the server can release it:  *)
(* it is connected and sends its reports to that host's interrupt channel. *)
NoGhostKeys ==
  \A h \in Hosts : seen[h] # AllUp =>
    /\ connected /\ intr # NoFd
    /\ fdt[intr].host = h /\ fdt[intr].psm = InterruptPsm
    /\ fdt[intr].input # "hup"

(* Each channel held is open and has a watch of its own kind on its number,*)
(* whatever watches earlier sessions have left on the same numbers.        *)
Watched(fd, cb) == \E w \in DOMAIN watches : watches[w] = [fd |-> fd, cb |-> cb]

HeldWatched ==
  /\ ctrl # NoFd => fdt[ctrl] # Free /\ Watched(ctrl, "ctrl")
  /\ intr # NoFd => fdt[intr] # Free /\ Watched(intr, "intr")
  /\ ctrl = intr => ctrl = NoFd
  /\ connected <=> (ctrl # NoFd /\ intr # NoFd)

----------------------------------------------------------------------------
(* Liveness: a channel that the host has closed is let go of, also when    *)
(* watches of earlier sessions answer for its number.                      *)
LinkLossNoticed ==
  \A fd \in Fds :
    (fd \in Held /\ fdt[fd].input = "hup") ~> (fd \notin Held \/ ~up)

----------------------------------------------------------------------------
(* The abstract keyboard: linked to the host at the other end of an open   *)
(* interrupt channel, while the server counts as connected.                *)
LinkedHost ==
  IF connected /\ fdt[intr].psm = InterruptPsm /\ fdt[intr].input # "hup"
  THEN fdt[intr].host ELSE NoHost

Abstract ==
  INSTANCE KeyboardLink WITH link <- LinkedHost, held <- mods, Takeover <- FALSE

ImplementsLink == Abstract!Spec
=============================================================================
