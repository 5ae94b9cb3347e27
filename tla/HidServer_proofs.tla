-------------------------- MODULE HidServer_proofs --------------------------
(* Proofs about HidServer for any hosts, keys, descriptors and bounds: the   *)
(* types, the two invariants and the refinement of KeyboardLink.             *)
EXTENDS HidServer, TLAPS

(* A source that was found ready still has what it was ready for. *)
ReadyHolds ==
  /\ todo.dbus => busq # <<>>
  /\ todo.ipc  => ipcq # <<>>

(* The interrupt channel comes after the control channel and goes with it.  *)
ControlFirst == intr # NoFd => ctrl # NoFd

(* A host has at most one channel of a kind that is open or on its way.     *)
Open(fd, h, psm) ==
  fdt[fd].host = h /\ fdt[fd].psm = psm /\ fdt[fd].input # "hup"

Queued(i, h, psm) == busq[i].channel.host = h /\ busq[i].channel.psm = psm

OneChannel ==
  \A h \in Hosts, psm \in Psms :
    /\ \A fd, gd \in Fds : Open(fd, h, psm) /\ Open(gd, h, psm) => fd = gd
    /\ \A fd \in Fds, i \in DOMAIN busq :
         ~(Open(fd, h, psm) /\ Queued(i, h, psm))
    /\ \A i, j \in DOMAIN busq :
         Queued(i, h, psm) /\ Queued(j, h, psm) => i = j

Inv == /\ TypeOK /\ ReadyHolds /\ ControlFirst /\ OneChannel
       /\ HeldWatched /\ NoGhostKeys

----------------------------------------------------------------------------
(* Queues and watches.                                                       *)

LEMMA HeadTail ==
  ASSUME NEW S, NEW q \in Seq(S), q # <<>>
  PROVE  Head(q) \in S /\ Tail(q) \in Seq(S) /\ Len(Tail(q)) = Len(q) - 1
  OBVIOUS

LEMMA Appended ==
  ASSUME NEW S, NEW q \in Seq(S), NEW e \in S
  PROVE  /\ Append(q, e) \in Seq(S) /\ Len(Append(q, e)) = Len(q) + 1
         /\ DOMAIN q \subseteq DOMAIN Append(q, e)
         /\ \A i \in DOMAIN q : Append(q, e)[i] = q[i]
         /\ Append(q, e)[Len(q) + 1] = e
         /\ Len(q) + 1 \in DOMAIN Append(q, e)
  OBVIOUS

LEMMA Replaced ==
  ASSUME NEW S, NEW q \in Seq(S), NEW i \in DOMAIN q, NEW e \in S
  PROVE  /\ [q EXCEPT ![i] = e] \in Seq(S)
         /\ Len([q EXCEPT ![i] = e]) = Len(q)
         /\ DOMAIN [q EXCEPT ![i] = e] = DOMAIN q
  OBVIOUS


(* BlueZ's queue and the Unix socket's keep their types and their bounds.    *)
LEMMA QueuesType ==
  ASSUME TypeOK, ReadyHolds, Next
  PROVE  /\ busq' \in Seq(BusMessages) /\ Len(busq') <= BusMax
         /\ ipcq' \in Seq(KeyEvents) /\ Len(ipcq') <= IpcMax
  <1> DEFINE Bus(q) == q \in Seq(BusMessages) /\ Len(q) <= BusMax
             Ipc(q) == q \in Seq(KeyEvents) /\ Len(q) <= IpcMax
  <1> SUFFICES Bus(busq') /\ Ipc(ipcq')
    OBVIOUS
  <1>a. Bus(busq) /\ Ipc(ipcq) /\ Bus(<<>>) /\ Ipc(<<>>)
        /\ BusMax \in Nat /\ IpcMax \in Nat
    BY ServerAssumption DEF TypeOK
  <1>b. busq # <<>> => Bus(Tail(busq))
    BY <1>a, HeadTail
  <1>c. ipcq # <<>> => Ipc(Tail(ipcq))
    BY <1>a, HeadTail
  <1>d. ASSUME NEW m \in BusMessages, Post(m) PROVE Bus(busq')
    BY <1>a, <1>d, Appended DEF Post
  <1> HIDE DEF Bus, Ipc
  <1>1. CASE Poll
    BY <1>1, <1>a, <1>b, <1>c DEF Poll
  <1>2. CASE OnControlConnected
    BY <1>2, <1>a, <1>b, <1>c DEF OnControlConnected, NextMessage, ReadyHolds
  <1>3. CASE OnInterruptConnected
    BY <1>3, <1>a, <1>b, <1>c DEF OnInterruptConnected, NextMessage, ReadyHolds
  <1>4. CASE OnConnectionRefused
    BY <1>4, <1>a, <1>b, <1>c DEF OnConnectionRefused, NextMessage, ReadyHolds
  <1>5. CASE RequestDisconnection
    BY <1>5, <1>a, <1>b, <1>c DEF RequestDisconnection, NextMessage, ReadyHolds
  <1>6. CASE OnIpcData
    BY <1>6, <1>a, <1>b, <1>c DEF OnIpcData, ReadyHolds
  <1>7. ASSUME NEW w \in DOMAIN watches, OnHup(w)
        PROVE  Bus(busq') /\ Ipc(ipcq')
    BY <1>7, <1>a, <1>b, <1>c DEF OnHup
  <1>8. ASSUME NEW w \in DOMAIN watches, OnCtrlNone(w)
        PROVE  Bus(busq') /\ Ipc(ipcq')
    BY <1>8, <1>a, <1>b, <1>c DEF OnCtrlNone
  <1>9. ASSUME NEW w \in DOMAIN watches, OnCtrlClosed(w)
        PROVE  Bus(busq') /\ Ipc(ipcq')
    BY <1>9, <1>a, <1>b, <1>c DEF OnCtrlClosed
  <1>10. ASSUME NEW w \in DOMAIN watches, OnCtrlData(w)
        PROVE  Bus(busq') /\ Ipc(ipcq')
    BY <1>10, <1>a, <1>b, <1>c DEF OnCtrlData
  <1>11. CASE Stop
    BY <1>11, <1>a, <1>b, <1>c DEF Stop
  <1>12. CASE Start
    BY <1>12, <1>a, <1>b, <1>c DEF Start, Setup, StartIpcSocket
  <1>13. ASSUME NEW h \in Hosts, NEW psm \in Psms, HostConnects(h, psm)
        PROVE  Bus(busq') /\ Ipc(ipcq')
    <2>1. [kind |-> "new", channel |-> [host |-> h, psm |-> psm, input |-> "none"]]
            \in BusMessages
      BY <1>13 DEF BusMessages, Channels
    <2> QED BY <1>a, <1>d, <1>13, <2>1 DEF HostConnects
  <1>14. CASE BlueZDisconnects
    <2>1. [kind |-> "disconnect", channel |-> Free] \in BusMessages
      BY DEF BusMessages
    <2> QED BY <1>a, <1>d, <1>14, <2>1 DEF BlueZDisconnects
  <1>15. ASSUME NEW fd \in Fds, HostSends(fd)
        PROVE  Bus(busq') /\ Ipc(ipcq')
    BY <1>15, <1>a, <1>b, <1>c DEF HostSends
  <1>16. ASSUME NEW fd \in Fds, HostCloses(fd)
        PROVE  Bus(busq') /\ Ipc(ipcq')
    BY <1>16, <1>a, <1>b, <1>c DEF HostCloses
  <1>17. ASSUME NEW i \in DOMAIN busq, HostClosesEarly(i)
        PROVE  Bus(busq') /\ Ipc(ipcq')
    <2>1. [busq[i] EXCEPT !.channel.input = "hup"] \in BusMessages
      <3>1. busq[i] \in BusMessages
        BY <1>a DEF Bus
      <3>2. busq[i].channel \in Channels
        BY <1>17, <3>1 DEF HostClosesEarly, BusMessages
      <3>3. [busq[i].channel EXCEPT !.input = "hup"] \in Channels
        BY <3>2 DEF Channels
      <3>4. busq[i] = [kind |-> "new", channel |-> busq[i].channel]
        BY <1>17, <3>1 DEF HostClosesEarly, BusMessages
      <3>5. [busq[i] EXCEPT !.channel.input = "hup"]
              = [kind |-> "new",
                 channel |-> [busq[i].channel EXCEPT !.input = "hup"]]
        BY <3>4
      <3> QED BY <3>3, <3>5 DEF BusMessages
    <2>2. busq' = [busq EXCEPT ![i] = [busq[i] EXCEPT !.channel.input = "hup"]]
      BY <1>17 DEF HostClosesEarly
    <2>3. Bus(busq')
      BY <1>a, <2>1, <2>2, Replaced DEF Bus
    <2> QED BY <1>a, <1>17, <2>3 DEF HostClosesEarly
  <1>18. ASSUME NEW e \in KeyEvents, SendKey(e)
        PROVE  Bus(busq') /\ Ipc(ipcq')
    <2>1. Ipc(ipcq')
      BY <1>a, <1>18, Appended DEF SendKey, Ipc
    <2> QED BY <1>a, <1>18, <2>1 DEF SendKey
  <1> QED BY <1>1, <1>2, <1>3, <1>4, <1>5, <1>6, <1>7, <1>8, <1>9, <1>10, <1>11, <1>12, <1>13, <1>14, <1>15, <1>16, <1>17, <1>18
          DEF Next, Server, Host

(* A source that has been called back is no longer on the list.              *)
LEMMA ReadyStaysTrue ==
  ASSUME TypeOK, ReadyHolds, Next
  PROVE  ReadyHolds'
  <1> USE DEF ReadyHolds, NothingReady
  <1>1. CASE Poll
    BY <1>1 DEF Poll, Ready
  <1>2. CASE OnControlConnected
    BY <1>2 DEF OnControlConnected, TypeOK, NextMessage
  <1>3. CASE OnInterruptConnected
    BY <1>3 DEF OnInterruptConnected, TypeOK, NextMessage
  <1>4. CASE OnConnectionRefused
    BY <1>4 DEF OnConnectionRefused, TypeOK, NextMessage
  <1>5. CASE RequestDisconnection
    BY <1>5 DEF RequestDisconnection, TypeOK, NextMessage
  <1>6. CASE OnIpcData
    BY <1>6 DEF OnIpcData, TypeOK
  <1>7. ASSUME NEW w \in DOMAIN watches, OnHup(w)
        PROVE  ReadyHolds'
    BY <1>7 DEF OnHup, TypeOK, Remove
  <1>8. ASSUME NEW w \in DOMAIN watches, OnCtrlNone(w)
        PROVE  ReadyHolds'
    BY <1>8 DEF OnCtrlNone, TypeOK, Remove
  <1>9. ASSUME NEW w \in DOMAIN watches, OnCtrlClosed(w)
        PROVE  ReadyHolds'
    BY <1>9 DEF OnCtrlClosed, TypeOK, Remove
  <1>10. ASSUME NEW w \in DOMAIN watches, OnCtrlData(w)
        PROVE  ReadyHolds'
    BY <1>10 DEF OnCtrlData, TypeOK, Keep
  <1>11. CASE Stop
    BY <1>11 DEF Stop
  <1>12. CASE Start
    BY <1>12 DEF Start, Setup, StartIpcSocket
  <1>13. ASSUME NEW h \in Hosts, NEW psm \in Psms, HostConnects(h, psm)
        PROVE  ReadyHolds'
    BY <1>13 DEF HostConnects, TypeOK, Post
  <1>14. CASE BlueZDisconnects
    BY <1>14 DEF BlueZDisconnects, TypeOK, Post
  <1>15. ASSUME NEW fd \in Fds, HostSends(fd)
        PROVE  ReadyHolds'
    BY <1>15 DEF HostSends
  <1>16. ASSUME NEW fd \in Fds, HostCloses(fd)
        PROVE  ReadyHolds'
    BY <1>16 DEF HostCloses
  <1>17. ASSUME NEW i \in DOMAIN busq, HostClosesEarly(i)
        PROVE  ReadyHolds'
    BY <1>17 DEF HostClosesEarly, TypeOK
  <1>18. ASSUME NEW e \in KeyEvents, SendKey(e)
        PROVE  ReadyHolds'
    BY <1>18 DEF SendKey, TypeOK
  <1> QED BY <1>1, <1>2, <1>3, <1>4, <1>5, <1>6, <1>7, <1>8, <1>9, <1>10, <1>11, <1>12, <1>13, <1>14, <1>15, <1>16, <1>17, <1>18
          DEF Next, Server, Host

(* Watches are added at the end or struck out, and only watches that exist   *)
(* are ready.                                                                *)
LEMMA WatchesType ==
  ASSUME TypeOK, Next
  PROVE  /\ watches' \in Seq(Watches \cup {Removed})
         /\ todo' \in [dbus : BOOLEAN, ipc : BOOLEAN,
                       hup  : SUBSET (DOMAIN watches'),
                       data : SUBSET (DOMAIN watches')]
  <1> DEFINE All == Watches \cup {Removed}
             Sources(d) == [dbus : BOOLEAN, ipc : BOOLEAN,
                            hup : SUBSET d, data : SUBSET d]
             OK == watches' \in Seq(All) /\ todo' \in Sources(DOMAIN watches')
  <1> SUFFICES OK
    OBVIOUS
  <1>a. watches \in Seq(All) /\ todo \in Sources(DOMAIN watches)
    BY DEF TypeOK
  <1>b. ASSUME NEW fd \in Fds, NEW cb \in {"ctrl", "intr"}, Attached(fd, cb),
               todo' = [todo EXCEPT !.dbus = FALSE]
        PROVE  OK
    <2>1. [fd |-> fd, cb |-> cb] \in All
      BY <1>b DEF Watches
    <2>2. watches' \in Seq(All) /\ DOMAIN watches \subseteq DOMAIN watches'
      BY <1>a, <1>b, <2>1, Appended DEF Attached
    <2>3. Sources(DOMAIN watches) \subseteq Sources(DOMAIN watches')
      BY <2>2
    <2> QED BY <1>a, <1>b, <2>2, <2>3
  <1>c. ASSUME NEW w \in DOMAIN watches, Remove(w) PROVE OK
    <2>1. watches' \in Seq(All) /\ DOMAIN watches' = DOMAIN watches
      BY <1>a, <1>c, Replaced DEF Remove
    <2> QED BY <1>a, <1>c, <2>1 DEF Remove
  <1>d. ASSUME UNCHANGED watches, todo' \in Sources(DOMAIN watches) PROVE OK
    BY <1>a, <1>d
  <1>e. ASSUME UNCHANGED watches, todo' = [todo EXCEPT !.dbus = FALSE] PROVE OK
    BY <1>a, <1>e
  <1>1. CASE Poll
    BY <1>a, <1>d, <1>1 DEF Poll, Ready, ReadyWatches
  <1>2. CASE OnControlConnected
    BY <1>b, <1>2 DEF OnControlConnected, NextMessage
  <1>3. CASE OnInterruptConnected
    BY <1>b, <1>3 DEF OnInterruptConnected, NextMessage
  <1>4. CASE OnConnectionRefused
    BY <1>e, <1>4 DEF OnConnectionRefused, NextMessage
  <1>5. CASE RequestDisconnection
    BY <1>e, <1>5 DEF RequestDisconnection, NextMessage
  <1>6. CASE OnIpcData
    BY <1>a, <1>d, <1>6 DEF OnIpcData
  <1>7. ASSUME NEW w \in DOMAIN watches, OnHup(w)
        PROVE  OK
    BY <1>c, <1>7 DEF OnHup
  <1>8. ASSUME NEW w \in DOMAIN watches, OnCtrlNone(w)
        PROVE  OK
    BY <1>c, <1>8 DEF OnCtrlNone
  <1>9. ASSUME NEW w \in DOMAIN watches, OnCtrlClosed(w)
        PROVE  OK
    BY <1>c, <1>9 DEF OnCtrlClosed
  <1>10. ASSUME NEW w \in DOMAIN watches, OnCtrlData(w)
        PROVE  OK
    BY <1>a, <1>d, <1>10 DEF OnCtrlData, Keep
  <1>11. CASE Stop
    BY <1>11 DEF Stop, NothingReady
  <1>12. CASE Start
    BY <1>12, <1>a, <1>d DEF Start, Setup, StartIpcSocket
  <1>13. ASSUME NEW h \in Hosts, NEW psm \in Psms, HostConnects(h, psm)
        PROVE  OK
    BY <1>13, <1>a, <1>d DEF HostConnects, Post
  <1>14. CASE BlueZDisconnects
    BY <1>14, <1>a, <1>d DEF BlueZDisconnects, Post
  <1>15. ASSUME NEW fd \in Fds, HostSends(fd)
        PROVE  OK
    BY <1>15, <1>a, <1>d DEF HostSends
  <1>16. ASSUME NEW fd \in Fds, HostCloses(fd)
        PROVE  OK
    BY <1>16, <1>a, <1>d DEF HostCloses
  <1>17. ASSUME NEW i \in DOMAIN busq, HostClosesEarly(i)
        PROVE  OK
    BY <1>17, <1>a, <1>d DEF HostClosesEarly
  <1>18. ASSUME NEW e \in KeyEvents, SendKey(e)
        PROVE  OK
    BY <1>18, <1>a, <1>d DEF SendKey
  <1> QED BY <1>1, <1>2, <1>3, <1>4, <1>5, <1>6, <1>7, <1>8, <1>9, <1>10, <1>11, <1>12, <1>13, <1>14, <1>15, <1>16, <1>17, <1>18
          DEF Next, Server, Host

(* _handle_disconnect() and stop() leave no channel and no key down.         *)
LEMMA Closed ==
  ASSUME TypeOK, NoGhostKeys, NEW fds \in SUBSET Fds,
         intr \in fds \cup {NoFd}
  PROVE  /\ TableWithout(fds) \in [Fds -> Channels \cup {Free}]
         /\ SeenWithout(fds) = [h \in Hosts |-> AllUp]
  <1>1. TableWithout(fds) \in [Fds -> Channels \cup {Free}]
    BY DEF TypeOK, TableWithout
  <1>2. ASSUME NEW h \in Hosts, seen[h] # AllUp
        PROVE  \E fd \in fds : fdt[fd].host = h /\ fdt[fd].psm = InterruptPsm
    BY <1>2 DEF NoGhostKeys
  <1> QED BY <1>1, <1>2 DEF SeenWithout

LEMMA Disconnected ==
  ASSUME TypeOK, NoGhostKeys, HandleDisconnect
  PROVE  /\ ctrl' = NoFd /\ intr' = NoFd /\ connected' = FALSE /\ mods' = {}
         /\ fdt' \in [Fds -> Channels \cup {Free}]
         /\ seen' = [h \in Hosts |-> AllUp]
  <1>1. Held \in SUBSET Fds /\ intr \in Held \cup {NoFd}
    BY DEF TypeOK, Held
  <1> QED BY <1>1, Closed DEF HandleDisconnect

LEMMA AllUpType == [h \in Hosts |-> AllUp] \in [Hosts -> KeyStates]
  BY DEF AllUp, KeyStates

(* The rest of the state keeps its types.                                    *)
LinkTypes ==
  /\ registered \in BOOLEAN /\ up \in BOOLEAN /\ connected \in BOOLEAN
  /\ ctrl \in Fds \cup {NoFd} /\ intr \in Fds \cup {NoFd}
  /\ mods \subseteq Modifiers
  /\ fdt \in [Fds -> Channels \cup {Free}]
  /\ seen \in [Hosts -> KeyStates]
  /\ opened \in 0..MaxNew

LEMMA SettledTypes ==
  ASSUME TypeOK, NoGhostKeys, HandleDisconnect, UNCHANGED <<registered, up, opened>>
  PROVE  LinkTypes'
  BY Disconnected, AllUpType DEF TypeOK, LinkTypes

LEMMA NewChannelType ==
  ASSUME TypeOK, ReadyHolds, NextMessage("new")
  PROVE  Head(busq).channel \in Channels
  <1>1. Head(busq) \in BusMessages
    BY HeadTail DEF TypeOK, ReadyHolds, NextMessage
  <1>2. Head(busq).kind = "new"
    BY DEF NextMessage
  <1>3. Head(busq) \in [kind : {"new"}, channel : Channels]
    BY <1>1, <1>2 DEF BusMessages
  <1> QED BY <1>3

LEMMA EventType ==
  ASSUME TypeOK, ReadyHolds, todo.ipc
  PROVE  /\ Head(ipcq).code \in Modifiers \cup Keys
         /\ Head(ipcq).pressed \in BOOLEAN
         /\ ModsAfter(Head(ipcq)) \subseteq Modifiers
         /\ KeyAfter(Head(ipcq)) \in Keys \cup {NoKey}
  <1>1. Head(ipcq) \in KeyEvents
    BY HeadTail DEF TypeOK, ReadyHolds
  <1>2. /\ Head(ipcq).code \in Modifiers \cup Keys
        /\ Head(ipcq).pressed \in BOOLEAN
    BY <1>1 DEF KeyEvents
  <1> QED BY <1>2 DEF ModsAfter, KeyAfter, TypeOK

LEMMA LinkTypesKept ==
  ASSUME TypeOK, ReadyHolds, NoGhostKeys, HeldWatched, Next
  PROVE  LinkTypes'
  <1> USE DEF LinkTypes, TypeOK, linkVars
  <1>1. CASE Poll
    BY <1>1 DEF Poll
  <1>2. CASE OnControlConnected
    <2>1. connected' \in BOOLEAN
      BY <1>2, Zenon DEF OnControlConnected
    <2> QED BY <1>2, <2>1, NewChannelType DEF OnControlConnected
  <1>3. CASE OnInterruptConnected
    BY <1>3, NewChannelType DEF OnInterruptConnected
  <1>4. CASE OnConnectionRefused
    BY <1>4 DEF OnConnectionRefused
  <1>5. CASE RequestDisconnection
    BY <1>5, SettledTypes DEF RequestDisconnection
  <1>6. CASE OnIpcData
    <2> DEFINE m == ModsAfter(Head(ipcq))
               k == KeyAfter(Head(ipcq))
    <2>1. m \subseteq Modifiers /\ k \in Keys \cup {NoKey}
      BY <1>6, EventType DEF OnIpcData
    <2>2. [mods |-> m, key |-> k] \in KeyStates
      BY <2>1 DEF KeyStates
    <2>3. SendReport(m, k) /\ UNCHANGED <<registered, up, opened>>
      BY <1>6 DEF OnIpcData
    <2> HIDE DEF m, k
    <2>4. CASE ReportDropped(m)
      BY <2>1, <2>3, <2>4 DEF ReportDropped
    <2>5. CASE ReportDelivered(m, k)
      BY <2>1, <2>2, <2>3, <2>5 DEF ReportDelivered
    <2>6. CASE HandleDisconnect
      BY <2>3, <2>6, SettledTypes
    <2> QED BY <2>3, <2>4, <2>5, <2>6 DEF SendReport
  <1>7. ASSUME NEW w \in DOMAIN watches, OnHup(w)
        PROVE  LinkTypes'
    BY <1>7, SettledTypes DEF OnHup
  <1>8. ASSUME NEW w \in DOMAIN watches, OnCtrlNone(w)
        PROVE  LinkTypes'
    BY <1>8 DEF OnCtrlNone
  <1>9. ASSUME NEW w \in DOMAIN watches, OnCtrlClosed(w)
        PROVE  LinkTypes'
    BY <1>9, SettledTypes DEF OnCtrlClosed
  <1>10. ASSUME NEW w \in DOMAIN watches, OnCtrlData(w)
        PROVE  LinkTypes'
    <2>1. [fdt[ctrl] EXCEPT !.input = "none"] \in Channels \cup {Free}
      <3>1. fdt[ctrl] \in Channels \cup {Free}
        BY <1>10 DEF OnCtrlData
      <3> HIDE DEF TypeOK, LinkTypes
      <3> QED BY <3>1 DEF Channels, Free
    <2>2. fdt' = [fdt EXCEPT ![ctrl] = [fdt[ctrl] EXCEPT !.input = "none"]]
      BY <1>10 DEF OnCtrlData
    <2> QED BY <1>10, <2>1, <2>2 DEF OnCtrlData
  <1>11. CASE Stop
    BY <1>11, Closed, AllUpType DEF Stop
  <1>12. CASE Start
    BY <1>12 DEF Start, Setup, StartIpcSocket
  <1>13. ASSUME NEW h \in Hosts, NEW psm \in Psms, HostConnects(h, psm)
        PROVE  LinkTypes'
    BY <1>13, ServerAssumption DEF HostConnects, Post
  <1>14. CASE BlueZDisconnects
    BY <1>14 DEF BlueZDisconnects, Post
  <1>15. ASSUME NEW fd \in Fds, HostSends(fd)
        PROVE  LinkTypes'
    <2>1. [fdt[fd] EXCEPT !.input = "data"] \in Channels
      BY <1>15 DEF HostSends, Channels
    <2>2. fdt' = [fdt EXCEPT ![fd] = [fdt[fd] EXCEPT !.input = "data"]]
      BY <1>15 DEF HostSends
    <2> QED BY <1>15, <2>1, <2>2 DEF HostSends
  <1>16. ASSUME NEW fd \in Fds, HostCloses(fd)
        PROVE  LinkTypes'
    <2>1. [fdt[fd] EXCEPT !.input = "hup"] \in Channels
      BY <1>16 DEF HostCloses, Channels
    <2>2. fdt' = [fdt EXCEPT ![fd] = [fdt[fd] EXCEPT !.input = "hup"]]
      BY <1>16 DEF HostCloses
    <2>3. seen' \in [Hosts -> KeyStates]
      BY <1>16 DEF HostCloses, SeenWithout, AllUp, KeyStates
    <2> QED BY <1>16, <2>1, <2>2, <2>3 DEF HostCloses
  <1>17. ASSUME NEW i \in DOMAIN busq, HostClosesEarly(i)
        PROVE  LinkTypes'
    BY <1>17 DEF HostClosesEarly
  <1>18. ASSUME NEW e \in KeyEvents, SendKey(e)
        PROVE  LinkTypes'
    BY <1>18 DEF SendKey
  <1> QED BY <1>1, <1>2, <1>3, <1>4, <1>5, <1>6, <1>7, <1>8, <1>9, <1>10, <1>11, <1>12, <1>13, <1>14, <1>15, <1>16, <1>17, <1>18
          DEF Next, Server, Host

LEMMA TypeKept ==
  ASSUME TypeOK, ReadyHolds, NoGhostKeys, HeldWatched, Next
  PROVE  TypeOK'
  BY QueuesType, WatchesType, LinkTypesKept DEF TypeOK, LinkTypes

----------------------------------------------------------------------------
(* What a step can do to the link.                                           *)

(* Channels stay, up to what is to be read from them.                        *)
SameChannels ==
  \A fd \in Fds :
    \/ fdt'[fd] = fdt[fd]
    \/ /\ fdt[fd] # Free /\ fdt'[fd] # Free
       /\ fdt'[fd].host = fdt[fd].host /\ fdt'[fd].psm = fdt[fd].psm
       /\ fdt[fd].input # "hup" /\ fdt'[fd].input # "hup"

Quiet ==
  /\ UNCHANGED <<ctrl, intr, connected, mods, seen>>
  /\ SameChannels

(* No watch is lost while a channel is held.                                 *)
WatchesKept == ctrl # NoFd => UNCHANGED watches

LetGo ==
  /\ ctrl' = NoFd /\ intr' = NoFd /\ connected' = FALSE /\ mods' = {}
  /\ seen' = [h \in Hosts |-> AllUp]

Reported ==
  /\ OnIpcData
  /\ LET e == Head(ipcq)
     IN \/ ReportDropped(ModsAfter(e))
        \/ ReportDelivered(ModsAfter(e), KeyAfter(e))

LEMMA InputRead ==
  ASSUME TypeOK, NEW fd \in Fds, fdt[fd] # Free, fdt[fd].input # "hup",
         NEW to \in {"none", "data"}, fdt' = [fdt EXCEPT ![fd].input = to]
  PROVE  SameChannels
  <1>1. fdt[fd] \in Channels
    BY DEF TypeOK
  <1>2. fdt' = [fdt EXCEPT ![fd] = [fdt[fd] EXCEPT !.input = to]]
    OBVIOUS
  <1>3. fdt'[fd] = [fdt[fd] EXCEPT !.input = to]
    BY <1>2 DEF TypeOK
  <1>4. fdt'[fd] \in Channels
    BY <1>1, <1>3 DEF Channels
  <1>5. Free \notin Channels
    BY ServerAssumption DEF Free, Channels
  <1>6. /\ fdt'[fd].host = fdt[fd].host /\ fdt'[fd].psm = fdt[fd].psm
        /\ fdt'[fd].input = to
    BY <1>1, <1>3 DEF Channels
  <1>7. \A gd \in Fds \ {fd} : fdt'[gd] = fdt[gd]
    BY <1>2 DEF TypeOK
  <1> QED BY <1>4, <1>5, <1>6, <1>7 DEF SameChannels

LEMMA StepKinds ==
  ASSUME Inv, Next
  PROVE  \/ Quiet /\ WatchesKept
         \/ LetGo
         \/ OnControlConnected \/ OnInterruptConnected \/ Reported
         \/ \E fd \in Fds : HostCloses(fd)
  <1> DEFINE Still == Quiet /\ WatchesKept
  <1> USE DEF linkVars
  <1>a. ASSUME UNCHANGED linkVars PROVE Quiet
    BY <1>a DEF Quiet, SameChannels
  <1>b. ASSUME HandleDisconnect PROVE LetGo
    BY <1>b, Disconnected DEF Inv, LetGo
  <1>1. CASE Poll
    BY <1>a, <1>1 DEF Poll, WatchesKept
  <1>4. CASE OnConnectionRefused
    BY <1>a, <1>4 DEF OnConnectionRefused, WatchesKept
  <1>5. CASE RequestDisconnection
    BY <1>b, <1>5 DEF RequestDisconnection
  <1>6. CASE OnIpcData
    BY <1>b, <1>6 DEF OnIpcData, SendReport, Reported
  <1>7. ASSUME NEW w \in DOMAIN watches, OnHup(w)
        PROVE  LetGo
    BY <1>b, <1>7 DEF OnHup
  <1>8. ASSUME NEW w \in DOMAIN watches, OnCtrlNone(w)
        PROVE  Still
    BY <1>a, <1>8 DEF OnCtrlNone, WatchesKept
  <1>9. ASSUME NEW w \in DOMAIN watches, OnCtrlClosed(w)
        PROVE  LetGo
    BY <1>b, <1>9 DEF OnCtrlClosed
  <1>10. ASSUME NEW w \in DOMAIN watches, OnCtrlData(w)
        PROVE  Still
    <2>1. ctrl \in Fds /\ fdt[ctrl] # Free
      BY <1>10 DEF OnCtrlData, Inv, HeldWatched, TypeOK
    <2>2. SameChannels
      BY <1>10, <2>1, InputRead DEF OnCtrlData, Inv
    <2> QED BY <1>10, <2>2 DEF OnCtrlData, Quiet, WatchesKept, Keep
  <1>11. CASE Stop
    <2>1. Fds \in SUBSET Fds /\ intr \in Fds \cup {NoFd}
      BY DEF Inv, TypeOK
    <2> QED BY <1>11, <2>1, Closed DEF Stop, LetGo, Inv
  <1>12. CASE Start
    BY <1>a, <1>12 DEF Start, Setup, StartIpcSocket, WatchesKept
  <1>13. ASSUME NEW h \in Hosts, NEW psm \in Psms, HostConnects(h, psm)
        PROVE  Still
    BY <1>a, <1>13 DEF HostConnects, WatchesKept
  <1>14. CASE BlueZDisconnects
    BY <1>a, <1>14 DEF BlueZDisconnects, WatchesKept
  <1>15. ASSUME NEW fd \in Fds, HostSends(fd)
        PROVE  Still
    BY <1>15, InputRead DEF HostSends, Quiet, WatchesKept, Inv
  <1>17. ASSUME NEW i \in DOMAIN busq, HostClosesEarly(i)
        PROVE  Still
    BY <1>a, <1>17 DEF HostClosesEarly, WatchesKept
  <1>18. ASSUME NEW e \in KeyEvents, SendKey(e)
        PROVE  Still
    BY <1>a, <1>18 DEF SendKey, WatchesKept
  <1> QED BY <1>1, <1>4, <1>5, <1>6, <1>7, <1>8, <1>9, <1>10, <1>11, <1>12,
             <1>13, <1>14, <1>15, <1>17, <1>18
          DEF Next, Server, Host

----------------------------------------------------------------------------
(* The parts of the invariant that relate the link's state.                  *)

LEMMA LinkKept ==
  ASSUME Inv, Next
  PROVE  ControlFirst' /\ HeldWatched'
  <1> USE DEF ControlFirst
  <1>0. /\ ctrl \in Fds \cup {NoFd} /\ intr \in Fds \cup {NoFd}
        /\ watches \in Seq(Watches \cup {Removed})
        /\ fdt \in [Fds -> Channels \cup {Free}]
    BY DEF Inv, TypeOK
  <1>1. CASE Quiet /\ WatchesKept
    <2>1. ctrl # NoFd => /\ fdt'[ctrl] # Free
                         /\ Watched(ctrl, "ctrl")'
      BY <1>0, <1>1 DEF Inv, HeldWatched, Watched, Quiet, WatchesKept,
                        SameChannels
    <2>2. intr # NoFd => /\ fdt'[intr] # Free
                         /\ Watched(intr, "intr")'
      BY <1>0, <1>1 DEF Inv, HeldWatched, Watched, Quiet, WatchesKept,
                        SameChannels
    <2> QED BY <1>1, <2>1, <2>2 DEF Inv, HeldWatched, Quiet
  <1>2. CASE LetGo
    BY <1>2 DEF LetGo, HeldWatched
  <1>3. ASSUME NEW fd \in Fds, NEW cb \in {"ctrl", "intr"}, Attached(fd, cb)
        PROVE  /\ Watched(fd, cb)'
               /\ \A gd \in Fds, c \in {"ctrl", "intr"} :
                    Watched(gd, c) => Watched(gd, c)'
    <2>1. [fd |-> fd, cb |-> cb] \in Watches \cup {Removed}
      BY DEF Watches
    <2>2. /\ DOMAIN watches \subseteq DOMAIN watches'
          /\ \A w \in DOMAIN watches : watches'[w] = watches[w]
          /\ watches'[Len(watches) + 1] = [fd |-> fd, cb |-> cb]
          /\ Len(watches) + 1 \in DOMAIN watches'
      BY <1>0, <1>3, <2>1, Appended DEF Attached
    <2> QED BY <2>2 DEF Watched
  <1>4. ASSUME NEW fd \in Fds, fdt[fd] = Free, NextMessage("new"),
               fdt' = [fdt EXCEPT ![fd] = Head(busq).channel]
        PROVE  fdt'[fd] # Free /\ \A gd \in Fds : fdt[gd] # Free => fdt'[gd] # Free
    <2>1. Head(busq).channel \in Channels /\ Free \notin Channels
      BY <1>4, NewChannelType, ServerAssumption DEF Inv, Free, Channels
    <2> QED BY <1>0, <1>4, <2>1
  <1>5. CASE OnControlConnected
    <2>1. intr = NoFd
      BY <1>5 DEF Inv, OnControlConnected
    <2>2. PICK fd \in Fds : /\ fdt[fd] = Free
                            /\ ctrl' = fd /\ connected' = (intr # NoFd)
                            /\ fdt' = [fdt EXCEPT ![fd] = Head(busq).channel]
                            /\ Attached(fd, "ctrl")
      BY <1>5 DEF OnControlConnected
    <2>3. Watched(fd, "ctrl")' /\ fdt'[fd] # Free
      BY <1>3, <1>4, <1>5, <2>2 DEF OnControlConnected
    <2> QED BY <1>5, <2>1, <2>2, <2>3, ServerAssumption
            DEF OnControlConnected, HeldWatched
  <1>6. CASE OnInterruptConnected
    <2>1. PICK fd \in Fds : /\ fdt[fd] = Free
                            /\ intr' = fd /\ connected' = TRUE
                            /\ fdt' = [fdt EXCEPT ![fd] = Head(busq).channel]
                            /\ Attached(fd, "intr")
      BY <1>6 DEF OnInterruptConnected
    <2>2. fdt[ctrl] # Free /\ Watched(ctrl, "ctrl") /\ ctrl # fd
      BY <1>6, <2>1 DEF Inv, HeldWatched, OnInterruptConnected
    <2>3. Watched(fd, "intr")' /\ Watched(ctrl, "ctrl")'
      BY <1>0, <1>3, <1>6, <2>1, <2>2 DEF OnInterruptConnected
    <2>4. fdt'[ctrl] # Free
      BY <1>0, <1>6, <2>1, <2>2 DEF OnInterruptConnected
    <2>5. fdt'[fd] # Free
      BY <1>4, <1>6, <2>1 DEF OnInterruptConnected
    <2> QED BY <1>0, <1>6, <2>1, <2>2, <2>3, <2>4, <2>5, ServerAssumption
            DEF OnInterruptConnected, HeldWatched
  <1>7. CASE Reported
    BY <1>7 DEF Inv, Reported, OnIpcData, ReportDropped, ReportDelivered,
                HeldWatched, Watched
  <1>8. ASSUME NEW fd \in Fds, HostCloses(fd)
        PROVE  ControlFirst' /\ HeldWatched'
    <2>1. fdt[fd] \in Channels /\ Free \notin Channels
      BY <1>0, <1>8, ServerAssumption DEF HostCloses, Free, Channels
    <2>2. [fdt[fd] EXCEPT !.input = "hup"] \in Channels
      BY <2>1 DEF Channels
    <2>3. fdt' = [fdt EXCEPT ![fd] = [fdt[fd] EXCEPT !.input = "hup"]]
      BY <1>8 DEF HostCloses
    <2>4. \A gd \in Fds : fdt[gd] # Free => fdt'[gd] # Free
      BY <1>0, <2>1, <2>2, <2>3
    <2> QED BY <1>0, <1>8, <2>4 DEF Inv, HostCloses, HeldWatched, Watched
  <1> QED BY <1>1, <1>2, <1>5, <1>6, <1>7, <1>8, StepKinds

(* Only the linked host sees a key down.                                     *)
LEMMA AllUpUnlinked ==
  ASSUME Inv, ~connected
  PROVE  \A h \in Hosts : seen[h] = AllUp
  BY DEF Inv, NoGhostKeys

LEMMA GhostsKept ==
  ASSUME Inv, Next
  PROVE  NoGhostKeys'
  <1>0. /\ ctrl \in Fds \cup {NoFd} /\ intr \in Fds \cup {NoFd}
        /\ fdt \in [Fds -> Channels \cup {Free}]
    BY DEF Inv, TypeOK
  <1>1. CASE Quiet /\ WatchesKept
    BY <1>0, <1>1 DEF Quiet, SameChannels, NoGhostKeys, Inv
  <1>2. CASE LetGo
    BY <1>2 DEF LetGo, NoGhostKeys
  <1>3. CASE OnControlConnected
    BY <1>3, AllUpUnlinked
       DEF OnControlConnected, NoGhostKeys, Inv, HeldWatched
  <1>4. CASE OnInterruptConnected
    BY <1>4, AllUpUnlinked
       DEF OnInterruptConnected, NoGhostKeys, Inv, HeldWatched
  <1>5. CASE Reported
    <2>1. CASE ReportDropped(ModsAfter(Head(ipcq)))
      BY <1>5, <2>1, AllUpUnlinked
         DEF ReportDropped, NoGhostKeys
    <2>2. CASE ReportDelivered(ModsAfter(Head(ipcq)), KeyAfter(Head(ipcq)))
      BY <1>0, <1>5, <2>2 DEF ReportDelivered, NoGhostKeys, Inv, HeldWatched
    <2> QED BY <1>5, <2>1, <2>2 DEF Reported
  <1>6. ASSUME NEW fd \in Fds, HostCloses(fd)
        PROVE  NoGhostKeys'
    <2> SUFFICES ASSUME NEW h \in Hosts, seen'[h] # AllUp
                 PROVE  /\ connected /\ intr # NoFd
                        /\ fdt'[intr].host = h
                        /\ fdt'[intr].psm = InterruptPsm
                        /\ fdt'[intr].input # "hup"
      BY <1>6 DEF HostCloses, NoGhostKeys
    <2>1. seen[h] # AllUp
          /\ ~(fdt[fd].host = h /\ fdt[fd].psm = InterruptPsm)
      BY <1>6 DEF HostCloses, SeenWithout
    <2>2. /\ connected /\ intr # NoFd
          /\ fdt[intr].host = h /\ fdt[intr].psm = InterruptPsm
          /\ fdt[intr].input # "hup"
      BY <2>1 DEF Inv, NoGhostKeys
    <2>3. fdt'[intr] = fdt[intr]
      BY <1>0, <1>6, <2>1, <2>2 DEF HostCloses
    <2> QED BY <2>2, <2>3
  <1> QED BY <1>1, <1>2, <1>3, <1>4, <1>5, <1>6, StepKinds

----------------------------------------------------------------------------
(* One channel of a kind for each host.                                      *)

(* Nothing is opened, and the queue at most loses its head.                  *)
LEMMA FewerChannels ==
  ASSUME busq' \in Seq(BusMessages), OneChannel,
         \A fd \in Fds, h \in Hosts, psm \in Psms :
           Open(fd, h, psm)' => Open(fd, h, psm),
         NEW gone \in {0, 1},
         \A i \in DOMAIN busq' :
           /\ i + gone \in DOMAIN busq
           /\ busq'[i].channel.host = busq[i + gone].channel.host
           /\ busq'[i].channel.psm = busq[i + gone].channel.psm
  PROVE  OneChannel'
  <1>1. \A i \in DOMAIN busq', h \in Hosts, psm \in Psms :
          Queued(i, h, psm)' => Queued(i + gone, h, psm)
    BY DEF Queued
  <1> SUFFICES ASSUME NEW h \in Hosts, NEW psm \in Psms
        PROVE
          /\ \A fd, gd \in Fds :
               Open(fd, h, psm)' /\ Open(gd, h, psm)' => fd = gd
          /\ \A fd \in Fds, i \in DOMAIN busq' :
               ~(Open(fd, h, psm) /\ Queued(i, h, psm))'
          /\ \A i, j \in DOMAIN busq' :
               Queued(i, h, psm)' /\ Queued(j, h, psm)' => i = j
    BY Zenon DEF OneChannel
  <1>2. \A fd, gd \in Fds : Open(fd, h, psm)' /\ Open(gd, h, psm)' => fd = gd
    BY Zenon DEF OneChannel
  <1>3. \A fd \in Fds, i \in DOMAIN busq' :
          ~(Open(fd, h, psm) /\ Queued(i, h, psm))'
    BY <1>1, Zenon DEF OneChannel
  <1>4. ASSUME NEW i \in DOMAIN busq', NEW j \in DOMAIN busq',
               Queued(i, h, psm)', Queued(j, h, psm)'
        PROVE  i = j
    <2>1. i + gone = j + gone
      BY <1>1, <1>4, Zenon DEF OneChannel
    <2>2. i + gone \in DOMAIN busq /\ j + gone \in DOMAIN busq
      BY <1>4
    <2>3. i \in Nat /\ j \in Nat
      BY <1>4
    <2> QED BY <2>1, <2>2, <2>3
  <1> QED BY <1>2, <1>3, <1>4

LEMMA TailShifts ==
  ASSUME NEW S, NEW q \in Seq(S), q # <<>>
  PROVE  \A i \in DOMAIN Tail(q) :
           i + 1 \in DOMAIN q /\ Tail(q)[i] = q[i + 1] /\ i # 0
  OBVIOUS

(* A channel that is taken from the queue becomes open.                      *)
LEMMA ChannelTaken ==
  ASSUME Inv, NextMessage("new"), NEW fd \in Fds,
         fdt' = [fdt EXCEPT ![fd] = Head(busq).channel]
  PROVE  OneChannel'
  <1>1. /\ busq \in Seq(BusMessages) /\ busq # <<>>
        /\ fdt \in [Fds -> Channels \cup {Free}]
        /\ busq' = Tail(busq) /\ Head(busq) = busq[1] /\ 1 \in DOMAIN busq
    BY DEF Inv, TypeOK, ReadyHolds, NextMessage
  <1>2. \A i \in DOMAIN busq' :
          i + 1 \in DOMAIN busq /\ busq'[i] = busq[i + 1] /\ i # 0 /\ i \in Nat
    BY <1>1, TailShifts
  <1>3. \A i \in DOMAIN busq', h \in Hosts, psm \in Psms :
          Queued(i, h, psm)' => Queued(i + 1, h, psm)
    BY <1>2 DEF Queued
  <1>4. \A gd \in Fds, h \in Hosts, psm \in Psms :
          Open(gd, h, psm)' =>
            IF gd = fd THEN Queued(1, h, psm) ELSE Open(gd, h, psm)
    BY <1>1 DEF Open, Queued
  <1> SUFFICES ASSUME NEW h \in Hosts, NEW psm \in Psms
        PROVE
          /\ \A gd, hd \in Fds :
               Open(gd, h, psm)' /\ Open(hd, h, psm)' => gd = hd
          /\ \A gd \in Fds, i \in DOMAIN busq' :
               ~(Open(gd, h, psm) /\ Queued(i, h, psm))'
          /\ \A i, j \in DOMAIN busq' :
               Queued(i, h, psm)' /\ Queued(j, h, psm)' => i = j
    BY Zenon DEF OneChannel
  <1>5. /\ \A gd, hd \in Fds : Open(gd, h, psm) /\ Open(hd, h, psm) => gd = hd
        /\ \A gd \in Fds, i \in DOMAIN busq :
             ~(Open(gd, h, psm) /\ Queued(i, h, psm))
        /\ \A i, j \in DOMAIN busq :
             Queued(i, h, psm) /\ Queued(j, h, psm) => i = j
    BY Zenon DEF Inv, OneChannel
  <1>6. ASSUME NEW gd \in Fds, NEW hd \in Fds,
               Open(gd, h, psm)', Open(hd, h, psm)'
        PROVE  gd = hd
    BY <1>1, <1>4, <1>5, <1>6
  <1>7. ASSUME NEW gd \in Fds, NEW i \in DOMAIN busq',
               Open(gd, h, psm)', Queued(i, h, psm)'
        PROVE  FALSE
    <2>1. Queued(i + 1, h, psm) /\ i + 1 \in DOMAIN busq /\ i + 1 # 1
      BY <1>2, <1>3, <1>7
    <2> QED BY <1>1, <1>4, <1>5, <1>7, <2>1
  <1>8. ASSUME NEW i \in DOMAIN busq', NEW j \in DOMAIN busq',
               Queued(i, h, psm)', Queued(j, h, psm)'
        PROVE  i = j
    <2>1. i + 1 = j + 1
      BY <1>2, <1>3, <1>5, <1>8
    <2> QED BY <1>2, <2>1
  <1> QED BY <1>6, <1>7, <1>8

(* A channel joins the queue when the host has none of its kind.             *)
LEMMA ChannelQueued ==
  ASSUME Inv, NEW h \in Hosts, NEW psm \in Psms, HostConnects(h, psm)
  PROVE  OneChannel'
  <1> DEFINE m == [kind |-> "new",
                   channel |-> [host |-> h, psm |-> psm, input |-> "none"]]
             n == Len(busq) + 1
  <1>1. /\ m \in BusMessages /\ busq \in Seq(BusMessages)
        /\ m.channel.host = h /\ m.channel.psm = psm
        /\ busq' = Append(busq, m) /\ UNCHANGED fdt
    BY DEF BusMessages, Channels, HostConnects, Post, linkVars, Inv, TypeOK
  <1> HIDE DEF m
  <1>2. /\ \A i \in DOMAIN busq' : i = n \/ i \in DOMAIN busq
        /\ \A i \in DOMAIN busq : busq'[i] = busq[i]
        /\ busq'[n] = m
    BY <1>1
  <1> HIDE DEF n
  <1>3. \A fd \in Fds, g \in Hosts, p \in Psms :
          Open(fd, g, p)' = Open(fd, g, p)
    BY <1>1 DEF Open
  <1>4. \A i \in DOMAIN busq', g \in Hosts, p \in Psms :
          Queued(i, g, p)' =>
            IF i = n THEN g = h /\ p = psm
            ELSE i \in DOMAIN busq /\ Queued(i, g, p)
    BY <1>1, <1>2 DEF Queued
  <1>5. /\ \A fd \in Fds : ~Open(fd, h, psm)
        /\ \A i \in DOMAIN busq : ~Queued(i, h, psm)
    BY DEF HostConnects, HasChannel, Open, Queued
  <1> SUFFICES ASSUME NEW g \in Hosts, NEW p \in Psms
        PROVE
          /\ \A fd, gd \in Fds : Open(fd, g, p)' /\ Open(gd, g, p)' => fd = gd
          /\ \A fd \in Fds, i \in DOMAIN busq' :
               ~(Open(fd, g, p) /\ Queued(i, g, p))'
          /\ \A i, j \in DOMAIN busq' :
               Queued(i, g, p)' /\ Queued(j, g, p)' => i = j
    BY Zenon DEF OneChannel
  <1>6. /\ \A fd, gd \in Fds : Open(fd, g, p) /\ Open(gd, g, p) => fd = gd
        /\ \A fd \in Fds, i \in DOMAIN busq : ~(Open(fd, g, p) /\ Queued(i, g, p))
        /\ \A i, j \in DOMAIN busq : Queued(i, g, p) /\ Queued(j, g, p) => i = j
    BY Zenon DEF Inv, OneChannel
  <1> QED BY <1>3, <1>4, <1>5, <1>6

LEMMA OneChannelKept ==
  ASSUME Inv, Next
  PROVE  OneChannel'
  <1> USE DEF linkVars
  <1>0. /\ busq' \in Seq(BusMessages) /\ busq \in Seq(BusMessages)
        /\ fdt \in [Fds -> Channels \cup {Free}]
        /\ ctrl \in Fds \cup {NoFd}
        /\ OneChannel
    BY QueuesType DEF Inv, TypeOK
  <1> DEFINE NoneOpened == \A fd \in Fds, h \in Hosts, psm \in Psms :
                             Open(fd, h, psm)' => Open(fd, h, psm)
  <1>a. ASSUME NoneOpened, UNCHANGED busq PROVE OneChannel'
    <2>1. \A i \in DOMAIN busq' :
            /\ i + 0 \in DOMAIN busq
            /\ busq'[i].channel.host = busq[i + 0].channel.host
            /\ busq'[i].channel.psm = busq[i + 0].channel.psm
      BY <1>0, <1>a
    <2> QED BY <1>0, <1>a, <2>1, FewerChannels
  <1>b. ASSUME NoneOpened, busq # <<>>, busq' = Tail(busq) PROVE OneChannel'
    <2>1. \A i \in DOMAIN busq' :
            /\ i + 1 \in DOMAIN busq
            /\ busq'[i].channel.host = busq[i + 1].channel.host
            /\ busq'[i].channel.psm = busq[i + 1].channel.psm
      BY <1>0, <1>b, TailShifts
    <2> QED BY <1>0, <1>b, <2>1, FewerChannels
  <1>c. ASSUME UNCHANGED fdt PROVE NoneOpened
    BY <1>c DEF Open
  <1>d. ASSUME NEW fds \in SUBSET Fds, fdt' = TableWithout(fds)
        PROVE  NoneOpened
    <2>1. \A h \in Hosts : Free.host # h
      BY ServerAssumption DEF Free
    <2> QED BY <1>d, <2>1 DEF TableWithout, Open
  <1>e. ASSUME HandleDisconnect PROVE NoneOpened
    <2>1. Held \in SUBSET Fds
      BY DEF Held, Inv, TypeOK
    <2> QED BY <1>d, <1>e, <2>1 DEF HandleDisconnect
  <1>f. ASSUME SameChannels PROVE NoneOpened
    BY <1>f DEF SameChannels, Open
  <1>g. ASSUME NextMessage("new") \/ NextMessage("disconnect")
        PROVE  busq # <<>> /\ busq' = Tail(busq)
    BY <1>g DEF NextMessage, Inv, ReadyHolds
  <1> HIDE DEF NoneOpened
  <1>1. CASE Poll
    BY <1>1, <1>a, <1>c DEF Poll
  <1>2. CASE OnControlConnected
    BY <1>2, ChannelTaken DEF OnControlConnected
  <1>3. CASE OnInterruptConnected
    BY <1>3, ChannelTaken DEF OnInterruptConnected
  <1>4. CASE OnConnectionRefused
    BY <1>4, <1>b, <1>c, <1>g DEF OnConnectionRefused
  <1>5. CASE RequestDisconnection
    BY <1>5, <1>b, <1>e, <1>g DEF RequestDisconnection
  <1>6. CASE OnIpcData
    BY <1>6, <1>a, <1>c, <1>e
       DEF OnIpcData, SendReport, ReportDropped, ReportDelivered
  <1>7. ASSUME NEW w \in DOMAIN watches, OnHup(w)
        PROVE  OneChannel'
    BY <1>7, <1>a, <1>e DEF OnHup
  <1>8. ASSUME NEW w \in DOMAIN watches, OnCtrlNone(w)
        PROVE  OneChannel'
    BY <1>8, <1>a, <1>c DEF OnCtrlNone
  <1>9. ASSUME NEW w \in DOMAIN watches, OnCtrlClosed(w)
        PROVE  OneChannel'
    BY <1>9, <1>a, <1>e DEF OnCtrlClosed
  <1>10. ASSUME NEW w \in DOMAIN watches, OnCtrlData(w)
        PROVE  OneChannel'
    <2>1. ctrl \in Fds /\ fdt[ctrl] # Free
      BY <1>10 DEF OnCtrlData, Inv, HeldWatched, TypeOK
    <2>2. SameChannels
      BY <1>10, <2>1, InputRead DEF OnCtrlData, Inv
    <2> QED BY <1>10, <1>a, <1>f, <2>2 DEF OnCtrlData
  <1>11. CASE Stop
    <2>1. \A fd \in Fds, h \in Hosts, psm \in Psms : ~Open(fd, h, psm)'
      BY <1>11, ServerAssumption DEF Stop, TableWithout, Open, Free
    <2>2. DOMAIN busq' = {}
      BY <1>11 DEF Stop
    <2> QED BY <2>1, <2>2 DEF OneChannel
  <1>12. CASE Start
    BY <1>12, <1>a, <1>c DEF Start, Setup, StartIpcSocket
  <1>13. ASSUME NEW h \in Hosts, NEW psm \in Psms, HostConnects(h, psm)
        PROVE  OneChannel'
    BY <1>13, ChannelQueued
  <1>14. CASE BlueZDisconnects
    <2>1. \A h \in Hosts : Free.host # h
      BY ServerAssumption DEF Free
    <2> DEFINE m == [kind |-> "disconnect", channel |-> Free]
    <2>2. m \in BusMessages /\ m.channel.host = Free.host
      BY DEF BusMessages
    <2>3. busq' = Append(busq, m) /\ UNCHANGED fdt
      BY <1>14 DEF BlueZDisconnects, Post
    <2> HIDE DEF m
    <2>4. \A i \in DOMAIN busq' : \/ busq'[i] = m
                                  \/ i \in DOMAIN busq /\ busq'[i] = busq[i]
      BY <1>0, <2>2, <2>3
    <2>5. \A i \in DOMAIN busq', h \in Hosts, psm \in Psms :
            Queued(i, h, psm)' => i \in DOMAIN busq /\ Queued(i, h, psm)
      BY <2>1, <2>2, <2>4 DEF Queued
    <2>6. \A fd \in Fds, h \in Hosts, psm \in Psms :
            Open(fd, h, psm)' => Open(fd, h, psm)
      BY <2>3 DEF Open
    <2> QED BY <1>0, <2>5, <2>6, ZenonT(60) DEF OneChannel
  <1>15. ASSUME NEW fd \in Fds, HostSends(fd)
        PROVE  OneChannel'
    BY <1>15, <1>a, <1>f, InputRead DEF HostSends, Inv
  <1>16. ASSUME NEW fd \in Fds, HostCloses(fd)
        PROVE  OneChannel'
    <2>1. fdt[fd] \in Channels
      BY <1>0, <1>16 DEF HostCloses
    <2>2. fdt' = [fdt EXCEPT ![fd] = [fdt[fd] EXCEPT !.input = "hup"]]
      BY <1>16 DEF HostCloses
    <2>3. \A gd \in Fds : gd # fd => fdt'[gd] = fdt[gd]
      BY <1>0, <2>2
    <2>4. fdt'[fd].input = "hup"
      BY <1>0, <2>1, <2>2 DEF Channels
    <2>5. NoneOpened
      BY <2>3, <2>4 DEF NoneOpened, Open
    <2> QED BY <1>16, <1>a, <2>5 DEF HostCloses
  <1>17. ASSUME NEW i \in DOMAIN busq, HostClosesEarly(i)
        PROVE  OneChannel'
    <2> DEFINE m == [busq[i] EXCEPT !.channel.input = "hup"]
    <2>1. busq[i] \in BusMessages
      BY <1>0
    <2>2. busq[i].channel \in Channels
      BY <1>17, <2>1 DEF HostClosesEarly, BusMessages
    <2>3. busq[i] = [kind |-> "new", channel |-> busq[i].channel]
      BY <1>17, <2>1 DEF HostClosesEarly, BusMessages
    <2>4. m = [kind |-> "new",
               channel |-> [busq[i].channel EXCEPT !.input = "hup"]]
      BY <2>3
    <2>5. /\ m.channel.host = busq[i].channel.host
          /\ m.channel.psm = busq[i].channel.psm
      BY <2>2, <2>4 DEF Channels
    <2>6. busq' = [busq EXCEPT ![i] = m] /\ UNCHANGED fdt
      BY <1>17 DEF HostClosesEarly
    <2> HIDE DEF m
    <2>7. \A j \in DOMAIN busq' :
            /\ j + 0 \in DOMAIN busq
            /\ busq'[j].channel.host = busq[j + 0].channel.host
            /\ busq'[j].channel.psm = busq[j + 0].channel.psm
      BY <1>0, <2>5, <2>6
    <2> QED BY <1>0, <1>c, <2>6, <2>7, FewerChannels DEF NoneOpened
  <1>18. ASSUME NEW e \in KeyEvents, SendKey(e)
        PROVE  OneChannel'
    BY <1>18, <1>a, <1>c DEF SendKey
  <1> QED BY <1>1, <1>2, <1>3, <1>4, <1>5, <1>6, <1>7, <1>8, <1>9, <1>10, <1>11, <1>12, <1>13, <1>14, <1>15, <1>16, <1>17, <1>18
          DEF Next, Server, Host

----------------------------------------------------------------------------
(* The invariant and what it gives.                                          *)

LEMMA InitInv == Init => Inv
  <1> SUFFICES ASSUME Init PROVE Inv
    OBVIOUS
  <1>a. /\ <<>> \in Seq(Watches \cup {Removed}) /\ DOMAIN watches = {}
        /\ <<>> \in Seq(BusMessages) /\ Len(busq) = 0
        /\ <<>> \in Seq(KeyEvents) /\ Len(ipcq) = 0
    BY DEF Init
  <1>b. fdt \in [Fds -> Channels \cup {Free}] /\ MaxNew \in Nat
    BY ServerAssumption DEF Init
  <1>c. seen \in [Hosts -> KeyStates]
    BY AllUpType DEF Init
  <1>d. todo \in [dbus : BOOLEAN, ipc : BOOLEAN, hup : SUBSET (DOMAIN watches),
                  data : SUBSET (DOMAIN watches)]
    BY <1>a DEF Init, NothingReady
  <1>1. TypeOK
    <2> HIDE DEF Watches, BusMessages
    <2>1. connected \in BOOLEAN /\ up \in BOOLEAN /\ registered \in BOOLEAN
      BY DEF Init
    <2>2. opened \in 0..MaxNew
      BY <1>b DEF Init
    <2>3. /\ watches \in Seq(Watches \cup {Removed})
          /\ busq \in Seq(BusMessages) /\ Len(busq) <= BusMax
          /\ ipcq \in Seq(KeyEvents) /\ Len(ipcq) <= IpcMax
      BY <1>a, <1>b, ServerAssumption DEF Init
    <2> QED BY <1>b, <1>c, <1>d, <2>1, <2>2, <2>3 DEF Init, TypeOK
  <1>2. \A h \in Hosts : Free.host # h
    BY ServerAssumption DEF Free
  <1>3. OneChannel
    BY <1>2 DEF Init, OneChannel, Open, Queued
  <1> QED BY <1>1, <1>3 DEF Init, Inv, ReadyHolds, ControlFirst, HeldWatched,
                            NoGhostKeys, NothingReady

LEMMA NextInv == Inv /\ [Next]_vars => Inv'
  <1> SUFFICES ASSUME Inv, [Next]_vars PROVE Inv'
    OBVIOUS
  <1>1. CASE Next
    BY <1>1, TypeKept, ReadyStaysTrue, LinkKept, OneChannelKept, GhostsKept
       DEF Inv
  <1>2. CASE UNCHANGED vars
    BY <1>2 DEF vars, linkVars, Inv, TypeOK, ReadyHolds, ControlFirst,
                OneChannel, Open, Queued, HeldWatched, Watched, NoGhostKeys
  <1> QED BY <1>1, <1>2

(* The invariant holds in every behaviour of the server and its hosts.       *)
THEOREM InvHolds == Spec => []Inv
  BY InitInv, NextInv, PTL DEF Spec

(* Sockets, queues, watches and the sources found ready keep their types:    *)
(* in particular no ready source refers to a watch that does not exist, and  *)
(* BlueZ's queue holds channels of hosts only.                               *)
THEOREM TypeCorrect == Spec => []TypeOK
  <1>1. Inv => TypeOK
    BY DEF Inv
  <1> QED BY <1>1, InvHolds, PTL

(* A host believes a key to be down only while _intr_client is its open      *)
(* interrupt channel, so that the server can still release the key.          *)
THEOREM NoKeyLeftDown == Spec => []NoGhostKeys
  <1>1. Inv => NoGhostKeys
    BY DEF Inv
  <1> QED BY <1>1, InvHolds, PTL

(* Whatever watches earlier sessions left on reused descriptors, a channel   *)
(* that is held is open and watched for its end.                             *)
THEOREM HeldAreWatched == Spec => []HeldWatched
  <1>1. Inv => HeldWatched
    BY DEF Inv
  <1> QED BY <1>1, InvHolds, PTL

----------------------------------------------------------------------------
(* The refinement of KeyboardLink.                                           *)

LEMMA LinkedInt ==
  ASSUME Inv
  PROVE  /\ LinkedHost # NoHost => /\ LinkedHost \in Hosts
                                   /\ connected /\ intr \in Fds
                                   /\ fdt[intr].host = LinkedHost
                                   /\ fdt[intr].psm = InterruptPsm
                                   /\ fdt[intr].input # "hup"
         /\ \A h \in Hosts : h # LinkedHost => seen[h] = AllUp
  <1>1. connected => intr \in Fds /\ fdt[intr] \in Channels
    BY DEF Inv, HeldWatched, TypeOK
  <1>2. \A c \in Channels : c.host \in Hosts
    BY DEF Channels
  <1> QED BY <1>1, <1>2 DEF LinkedHost, Inv, NoGhostKeys

LEMMA InitRefines == Init => Abstract!Init
  BY DEF Init, Abstract!Init, LinkedHost, AllUp, Abstract!AllUp

(* _handle_disconnect() and stop() end the link, or forget the modifiers.    *)
LEMMA LetGoRefines ==
  ASSUME Inv, LetGo
  PROVE  Abstract!Unlink \/ Abstract!Forget
  <1>1. LinkedHost' = NoHost
    BY DEF LetGo, LinkedHost
  <1>2. seen \in [Hosts -> KeyStates]
    BY DEF Inv, TypeOK
  <1>3. CASE LinkedHost = NoHost
    <2>1. seen' = seen
      BY <1>2, <1>3, LinkedInt, ServerAssumption DEF LetGo
    <2> QED BY <1>1, <1>3, <2>1 DEF LetGo, Abstract!Forget
  <1>4. CASE LinkedHost # NoHost
    <2>1. seen' = [seen EXCEPT ![LinkedHost] = AllUp]
      BY <1>2, <1>4, LinkedInt DEF LetGo
    <2> QED BY <1>1, <1>4, <2>1 DEF LetGo, Abstract!Unlink, AllUp,
                                    Abstract!AllUp
  <1> QED BY <1>3, <1>4

(* A report is seen by the linked host, or by none.                          *)
LEMMA ReportRefines ==
  ASSUME Inv, Reported
  PROVE  Abstract!Next
  <1> DEFINE c == Head(ipcq).code
             d == Head(ipcq).pressed
             m == ModsAfter(Head(ipcq))
             k == KeyAfter(Head(ipcq))
  <1>1. c \in Modifiers \cup Keys /\ d \in BOOLEAN
    BY EventType DEF Inv, Reported, OnIpcData
  <1>2. m = Abstract!HeldAfter(c, d) /\ k = Abstract!KeyAfter(c, d)
    BY DEF ModsAfter, KeyAfter, Abstract!HeldAfter, Abstract!KeyAfter
  <1>3. seen \in [Hosts -> KeyStates]
    BY DEF Inv, TypeOK
  <1>4. mods' = m
    BY DEF Reported, ReportDropped, ReportDelivered
  <1>5. LinkedHost' = LinkedHost
    BY DEF Reported, ReportDropped, ReportDelivered, LinkedHost
  <1>6. seen' = [h \in Hosts |-> IF h = LinkedHost
                                 THEN [mods |-> m, key |-> k] ELSE seen[h]]
    <2> HIDE DEF m, k
    <2>1. CASE ReportDropped(m)
      BY <1>3, <2>1, ServerAssumption DEF ReportDropped, LinkedHost
    <2>2. CASE ReportDelivered(m, k)
      BY <2>2, ServerAssumption DEF ReportDelivered, LinkedHost
    <2> QED BY <2>1, <2>2 DEF Reported, m, k
  <1>7. Abstract!KeyEvent(c, d)
    <2> HIDE DEF m, k, c, d
    <2> QED BY <1>2, <1>4, <1>5, <1>6 DEF Abstract!KeyEvent
  <1> QED BY <1>1, <1>7 DEF Abstract!Next

(* The interrupt channel arrives.                                            *)
LEMMA ConnectRefines ==
  ASSUME Inv, OnInterruptConnected
  PROVE  Abstract!Next \/ UNCHANGED Abstract!vars
  <1>1. PICK fd \in Fds : /\ intr' = fd /\ connected' = TRUE
                          /\ fdt' = [fdt EXCEPT ![fd] = Head(busq).channel]
    BY DEF OnInterruptConnected
  <1>2. fdt'[fd] = Head(busq).channel /\ Head(busq).channel \in Channels
    BY <1>1, NewChannelType DEF Inv, TypeOK, OnInterruptConnected
  <1>3. fdt'[fd].host \in Hosts
    BY <1>2 DEF Channels
  <1>4. LinkedHost = NoHost
    BY DEF LinkedHost, Inv, HeldWatched, OnInterruptConnected
  <1>5. LinkedHost' \in Hosts \/ LinkedHost' = NoHost
    BY <1>1, <1>3 DEF LinkedHost
  <1>6. UNCHANGED <<mods, seen>>
    BY DEF OnInterruptConnected
  <1> QED BY <1>4, <1>5, <1>6 DEF Abstract!Next, Abstract!Link, Abstract!vars

(* A host closes a channel: the link ends, or it was another channel.        *)
LEMMA CloseRefines ==
  ASSUME Inv, NEW fd \in Fds, HostCloses(fd)
  PROVE  Abstract!Next \/ UNCHANGED Abstract!vars
  <1>0. /\ fdt \in [Fds -> Channels \cup {Free}]
        /\ seen \in [Hosts -> KeyStates]
        /\ UNCHANGED <<mods, intr, connected>>
    BY DEF Inv, TypeOK, HostCloses
  <1>1. fdt[fd] \in Channels
    BY <1>0 DEF HostCloses
  <1>2. fdt' = [fdt EXCEPT ![fd] = [fdt[fd] EXCEPT !.input = "hup"]]
    BY DEF HostCloses
  <1>3. /\ fdt'[fd].input = "hup"
        /\ \A gd \in Fds : gd # fd => fdt'[gd] = fdt[gd]
    BY <1>0, <1>1, <1>2 DEF Channels
  <1>4. CASE LinkedHost # NoHost /\ intr = fd
    <2>1. LinkedHost' = NoHost
      BY <1>0, <1>3, <1>4 DEF LinkedHost
    <2>2. /\ fdt[fd].host = LinkedHost /\ fdt[fd].psm = InterruptPsm
          /\ \A h \in Hosts : h # LinkedHost => seen[h] = AllUp
      BY <1>4, LinkedInt
    <2>3. seen' = [h \in Hosts |->
                     IF \E gd \in {fd} : /\ fdt[gd].host = h
                                         /\ fdt[gd].psm = InterruptPsm
                     THEN AllUp ELSE seen[h]]
      BY DEF HostCloses, SeenWithout
    <2>4. seen' = [seen EXCEPT ![LinkedHost] = AllUp]
      BY <1>0, <2>2, <2>3
    <2> QED BY <1>0, <1>4, <2>1, <2>4
            DEF Abstract!Next, Abstract!Unlink, AllUp, Abstract!AllUp
  <1>5. CASE LinkedHost = NoHost
    <2>1. LinkedHost' = NoHost
      <3>1. connected => intr \in Fds
        BY DEF Inv, HeldWatched, TypeOK
      <3> QED BY <1>0, <1>3, <1>5, <3>1 DEF LinkedHost
    <2>2. seen' = seen
      BY <1>0, <1>5, LinkedInt, ServerAssumption DEF HostCloses, SeenWithout
    <2> QED BY <1>0, <1>5, <2>1, <2>2 DEF Abstract!vars
  <1>6. CASE LinkedHost # NoHost /\ intr # fd
    <2>1. LinkedHost' = LinkedHost
      BY <1>0, <1>3, <1>6, LinkedInt DEF LinkedHost
    <2>2. ~(fdt[fd].host = LinkedHost /\ fdt[fd].psm = InterruptPsm)
      BY <1>6, LinkedInt DEF Inv, OneChannel, Open, HostCloses, Psms
    <2>3. seen' = seen
      BY <1>0, <2>2, LinkedInt DEF HostCloses, SeenWithout
    <2> QED BY <1>0, <2>1, <2>3 DEF Abstract!vars
  <1> QED BY <1>4, <1>5, <1>6

LEMMA StepRefines ==
  ASSUME Inv, [Next]_vars
  PROVE  [Abstract!Next]_Abstract!vars
  <1>1. CASE UNCHANGED vars
    BY <1>1 DEF vars, linkVars, Abstract!vars, LinkedHost
  <1>2. CASE Quiet /\ WatchesKept
    <2>1. connected => intr \in Fds
      BY DEF Inv, HeldWatched, TypeOK
    <2>2. LinkedHost' = LinkedHost
      BY <1>2, <2>1 DEF Quiet, SameChannels, LinkedHost
    <2> QED BY <1>2, <2>2 DEF Quiet, Abstract!vars
  <1>3. CASE LetGo
    BY <1>3, LetGoRefines DEF Abstract!Next
  <1>4. CASE OnControlConnected
    <2>1. ~connected /\ ~connected'
      BY <1>4 DEF Inv, ControlFirst, HeldWatched, OnControlConnected
    <2>2. LinkedHost' = LinkedHost
      BY <2>1 DEF LinkedHost
    <2> QED BY <1>4, <2>2 DEF OnControlConnected, Abstract!vars
  <1>5. CASE Next
    BY <1>2, <1>3, <1>4, <1>5, StepKinds, ConnectRefines, ReportRefines,
       CloseRefines
  <1> QED BY <1>1, <1>5

(* The server keeps the promise of KeyboardLink, for any number of hosts,    *)
(* keys and channels: one computer linked at a time, its keys released when  *)
(* the link ends, modifiers forgotten only without a link.                   *)
THEOREM KeepsLink == Spec => ImplementsLink
  BY InitRefines, StepRefines, InvHolds, PTL
     DEF Spec, ImplementsLink, Abstract!Spec

=============================================================================
