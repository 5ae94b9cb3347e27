------------------------------- MODULE MenuUI -------------------------------
(* The touch menu, src/src/menu_ui.py: a main loop, the live-probe worker   *)
(* and the scan worker, which share the UI's fields without a lock, with    *)
(* the user, BlueZ and the computers around.                                *)
(*                                                                          *)
(* A step goes from one wait to the next one: for select(), for a program   *)
(* that asks BlueZ, scans or connects, and for the paint of a worker.  What *)
(* two threads write (the messages, the results of a scan and its flag) is  *)
(* written one field a step.  The clock is read once per decision, so what  *)
(* is due is a free choice there.                                          *)
(* A frame shows what the fields hold when it is painted (Framebuffer has   *)
(* the paint itself).                                                       *)
EXTENDS MenuLayout, FiniteSets, SequencesExt

CONSTANTS
  Names,       \* every computer, in the order of its name
  NoMac,
  Nearby,      \* the sets of computers that a scan may find
  Points,      \* places of the screen that the user taps
  MaxInputs,   \* bound on the toggles and taps of a behaviour
  MaxChanges,  \* bound on changes at the computers and failed answers
  MaxPending   \* bound on the taps that wait in the touch device

Macs == ToSet(Names)

ASSUME MenuAssumption ==
  /\ Names \in Seq(Macs) /\ IsInjective(Names) /\ NoMac \notin Macs
  /\ Nearby \subseteq SUBSET Macs /\ {} \in Nearby
  /\ Points \subseteq (0..FbWidth - 1) \X (0..FbHeight - 1)
  /\ MaxInputs \in Nat /\ MaxChanges \in Nat /\ MaxPending \in Nat \ {0}

VARIABLES
  (* the fields of MenuUI *)
  visible, hosts, results, scanning,
  error,         \* last_error
  status,        \* home_status
  until,         \* _home_status_until is set
  live,          \* _live_macs
  confirm,       \* the mac of confirm_delete, or NoMac
  (* the main loop *)
  pc, ret,       \* its place, and where it goes on after a refresh or a draw
  message,       \* what it is writing to the three fields of the status
  snap,          \* what BlueZ answered to refresh_hosts()
  target,        \* the host that is being connected or removed
  ready,         \* what select() reported
  events,        \* taps read from the device and not handled yet
  (* the workers *)
  ppc, psnap, targets,   \* live probe
  scan,                  \* place of the scan worker
  tails,                 \* how many look and paint after their scan
  (* the outside *)
  screen,        \* the last frame
  menuq, taps,   \* a toggle command and taps that wait
  paired, linked,                  \* computers paired and connected
  inputs, changes,                 \* how many there have been
  named          \* observer: the host in the confirm dialog painted

notes     == <<error, status, until>>
fields    == <<visible, hosts, results, scanning, notes, live, confirm>>
mainVars  == <<pc, ret, message, snap, target, ready, events>>
probeVars == <<ppc, psnap, targets>>
scanVars  == <<scan, tails>>
userVars  == <<menuq, taps, inputs>>
world     == <<paired, linked, changes>>
frame     == <<screen, named>>
vars == <<fields, mainVars, probeVars, scanVars, userVars, world, frame>>

(* "status" is any of "connecting...", "connected" and "connect failed".    *)
Messages == {"none", "status", "failure"}

HostStates == [mac : Macs, connected : BOOLEAN, live : BOOLEAN]
Snapshots  == [paired : SUBSET Macs, linked : SUBSET Macs]
NoAnswer   == [paired |-> {}, linked |-> {}]
NotReady   == [menu |-> FALSE, touch |-> FALSE]

Views == [overlay : BOOLEAN, hosts : Seq(HostStates), scanning : BOOLEAN,
          results : Seq(Macs), banner : Messages, confirm : Macs \cup {NoMac}]

Taps == [x : 0..FbWidth - 1, y : 0..FbHeight - 1,
         aim : [do : {"nothing", "connect", "yes", "no", "close", "delete", "scan"},
                mac : Macs \cup {NoMac}]]

TypeOK ==
  /\ visible \in BOOLEAN /\ scanning \in BOOLEAN
  /\ hosts \in Seq(HostStates) /\ results \in Seq(Macs)
  /\ error \in Messages /\ status \in {"none", "status"} /\ until \in BOOLEAN
  /\ live \subseteq Macs /\ confirm \in Macs \cup {NoMac}
  /\ pc \in {"select", "refresh", "store", "probe", "menu", "touch", "taps",
             "error", "status", "until", "drop", "draw",
             "connect", "pair", "again", "remove"}
  /\ ret \in {"select", "probe", "menu", "touch", "taps", "connect"}
  /\ message \in {"none", "status"}
  /\ snap \in Snapshots /\ target \in Macs \cup {NoMac}
  /\ ready \in [menu : BOOLEAN, touch : BOOLEAN]
  /\ events \in Seq(Taps)
  /\ ppc \in {"none", "scan", "refresh", "store", "home", "overlay",
              "error", "status", "until"}
  /\ psnap \in Snapshots /\ targets \subseteq Macs
  /\ scan \in {"none", "search", "drop", "end"} /\ tails \in [look : Nat, paint : Nat]
  /\ screen \in Views /\ named \in Macs \cup {NoMac}
  /\ menuq \in BOOLEAN /\ taps \in Seq(Taps) /\ Len(taps) <= MaxPending
  /\ paired \subseteq Macs /\ linked \subseteq Macs
  /\ inputs \in 0..MaxInputs /\ changes \in 0..MaxChanges

----------------------------------------------------------------------------
(* Lists and frames.                                                       *)

(* The members of S in the order of lt. *)
Sorted(S, lt(_, _)) ==
  CHOOSE s \in SetToSeqs(S) : \A i, j \in DOMAIN s : i < j => lt(s[i], s[j])

Before(m, n) == \E i, j \in DOMAIN Names : i < j /\ Names[i] = m /\ Names[j] = n

ByName(S) == Sorted(S, Before)

(* build_host_state(): connected hosts first, then live ones, then by name. *)
Rank(h) == IF h.connected THEN 0 ELSE IF h.live THEN 1 ELSE 2

HostBefore(g, h) ==
  Rank(g) < Rank(h) \/ (Rank(g) = Rank(h) /\ Before(g.mac, h.mac))

Host(m, answer, liveMacs) ==
  [mac |-> m, connected |-> m \in answer.linked,
   live |-> m \in answer.linked \cup liveMacs]

HostList(answer, liveMacs) ==
  Sorted({Host(m, answer, liveMacs) : m \in answer.paired}, HostBefore)

(* What paired_hosts() and dbus_get_connected() find: no host at all when   *)
(* hciconfig fails, and no connection of a host whose answer takes too long *)
(* (run_cmd()).  Only paired hosts are asked whether they are connected.    *)
Answer == [paired |-> paired, linked |-> linked \cap paired]

Answers ==
  IF changes = MaxChanges THEN {Answer}
  ELSE {NoAnswer} \cup {[paired |-> paired, linked |-> l] :
                        l \in SUBSET (linked \cap paired)}

Ask(counted) == UNCHANGED <<userVars, paired, linked>>
                /\ changes' = IF counted THEN changes + 1 ELSE changes

HomeView(list, text) ==
  [overlay |-> FALSE, hosts |-> list, scanning |-> FALSE, results |-> <<>>,
   banner |-> text, confirm |-> NoMac]

(* draw() and draw_idle() paint the fields as the step leaves them. *)
Draw ==
  /\ screen' = [overlay |-> TRUE, hosts |-> hosts', scanning |-> scanning',
                results |-> results', banner |-> error', confirm |-> confirm']
  /\ named' = IF confirm' # NoMac THEN confirm' ELSE named

DrawIdle == screen' = HomeView(hosts', status') /\ UNCHANGED named

Paint == IF visible' THEN Draw ELSE DrawIdle

(* The fields after start-up, but for the surface, the probe and the bounds. *)
Started ==
  /\ results = <<>> /\ scanning = FALSE
  /\ error = "none" /\ status = "none" /\ until = FALSE
  /\ live = {} /\ confirm = NoMac
  /\ pc = "select" /\ ret = "select" /\ message = "none"
  /\ snap = NoAnswer /\ target = NoMac
  /\ ready = NotReady /\ events = <<>>
  /\ psnap = NoAnswer
  /\ scan = "none" /\ tails = [look |-> 0, paint |-> 0]
  /\ menuq = FALSE /\ taps = <<>>
  /\ paired \in SUBSET Macs /\ linked \in SUBSET paired
  /\ hosts = HostList(Answer, {})
  /\ named = NoMac

Init ==
  /\ Started
  /\ visible = FALSE /\ screen = HomeView(hosts, "none")
  /\ ppc = "none" /\ targets = {}
  /\ inputs = 0 /\ changes = 0

----------------------------------------------------------------------------
(* The main loop.                                                          *)

NoInput  == UNCHANGED <<userVars, world>>
NoWorker == UNCHANGED <<probeVars, scanVars>>

AfterMenu   == IF ready.touch THEN "touch" ELSE "select"
AfterProbe  == IF ready.menu THEN "menu" ELSE AfterMenu
AfterTap(l) == IF l # <<>> THEN "taps" ELSE "select"

At(place) == pc' = place /\ UNCHANGED <<ret, message>>

(* The main loop goes on after a refresh or a draw. *)
GoOn(after) ==
  /\ pc' = CASE after = "menu"  -> AfterProbe
             [] after = "touch" -> AfterMenu
             [] after = "taps"  -> AfterTap(events')
             [] OTHER           -> after
  /\ ret' = "select" /\ message' = "none"

(* refresh_hosts(), which the main loop waits for before it goes on.       *)
Refresh(after) == pc' = "refresh" /\ ret' = after /\ message' = "none"

(* _set_status(), or the writes of _clear_expired_status(), begin.         *)
Write(text, after) == pc' = "error" /\ ret' = after /\ message' = text

(* A mutant: a status message never expires.                               *)
DrawCurrentMutant(after) == Paint /\ GoOn(after)

(* draw_current().  Before the home surface is painted, the time of the    *)
(* status is found over, or not.                                           *)
DrawCurrent(after) ==
  \/ Paint /\ GoOn(after)
  \/ ~visible' /\ until /\ Write("none", after) /\ UNCHANGED frame

(* select() returns with what waits.  The refresh of every two seconds is   *)
(* due or not, and suspended by a confirm dialog; an iteration that finds   *)
(* nothing to do is left out.                                               *)
Select ==
  /\ pc = "select"
  /\ ready' = [menu |-> menuq, touch |-> taps # <<>>]
  /\ \/ confirm = NoMac /\ Refresh("probe")
     \/ ready' # NotReady /\ At("probe")
  /\ UNCHANGED <<fields, snap, target, events, frame>>
  /\ NoInput /\ NoWorker

(* A confirm dialog waits for the user.                                    *)
Wait == pc = "select" /\ confirm # NoMac /\ UNCHANGED vars

RefreshAsk ==
  /\ pc = "refresh"
  /\ snap' \in Answers /\ Ask(snap' # Answer)
  /\ At("store")
  /\ UNCHANGED <<fields, target, ready, events, frame>>
  /\ NoWorker

(* A mutant: the periodic refresh of the home surface is not drawn.        *)
RefreshStoreMutant ==
  /\ pc = "store"
  /\ hosts' = HostList(snap, live) /\ snap' = NoAnswer
  /\ UNCHANGED <<visible, results, scanning, notes, live, confirm, target, ready,
                 events>>
  /\ IF ret = "menu" \/ (ret = "probe" /\ ~visible)
     THEN GoOn(ret) /\ UNCHANGED frame ELSE DrawCurrent(ret)
  /\ NoInput /\ NoWorker

(* A draw follows, except when the refresh found no host to probe for      *)
(* (ret = "menu").                                                         *)
RefreshStore ==
  /\ pc = "store"
  /\ hosts' = HostList(snap, live) /\ snap' = NoAnswer
  /\ UNCHANGED <<visible, results, scanning, notes, live, confirm, target, ready,
                 events>>
  /\ IF ret = "menu" THEN GoOn("menu") /\ UNCHANGED frame ELSE DrawCurrent(ret)
  /\ NoInput /\ NoWorker

(* _start_live_probe(), on the home surface, twenty seconds since the last. *)
ProbeTargets == IF hosts # <<>> THEN {hosts[i].mac : i \in DOMAIN hosts} ELSE paired

CanProbe == ~visible /\ ~scanning /\ ppc = "none"

StartProbe ==
  /\ pc = "probe" /\ CanProbe /\ ProbeTargets # {}
  /\ ppc' = "scan" /\ targets' = ProbeTargets
  /\ At(AfterProbe)
  /\ UNCHANGED <<fields, snap, target, ready, events, psnap, scanVars, frame>>
  /\ NoInput

NothingToProbe ==
  /\ pc = "probe" /\ CanProbe /\ ProbeTargets = {}
  /\ live' = {}
  /\ Refresh("menu")
  /\ UNCHANGED <<visible, hosts, results, scanning, notes, confirm, snap, target,
                 ready, events, frame>>
  /\ NoInput /\ NoWorker

SkipProbe ==
  /\ pc = "probe"
  /\ At(AfterProbe)
  /\ UNCHANGED <<fields, snap, target, ready, events, frame>>
  /\ NoInput /\ NoWorker

(* toggle(): the overlay opens with a refresh, the home surface at once.   *)
Toggle(after) ==
  /\ visible' = ~visible
  /\ confirm' = NoMac /\ error' = "none"
  /\ UNCHANGED <<hosts, results, scanning, status, until, live>>
  /\ IF visible THEN DrawCurrent(after) ELSE Refresh(after) /\ UNCHANGED frame

OnMenuSocket ==
  /\ pc = "menu"
  /\ menuq' = FALSE /\ ready' = [ready EXCEPT !.menu = FALSE]
  /\ UNCHANGED <<snap, target, events, taps, inputs, world>> /\ NoWorker
  /\ Toggle("touch")

(* read_events() takes all that waits; the taps are handled one by one.    *)
ReadEvents ==
  /\ pc = "touch"
  /\ events' = taps /\ taps' = <<>>
  /\ ready' = [ready EXCEPT !.touch = FALSE]
  /\ At("taps")
  /\ UNCHANGED <<fields, snap, target, frame, menuq, inputs, world>>
  /\ NoWorker

----------------------------------------------------------------------------
(* on_tap().                                                               *)

(* The surface that a tap is matched with: the fields as they are.         *)
Surface == [overlay |-> visible, hosts |-> hosts, results |-> results,
            confirm |-> confirm]

Hit == HitTest(Surface, Head(events).x, Head(events).y, NoMac)

Asked(what) ==
  /\ pc = "taps" /\ Hit.do = what
  /\ events' = Tail(events)
  /\ UNCHANGED <<snap, ready>>
  /\ NoInput

(* _set_status("connecting..."), and a draw before the connection.         *)
TapConnect ==
  /\ Asked("connect")
  /\ target' = Hit.mac
  /\ Write("status", "connect")
  /\ UNCHANGED <<fields, frame>>
  /\ NoWorker

TapDelete ==
  /\ Asked("delete")
  /\ confirm' = Hit.mac
  /\ UNCHANGED <<visible, hosts, results, scanning, notes, live, target>>
  /\ NoWorker
  /\ Draw /\ GoOn("taps")

(* A mutant: "yes" removes the host that is on the first row by then.       *)
TapYesMutant ==
  /\ Asked("yes")
  /\ target' = IF hosts = <<>> THEN confirm ELSE hosts[1].mac
  /\ confirm' = NoMac
  /\ At("remove")
  /\ UNCHANGED <<visible, hosts, results, scanning, notes, live, frame>>
  /\ NoWorker

TapYes ==
  /\ Asked("yes")
  /\ target' = confirm
  /\ confirm' = NoMac
  /\ At("remove")
  /\ UNCHANGED <<visible, hosts, results, scanning, notes, live, frame>>
  /\ NoWorker

TapNo ==
  /\ Asked("no")
  /\ confirm' = NoMac
  /\ UNCHANGED <<visible, hosts, results, scanning, notes, live, target>>
  /\ NoWorker
  /\ Draw /\ GoOn("taps")

TapClose ==
  /\ Asked("close")
  /\ Toggle("taps")
  /\ UNCHANGED target
  /\ NoWorker

(* _start_scan_thread() raises the flag, unless a scan is running ...      *)
TapScan ==
  /\ Asked("scan")
  /\ scanning' = TRUE
  /\ UNCHANGED <<visible, hosts, results, notes, live, confirm, target>>
  /\ NoWorker
  /\ IF scanning THEN Draw /\ GoOn("taps") ELSE At("drop") /\ UNCHANGED frame

(* ... drops the results of the last scan and starts the thread,           *)
DropResults ==
  /\ pc = "drop"
  /\ results' = <<>> /\ scan' = "search"
  /\ At("draw")
  /\ UNCHANGED <<visible, hosts, scanning, notes, live, confirm, snap, target,
                 ready, events, probeVars, tails, frame>>
  /\ NoInput

(* and a draw follows.                                                     *)
DrawScan ==
  /\ pc = "draw"
  /\ UNCHANGED <<fields, snap, target, ready, events>>
  /\ NoInput /\ NoWorker
  /\ Draw /\ GoOn("taps")

TapNothing ==
  /\ Asked("nothing")
  /\ GoOn("taps")
  /\ UNCHANGED <<fields, target, frame>>
  /\ NoWorker

----------------------------------------------------------------------------
(* The three writes of _set_status(), message # "none", and of              *)
(* _clear_expired_status().                                                *)

Writing == UNCHANGED <<visible, hosts, results, scanning, live, confirm, snap,
                       target, ready, events>> /\ NoInput /\ NoWorker

WriteError ==
  /\ pc = "error" /\ Writing
  /\ error' = message
  /\ At("status")
  /\ UNCHANGED <<status, until, frame>>

(* A mutant: the status is taken from last_error.                          *)
WriteStatusMutant ==
  /\ pc = "status" /\ Writing
  /\ status' = error
  /\ At("until")
  /\ UNCHANGED <<error, until, frame>>

WriteStatus ==
  /\ pc = "status" /\ Writing
  /\ status' = message
  /\ At("until")
  /\ UNCHANGED <<error, until, frame>>

(* After a connection the hosts are refreshed; otherwise a draw follows,    *)
(* which finds the time that has just been set not over.                   *)
WriteUntil ==
  /\ pc = "until" /\ Writing
  /\ until' = (message # "none")
  /\ UNCHANGED <<error, status>>
  /\ IF message # "none" /\ ret = "taps"
     THEN Refresh("taps") /\ UNCHANGED frame ELSE Paint /\ GoOn(ret)

----------------------------------------------------------------------------
(* _attempt_connect_device() and the removal, which block the main loop.   *)

Blocked == UNCHANGED <<visible, hosts, results, scanning, status, until, live,
                       confirm, snap, ready, events, userVars, changes>> /\ NoWorker

Report == target' = NoMac /\ Write("status", "taps") /\ UNCHANGED <<error, frame>>

Step(next) == At(next) /\ UNCHANGED <<error, target, frame>>

(* dbus_connect(), or "bluetoothctl connect" with "Connection successful". *)
Connected == linked' = linked \cup {target} /\ UNCHANGED paired

(* Device1.Connect or "bluetoothctl connect"; then pair, trust, connect.   *)
Connect ==
  /\ pc = "connect" /\ Blocked
  /\ \/ Connected /\ Report
     \/ Step("pair") /\ UNCHANGED <<paired, linked>>

PairTarget ==
  /\ pc = "pair" /\ Blocked
  /\ \/ paired' = paired \cup {target} /\ UNCHANGED linked /\ Step("again")
     \/ Report /\ UNCHANGED <<paired, linked>>

ConnectAgain ==
  /\ pc = "again" /\ Blocked
  /\ \/ Connected /\ Report
     \/ Report /\ UNCHANGED <<paired, linked>>

(* dbus_remove() fails for a host that is no longer paired, and when the   *)
(* answer of BlueZ takes too long, with the host removed or not.           *)
RemoveTarget ==
  /\ pc = "remove" /\ Blocked
  /\ \/ target \in paired /\ UNCHANGED error
     \/ error' = "failure"
  /\ \/ paired' = paired \ {target} /\ linked' = linked \ {target}
     \/ error' = "failure" /\ UNCHANGED <<paired, linked>>
  /\ target' = NoMac /\ named' = NoMac
  /\ Refresh("taps")
  /\ UNCHANGED screen

Main ==
  \/ Select \/ Wait \/ RefreshAsk \/ RefreshStore
  \/ StartProbe \/ NothingToProbe \/ SkipProbe \/ OnMenuSocket \/ ReadEvents
  \/ TapConnect \/ TapDelete \/ TapYes \/ TapNo \/ TapClose \/ TapScan
  \/ DropResults \/ DrawScan \/ TapNothing
  \/ WriteError \/ WriteStatus \/ WriteUntil
  \/ Connect \/ PairTarget \/ ConnectAgain \/ RemoveTarget

----------------------------------------------------------------------------
(* The live-probe worker.  The scan finds some of the hosts, or fails and   *)
(* finds none; draw_current() looks at the surface before it paints, and    *)
(* the home surface is cleared of a status whose time is over.             *)

Worker == UNCHANGED mainVars /\ NoInput

ProbeScan ==
  /\ ppc = "scan"
  /\ live' \in {targets \cap S : S \in Nearby}
  /\ ppc' = "refresh" /\ targets' = {}
  /\ UNCHANGED <<visible, hosts, results, scanning, notes, confirm,
                 psnap, scanVars, frame>>
  /\ Worker

ProbeAsk ==
  /\ ppc = "refresh"
  /\ psnap' \in Answers /\ Ask(psnap' # Answer)
  /\ ppc' = "store"
  /\ UNCHANGED <<fields, targets, scanVars, frame, mainVars>>

ProbeStore ==
  /\ ppc = "store"
  /\ hosts' = HostList(psnap, live) /\ psnap' = NoAnswer
  /\ ppc' = IF visible THEN "overlay" ELSE "home"
  /\ UNCHANGED <<visible, results, scanning, notes, live, confirm,
                 targets, scanVars, frame>>
  /\ Worker

ProbePaint ==
  /\ ppc \in {"home", "overlay"}
  /\ UNCHANGED <<fields, psnap, targets, scanVars>>
  /\ Worker
  /\ \/ ppc' = "none" /\ IF ppc = "home" THEN DrawIdle ELSE Draw
     \/ ppc = "home" /\ until /\ ppc' = "error" /\ UNCHANGED frame

Clearing == UNCHANGED <<visible, hosts, results, scanning, live, confirm, psnap,
                        targets, scanVars>> /\ Worker

ClearError ==
  /\ ppc = "error" /\ Clearing
  /\ error' = "none" /\ ppc' = "status"
  /\ UNCHANGED <<status, until, frame>>

ClearStatus ==
  /\ ppc = "status" /\ Clearing
  /\ status' = "none" /\ ppc' = "until"
  /\ UNCHANGED <<error, until, frame>>

ClearUntil ==
  /\ ppc = "until" /\ Clearing
  /\ until' = FALSE /\ ppc' = "none"
  /\ UNCHANGED <<error, status>>
  /\ DrawIdle

ProbeWorker ==
  \/ ProbeScan \/ ProbeAsk \/ ProbeStore \/ ProbePaint
  \/ ClearError \/ ClearStatus \/ ClearUntil

----------------------------------------------------------------------------
(* The scan worker.  scan_devices() finds some computers, or fails and      *)
(* finds none, or raises.  The next scan may begin before the last one's    *)
(* worker has ended.                                                       *)

Scanning == UNCHANGED <<visible, hosts, status, until, live, confirm, probeVars>>
            /\ Worker

Scans == {ByName(S) : S \in Nearby}

ScanFinds ==
  /\ scan = "search" /\ Scanning
  /\ results' \in Scans
  /\ scan' = "end"
  /\ UNCHANGED <<scanning, error, tails, frame>>

ScanRaises ==
  /\ scan = "search" /\ Scanning
  /\ error' = "failure"
  /\ scan' = "drop"
  /\ UNCHANGED <<results, scanning, tails, frame>>

(* A mutant: no "finally", and the flag stays up when the scan raises.     *)
ScanDropsMutant ==
  /\ scan = "drop" /\ Scanning
  /\ results' = <<>>
  /\ scan' = "none"
  /\ UNCHANGED <<scanning, error, tails, frame>>

ScanDrops ==
  /\ scan = "drop" /\ Scanning
  /\ results' = <<>>
  /\ scan' = "end"
  /\ UNCHANGED <<scanning, error, tails, frame>>

ScanEnds ==
  /\ scan = "end" /\ Scanning
  /\ scanning' = FALSE
  /\ scan' = "none" /\ tails' = [tails EXCEPT !.look = @ + 1]
  /\ UNCHANGED <<results, error, frame>>

ScanLooks ==
  /\ tails.look > 0 /\ Scanning
  /\ tails' = [look |-> tails.look - 1,
               paint |-> IF visible THEN tails.paint + 1 ELSE tails.paint]
  /\ UNCHANGED <<results, scanning, error, scan, frame>>

ScanPaint ==
  /\ tails.paint > 0 /\ Scanning
  /\ tails' = [tails EXCEPT !.paint = @ - 1]
  /\ UNCHANGED <<results, scanning, error, scan>>
  /\ Draw

ScanWorker ==
  \/ ScanFinds \/ ScanRaises \/ ScanDrops \/ ScanEnds \/ ScanLooks \/ ScanPaint

----------------------------------------------------------------------------
(* The user, who aims at what the screen shows, and the computers.         *)

UIUnchanged == UNCHANGED <<fields, mainVars, frame>> /\ NoWorker

Input == inputs < MaxInputs /\ inputs' = inputs + 1

PressMenu ==
  /\ Input /\ ~menuq /\ menuq' = TRUE
  /\ UNCHANGED <<taps, world>> /\ UIUnchanged

TapAt(p) ==
  /\ Input /\ Len(taps) < MaxPending
  /\ taps' = Append(taps, [x |-> p[1], y |-> p[2],
                           aim |-> HitTest(screen, p[1], p[2], NoMac)])
  /\ UNCHANGED <<menuq, world>> /\ UIUnchanged

ComputerChanges ==
  /\ changes < MaxChanges /\ changes' = changes + 1
  /\ \E m \in Macs :
       \/ m \notin paired /\ paired' = paired \cup {m} /\ UNCHANGED linked
       \/ m \in paired \ linked /\ linked' = linked \cup {m} /\ UNCHANGED paired
       \/ m \in linked /\ linked' = linked \ {m} /\ UNCHANGED paired
  /\ UNCHANGED userVars /\ UIUnchanged

Next ==
  \/ Main \/ ProbeWorker \/ ScanWorker
  \/ PressMenu \/ (\E p \in Points : TapAt(p)) \/ ComputerChanges

(* The workers and the main loop go on.  The time that a status message was *)
(* given passes: a refresh finds it over at last.                          *)
StatusExpires == pc = "store" /\ RefreshStore /\ pc' = "error"

Fairness ==
  /\ WF_vars(Main) /\ WF_vars(ProbeWorker) /\ WF_vars(ScanWorker)
  /\ SF_vars(StatusExpires)

Spec == Init /\ [][Next]_vars /\ Fairness

----------------------------------------------------------------------------
(* Safety                                                                  *)

(* The scan flag is up exactly from the tap that asks for a scan until its  *)
(* worker takes it down, whichever way it ends, and while it searches no    *)
(* result of an earlier scan is left.                                      *)
ScanFlagTruthful ==
  /\ scanning <=> (pc = "drop" \/ scan # "none")
  /\ scan = "search" => results = <<>>

(* A paired host goes only when it is the one that the confirm dialog on    *)
(* the screen named, though workers replace the list of hosts at any time.  *)
RemovesHostNamed ==
  [][\A m \in paired \ paired' : named = m]_vars

(* A tap acts on what the screen showed at its place when it was made: a   *)
(* home tile connects to the host it shows.                                *)
TapActsOnShown ==
  [][TapConnect /\ ~visible => Hit = Head(events).aim]_vars

----------------------------------------------------------------------------
(* Liveness: when the user and the computers have come to rest, so does    *)
(* the screen, unless a confirm dialog suspends the refresh: it shows the  *)
(* right surface with the hosts that are paired and their connections.     *)
ScreenTrue ==
  /\ screen.overlay = visible
  /\ {h.mac : h \in ToSet(screen.hosts)} = paired
  /\ {h.mac : h \in {g \in ToSet(screen.hosts) : g.connected}} = linked \cap paired
  /\ screen.overlay => screen.scanning = scanning /\ screen.results = results

ScreenSettles == <>[](confirm = NoMac => ScreenTrue)

(* A status message goes away on the home surface, unless its deadline was *)
(* lost: a worker that clears the message before may write over it.        *)
StatusFades ==
  []<>(confirm # NoMac \/ screen.overlay \/ screen.banner = "none"
         \/ (status # "none" /\ ~until))
=============================================================================
