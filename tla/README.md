# Spotifone: specifications and proofs

Spotifone turns a Car Thing into a Bluetooth microphone and keyboard. Three C
daemons, a Python menu, a Python service and some shell scripts share no
memory: they exchange datagrams on Unix sockets, and each talks to BlueZ over
D-Bus or to the computer over Bluetooth channels. This directory models the
parts whose behaviour depends on the order in which those events meet.

    tlc -workers 2 -config HidLive.cfg MCHidKeyboard     one run
    tlapm HidKeyboard_proofs.tla                         the proofs of a module

`PROJECT.json` lists the runs, the source lines of every definition, the
hazards with the properties that look after them and, for every property, a
fault in one definition that the property detects: the definitions named
`<X>Mutant` are such faulty versions of `<X>` and no specification uses them.

## Inventory

| part | state it keeps | operations | talks to |
|------|----------------|------------|----------|
| `daemon/hid_keyboard.c` | control and interrupt descriptors, modifiers, deferred connect deadline | key event, connect command, control request, PSM 19 accept, NewConnection, RequestDisconnection, Connected signal, deferred connect | button listener and auto-reconnect (Unix socket), BlueZ (D-Bus), hosts (L2CAP) |
| `daemon/button_listener.c` | app switcher flag and times, click debounce, wheel filter | buttons, presets, mute, knob click, wheel, timeout, shutdown | the other daemons and the menu (Unix sockets, blocking sends) |
| `daemon/mic_bridge.c` | bridge state, SLC step, RFCOMM and SCO descriptors, streaming flag; two threads | control command, RFCOMM data, SCO accept, NewConnection, RequestDisconnection, audio writes | button listener, menu, BlueZ, host |
| `src/menu_ui.py` | surface, hosts, scan results, status, confirm dialog; frame buffer; two kinds of worker thread | toggle, taps, refresh, live probe, scan, connect, pair, remove, paint | BlueZ, touch screen, frame buffer, button listener |
| `src/hid_keyboard.py`, `src/button_listener.py` | both channels, modifiers, GLib watches; the listener's held keys | set up, NewConnection, RequestDisconnection, key event, control data, hang-up, stop; button events | each other (Unix socket), BlueZ, hosts, microphone daemon |
| `src/main.py`, `service.py`, `button.py`, `hid.py`, `audio.py`, `hardware.py` | pressed keys, connection, mute, controller, press time, running flags; two threads | start, pair, press, release, signals, stop | input device, HID client, sound card |
| `scripts/auto_reconnect.sh`, `scripts/bt_init.sh` | attempt counters | bring up, retry a connection, send the connect command | BlueZ, HID daemon |
| `src/ble_hid_gatt.py`, `src/run_all.py` | one report value | the abandoned BLE keyboard | BlueZ |
| `daemon/gattd.c`, `protocol.h`, build, deployment and image tools | - | - | - |

### What is hard in each part, and what makes it correct

**HID daemon.** One thread, but many actors. `select()` reports readiness once
per round and up to four handlers run on that report, each of which may close
both channels or open new ones under the same numbers. Three parties race to
fill the two descriptor variables: the host (PSM 19), BlueZ (NewConnection) and
the daemon itself (two blocking `connect()` calls, at once or 1500 ms after a
Connected signal). Every NewConnection leaks one descriptor (line 449), so the
table runs full in the end and `accept`, `socket` and `dup` fail between any
two steps. Correct means: the held descriptors are open and distinct; a host
that the daemon can no longer reach believes no key to be down; a scheduled
connection is made or cancelled; a waiting host is served.

**Button listener.** Two input devices report the same knob click; the wheel
reports coalesced and bouncing ticks; sends block while the HID daemon's queue
is full (it blocks in `connect()` for seconds) and are lost while it is down;
the listener is stopped and restarted with keys held. Correct means: nothing is
left down that no button accounts for; Command is held while the switcher is
open and no longer than its timeout; the steps sent are no more than the wheel
was turned, spaced, and with hysteresis on reversals.

**Microphone bridge.** Two threads share `state`, `streaming` and `sco_fd`
without a lock. The audio thread writes to a copy of the descriptor, and after
a failed write closes that number, forgets `sco_fd` and lowers the state in
three separate steps, while the main thread accepts, replaces and closes
channels. Correct means: the state reported tells the truth; an idle bridge
holds no channel; the microphone goes quiet after a stop; a host that opens its
audio channel is served; the handshake advances.

**Menu UI.** The live-probe and scan workers share every field of the UI with
the main loop and no lock. The probe replaces the list of hosts while the main
loop maps a tap to one of its rows; an answer of BlueZ is stored after the
world has changed; the main loop is blocked in connections while taps queue up;
a worker decides which surface to paint before it paints; main loop and workers
draw into one buffer and write through one file offset. Correct means: no host
is removed but the one the dialog named; the scan flag tells the truth; at rest
the screen does; an undisturbed frame is shown whole, on page 0.

**Python keyboard pair.** The server closes channels without removing their
GLib watches. A watch that is left behind is silent while its number is closed
and speaks again for the next channel with that number; sources found ready in
one poll are called back one after the other, so a callback meets what the
earlier ones left. The listener's sends wait or are lost. Correct means: a host
that is not reachable believes no key to be down; a lost channel is noticed;
and once nothing is held and everything is handled, no key is down anywhere,
whatever was lost in between: the server implements the abstract keyboard.

**Python service.** One event of the button updates the key, its report, the
controller and the microphone one after the other in the reader thread, while
the main thread starts and pairs, and a signal runs `stop()` on top of whatever
it does, on top of an earlier `stop()` too. Correct means: the four agree when
a handler has ended; after a stop all are off.

**Scripts.** The reconnect script waits for processes, not for their sockets.

## Modules

| module | models | checked through | proved in |
|--------|--------|-----------------|-----------|
| `HidKeyboard` | `hid_keyboard.c`, its hosts and BlueZ | `MCHidKeyboard` | `HidKeyboard_proofs` |
| `WheelFilter` | the wheel filter of `button_listener.c`, as operators | `ButtonListener` | `ButtonListener_proofs` |
| `ButtonListener` | `button_listener.c`, the user and the HID daemon's queue | `MCButtonListener` | `ButtonListener_proofs` |
| `MicBridge` | `mic_bridge.c`: both threads, gateway, BlueZ and clients | `MCMicBridge` | `MicBridge_proofs` |
| `KeyboardLink` | abstract: what a keyboard daemon promises | as a PROPERTY of `hid_live` and `classic` | refined in `HidKeyboard_proofs` and `HidServer_proofs` |
| `HidServer` | `hid_keyboard.py`, its hosts and BlueZ | `ClassicKeyboard` | `HidServer_proofs` |
| `ClassicKeyboard` | `button_listener.py` composed with `HidServer` | `MCClassicKeyboard` | `ClassicKeyboard_proofs` |
| `PttService` | `main.py`, `service.py` and what they are made of | itself | `PttService_proofs` |
| `MenuLayout` | every hit rectangle of `menu_ui.py`, in pixels | `MenuUI` | `MenuUI_proofs` |
| `MenuUI` | main loop and workers of `menu_ui.py`, user, BlueZ | `MCMenuUI` | `MenuUI_proofs` |
| `Framebuffer` | class `Framebuffer`: buffer, descriptor and device | itself | `Framebuffer_proofs` |

### HidKeyboard

`pc` is the place in the main loop: `select`, the three descriptor handlers
(`ipc`, `ctrl`, `accept`), reading and dispatching D-Bus (`read`, `dbus`), the
deferred connection, and the two blocking `connect()` calls of
`connect_hid_to_host` (`connect17`, `connect19`), from which `ret` returns. A
handler is one action, with the calls it makes (`CloseHidConnections`,
`SendHidReport`) inlined; between two of them every other process may act.
`rfds` is the `fd_set` of the round and is not refreshed, as in the code.

`fdt` is the descriptor table: free, or a channel to a host on PSM 17 or 19
with what is to be read on it. Descriptors are reused lowest first, as the
kernel does; `NewConnection` opens the descriptor libdbus holds, the caller's
duplicate and the handler's duplicate, and closes only the first. `pending` and
`due` are the deferred connection and whether its deadline has passed. `seen`
is what each host believes to be down: an HID host releases all keys when the
interrupt channel closes. A send fails when the host's end is closed, and may
fail for lack of room.

The outside: key events and connect commands in the Unix queue, hosts that open
either channel, send a request or close channels, BlueZ's three messages,
`TimerDue`, and a daemon that exits at any point and starts again.

### WheelFilter and ButtonListener

`OnDelta` and `AfterTry` are `wheel_on_delta` and `wheel_try_emit` on a record
with the filter's five fields. Times are readings of `clock`; 0 is "never", as
in the code.

A handler of `ButtonListener` puts the datagrams it sends into `outbox`, and
`Send` performs them one by one: it waits while the HID daemon's queue (`hidq`)
is full and loses the datagram while the daemon is down (`hidUp`). No other
step of the listener runs until the outbox is empty, which is what a blocking
`sendto()` does; time, the user and the HID daemon go on. `now` is the time
read at the start of the round, and stays what it was while the sends wait.
Sleeps between the sends of a tap are shorter than the unit of time and are
covered by time that passes while the outbox is not empty. `down`, `micOn`,
`turned`, `stepped` and `stepAt` only observe.

### MicBridge

The main thread's `pc` walks `control`, `rfcomm`, `sco`, `dbus` and `settle`;
`set_state` is a step of its own (`goal`, `ret`), because the audio thread can
lower the state between the test before it and the assignment. The audio
thread's `ap` walks `copy`, `choose`, `write` and, after a failed write,
`close`, `forget`, `lower`. `cur` is its copy of `sco_fd`; it is used by number,
so it may by then refer to another channel, or to none. `capture` says that it
has read the microphone for the packet it is about to write, `late` counts the
packets of the microphone written while `streaming` is off.

The control commands are the four that the code knows, plus `payload`: seven
bytes on their own, the shape in which the code can read the argument of a
connect command, which it takes from the datagram after the command. `held`
counts the pieces that `rfcomm_buf` has collected without an answer or the end
of a line in them; what comes when there are `BufMax` of them is dropped, and
they with it (`DropData`), an OK or a +BCS like anything else. The gateway
answers a command it was asked, chooses a codec, opens or gives up its audio
channel, and closes channels at any time.

### KeyboardLink, HidServer and ClassicKeyboard

`HidServer` is one iteration of the GLib loop after the other. `Poll` fixes in
`todo` which sources are ready; the callbacks then run in the order in which
the sources were attached (one D-Bus message, the Unix socket, the watches),
each as one action. `watches` is the list of all watches ever attached, a
removed one marked as such: a watch names a descriptor by number, is removed by
its own callback only, and asks `fdt` what is behind that number now. A control
watch reads `_ctrl_client`, not the channel it was made for, so it may find
`None` (`OnCtrlNone`), another channel, or nothing to read. Which free number a
channel gets is left open, since it depends on the duplicates that libdbus and
`NewConnection` hold at the time. `Init` is the state of `__init__`; `Setup`
registers the profile, from when on BlueZ hands channels over, and
`StartIpcSocket` binds the socket and enters the loop; `Stop` is `stop()` or
the end of the process at any moment.

`ClassicKeyboard` adds `button_listener.py`: a handler fills `outbox` with its
sends, which are made one by one, wait while the server's queue is full and are
lost while it is down; the listener ends after a short read, whatever is held.
The microphone daemon is represented by the last command it was sent.

`KeyboardLink` is what either daemon is for, without sockets: at most one
computer is linked and sees, with every key event, exactly the modifiers held
and the key; a computer whose link ends sees every key up; what is held is
forgotten only while nothing is linked. `Takeover` says whether another computer
can take the link of the one that has it. `HidServer` implements it without
take-overs, with `link` mapped to the host behind an open interrupt channel while the server counts as
connected, and `held` to `_modifiers` (`ImplementsLink`). In particular a
keyboard whose interrupt channel was taken for a control channel (the first
channel counts as control whatever its PSM) is one that is not linked.
`HidKeyboard` implements it with take-overs: `link` is the host at the other end
of `g_intr_fd`, if that is a PSM 19 channel which the host has not closed, and
`handle_intr_accept()` replaces one host by another without forgetting `g_mods`
(`Replace`): a modifier held over the change is shown to the new host with the
next report, and to it alone.

### PttService

The reader thread (`rpc`) takes one event at a time and runs the handler
through `ButtonState`, `HIDService`, `PTTController` and `AudioService`; the
main thread (`pc`) starts the service in the order of `main()`, waits, and runs
`stop()`. A step is one read or write of what the threads share, so `connected`
is tested in one step and the key added in another. `Signal` moves the main
thread to the top of `stop()` from wherever it is; an interrupted call never
resumes, since `stop()` ends in `sys.exit()`. `long` says that the hold
threshold has passed since the press. `overlap` observes that a handler was
under way during `stop()`; `cut`, that a second signal came between the discard
of the key and its report in `release_key()`.

### MenuLayout and MenuUI

`MenuLayout` computes every rectangle from the code's constants and `HitTest`
is `on_tap()` up to the decision: what a point of the screen asks for on a
given surface, first match first.

In `MenuUI` a step goes from one wait to the next: `select()`, a question to
BlueZ, a connection, a worker's paint. `refresh_hosts()` is a question
(`RefreshAsk`) and, later, its use (`RefreshStore`), as `pc` and `ret` say; the
same for the probe (`ppc`), which also decides on a surface in `ProbeStore` and
paints in `ProbePaint`. What two threads write is written one field a step:
`_set_status()` and `_clear_expired_status()` are three steps each, in the main
loop (`WriteError`, `WriteStatus`, `WriteUntil`; `message` is what they write,
`ret` where the loop goes on) and in the probe worker (`ClearError`,
`ClearStatus`, `ClearUntil`), and so are the flag and the results of a scan
(`TapScan`, `DropResults`, then `ScanFinds` or `ScanRaises` and `ScanDrops`,
then `ScanEnds`). `until` says that a deadline for the status is set. `scan` is
the place of the scan worker up to the end of its scan, `tails` counts those
which have only the look at the surface, or the paint, before them: a second
scan may begin meanwhile. A connection succeeds with any computer the user asks
for, paired or found by a scan, as BlueZ decides; only paired ones are ever
listed. What the clock decides (the refresh of two seconds, the probe of
twenty, the end of a status) is a free choice at the point where the code reads
the clock. An answer of BlueZ is the truth, no host at all (a failed
`hciconfig`), or a list without some connections. `screen` is the last frame,
by the fields that were painted; a tap remembers in `aim` what the screen
showed at its place. `named` observes the host that a painted confirm dialog
names.

### Framebuffer

Threads that draw clear the shared `buf`, fill it, seek and write, row by row:
the interpreter may switch between any two rows and in any system call. The
device takes some of what it is given, moves the one `offset`, interrupts or
fails. `alone` observes that no other thread has been at work since a draw
began. What a frame looks like is one value per frame: `MenuUI` has what is on
it.

## Runs

The bounds named below are CONSTANTS in the cfgs.

| run | instance | shows |
|-----|----------|-------|
| `hid_live` | 1 host, a modifier and a key, descriptors 2..4, queues of 1, restarts and control requests | `TypeOK`, `DescriptorsOpen`, `NoGhostKeys`, `DeferredConnectSettles`, `WaitingHostServed`, `ImplementsLink` |
| `listener_knob` | knob clicks on one or both devices, coalesced turns, 5 inputs, 6 time units, HID daemon down | `TypeOK`, `KeysLeftDown`, `CommandHoldBounded`, `NoExtraSteps`, `StepsSpaced`, `ReversalsSustained` |
| `listener_keys` | round button, a preset, mute, clicks, stop and restart on both sides, queue of 1 | `KeysLeftDown`, `DictationHeard` |
| `mic_talk` | START, STOP and status queries, gateway, BlueZ, exit and restart, descriptors 1..3 | `TypeOK`, `StatusTruthful`, `IdleHoldsNothing`, `NoMicAfterStop` |
| `mic_connect` | connect commands and stray arguments, a gateway that connects too | `IdleHoldsNothing`, with `select()` failing on a closed number |
| `mic_live` | handshake with answers in pieces, a buffer of 1, codec choice, audio channel, NewConnection | `ScoServed`, `HandshakeAdvances` |
| `classic` | 1 host, 2 descriptor numbers, 3 channels, queues of 1, restarts of the server, a listener that may end with its button held | `ListenerTypeOK`, `NoGhostKeys`, `HeldWatched`, `QuietHostClean`, `ImplementsLink`, `LinkLossNoticed` |
| `ptt` | 2 events queued, presses and releases of any length, signals at any time | `TypeOK`, `PttFollowsEvents`, `StopSilences` |
| `menu` | 2 computers, 2 inputs, or 1 with a change or failed answer, 2 taps waiting | `TypeOK`, `ScanFlagTruthful`, `RemovesHostNamed`, `ScreenSettles`, `StatusFades` |
| `frame` | 2 threads, 2 frames, 2 rows of 4, writes of at most 2 | `TypeOK`, `FrameExact`, `OnlyPageZero`, `DrawsEnd` |
| `ptt_hold` | as `ptt` | `ReleaseReleases` fails: see below |
| `menu_tap` | as `menu`, with 1 input and no change | `TapActsOnShown` fails: see below |

**Why the bounds are enough.** The hazards of the Bluetooth daemons come from a
descriptor number that changes its meaning between two steps. With descriptors
2..4 (HID) both channels and one leaked descriptor fit and the next call fails,
and every closed number is the next one opened. Its one host can take over its
own link; that two hosts cannot mix theirs up is proved for any number of them.
With 1..3 (bridge) the listener and both channels fit exactly, so the audio
thread's copy is reused by the very next accept or connect; with room for one
piece in the buffer, the second one, or the answer after the first, does not
fit. In `classic` two numbers hold one connection, and a third channel always
meets the watches of the first two. A queue of one datagram already puts a
message between any two steps, since senders may refill it at once; two
messages of one round differ from two rounds only for `batch` of the HID
daemon, whose bound the proofs do not need. The time units of the listener keep
the order of the code's intervals (event debounce < emit interval <= idle
reset, click debounce < timeout), and six units hold a session, its timeout and
a second session. `listener_keys` uses coarser ones, because it is about
restarts and full queues; there, time passes during a send only when the send
waits. `ptt` holds a whole press in the queue while the handler of an earlier
one runs. In `menu` two inputs are a question and its answer, or a tap and a
change of surface under it, and one input meets one change; they start from the
home surface or from an overlay opened before, with or without a probe under
way, so that the bound is spent on what follows. Two computers are enough for
an order to change, and one change for the order, the list or an answer to be
wrong. The points tapped are one in every control, some in two controls of
different surfaces. In `frame` a page of two rows in a device of twice that
length is the least in which a write can be split and a second frame can land
beyond page 0. Every invariant, every action property and both refinements of
the passing runs are, besides, proved for all bounds.

**Deadlock** is checked everywhere but in `mic_live`, `ptt` and `ptt_hold`. In
the first the main thread may wait in `accept()` for a host that has left,
nobody presses a button, and the process may have ended with nobody to restart
it; the service of the other two ends when it is told to.

**Fairness.**

- `HidKeyboard`: weak fairness of `Daemon` and `TimerDue`. The loop never waits
  longer than the 100 ms of `select()`, `connect()` returns by its own timeout,
  and 1500 ms pass. Hosts, BlueZ and senders are not bound to act, and a stopped
  daemon is not restarted: `Daemon` includes neither exit nor start.
- `MicBridge`: weak fairness of `Main` (50 ms timeouts) and strong fairness of
  `AcceptSco`: a blocked `accept()` returns a host that keeps coming. Neither
  the audio thread nor the gateway is bound to act. `HandshakeAdvances` assumes
  that the loop turns (`[]<>(pc = "select")`), since the main thread can be
  blocked in `accept()` for good, is about answers that fit in the buffer, and
  excuses a link that BlueZ replaces or whose number the audio thread has
  closed. `WaitingHostServed` and `ScoServed` excuse a full descriptor table,
  in which `accept()` fails for ever.
- `ClassicKeyboard`: weak fairness of `Server`: the GLib loop runs and its
  callbacks never block.
- `MenuUI`: weak fairness of `Main`, `ProbeWorker` and `ScanWorker`: everything
  they wait for has a timeout, and the threads are scheduled. Strong fairness
  of `StatusExpires`: a status that has a deadline, looked at again and again
  by the refresh of the home surface, is found over in the end, because the
  clock goes on. Nothing is assumed of a status without one: `StatusFades`
  excuses the status whose deadline the two threads' writes have lost. The user
  is not bound to act; a confirm dialog may stay for ever, which
  `ScreenSettles` and `StatusFades` excuse, since the code suspends the refresh
  for it.
- `Framebuffer`: weak fairness of each thread's draw; an interrupted call alone
  does not count as progress (signals do not interrupt one call for ever).
- `ButtonListener` and `PttService`: none, safety only.

## Where the code differs from its documentation

Two disagreements have a run that ends in a counterexample.

- `ptt_hold`: a release after half a second is classified as `hold`
  (`button.py:36`), and `handle_ptt()` and `_on_ptt()` treat every event but a
  click as a press (`hid.py:109`, `service.py:41`). After an ordinary spoken
  sentence the key stays down and the microphone open, against
  `service.py:8-9`.
- `menu_tap`: a tap is matched with the list of hosts as it is when the tap is
  handled (`menu_ui.py:1058`). The refresh of the same iteration or the live
  probe has re-sorted the list since the finger came down, connected and live
  hosts first: another computer than the tile showed is connected, against
  `docs/home-surface-host-menu-sdd.md:17`.

The models contain more of this kind without a run of their own.

C daemons:

- A `socket()` that fails for the second channel leaves the first one open and
  recorded (`hid_keyboard.c:273-277`, against the comment at line 287); the
  leaked descriptors bring it about.
- A connect command replaces both channels after `select()` has reported the
  old control channel readable; the handler reads the new one under the same
  number, finds nothing and takes the fresh links down as "Control channel
  disconnected" (`hid_keyboard.c:336-343`, 807).
- A second NewConnection puts a PSM 17 channel in `g_intr_fd`
  (`hid_keyboard.c:455`).
- The debounce time of a knob click is taken before its sends
  (`button_listener.c:439`). When these wait, the click's copy from the other
  device is read more than 200 ms later and toggles the switcher again.
- A listener stopped while the round button is held sends no microphone stop
  (`button_listener.c:488`).
- A NewConnection that replaces a link leaves `slc_state` as it is
  (`mic_bridge.c:970`), and the handshake is not started on the new channel.
- Data that does not fit in the 1024 bytes of `rfcomm_buf` is dropped with what
  the buffer holds (`mic_bridge.c:296-299`). When that was the answer to a
  command the handshake stands still: nothing is asked again.
- The audio thread's `sco_fd = -1` (`mic_bridge.c:663`) forgets a channel that
  the main thread has stored meanwhile; it stays open and unread.
- A host's audio channel switches the microphone on without the button
  (`mic_bridge.c:514`); `accept()` on the blocking listener keeps the main
  thread from reading a STOP (`mic_bridge.c:465`); a connect command takes its
  argument from the next datagram (`mic_bridge.c:867`).

Python programs:

- A watch left behind by `_handle_disconnect()` answers for the next channel
  with its number, which is why a control watch can find `None` or another
  channel (`hid_keyboard.py:422`, 453). On a number that nobody has opened
  again `poll()` reports an invalid descriptor at once and for ever: the loop
  then spins, which the model leaves out (it changes no state).
- Whatever arrives first is the control channel (`hid_keyboard.py:385`): a host
  that opens PSM 19 first is linked to nothing until both are closed.
- A stop that overlaps a handler can leave the key down or the microphone open
  (`hid.py:79`), which `StopSilences` excuses. A second signal inside
  `release_key()` leaves the release unreported (`hid.py:93`); there it excuses
  the report, and demands the key and the microphone off.
- A tap that waits while the main loop is blocked can meet a dialog that was
  not there when it was made: two quick taps on "del" and on the place of "yes"
  remove a host. A worker that decided on the home surface before the overlay
  was opened paints it over an open dialog, whose refresh is suspended.
  `RemovesHostNamed` still holds: the dialog was painted.
- On the overlay a message stays until the surface is toggled; only the home
  surface lets it expire, which is what `StatusFades` says.
- A status can stay for ever. "connecting..." is given eight seconds and the
  attempt may take longer, so the probe worker clears it; when that worker is
  between the test and line 739 while the main thread sets the result
  (`menu_ui.py:731-733`), it takes the new deadline away, and line 736 never
  clears a status without one. `StatusFades` excuses exactly that state.
- "scanning..." can be painted over results: over the old ones by a worker
  between `menu_ui.py:1018` and 1019, over the new ones between 1009 and 1014.
- A scan result that is not paired can be connected directly
  (`menu_ui.py:1043`, 1026); it is in no list of hosts, which has paired
  computers only.
- Overlapped paints write beyond page 0, against the comment at
  `menu_ui.py:309-311`; `OnlyPageZero` says that one paint alone never does.
- A failed `hciconfig` empties the list of hosts until the next refresh.

Outside the models, preset 1 of the C listener sends the Left arrow, not the
"9" of the README (`README.md:200`, `button_listener.c:12`).

## Proofs

All theorems hold for every value of the constants that satisfies the named
assumptions of the modules: `HidAssumption` and `ServerAssumption` (`NoHost`,
`NoKey` and `NoFd` are none of what they are not, modifiers are not keys,
positive bounds), `ListenerAssumption` and `WheelAssumption` (the keys are
different keys and the presets finitely many, positive thresholds, no emit
interval longer than the click debounce or the switcher's timeout),
`MicAssumption` and `PttAssumption` (positive bounds),
`MenuAssumption` (the order is a sequence with no computer twice, points on the
screen) and
`FramebufferAssumption` (a page of at least one row that fits the device).

**HidKeyboard_proofs.** `TypeCorrect` needs more than `TypeOK`: a handler takes
the head of a queue because `select()` saw it non-empty some steps before, and
`connect_hid_to_host` connects the interrupt channel with a host and with no
interrupt channel held. `RoundInv` states both; `TypeInv` is the conjunction.
`HeldDescriptorsOpen` and `NoKeyLeftAtHost` are proved together, as the
inductive invariant `SafetyInv`: what a host believes to be down is tied to the
channel behind `g_intr_fd`, so keys can be excluded only while the held
descriptors are open and distinct, and the outbound connection may replace
`g_intr_fd` only because it finds it empty. A few lemmas on closing and opening
descriptors are cited by every action. `KeepsLink` is the refinement of
`KeyboardLink`: under `SafetyInv` every step maps to one of its steps or to a
stutter. The fact that carries it is which of a host's channels it listens to: a
host may have several PSM 19 channels on their way, but it believes keys to be
down only through the one behind `g_intr_fd` (`LinkedFacts`), so closing any
other releases nothing, and closing that one is exactly `Unlink`
(`LettingGoImplements`). An `accept()` maps to `Link`, to `Replace`, or, when the
channel it replaces had been closed by its host, to `Link` after an `Unlink`
that was an earlier step of the host. A PSM 17 channel that ends up in
`g_intr_fd` links nobody.

**ButtonListener_proofs.** The properties speak of moments at which nothing is
left to send, and the sends pending can be many, so the invariant speaks of the
future instead: `DownNext(key)` says whether the key will be down once the
outbox is empty, by the last send in it that is about the key, or by `down`
when there is none. `PeelKeys` says that making one send changes no such
prospect; what each handler puts into the empty outbox is worked out once
(`EnterEffect`, `StepEffect`, `LeaveEffect`, ...). `KeysInv` then is about five
facts: no key but Command will be down without its button handled as pressed;
Command will exactly while the switcher is open; nothing will after a stop; the
dictation key will only with a microphone that will hear it; and
`PressesFollowed`, that behind every press in the queue of the buttons comes
the button's release, or the button is held. `OnlyHeldKeysLeftDown` and
`DictationKeyHeard` follow. `StepsEarned`, steps sent plus steps owed in a
direction are at most what the wheel was turned in it, gives
`StepsNeverInvented` and, with the threshold of the filter,
`ReversalsNeedThreshold`. `TimeInv` orders the times and keeps the last step in
mind while the filter has forgotten it: the switcher is left either after a
timeout or by a click, whose debounce is over before it can be entered again.
`StepsKeepInterval` and `CommandReleasedInTime` follow.

**MicBridge_proofs.** `TypeInv` adds `FlowInv` (a datagram is there when it is
read, the connect call has a socket, the audio thread a number). None of
`StatusTruthful`, `IdleHoldsNothing` and `NoMicAfterStop` is inductive: the
first two speak of the moment between two rounds, while state, streaming and
the channels change in different steps. `StreamingInv` and `IdleInv` extend
them to the whole round, by what must hold while a `set_state()` is under way:
`streaming` is set before the state is raised and cleared before it is lowered,
the channels are closed before IDLE is set. The audio thread disturbs neither
because it only lowers the state to RFCOMM_CONNECTED and only forgets a
channel (`OtherStep`). `LateInv` bounds the late packets: what the thread holds
was read while streaming was on, and then no packet had been late.
`StatusIsTrue`, `IdleIsEmpty` and `MicStops` follow from `Inductive`.

**HidServer_proofs.** The inductive invariant `Inv` adds to the types and the
two properties three facts. `ReadyHolds`: what the poll found ready is still
there when its callback comes. `ControlFirst`: an interrupt channel is held
only with a control channel, since the first one handed over becomes that.
`OneChannel`: a host has at most one channel of a kind that is open or on its
way to the server, which is what makes "the host behind the interrupt channel"
the one whose keys are released. `NoKeyLeftDown` and `HeldAreWatched` follow.
`KeepsLink` is the refinement: the initial state maps to the initial state, and
under `Inv` every action maps to a step of `KeyboardLink` or to a stutter. A key
event maps to `KeyEvent`, or to `Unlink` when the send raises; a callback that
lets go of the channels to `Unlink` when the host was linked and to `Forget`
when the host had hung up before, and then `mods` is forgotten later than the
link ended, which is the choice `Unlink` leaves open.

**ClassicKeyboard_proofs.** `ServerKept` says that the composition behaves as
`HidServer`: to the server the listener is one of the processes that send key
events. With it every theorem about the server holds of the pair
(`PairKeepsLink`). `QuietHostClean` speaks of moments at which everything has
been sent and handled, and says nothing of a queue with a press in it, so it is
not inductive. `ClassicInv` makes up for that. `KeysSettle`: every key that is
down, or is pressed by an event in the server's queue, has a later release in
the queue, or the handler under way is still to send one (`Owed`), or it is Alt
while the button is held. `MicSettles` is the same of the microphone.
`OutboxShape` lists what a handler can have left to send; without it a release
could be owed before its press. `SeenMatches`: a host that sees anything down
sees the modifiers the server holds, so that `mods = {}` clears the host too. And
`AwayIsIdle`: a server that is away has neither a queue nor anything held, which
is why a lost release leaves nothing behind: the press was lost with the server.
`QuietClean` follows from `ClassicInv` at once. A send, a handled event and every
other step of the server have a lemma each on what they do to `Settles`.

**PttService_proofs.** `Progress` says for each place of the reader what the
handler has updated so far; `RunInv` that before any stop the service is up in
the order of `main()`, the reader is not there before it is started, and
`Progress` holds while the service runs; `StopInv` what is silent already at
each place of a stop that no handler overlaps, the report only when no signal
has cut it off (`cut`). `HandlersComplete` and `StopIsSilent` follow.

**MenuUI_proofs.** `Inv` is `ScanFlagTruthful`, `ScanAlone` (between raising
the flag and dropping the results no scan is under way), `DialogNamed` (the
dialog's host, and the host about to be removed, are the one the painted dialog
named) and `ReturnKnown` (a refresh, and the writes of a status, go on where
they were begun from). Without `ScanAlone` a worker could take down the flag
that has just been raised. `ScanFlag` and `RemovalConfirmed` follow. `ScanFlag`
says when the flag is up and that a search runs over no old result; it does not
say that "scanning..." is never painted over results, which is false. What a
draw does to the place of the main loop and to the frame is stated once
(`Onward`, `Currently`, `Painted`, `ToggleKeeps`). A lemma says that only a
dialog answers a tap with "yes". `TypeCorrect` is proved from `TypeInv`, which
adds to `TypeOK` that a refresh or a write under way returns to a known place,
that a connection under way, or about to begin, has a computer, and that a tap
is read only while one waits.

`HostListOrdered` states what `build_host_state()` computes. That the members of
a finite set can be listed in a strict total order is proved without induction:
the place of a member is the number of those before it (`Place`), places are a
bijection (`InOrder`), and therefore the choice in `Sorted` exists (`Listed`).
`Sorted` is a choice among the lists of a set because the prover cannot look into
the definition of the community modules' sort; TLC evaluates the same
definition. `OneItemHit` and `ControlsApart` are about pixels, for lists of any
length: a tap concerns at most one tile, row or result, and on the overlay the
order in which `on_tap()` tests its controls does not matter.

**Framebuffer_proofs.** `RowLeft` keeps the rows in range; `AloneInv` says of a
thread that works alone that what it has drawn, and then what it has written,
is its frame's, and that the shared offset is its own count. `TypeCorrect`,
`FramesAreExact` and `PageZeroOnly` follow.

Only model-checked is liveness, which needs fairness and ENABLED:
`DeferredConnectSettles`, `WaitingHostServed`, `ScoServed`, `HandshakeAdvances`,
`LinkLossNoticed`, `ScreenSettles`, `StatusFades` and `DrawsEnd`. The theorems
about `MenuUI` are about `Spec`, which starts from the home surface; `menu` also
starts from an overlay opened before, which is a state
of `Spec` with a larger bound on the inputs.

## Not modelled

- HID daemon: a PSM 19 listener that cannot be opened at start-up (the daemon
  then runs without accepts), SDP and profile registration, report encoding.
- C listener: releases of the knob and of the mute button, key repeats and
  unknown codes, which it ignores, and input devices that vanish.
- Bridge: set-up before the loop, the pairing agent's automatic consent, the
  capture process (it delivers data or not), sample arithmetic, the pacing and
  the size of packets, and the gateway's answers to the commands sent after the
  handshake is complete.
- Python keyboard pair: the pairing agent, which answers every request and keeps
  nothing, the report map and the SDP record.
- Python service: the knob reader and buttons that have no callback, `unpair`
  and the status text, and `ALSAMic`, whose mute is never called.
- Menu: what a frame looks like apart from hosts, results, labels and dialogs
  (fonts, glyphs, the logo), a touch device that fails, a failure of the first
  refresh at start-up or of the question inside `_start_live_probe()`, and the
  closing of the devices at the end.
- `auto_reconnect.sh` and `bt_init.sh`: the scripts keep counters only; the
  connect command is an input of `HidKeyboard` at any time, and lost while the
  daemon is down. The abandoned BLE path, the GATT stub, build, deployment and
  image tools: no state worth a model, and nothing starts the BLE path.

## What is left

1. `KeyPath`: `ButtonListener` composed with `HidKeyboard`, as `ClassicKeyboard`
   is for the Python pair: what a host sees when the link is replaced in the
   middle of an app switch (Tab without Command).
2. `AutoReconnect`: the attempts per paired host against a HID daemon that may
   not be bound yet.
