# ESPView in TLA+

ESPView turns an ESP32 into a device with a virtual display: LVGL renders on the
device, the changed rectangles travel over UART or TCP to a Qt application on the
host, which shows them and sends mouse, keyboard and commands back.  The modules
here model the parts of `src/shared`, `src/esp32` and `src/pc` whose correctness
depends on the order of events: tasks, callbacks, lost packets, reconnections.

Every module is translated from the code; comments name the functions.  `MC*.tla`
and `MC*.cfg` are for TLC, `*Proofs.tla` hold theorems checked by TLAPS.

## 1. The system

| Component (code) | State | Operations | Talks to |
|---|---|---|---|
| Encoder (`shared/protocol/encoder`) | next SEQ | encode a message into packets of one chunk each; on a refused packet roll SEQ back | endpoint above, sink below |
| Stream decoder (`protocol/decoder`) | scanner, last SEQ, message being assembled | process bytes, `onTimeout`, `reset`, `resetSeqBaseline` | calls the endpoint with a message or an error |
| Frame assembler (`protocol/frame_assembler`) | open frame, last committed frame, `needFull` | `onMessage` (BEGIN, RECT, END), `onStreamError`, `reset` | calls the host with rectangles and commits |
| Protocol endpoint (`protocol/protocol_endpoint`) | session state, epochs, heartbeat and ACK timers, pending HELLO | transport up/down/data, `tick`, `sendMessage`, handlers | all of the above; upper layer callbacks |
| Transport sink (`transport/transport_sink`) | none | `send` (bounded retry), `trySend` | send gate of the manager |
| Transport manager (`transport/transport_manager`) | current transport, send gate, generation, buffered states | `open`, `close`, `shutdown`, `switchTo`, `reopen`, `adopt`, `lock/tryLock/unlockTransport` | owns transports; state callbacks from their threads |
| TCP, UART transports (`esp32/.../espview/src`) | socket or driver, tasks, state | open, close, send; link task and RX task | state and data callbacks |
| Remote display (`display/remote_display`) | ring of slots, open frame, frame on the wire, `needFull_`, `abortPending_` | `writeRect`, `flush`, `pump`, `setEnabled`, `onConnected`, `onDisconnected`, `dropPendingFrame` | LVGL UI task above, TX task below |
| LVGL port (`esp32/.../lvgl_port`) | UI task, TX task, invalidate flag | `flushCb`, `uiLoop`, `txLoop`, `onSessionState` | remote display, router |
| Display router (`display/display_router`) | mode, sinks enabled | `setMode`, `writeRect`, `flush`, `presentScene` | remote and physical sink |
| Wi-Fi provisioning (`espview/src/wifi_provisioning`, `shared/wifi/scan_transaction`) | phase, scan generation, deferred events, command slot | event handler, `tick`, commands | Wi-Fi driver task, session task, OLED |
| OLED display (`esp32/components/oled`) | task, state, dirty frame, suspension | `start`, `stop`, `present`, pause and resume | I2C, Wi-Fi provisioning |
| Device main (`esp32/main/main.cpp`) | session loop, TCP handoff, pending reply | dispatch, ACK queue, mode changes | everything on the device |
| Input (`shared/input`) | pressed keys and buttons, throttle | feed, reset, coalescing | LVGL input devices |
| Host worker (`pc/src/serial_worker`, `host_tcp_transport`) | worker thread, bounded command queues, pending ACK kind, RX buffer | start, stop, switch, command queues | endpoint, transports, Qt thread |
| Host state models (`wifi_wizard_state`, `display_ui_state`, `physical_preview_state`) | wizard step, mode switch in progress, preview freshness | user actions, ACKs, timeouts, disconnects | host worker |
| Host windows and dialogs (`pc/src/main`, `wifi_wizard_dialog`) | switch in progress, session gate, watchdogs, observer of the TCP handoff | clicks, queued signals of the worker, timers | host worker, state models |
| Wi-Fi station (`espview/src/wifi_sta`) | connected, address, retries | start, driver events, `waitForIp`, deinit | TCP transport |

What is hard:

* **Concurrency.** On the device a UI task, a TX task, a session task, a link
  task and an RX task of the transport, the Wi-Fi event task and the OLED task
  share `RemoteDisplay`, `TransportManager` and the provisioning object; on the host
  a window, a worker and a receive thread share queues, slots and signals.  Locks
  are short; several decisions are read under one lock and used under the next.
* **Failure.** The byte stream loses and damages packets; the sink refuses any
  packet; a transport fails while it opens; a session ends at any step.
* **Ordering.** State reports come from the threads of transports that are
  being replaced; Wi-Fi events arrive for scans that were cancelled.
* **Timeouts.** Half a packet (500 ms), ACK (500 ms, two retries), handshake and
  peer (5 s), flush_cb, DHCP, scan watchdog, the watchdogs of window and wizard.

What makes each component correct is stated with its module below; the hazards,
each at its line, are listed in `PROJECT.json`.

## 2. The modules

### Frame link: `MessageEncoder`, `StreamDecoder`, `FrameAssembler`, `FrameDelivery`, `FrameLink`

One direction of the link.  `MessageEncoder` cuts a message into packets and
moves the SEQ counter (`encoder.cpp`, `ProtocolEndpoint::transmitImplWithSink`
with `rollbackSeq`).  `StreamDecoder` holds `lastSeq` and the message being
assembled; its operators are `process` for one intact or damaged packet,
`handleVerifiedPacket`, `onTimeout`, `reset`.  `FrameAssembler` holds the open
frame, `committed` and the base for PARTIAL frames.  `FrameLink` composes them:
the device starts, continues, ends and aborts frames and sends control messages
between them; the sink may take only the first packets of a message; the stream
loses and damages packets and times out in the middle of one; the connection is
made anew with the handshake that follows.

`FrameDelivery` is the abstract specification: the host's list of committed frames
grows only by frames the device finished in this connection, in order and each
at most once, and a PARTIAL frame only right after the frame it changes.
`DeliversFinishedFrames` says that `FrameLink` implements it.
`UntouchedFrameCommits` is the converse: a FULL frame, or a PARTIAL one that has its
base, is committed when the packet before it and all of its own arrive undisturbed.

A packet is intact or damaged; the CRC is not computed.  The layout of header and
payloads is in `Messages`.

### Transport manager: `TransportManager`

`pc` is where the one control thread is in `open`, `close`, `shutdown`, `switchTo`,
`reopen` or `adopt`; `gate` is who holds the send gate; `inflight` is, for each
transport, where one of its threads is in `onTransportState` (it checks the
generation, then the switching window, then pushes or calls: three actions, as
the code takes three locks in turn).  A transport reports its states by itself,
in any order its class allows: UART says Connected within `open()`, TCP later.
Transports are numbered in the order they are made; `generation` is the number
that the callbacks of the current one carry.

### Display pipeline: `RemoteDisplay`, `DisplayPipeline`, `FrameIds`

An action of `RemoteDisplay` is what runs under its mutex once, or one call of
the sink.  `DisplayPipeline` puts LVGL's rendering cycle and `flush_cb` (with its
give-up) on the one side and the TX task, the session and the host on the
other; the host side reuses `FrameAssembler`.  A rectangle is an area and the
version of its pixels, so that the host's picture can be compared with the
widget tree.  What goes through one of the four windows between two locked
regions of the code is recorded in `races`.  Frames are counted without end, so that
the properties can name them; the code compares 16 bits of the count, which `SameId` of
`FrameIds` does.

### Session: `Session`

Two `ProtocolEndpoint`s and the wires between them.  The host (`"pc"`) runs its endpoint
in the worker thread alone (`SerialWorker::pumpLoop`); on the device (`"dev"`) the link
task (`linkPc`), the session task (`tickPc`), the RX task and the sender of frames
(`stream`) interleave.  `state` is the endpoint's, `heard` what `onSessionState` told
the upper layer last: the callback runs outside the locks, and `main.cpp` lets its sink
send only while it heard of a session.  The actions are the handlers:
`OnTransportConnected` and `OnTransportDisconnected` with the callback and the HELLO
that follow them, `Feed` for one packet with all its handler does, the parts of `tick()`
(`TickTimeout` decides, `TickFail` fails the session under locks it takes later,
`TellTick` tells it; `DrainHello` takes the deferred HELLO under one lock, `DrainSends`
sends it without any and `DrainCompletes` takes the lock again, `RetryRequest`,
`GiveUpRequest`), the application's `Request`, a message of two packets, and the slot of
`main.cpp` for an ACK that could not be sent.

There is no clock.  A timeout that fires when nothing can answer any more is
always allowed; one that fires earlier is a trouble, like a lost packet, a lost
link, a refused send or a reopened port.  The heartbeat is left out but for what
the peer's timeout sees of it: an end that is connected and may send is not silent.

### Wi-Fi provisioning: `ScanTransaction`, `WifiProvisioning`

`ScanTransaction` is the pure state machine that pairs the suspension of the OLED
with a scan: one operator per method.  `WifiProvisioning` puts it between the three
tasks that meet in the provisioning object.  The session task runs `tick()` and after
it `tickTcpHandoff`; `pc` is where it is, cut wherever `mutex_` is released or the
driver called.  The event task handles one event of the driver at a time
(`OnScanDone`, `OnConnected`, `OnGotIp`, `DeferDisconnect`, `OnDisconnected`) and may be about
to reconnect (`evPc`).  The RX task leaves a command in the one slot, or the note
that the session ended.  Of the driver the model keeps the station, whether it
scans and its queue of events, which tell of what is past; that
`esp_wifi_connect`, a new configuration and `esp_wifi_scan_stop` end a scan with a
failed SCAN_DONE is what the comments at wifi_provisioning.cpp:300-302, 391 and 620
rely on.  The scan watchdog can fire from the second tick of its window on,
as a clock that is only known to go on would have it.

`ScanIsOneThing` says that none of the seven ways a scan ends forgets one of
`scanActive_`, phase, transaction and OLED.  `GenerationAgrees` says what the generation
of scans is good for: an event takes the generation that is current when it is
handled, so the comparison in `tick()` never rejects anything, and `scanActive_` alone
tells late ends apart.  A late end of a cancelled scan that arrives when the next
one runs is therefore taken for its end (race `"stale"`, and the OLED is resumed
while the driver scans: `ScansProtected` excepts it, and the watchdog, which resumes
the OLED before it stops the scan).  `PhaseTellsStation` compares phase and address
with the station when all is at rest; the windows through which it fails are
named in `races`.

The report of a scan's results is in `Messages`; the bring-up of the driver is left out.

### Messages: `Messages`

One message at a time: its maker (`message.cpp`) turns fields into bytes, its parser on
the other side finds them by offset, and in between a peer of another version may have
sent a longer or a shorter payload.  Every message of the protocol is there, with the
header of the packet and, for the requests that the device checks again (`main.cpp`,
`wifi_provisioning.cpp`), its answer.  A text is a sequence of bytes that fills a field
of fixed length, up to its last byte; numbers are written byte by byte with the code's
order and sign.  `Askable` says, per message, what a maker may be given: fields of the
widths of their C++ types, texts without a terminator in them; `Inputs` and `Surveys`
are the messages and scans a run takes from there.  A scan is followed from the driver's
records (`esp_wifi_scan_get_ap_records` hands over the first `ScanRecords`) through the
sort, the cut and `makeWifiScanResult` to the host's list.  `PeerReadsWhatWasMeant`
compares what is read with what was asked for; `ScanReportIsTrue` compares the list with
the air.

### Transports: `TcpTransport`, `WifiStation`, `UartTransport`, `HostTcpTransport`, `HostUartTransport`

What `TransportManager` takes for granted of a transport is what these have to keep.
`TcpTransport` has the caller of `open()` and `close()`, the link task (`link` is
where it is: waiting for the station, connecting, watching, told of a loss, ending)
and the RX task, which share socket, state and the counting semaphore `taskExit_`.
`WifiStation` is the station it owns, with the queue of driver events, the immediate
retries of `ReconnectPolicy` and the wait for an address.  `UartTransport` has one RX
task, the senders under `driverMutex_` and the driver's calls, each of which may fail.
`HostTcpTransport` is the worker that listens, accepts one device, adopts the
transport and pumps, with the RX thread and the user's stop; `HostUartTransport` the
serial port with its RX thread.  Waiting times are left out: a wait that may expire
may do so at any point.

### Device display: `PhysicalDisplay`

The task of `OledDisplay` from start to stop: initialisation, upload of a scene in
transfers, the error count, degradation and recovery with the policy of
`oled_recovery.cpp`, and the pause for a Wi-Fi scan, which every step looks at where
the code does.  `DisplayRouter` and `PhysicalDisplaySink` hand over scenes; a scene is a
number, so that what the panel shows can be compared with what was drawn last.

### Preview: `Preview`

The device's session task takes the OLED's picture from `OledPreviewSlot`, numbers it and
sends it; `PhysicalPreviewState` on the host takes it only if its number is newer in
the arithmetic of the counter, which wraps.  Each end starts the numbers anew by its
own callback.

### Input: `InputPath`

Mouse and keyboard from `InputController` with its throttle, through the worker's
bounded queue, the endpoint and the wire, to `InputManager`, `LvglInputAdapter` and the
polls of LVGL. A key that is held repeats (`RepeatsKey`): the toolkit reports a release
and a press, of which `InputController` sends the release and drops the press.  The wire
carries the state of the buttons, not their changes; the device derives them.  A session
may end at any step, a message may be lost, a queue full.

### Host: `BoundedQueue`, `HostWorker`, `DisplayUiState`, `HostWindow`

`HostWorker` is the worker thread with its request queues, the one slot for a request
that waits (`slot`), `pendingAckKind_` and the receive buffer.  `DisplayUiState` is the
model behind the mode selector as a record and its transitions.  `HostWindow` composes
both with the event loop: signals are taken one by one from `toGui`, long after
they were emitted; `beginSwitch` runs an event loop of its own (`dwell`) in which
signals and clicks are handled too; two watchdogs end what nothing answers.

### Wi-Fi wizard: `Wizard`

`WifiWizardState`, the dialog around it and `TcpHandoffObserver`, between a user who
types, goes on and back, cancels and opens the dialog anew, the worker's signals, and
a device that scans, joins and connects.  Signals of an observer that was stopped may
still be queued (`posted`).

## 3. What the runs check

A composed run (`MCLink`, `MCTransports`, `MCDevice`) holds several parts that share no
state; `part` is chosen in the initial state and a behaviour is one of that part.

| Run | Question | Bounds and why they are enough |
|---|---|---|
| `link` | Do pictures, previews, input and messages arrive as they were meant? | see below, part by part |
| `transports` | Do the transports keep what the manager takes for granted, does the manager keep what the upper layer does, and does the wizard always get on? | manager: 3 transports (two switches or reopens), 2 types, 1 sender, 4 buffered states; TCP: one immediate retry, two lost associations, two driver events that wait, one peer that leaves, one failed send; UART and serial port: two senders, two failures of the driver; host TCP: two clients, two failed sends; wizard: two scans or configurations with one error and one connection, or one of each in two dialogs |
| `session` | After any two troubles, are both ends connected again, with upper layers that know it, and does every request end? | one request, one long message, two packets in a direction, one retry of the two, two troubles: a HELLO can be lost, refused and overtaken, a link lost while it is; with three troubles the state space is too large for liveness |
| `device` | Is the OLED resumed after every scan, do scans and connecting end, do flag, phase, transaction and driver agree; does the OLED stop for a scan at once, keep its scene and come back? | provisioning: 2 generations (a byte in the code; with two, a scan and the one before the last look alike), two commands, one session that ends, one refusal or lost association, two events that wait; OLED: one scene after the first, two failed transfers before a recovery and two in all, one scan, one start, and two failures with one change of mode or none with three (a mode is left and entered again) |
| `host` | Is every answer reported for the request that waits, do an Apply and a switch end, is a switch done only on the new link? | two or three requests in one worker thread, one request and one switch, or a switch alone; two sessions, queues of one; two queued signals, but one with three requests or where a request meets a switch: a request can be overwritten, dropped, carried into the next session and meet a switch in each of its steps, and an answer or a Connected can wait behind another signal |
| `display_pipeline_whole` | remote_display.h:16,24-25, no half frame is taken for a whole one | no trouble at all; violated |
| `display_pipeline_resync` | lvgl_port.cpp:278-280, the cycle after a give-up repairs the picture | one trouble; violated |
| `session_doc` | docs/DESIGN.md:3582, an ACK of an earlier session is only counted | two requests, three troubles; violated |
| `wifi_provisioning_doc` | wifi_provisioning.hpp:192-193, what is put off during a scan is applied at its end | as in `device`; violated |
| `tcp_transport_doc` | tcp_transport.cpp:160-162, 186-189, a successful join has joined the link task | no fault; violated |
| `input_doc` | docs/DESIGN.md:688-689, presses and moves arrive in the order of the user | two acts, no fault; violated |
| `wizard_doc` | wifi_wizard_state.h:7, a failure goes to the error page | one dialog; violated |

The parts of `link`:

* display: two areas and one slot, so that writer and pump wait for each other in the
  middle of a frame; frame numbers wrap after two; one redraw and two troubles (refusal,
  give-up, loss of session, mode switch), or two redraws and one trouble: a trouble can
  fall into the first, the second or the third frame.  States after a race (`races`) are
  not continued: the properties say nothing of them.
* frames: 3 SEQ values, so that three losses look like none; messages of two chunks;
  two frames, one reconnection, one control message, three faults: each rule of the
  decoder needs at most two faults to be met, the wrap three.
* preview: 8 numbers and 9 pictures (a wrap), two sessions, one loss.
* input: four acts, one fault, queues of two and one, `HoldReads` as in the code: a
  press, a held back move, a release and one more, with a session that ends between.
* messages: every field at 0, at its limits, one past them and with different bytes
  (`MCInputs`; TLC counts to 2^31 - 1, so the upper half of 32 bits and the stamps of 64
  are left to the proof); lists of up to 3 networks of the 64; surveys of up to four networks.

The `Max...` constants and the budgets only bound a run (frames, faults, transports);
the code has no such bounds, except `QueueSlots`, `SeqSpace`, `FrameIdMod`,
`LinkFrameIds`, `PreviewIds`, `MaxMessageParts`, `QueueCap`, `RxCap`, `InputQueueCap`,
`KeyQueueCap`, `ScanRecords`, `DefaultRecords`, `PictureBytes`, `MaxReinit`, `MaxCycles`
and `MaxAutoReconnect`, which are smaller here than in the code.

Deadlock is checked in `wifi_provisioning_doc` only: all bounded counters reached, the
other models stop.

Many properties except a named window (`races`, `loose`, `stray`, `lost`, `misled`,
`mouseOff`, `keyOff`, `lateFeed`, `carried`, `starved`, `rxFirst`): a history variable
records that the behaviour went through it.  Each is a behaviour of the code that breaks
the plain property; the sections below say which.  Such a property does not catch the
hazard it excepts: it shows that there is no other way to break the promise, and the
hazard's note in `PROJECT.json` says so.

### Findings

* `RemoteDisplay::pump` finds the queue empty under one lock and ends the frame
  under the next; rectangles written in between are missing from a frame that
  the host takes for complete (`CommittedIsWhole`).
* After `flush_cb` gave up, the redraw that is to repair the picture is refused
  as long as END(ABORTED) is owed, and is not repeated (`ResyncsAfterGiveUp`).
* The epoch that `handleAck` compares is local to the host and never differs from
  that of the pending request; an ACK that answers a request of an earlier
  session is paired by its SEQ alone, which starts at 0 in each session
  (`AcksOfThisSession`).
* A disconnect that was put off during a scan is applied only when the scan succeeds.
  The end of the session, CONFIG, CLEAR, the watchdog and a failed scan throw it
  away: the phase returns to GotIp with the station down, nothing reconnects, and
  the TCP handoff begins without a link (`DeferredIsApplied`).
* `TcpTransport::close()` counts one semaphore for two tasks: the exit of the RX task is
  taken for that of the link task, which still runs when Wi-Fi is deinitialised
  (`CloseJoinsTasks`).
* A mouse move that the throttle holds back is sent after the press or release that
  overtook it, with the buttons from before, and undoes it on the device
  (`MouseFollows`).
* The wizard clears its secrets after a failure by cancelling itself, and is on its first
  page instead of the error page with Retry (`ErrorIsShown`).

### Observations without a run

Frames and session:
* A gap is noticed at the packet after it, which is dropped; if that is the
  FRAME_BEGIN of an undamaged frame, the whole frame is lost too (docs/DESIGN.md:596
  says that the next FRAME_BEGIN recovers).
* When a HELLO was deferred, sending it completes the handshake although the peer's
  has not come (`DrainHello`), and when the peer's comes first the deferred one is never
  sent; the comment on `kConnected` (protocol_endpoint.h:55) leaves it out.
  `SessionRecovers` holds nevertheless: the end that believes in a session alone finds
  its peer silent and times out.
* A refused FRAME_BEGIN leaves `endQueued_` set with no frame on the wire: `pump()` finds
  nothing to do, and the next frame is refused as busy until `flush_cb` gives up.
* A preview numbered before the device's reset and
  sent after it makes the host refuse what follows until the numbers catch up.

Transports:
* A state reported while `switchTo` closes its window can be left in the buffer or
  overtake it (transport_manager.cpp:321 against transport_manager.h:19-22).  The host
  worker looks at the connection again after `adopt`, which makes it harmless there
  (`LossIsNoticed`).
* `UartTransport::open()` of the ESP32 starts its RX task before it stores Connected: a read
  error may be overwritten.  The host's transport stores first (serial_transport.cpp:149-151).
* `TcpTransport`: an RX task that finds no memory leaves a connection that nobody reads
  (`starved`); an error on a socket that was closed and opened anew ends the new
  connection; data of a new connection may be delivered before it is announced.
* `WifiSta::stopReconnect()` is never called; association resets the retry counter, so a
  station that associates and drops is retried without back-off.

Wi-Fi:
* The latch that keeps the TCP handoff from trying an unreachable server again is to
  hold until the user sends CONFIG or CLEAR (main.cpp:112, 874), but `tickTcpHandoff`
  opens it in any phase before GotIp, which a scan passes through too (`Unlatched`).
* `setTcpPhase` sets the phase over whatever an event made of it since the snapshot
  (race `"overwritten"`); in `kConnecting` the snapshot is not even looked at.
* A hidden network, or one with an unknown authentication mode, makes
  `makeWifiScanResult` refuse the whole report (message.cpp:316); the host waits for its
  watchdog.  A scan that finds nothing calls `malloc(0)`.

OLED:
* An upload that fails while the application is shown has consumed the dirty flag, and
  a degraded sink is given no scene: the panel stays degraded until the mode changes
  (excepted in `OledComesBack`).
* A scene taken while the panel is not ready or the mode does not show it is gone; a
  change of mode does not mark it again (`lost`).  So a panel that showed the application,
  then the diagnostics page of another mode, keeps that page when the mode comes back,
  until the application draws something new; the comment at main.cpp:1452-1453 says that
  every enabled sink is given a new frame then.

Host:
* Between `beginSwitch` and the next Connected the gate is open to the old link, and a
  Connected of the old one that is still queued, taken before or after the new thread has
  its number, sets it back (`misled`).
* A request is `carried` when it was made, as far as the window knew, before the session it
  is sent in: it waited in the worker's queue, or the user made it while the end of a
  session was still queued for the window.  The window takes its acknowledgement for that
  of a later Apply; the own acknowledgement of that Apply is then taken for that of the
  next one, and so on until the session ends (`shifted`).
* After Disconnected the mode is reset, so that the mode that is sent on reconnection
  is VirtualOnly (main.cpp:386-398, display_ui_state.cpp:94-95).
* SET_MODE followed by a Wi-Fi request leaves the first without an answer; the 10 s
  watchdog ends it.  `onConnected` waits for a FULL frame without starting the watchdog.
* Within one worker thread `rxBuf_` is not cleared on reconnection, and the capabilities
  of an earlier session stay.

Input:
* A key that is held is released on the device at its first auto-repeat and stays so:
  `onKeyPress` ignores the repeated press (input_controller.cpp:126-132), `onKeyRelease`
  sends the repeated release (147-160, virtual_screen_widget.cpp:223-231), as
  docs/DESIGN.md:687 has it (`KeyToldDown`).
* A release outside the picture is not sent; an event that the endpoint let pass before
  the session ended is applied after everything was released; a mask that changed in a
  wheel event is not shown to LVGL as press or release.

Wizard:
* Frames and statuses of a stopped observer are still taken (`stray`), though a comment
  says that there is no signal after its join; a tolerated link error stops the watchdog
  that the comment at wifi_wizard_dialog.cpp:806-808 relies on (`loose`).
* The acknowledgement of WIFI_CLEAR is reported as that of a configuration; one that was
  refused fails the next dialog.  A late acknowledgement of a scan is taken in any step.
* The port field shows 8765 while the state holds 0, until it is edited.

### Fairness

`Session`: every task is a loop: the link task opens the transport again, the RX task
reads what has come, the worker and the session task tick every 5 and 200 ms, a
callback or a send that was begun goes on; so each of these actions is weakly fair.
A timeout is, too, but only in the states where nothing can answer it any more; the
early ones are never forced.  The decision to fail a session and the draining of a
HELLO are strongly fair: `sessionLoop` (main.cpp:1028-1060) drains the reply once and
then ticks, so a reply that is refused again and again, which takes the session task
out of `"idle"` each time, does not keep it from ticking.  Losses and refusals are
bounded, not fair.

`WifiProvisioning` (also in `MCDevice`): the session task and the event task are loops,
hence weakly fair.  `DhcpExpires` and `WatchdogFires` are strongly fair: they may happen
once in each tick in which the clock has moved far enough, and the clock goes on, so
one that stays due in turn after turn happens.  Nothing is assumed of the station, of
a scan's end, of the commands or of the handoff.

`PhysicalDisplay` in `MCDevice`: the display's task runs (weak), `start()` goes on past the
creation of the task, and a scan that paused the display ends, which
`DisplayComesBack` shows of the other part.

`HostWindow`: the event loop takes its signals and its timers fire; the worker's loop
turns, notices a lost link and sends what is queued.  The watchdog of an Apply and
the giving up of a request are strongly fair: other signals may be taken between two
ticks of a timer that is due.  Nothing is assumed of the device.

`TcpTransport` in `MCTransports`: link task, RX task and the event task of the station
are loops (weak).  Nothing is assumed of the peer or of the access point.

## 4. What is proved

`TransportProofs` proves of the transport manager, for any number of transports, senders and
types, and with `TransportAssumption` alone:

| Theorem | Property |
|---|---|
| `TypeCorrect` | the type invariant |
| `GateHolderSafety` | `GateHolderIsSafe`: who holds the send gate sends through an open transport |
| `GateFreeInJoin` | `JoinsWithoutGate`: no join under the gate |
| `OldSessionEnds` | `EndsOldSession`: the end of a session that `switchTo` or `reopen` closed is told before they return |
| `NothingFromClosedTransports` | `NothingFromClosed`: no callback of a closed transport reaches the upper layer, nor a buffered connection that is not taken back |
| `ShutdownIsFinal` | `SilentAfterShutdown`: nothing is told after `shutdown()`, if `close()` joins the threads of the transport |

They follow from one inductive invariant, `IInv`.  `Lifecycle` says which transports
exist at each step of an operation; without it `GateOwner` (the gate is the
control thread's in the short sections around the exchange of the transport)
is not inductive.  `Callbacks` says that no callback of a transport outlives its
`close()`, which joins its thread: that is the contract of transport.h, which the
manager relies on and `ShutdownIsFinal` with it; `CloseJoinsTasks` shows a `close()` of the
ESP32's TCP transport that breaks it.  `EndUnderWay` follows the Disconnected of the old
session from the moment it is closed silently through the buffer to the upper
layer; `BufferIsFresh` says that what is buffered after `clearPending` comes from
the new transport.

`DeviceProofs` proves of Wi-Fi provisioning, for any number of generations above one, commands,
events that wait, sessions that end and troubles, with `WifiAssumption` alone:

| Theorem | Property |
|---|---|
| `TypeCorrect` | the type invariant |
| `ScanEndsWhole` | `ScanIsOneThing`: no end of a scan leaves half of it behind |
| `GenerationRejectsNothing` | `GenerationAgrees`: the generation of a recorded end is the current one |
| `NoUnprotectedScan` | `ScansProtected`: the OLED is suspended while the driver scans, but for the watchdog and late ends |
| `PhaseIsTrue` | `PhaseTellsStation`: at rest, and without a race, phase and address say where the station is |

`ScanIsOneThing` speaks of the moment between two ticks, so it is not inductive:
`ScanStage` says for each step of a tick which of flag, phase and transaction have
heard of the beginning or the end of a scan.  `ScansProtected` needs `ScanIsOver`: the
driver does not scan any more when a reported end is taken, nor yet when a scan is
begun; that is where `"stale"` is excepted.  `EventsOK` types the queue of events,
from which the handlers take their arguments.  The proof that the type invariant is
kept is cut along the variables each part of a tick may change.

`PhaseIsTrue` stands on a second invariant, `StationInv`, on top of the first.  Where the
station is, and what the session task believes, differ by what is still to be heard:
`IpKnown` and `PhaseKnown` are address and phase once what a scan put off is applied, and
`StationFollowed` says that the events that wait lead from there to where the station is
(`IpAfter` folds them, `NewestTells` ties the last one to the station).  So each event is
heard against the state it will be applied to: `FirstHeard` takes it off the front of the
queue, `StationTells` puts one at its end.  An association is only reported to who knows
no address, which is why a "connected" during a scan may be forgotten.  The premise
`races = {}` excepts exactly the windows the variable records; once one was hit,
`StationInv` says nothing.  `Shapes` holds what this needs of the flags.  TLC agreed with
the inductive invariants on instances of the size of the runs before they were proved.

`TransportProofs` proves four properties of the transports, with the assumptions on their
bounds alone, for any number of threads that send, connections, drops and failures:

| Theorem | Property |
|---|---|
| `DriverIsSafe` | `DriverOutlivesUsers`: the UART driver is there for the RX task and every sender |
| `LostDeviceIsNoticed` | `LossIsNoticed`: the worker of the host pumps a lost link only while its loss is about to be told |
| `CloseWaits` | `ClosedTasksGone`: `close()` of the TCP transport without a leak has waited for its tasks |
| `ConnectedTransportsAreRead` | `ConnectedIsRead`: a transport that says it is connected has a task that reads it |

For the UART, `MutexOfManager` and `SendersInOpen` say who may hold `driverMutex_` at each
step of `open()` and `close()`, and `ReaderHasDriver` that the join cannot succeed before
the task is past its last read.  For the worker of the host, `LostIsLost` says that a
connection that is reported lost stays lost, and `ReportUnderWay` that what the manager
buffers during an adoption, and a state that is not told twice, cannot swallow the
report.  For the TCP transport of the device, `ExitsCounted` is the count of the
semaphore at each step of `close()`; it holds while the RX task has not ended before the
link task, which is the exception the finding is about.  `LinkIsRead` says that the RX task of
the device leaves a transport that runs only for want of memory, so that a connection keeps
the task it was given before it is told; `PortIsRead` that nobody stops the host's thread
between its start and the end of `open()`.

`DeviceProofs` also proves two properties of the OLED, with `OledBounds` alone, for any
number of scenes, failures, pauses, mode changes and starts:

| Theorem | Property |
|---|---|
| `PauseStopsTransfers` | `OneTransferAfterPause`: a paused display finishes at most one transfer |
| `OwedSceneIsShown` | `SceneSurvivesScan`: a panel at rest that owes nothing shows the newest scene |

`PauseSeen` says that after the transfer that a pause finds committed the task is not
about to start another.  `SceneOnItsWay` follows the newest scene: it is marked, or the
upload under way carries it (and has shown it when its last transfer is done), or the
panel shows it; an upload that a pause cuts short marks it again.

`HostProofs` proves four properties of worker and window, with `HostBounds` alone, for any
number of requests, sessions, worker threads and signals, and queues of any length:

| Theorem | Property |
|---|---|
| `OldBytesGone` | `BytesOfThisThread`: after a switch the new thread decodes no byte of the old link; within one thread the code keeps the bytes |
| `AnswersNamed` | `KindOfSlot`: the one pending kind is that of the request that waits |
| `SwitchEndsOnNewThread` | `SwitchSucceedsOnNewSession`: a switch succeeds only on a frame of the thread it started |
| `ApplyGetsItsAnswer` | `AckOfTheApply`: the answer taken for an Apply is to its mode, unless a request was `carried` |

`GateOfSwitch` is the invariant behind the third one: from `beginSwitch` on the gate is open
or follows the new thread, unless a Connected of the old one was taken (`misled`); with
`FramesNumbered`, a frame that passes an open gate sets it to its own thread, and one
that passes the new thread's gate is of that thread.  `ThreadNumbered` keeps a thread that
has not started from having bytes or a link.

For the fourth, a request is live, in the queue, in the slot or as its acknowledgement, if it was
made in the session it belongs to.  `OneLive` says that one at most is, and that it is that of the
Apply in flight: an Apply goes out only when none is in flight, and the window ends one only by
its answer, by a status, or when no answer is under way.  `StatusOrder` covers the status: a
request is not live before the window has taken all that was told of its session, so
that a status ends no live request; an answer to one that was carried may, and `shifted`
excepts what follows.  The proof attempt found that exception: three requests are needed,
and the run had two.

`UserProofs` proves three properties of mouse and keyboard, with `InputBounds` alone, for
any number of acts, faults and sessions and queues of any length:

| Theorem | Property |
|---|---|
| `EveryPressIsSeen` | `ClickIsSeen`: a press stays on show until LVGL has polled it |
| `EndReleasesAll` | `QuietWhenDown`: the end of a session leaves nothing pressed and no key waiting, but for an event fed after it (`lateFeed`) |
| `DeviceHoldsWhatUserDoes` | `DeviceFollows`: with nothing under way, the device has the button as the user holds it, and the key until it begins to repeat; from its first repeat on it is released there |

`PressIsHeld` says what shows a press before its poll: polls that are still due after
the release, else the button itself.  `ManagerEmptied` covers the moment between the two
resets of a session's end.  `FollowInv` is about the way of an event through the queue
of the worker, its batch, the wire and the device's buffer: `Told` says that the newest
event of a kind that is under way, at whichever of these places, says what the device is
to hold (`KeyToldDown` for the key), and that with none under way it holds that.  A step
that takes an event from one place to the next keeps that (`EventTaken`,
`EventAppended`), one that loses it is recorded in `mouseOff` or `keyOff`, and the next
one of its kind mends it.

`UserProofs` proves two properties of the Wi-Fi wizard, for any number of pages, answers,
signals, scans and dialogs (no assumption on the budgets):

| Theorem | Property |
|---|---|
| `WaitsAreWatched` | `WaitIsWatched`: the wizard waits only under its watchdog, but for the ways recorded in `loose` |
| `DoneOnFrame` | `DoneIsEarned`: Done rests on a frame since the last Apply, but for one of a stopped observer |

`WatchOK` adds to the first what the handlers rely on without saying it: a scan is under way
only on its page, and an error that is left standing is one from which Retry leads to that
page, where nothing waits until the user asks for a scan.  The lemmas on the
helpers of the dialog (`Watching`, `Observing`, `Forgetting`, `Erring`, ...) say what each
keeps of page, scan and watchdog; `Kept` is what the steps of the handoff have in common.

`FrameLinkProofs` proves that `FrameLink` implements `FrameDelivery`, and the converse, with
`BoundsAssumption` and `SeqSpaceAssumption` alone, for any number of frames, rectangles,
packets, sessions and faults, and any space of SEQ numbers:

| Theorem | Property |
|---|---|
| `LinkInvariant` | the inductive invariant `LinkInv` |
| `LinkDelivers` | `DeliversFinishedFrames`: initial states map to initial states, and every step to a step of `FrameDelivery` or a stutter |
| `FlowInvariant` | the inductive invariant `FlowInv`, which contains `LinkInv` |
| `UntouchedCommits` | `UntouchedFrameCommits`: a frame that nothing touches is committed, whatever came before it |

The argument for `LinkDelivers` does not use the SEQ numbers at all.  `StreamOK` orders
the packets under way as they were made, and so numbers the pixels of a frame in the
order they are sent.  `HostHasFrame` then says of the frame the host has open that it is
`Exact` (what came is what was sent so far) or `Misses` some of it, and that what was
lost can never be made up for: all that is still to come lies beyond a pixel that is
missing.  A FRAME_END that counts what was sent (`MadeFrames`, `SendingOK`) is therefore
matched only by the exact frame, which is finished.  That it is a new one, of this
connection, follows from the frame numbers (`HostInOrder`), which grow along the stream:
the HELLO that ends the handshake is the last packet of the stream until it is read
(`HandshakeOK`).  Frame numbers that are reused are excluded by `BoundsAssumption`: a
run has fewer frames than there are numbers.  On this link nothing else could tell a
reused number apart, because SEQ wraps too: after a loss of everything in between, the
end of one frame would fit the beginning of another.

`UntouchedCommits` is where the SEQ numbers matter.  `NumbersOK` says that the packets under
way carry consecutive numbers within a connection, and that while nothing went wrong the
first of them carries the one the decoder expects.  `OnePiece` says that the device sends a
frame in one piece: between two of its packets no pixel is left out, between the packets of a
RECT there is nothing else, and a RECT has no more of them than the decoder can collect.
`CountsOK` says that a FRAME_END counts the RECTs its frame has, and that the END of an abort
is that of no finished frame.  `HostReady` joins them: as long as nothing has touched the
frame, the host waits (`HostAt`) for just the pixel the frame goes on with (`GoesOn`).  So
a packet that arrives in order is neither skipped nor cuts the frame short, the host is
`Exact` and never `Misses`, and the END finds the counts it needs.

`DisplayProofs` proves three properties of the remote display, with the assumptions on its
bounds alone, for any number of frames, rectangles, sessions, losses and refusals and a
queue of any length:

| Theorem | Property |
|---|---|
| `PictureIsWhole` | `WholeWithoutRaces`: a frame the host shows is every rectangle LVGL drew, in order |
| `PartialFollowsItsBase` | `ChainUnbroken`: a PARTIAL frame is shown on the picture it was drawn for |
| `PictureConverges` | `Converges`: when all is at rest, and nothing was refused or given up, the host shows the widget tree as it is |

They have one premise: none of the four windows between two locked regions has been hit,
which is where the code itself breaks the promise (the findings).  `PipelineInv` says nothing
beyond types after that; up to then, `PipelineOK` holds.  Frame numbers may wrap, whatever
`FrameIdMod` is: wherever the code compares one, the invariant names the frame.  While
`abortPending` is set it is the frame of the UI task, and an END that is no abort finds
that very frame open at the host (`EndOK`).  `QueueOK` says that the slots of the ring
from `head` on hold the end of the one frame that is open, in order (the lemmas on the ring
need only that indices are taken modulo its size).  `HostFollows` says that the host has
of that frame exactly what was popped and sent, or will throw it away: `abortPending`, a
session that is over or a rectangle lost on the wire has cut it.  `EndOK` ties the END that is
about to be sent to a frame whose rectangles are all out, `FlagsOK` and `PumpOK` say which of
the flags can be set at which step of the pump, and `ChainOK` is what `needFull_` is for:
unless it is set, the frame before the one under way is the last one the host has shown, or
is about to be.

`Converges` needs what is still under way to be counted.  `Outcome` is the picture the
host will have once the END that is about to be sent and the frame in the queue have
reached it, and `PictureOK` says of each area, while a session is served and no full
redraw is pending, that it is dirty, or is still to be written in this rendering cycle,
or that its outcome is its content; and that a frame that has to be FULL is started only
while every area is still to be written.  Writing a rectangle moves an area from the
second case to the third, `OverAppended` and `OverFirst` saying what one more rectangle
does to a frame; the TX task changes no outcome, because it turns the frame into its END
with the same rectangles (`PictureFinish`) and the END into the host's picture
(`EndShown`).  `ServedOK` says why a frame is never stuck in between: in a session that
is served without a refusal, a frame of which a rectangle was sent is open on the wire,
and one that is still being written has a UI task that is not idle.  So when queue and
tasks have come to rest no frame is open, and outcome and picture are the same
(`RestShown`).  `EveryAreaListed` is what LVGL owes: a cycle flushes each area it
renders.

`DisplayProofs` also proves one property of the OLED's preview, for any number of pictures,
sessions and resets, with `PreviewAssumption` alone:

| Theorem | Property |
|---|---|
| `NewestShown` | `NewestIsShown`: the host shows the last picture that arrived, however often the numbers have wrapped |

The last picture the host has read, the messages under way, the picture that was taken and
the next one form a chain (`ChainOf`).  `NumberedBy` says of any two pictures in it that were
numbered in one go that their numbers, modulo the numbers there are, are as far apart as the
pictures between them, but for as many as were lost.  Each step does one thing to the chain:
a HELLO is put in (`HelloPut`), the next number is appended (`NextNumber`), the last one is
replaced by a reset (`NumbersAnew`), or a message goes missing (`MessageMissing`).  So the
picture the host reads next follows the last by one and what was lost, and `NewerAccepted`
says that this is newer for the comparison of 16 bits.  What `previewLosses` does not count
is a picture that was taken in a session and could not be sent after its end: `Busy` sets off
each such loss against a session the host opened, which is why the assumption has
`MaxPreviewSessions` in it.

`MessageProofs` proves both properties of the messages, with `MessagesAssumption` alone: the
number of records a report may hold fits its byte, the messages asked for are `Askable`, and the
networks a driver found are records whose number fits 16 bits.  Fields have the widths of
their C++ types, 32 bits for addresses and CRC and 64 for stamps.  So it holds for every value of
every field, texts and pictures of any length, displays of any size and scans of any length:

| Theorem | Property |
|---|---|
| `MessagesInvariant` | the inductive invariant `MessagesInv` |
| `MessagesReadAsMeant` | `PeerReadsWhatWasMeant`: a message is read as it was meant or not at all |
| `ScanReportsTrue` | `ScanReportIsTrue`: a report is sorted, holds the strongest, and is honest about the rest |

`MessagesInv` is plain: what was asked for is typed, the payload is that of its maker, whole,
grown by a byte or cut, and what is heard is what the parser makes of that.  The work is in two
places.  `EveryMessage` says that each message is refused by its maker or `Understood`: its
payload is read as it was given, a cut one is dropped (or is an ERROR or a PING), and a longer
one read the same or, where the protocol does not promise more, dropped.  Its lemmas, one per
message, rest on `Holds(p, at, f)`, the bytes of a field stand at an offset of a payload:
`FirstPart` and `SecondPart` find the offsets from the maker's concatenation, and
`ReadsWord`, `ReadsSigned`, `ReadsNet`, `ReadsPadded` and the like say what the parser
finds there, signs, byte order and padding included.  The second place is the sort.  It is a
recursive function, and its result is not computed but described: `Inserted` says that one
insertion into a sorted list gives a sorted list with the new record and the old ones in it,
and `SortedRecords`, by the first prefix for which it would fail (`SmallestOne`), that
the whole list is sorted and has the records of the scan.  `ListOfStrongest` is then what a
cut of a sorted list leaves out, and `ReportAskable` that the report is a message that
`EveryMessage` speaks of.

`SequenceLemmas` holds what these proofs and those of the host need of sequences that shrink
at the head and grow at the end.

Only model-checked: the liveness properties (`StationIsRetried`, `SessionRecovers`,
`RequestsEnd`, `DisplayComesBack`, `ConnectingEnds`, `OledComesBack`, `ApplyEnds`,
`SwitchEnds`), which rest on fairness and so are out of the prover's reach.  Every other
property of the passing runs, with the type invariants these proofs need, is a theorem above.

## 5. What is left

1. The TCP handoff of `main.cpp` with the transport manager and the session under it
   in one model; here each sees the others' contract.
2. The bring-up of the Wi-Fi driver in `WifiProvisioning::start`.

## 6. Not modelled

* Pixels, drawing, fonts, scaling and the value of the CRC: pure functions with unit
  tests, without state that another part can disturb.
* Qt widgets, layout, settings, translation (`i18n.cpp`, `split_drawer.cpp`,
  `display_status_panel.cpp`): presentation; what the windows decide is in `HostWindow`
  and `Wizard`.
* Statistics, telemetry, logging, benches and self tests.
* The drivers under UART, I2C, Wi-Fi and sockets, of which the models keep what the
  code relies on; initialisation of the firmware (`app_main`), which runs once before
  any task.
* Waiting times: a wait that may expire may do so whenever the code would accept it.
