# A verification of the GPS, Bluetooth and Wi-Fi services

This directory holds TLA+ modules, TLC configurations and TLAPS proofs for the parts of this
repository that have state, concurrency and failure handling of their own: `mnld`
(`gps/mtk_mnld`), the daemon that shares one GPS engine among its clients and downloads its
assistance data; the GNSS service and HAL in front of it (`gps/service`, `gps/gps_hal`); the
Bluetooth HCI service with its vendor library (`bluetooth`); and the Wi-Fi HAL service with its
vendor library (`wlan`).

## The system

The repository is the user-space connectivity stack of a phone: GPS, Bluetooth, WLAN, FM and the
loader of the combo chip. Much of it is glue to kernel drivers, tables of vendor commands, test
tools or conversion between structures.

| component | state | operations | talks to |
|---|---|---|---|
| mnld's state machine (`mnld.c`) | `g_mnld_ctx`: `gps_state`, per client `gps_used`, `need_open_ack`, `need_close_ack`; timers; link sessions; wakelocks | open, close, reset, reboot of a client; completions; timeouts | clients by sockets, control thread by datagrams |
| GPS control thread (`gps_controller.c`) | the command being executed, `gps_restart` | START, STOP, RESET, NMEA notification | libmnl by calls, main thread by datagrams |
| libmnl (binary, external) | running or not, offload or not | callbacks START_REQ, FIX_READY, heart beat, recovery request | control thread, main thread |
| sockets, timers, conditions (`mtk_lbs_utility.c`) | socket buffers, armed timers, `lock_for_sync` | `safe_sendto`, `start_timer`, `get_condition`, `release_condition` | everything in mnld |
| EPO downloader (`epo.c`) | `is_epo_downloading`, `epo_status` (piece flags, day), piece files, `EPOHAL.DAT` | fetch and check the pieces, merge, report | main thread, network |
| QEPO, MTKNAV downloaders | pending flags | download, report | the same |
| FLP and geofence links (`mnl_flp_interface`, `mnl_geofence_interface`) | session type and id on both sides | link open, link close, host-based open and close | run inside mnld, partly on libmnl's thread |
| GPS HAL (`gps_hal`) and GNSS service (`MtkGnss.cpp`) | `g_gpshal_ctx` (intent, state, socket), `meas_cbs`; callback interface, wakelock flags | init, start, stop, cleanup, measurements; mnld's reports and reboots; death of the framework | framework by binder, mnld by datagrams |
| Bluetooth HCI service (`bluetooth_hci.cc`, `hci_hal_state_machine.cc`, `vendor_interface.cc`) | HAL state, `g_vendor_interface`, `internal_command`, watcher thread | initialize, close, send; open, close, firmware answers, low power timeout | framework by binder, vendor library by calls, controller by UART |
| Bluetooth vendor library (`radiomod.c`, `radiomgr.c`, `mtk.c`) | firmware thread, command state, callbacks | configure the firmware, clean up | service by callbacks |
| HCI data path (`h4_protocol.cc`, `hci_packetizer.cc`, `hci_protocol.cc`, `async_fd_watcher.cc`) | packet type and bytes so far, wake flags, timeout | frame, write, assert and deassert wake | UART |
| Wi-Fi service (`wifi.cpp`, `wifi_chip.cpp`, `wifi_legacy_hal.cpp`) | run state, chip mode, interfaces, `is_started_`, callbacks | start, stop, configure, create and remove interfaces, RSSI monitoring | framework by binder, vendor library by calls and its event loop |
| Wi-Fi vendor library (`wifi_hal.cpp`, `common.cpp`) | `hal_info`: commands, handlers, cleanup sockets; reference counts | initialize, event loop, cleanup, monitor | driver by netlink |
| AGPS, AT, debug, meta, NLP, log, MPE interfaces | none that matters here | decode a message and call a handler | peers by sockets |
| FM, combo loader, test tools | driver handles | ioctl, vendor commands | kernel |

What is hard, and what makes it correct:

* mnld. Commands and completions travel through two queues while clients come and go, and the
  completion of a start may find that all clients have left. Correct means: never an event the
  state's handler calls unexpected, and an engine that does what `gps_state` says.
* mnld. Datagrams are lost on a full socket, starts fail without any report and libmnl may never
  call back. Only watchdogs repair this, by ending the process. Correct means: every wait has an
  armed watchdog, no watchdog outlives its wait, every request is answered or cancelled by a restart.
* mnld. In auto-switch offload mode `mnld_fsm` is entered by three threads without a lock. Each
  client is acknowledged by flags set at a request and cleared at a later event; the wakelock is
  requested and released at different events. A reset waits on a condition that libmnl's thread
  releases. Downloads finish on threads of their own while the GPS starts and stops.
* EPO. A download goes on where an earlier one failed, guided by flags in memory and files on
  disk, either of which may be gone. Correct means: success is reported only of a file with the
  right pieces in the right order, and of today.
* GNSS. mnld, the service and the framework die independently; the HAL repairs a death of mnld by
  sending its intent again from another thread. Correct means: the engine runs exactly if the
  HAL's intent says so, whatever died, and no wakelock or session is left over.
* Bluetooth. A close may come at any moment of the firmware's configuration, which has a thread of
  its own and callbacks into the service. Correct means: close joins everything, leaves nothing
  behind and never takes its own interruption for a broken controller.
* Bluetooth data. Reads and writes are of any length; the wake line is shared by a sender and a
  timeout without a lock.
* Wi-Fi. A stop waits for the event loop, whose callbacks wait for the lock that the stop holds,
  with a timeout of 100 ms; mode changes fail half way. Commands are counted by reference between
  two threads.

`PROJECT.json` lists the hazards with their lines and the properties against them.

## Modules

| module | models | extends |
|---|---|---|
| `MnldFsm` | the context, the seven state handlers, `mnld_fsm`, requests, internal events | |
| `GpsControl` | control thread, the restart condition, libmnl's callbacks | `MnldFsm` |
| `MnldSystem` | the threads together, timers, downloads, restart; specification and properties | `GpsControl` |
| `GpsService` | abstract: what mnld promises to the clients that share the engine | |
| `EpoDownloader` | the EPO download: pieces, checks, retries, merge, report; specification and properties | |
| `EpoService` | abstract: what the downloader promises to the rest of mnld | |
| `GnssHal` | GNSS service, GPS HAL, and mnld as its peer, with deaths of all three | |
| `BtHci` | the life of the Bluetooth HCI service: calls, looper, vendor library, firmware thread, watcher | |
| `BtLink` | its data path: framing, writing, low power | |
| `WifiHal`, `MCWifi` | the Wi-Fi service, the legacy HAL object and the vendor library; its instance for TLC | |
| `MnldProofs` | types, the EPO file and the offload invariants, in all modes | `MnldSystem`, `TLAPS` |
| `HostProofs` | watchdogs, acknowledgements and wakelock without offload | `MnldProofs` |
| `EngineProofs` | the two queues without offload: no crash, the engine follows, refinement of `GpsService` | `HostProofs` |
| `EpoProofs` | types, flags, refinement, soundness of a reported success, freshness | `EpoDownloader`, `TLAPS` |
| `GnssProofs` | types, no measurement without callbacks, wakelock, agreement, nothing kept | `GnssHal`, `TLAPS` |
| `BtHciProofs` | what close leaves behind, justified aborts, safe sends | `BtHci`, `TLAPS` |
| `BtLinkProofs` | the wake line, the bytes written and the packets read | `BtLink`, `TLAPS` |
| `WifiProofs` | interface combinations, the states between calls, reference counts, aborts | `WifiHal`, `TLAPS` |

### State and actions

`ctx` is `g_mnld_ctx`, with `used`, `open` and `close` for the sets of clients whose `gps_used`,
`need_open_ack` and `need_close_ack` are set. `ctx.type`, `pre_type` and `view` are the type of
the two link sessions in mnld, its previous value and what the link was last told. `ctx.told` is
a history of the last acknowledgement per client, `ctx.gpsQ` the control thread's socket,
`ctx.dead` is set by a watchdog's exit or by `CRASH_TO_DEBUG`. The handlers of `mnld.c` are
operators from context to context with the names of the code; a handler that runs on the main
thread is one action, because the main thread handles one message at a time and everything it
touches is its own, apart from the offload calls described next.

`mnld_fsm` on another thread is split: `SwitchTimeout`, `SwitchCheck`, `SwitchClear` are the timer
callback `mnld_gps_switch_ofl_mode_timeout`, `LibLinkClose` is the stop confirmation of the
offload FLP on libmnl's thread, and both go on with `AuxRead` (the state is read) and `AuxRun`
(the handler of the state read runs). `aux` is that thread; one such call is under way at a time.

`gps` is the control thread. A reset has the steps of the code: the restart request
(`GpsResetParam`), `gps_restart = 1` and waiting (`GpsResetWait`), waking (`GpsResetWoken`) and the
report (`GpsResetDone`). `lib` is libmnl as mnld sees it: a start or requested restart calls
back later (`LibStartReq`, then `LibStartDone`), it may restart of its own accord
(`LibRestartReq`), and in offload mode it sends heart beats and recovery requests.

`epo` is the EPO download: the flag, whether the thread is at work (`busy`), and whether
`EPOHAL.DAT` is there. Injection by the main thread and by the control thread may fail and then
leaves the file. The end of a start (`linux_gps_init`) is three unlocked steps of the control thread,
`EpoCheck`, `EpoInject` and `EpoUnlink`; `epo.start` is where it is. A download may begin in between:
`epo.crossed` is the history of one that began after the check ("begun") and of the removal that hit
it ("removed"). This is the downloader as `EpoService` describes it, which has the same history with
`Claim`, `Remove` and `Leave` for the start.

`EpoDownloader` is that downloader in detail. `status` is `epo_status`: the available bits of each
piece, and `today` for `last_DL_Date == tm_mday`. `disk` has the piece files: which checksum files
are there, for each data file whether it is missing, new or found to match its MD5, and which data
was fetched on the day of the call (`fresh`, a history). `hal` is `EPOHAL.DAT` as the sequence of
pieces merged, an entry being "torn" while it is copied and "void" if there was nothing to copy.
`th` is the thread in `epo_file_download_impl`: its position, `gps_epo_file_count`, the piece
`gps_epo_file_name` was made for, `ret` and the retry counters. One action is one step between two
accesses to the network or to `EPOHAL.DAT`: `Begin`, `LoopTop` (day and file checks), `Piece` (the
head of the loop), `FetchMD5`, `FetchDAT` (one transfer each), `Match`, `Prefix`, `Mismatch` (the
three results of the checks), `Merge` (the file is opened), `Copy` (it is complete), `Finish`,
`Retry`. `Trigger` and `OnEpoDone` are the main thread; `EpoAtStart` is the GPS control thread, in
the same three steps as above, with `gps` in place of `epo.start` and `epo.crossed`; `Die` ends the
daemon at any point, `QepoUrl` is the QEPO thread's call of `mtk_epo_is_expired`, which resets
`gps_epo_file_count` and leaves the file names alone. Waiting for QEPO shows as the third outcome of
a fetch: the thread gives up with nothing changed on disk.

`GnssHal`: `hal` is `g_gpshal_ctx`; `gnss` the statics of `MtkGnss.cpp`; `fw` what the framework
believes. A call of the framework becomes a list of steps in `todo.binder`, a reboot message of
mnld one in `todo.worker`, because each assignment of `gps_state_intent`, each `sendto` and each
assignment of `gps_state` is a step of its own: the two threads take no lock. `Step` executes one,
`WorkerRecv` handles a message. `Handle`, `FsmStart`, `FsmStop`, `StartDone` and `StopDone` are
mnld's handlers for this client alone. `MnldDie`, `HalDie`, `FwDie` are the three deaths, `NmeaTimeout` is
the case in which mnld reports a reboot without one. `ToMnld` and `ToHal` are the two directions of the
link. A datagram to a dead peer is gone, and `safe_sendto` may give up on one between live peers
after ten EAGAINs: the HAL then does not take over the new `gps_state`, mnld ignores the result.
`lost.of` is the history of what was given up on and nothing has made good: a later wakelock or
session notice replaces the missing one, and a death of mnld or of the service makes the rest
irrelevant, since everything is then sent again.

`BtHci`: `queue`, `sm` and `looper` are the message handler with its states; `looper.pc` walks
through `VendorInterface::Open` and `Close` statement by statement, as far as other threads can tell.
`fw` is `GORM_FW_Init_Thread` in its script; `lib` the library's `bt_vnd_cbacks`, `cmd_status` and whether
the thread runs; `icmd` is `internal_command`, by which the watcher recognises the answer.
`CtrlAnswer` and `CtrlLose` are the controller. The firmware thread also ends with FAIL before its first
command, if the chip is unknown or has no script, and at any command if an allocation or a send fails.
Its two-second timer may expire whenever it waits, also after `Close` has stopped the watcher
and before the library has lost its callbacks. `fw.wrong` is the history of what has gone wrong for
the thread: no script, a failed command, an answer that did not come, one that nobody read any more.
`fwk.overtaken` marks a session begun while the service was still busy with an
earlier one.

`BtLink`: bytes are numbers, a packet's payload bytes carry its number, lengths are encoded as in
the code, an ACL length in two bytes, the low one first. `Radix` is the number of values of a byte,
so that a small instance has lengths with both bytes. `ReadType`, `ReadPreamble` and `ReadPayload`
each read any number of the bytes that are there. `host` is a binder thread in `Send`, one step per
access to the shared flags; `watcher` is `ThreadRoutine` with `OnTimeout`. One framework thread
sends, as the stack does, and traffic starts after `OnFirmwareConfigured`. Read errors and the end
of the file, which abort the service, are left out.

`WifiHal`: a HIDL call is one action, since each holds the global lock, except a stop or mode change
which waits for the event loop: `binder.pc` is where it waits. `loop` is the event loop's thread, at
its poll, in a callback or at its end. `hal.cmds` and `hal.cbs` are the outstanding commands and
their event handlers, `refs` the reference count of each command, `RequestId` its id. One binder
thread serves the calls. A stop of a monitor with an id the library does not know, or with −1, which
the library cancels through a temporary command, leaves the registered command (`past.strayId`).
`LoopHangup` is a POLLHUP, which ends the loop unasked (`past.hup`). `retrieveIfaceHandles` succeeds
if `wifi_initialize` did.

Abstractions: the aiding flags to whether any is set; session ids (both ends are in one process);
time (an armed timer may expire at any moment); an AGPS reset without flags, which is answered at
once and changes nothing; the contents of a piece to the results of its checks; payloads, logging
and formatting. A watchdog's `exit` and init's restart are two steps, `Restart` being init's.

## Model checking

Deadlock is checked in every run of mnld and the downloader: mnld never stops. The runs of the other
four modules do not check it, because those services idle when nobody calls and the calls are
bounded. No run needs symmetry.

| run | instance | checks | distinct states |
|---|---|---|---|
| `host` | hal and agps, offload off, failing library, one spontaneous restart, queues of 2 | `TypeOK`, `NoCrash`, `EngineFollows`, `WatchdogArmed`, `AckDiscipline`, `WakelockBalanced`, refinement of `GpsService` (`HonoursService`) | 410,005 |
| `host_live` | the same clients, queues of 1, a library that may fail and need not call back | `OpenAnswered`, `ResetAnswered`, `EngineReleased` | 36,950 |
| `assist` | hal, EPO and QEPO downloads, one notification | `EpoNotTorn` | 2,608,946 |
| `offload` | FLP link and factory test, auto-switch mode | `EngineFollows`, `OffloadExclusive`, `NobodyStranded` | 901,551 |
| `always` | the same clients, always-on mode, failing library, one restart and one notification | `NmeaMonitorOff` | 14,600 |
| `epo` | three pieces, the code's three retries, failing merges, lost reports, deaths | `OkSound`, `OnlyFresh`, refinement of `EpoService` (`HonoursEpo`) | 27,519 |
| `epo_race` | the same with one repetition per transfer, two QEPO resets, calls a month apart; reports arrive | `FlagsTrue`, `DownloadEnds` | 585,776 |
| `gnss` | three calls, two faults (deaths, datagrams given up on), one report | `Agreement`, `WakelockHeld`, `NothingKept`, `NoNullCallback`, `Recovers` | 696,301 |
| `bt` | a script of two commands, three initializes, three closes or deaths, one event | `NothingOutlives`, `FatalJustified`, `SendSafe`, `LooperFree`, `Answered` | 568,776 |
| `bt_link` | ACL data and events of up to two payload bytes, a byte of two values, two packets in, one out, one write error | `Framed`, `Written`, `WakeKnown`, `Sleeps`, `Delivers` | 101,973 |
| `wifi` | three builds, nine calls, two failures or hangups, two events | `Settled`, `IfacesFit`, `RefsExact`, `AbortsKnown`, `StopReturns` | 495,810 |
| `offload_crash` | see Findings | `NoCrash` | violated |

What the runs of `epo` and `assist` show: the file changes by the downloader's own hand while it is at
work, a reported success is one of a sound file, and the downloader implements `EpoService`
(`EpoNotTorn`, `OkSound`, `HonoursEpo`), with one exception that each of them names: a start of the GPS
that had passed its check when the download began may remove the file once.

What the runs of the four services show: after any death, once everything is quiet, mnld does what
the HAL's intent says (`Agreement`, and `Recovers` says it gets there), unless `safe_sendto` gave up on a
request or on a reboot message and neither side has died since (`Told`); a Bluetooth close always comes
to an end (`LooperFree`) and leaves nothing (`NothingOutlives`); the service aborts over its firmware only
without a script, after a failed command or after two seconds of waiting, never because a close terminated
the thread (`FatalJustified`); every packet is handed up whole however its bytes come in (`Framed`,
`Delivers`); a Wi-Fi stop comes to an end except when it and the loop's thread wait for each other, the loop in a callback or ended by a
hangup without an answer (`StopReturns`), and the ways in which the service can abort are the five that
`AbortsKnown` lists. Premises such as `~past.raced`, `Told` or `~fwk.overtaken` name the situations in which the
code does not keep the promise; each is described under "Seen in the models".

Bounds and why they are enough:

* `Clients`. The handlers ask only whether some client of a class is there (host-based, link,
  low-power), so two clients show sharing, and one per class shows switching. `hal` and `agps` are the
  clients with the most behaviour (acknowledged, reboot, reset). A factory client stands for the
  host-based clients that get no acknowledgement.
* `QueueCap`. With 2, a completion can wait behind another one and a command behind another one, and
  drops happen; with 1 almost every burst drops. The code's limit is the socket buffer.
* `MaxRestarts` bounds the library's restarts and heart beats, `MaxNotifies` FIX_READY and recovery
  requests. One is enough for a START_DONE nobody asked for, in every state. Both counters live as
  long as the run, across restarts of the daemon.
* `NPieces` is 3: a first piece (which alone is retried and begins the file), a middle and a last
  one. `DlRetries` and `CallRetries` have the code's values in `epo`. `epo_race` repeats a transfer once
  instead of three times, which keeps every kind of outcome of a transfer.
* `MaxQepo` bounds the resets by QEPO during one call. Without a bound a thread that is reset after
  every piece would append for ever. Two resets suffice for one at any step and another one
  during the merge it spoils.
* Client requests, downloads and daemon restarts of mnld are unbounded.
* `gnss`: three calls are init, start and stop, so that each death can fall between any two of them
  and into a handshake. With two faults a reboot can be followed by another one, or a lost
  datagram by a death that makes it good; one fault is too few to see that `NothingKept` needs its
  exception for a race (below).
* `bt`: with three sessions one can overtake another one that overtook a first; two commands
  distinguish the first from a later one. One event suffices to show interception.
* `bt_link`: two packets in, of no payload to two bytes of it; every split of their bytes occurs.
  ACL and event packets have the two forms of length field, and with `Radix` 2 a length of 2 has a
  nonzero high byte. The one packet out may find the line asserted or deasserted, before, during and
  after a timeout; a second one would multiply the states beyond what the run can visit. The
  theorems hold for every `Radix`, so for bytes of 256 values and ACL lengths of 16 bits, and for
  any number of packets.
* `wifi`: nine calls reach start, configure, a STA interface, two monitors, their stop, reconfiguration
  and a second start. Two events let one wait in a callback while another one is pending.

### Fairness

`Fairness` of mnld gives weak fairness to the main thread's event loop, the control thread, the end of a
callback that has begun, each armed watchdog, the timers' callbacks, and init's restart (the
service is declared to be restarted). libmnl, the clients and the network get none, so
`host_live` shows that the watchdogs suffice when the library stays silent.

In `EpoDownloader`, `FairSpec` lets the downloader's thread and the main thread run. A transfer
ends because curl is given a time limit and the wait for QEPO is bounded, but none need succeed.
`DownloadEnds` also assumes that the report arrives; if `safe_sendto` drops it,
`is_epo_downloading` stays set and there is no other download until the daemon restarts.

In the services, threads that can take a step do, and init restarts what died. In `GnssHal` mnld
also handles what it receives and its engine completes (which `host_live` shows, up to a restart).
In `BtHci` the controller answers or its answer is lost, the firmware thread goes on, if only
because its two-second timer expires, and binder delivers obituaries; all that while the service has
not aborted. In `BtLink` the timeout passes when nothing else happens. In `WifiHal` the wait of 100
ms ends. Callers get no fairness anywhere.

### Findings

`offload_crash` (`NoCrash`). `mnld_fsm` runs unlocked on the timer's and on libmnl's thread. A stop
confirmation reads `gps_state`, the main thread acts on a host client's start, and the old
state's handler runs: two stops are issued and the second STOP_DONE reaches `CRASH_TO_DEBUG`.

Seen in the models, without a run of their own. mnld:

* The control thread reads the session type when it executes a start. A link that opens in
  between turns a host client's start into one in offload mode.
* A link opened in OFL_STARTED sets `need_open_ack`, and no handler acknowledges it. A reset in
  OFL_STARTED is ignored and its acknowledgement stays owed.
* A reset's restart is requested before `gps_restart` is set. A callback that comes in between does
  not release the condition, and the reset is then reported only by the 30 s watchdog ending the
  process (`ResetAnswered` shows that it does end). A condition released too often lets the next reset
  return at once.
* A close during STARTING is dropped by the handler; if another client keeps the GPS, it is not
  acknowledged until some later stop event.
* A restart for offload-only users after a stop is not watched; in auto-switch mode the wakelock's
  release is decided by the session types at the stop, the request by those at the start.
* Two resets share `timer_reset`: the first RESET_DONE disarms it and acknowledges both.
* An EPO file that arrives during STARTING is neither injected nor remembered until the next start.
* A start checks `is_epo_downloading`, injects the file and removes it without a lock. A download that
  begins in between can lose its file: success is then reported without one, or of a file that
  begins in the middle (`epo.crossed`).
* A notification queued behind a STOP re-arms the NMEA monitor after it was stopped (offload off).

EPO downloader:

* `getQepoUrl` resets the EPO loop's counter from the QEPO thread when `EPO.DAT` is expired. If piece 1
  or a later one is being fetched, its merge takes itself for the first, deletes the earlier pieces,
  and success is reported of a file that begins in the middle: `OkSound` fails with `MaxQepo > 0`.
* `last_DL_Date` holds the day of the month only. With `LongGaps` `OnlyFresh` fails: a call a
  month after one that failed at a later piece, to the day and without a restart of the daemon,
  merges the old pieces.
* After a failed merge `ret` stays FAIL although the next attempt merges every piece from the flags.

GNSS:

* A start, stop, init or cleanup, or a report of a reboot, that `safe_sendto` gives up on is never
  sent again. Only a death of mnld or of the service puts it right, because everything is then
  sent anew (`Told`).
* A request or release of the wakelock, or a SESSION_END, that mnld gives up on stays missing until the next
  notice of its kind: the engine may run without a wakelock, or the framework keep one for nothing.
* A call of the framework that overlaps the handling of a reboot message races with it for
  `gps_state` and for the order of datagrams (`past.raced`): mnld may be left started after a stop.
  If its NMEA then times out, mnld drops the user, turns the engine off and reports a reboot, after
  which the HAL, whose intent is not to start, asks for nothing: the framework is never told
  SESSION_END. An attempt to prove `NothingKept` without this exception failed here, and TLC then
  found the behaviour with two faults.
* After a death of the framework `sWakelockHeld` stays set and the next request is not passed on.
* A stop that is sent while mnld is down is lost, and its successor owes nobody a release of the
  wakelock or a SESSION_END. `hal_reboot` also forgets an owed SESSION_END.
* After a reboot of mnld the measurement setting is not sent again; after one of the service mnld may
  still report measurements to callbacks that are not set.
* A restart out of STOPPING requests no wakelock, so the framework of a restarted service has none.
* A failure of `gpshal_resource_init` is never retried.

Bluetooth:

* `initializationComplete` goes to the callback of the latest initialize, also for an earlier one; an
  obituary that is delivered late closes the session of the next client (`fwk.overtaken`).
* The two-second timer can expire between the end of the watcher and `clean_callbacks`. The configuration is
  then reported as failed, and a service that is closing in an orderly way aborts.
* A chip without a script, or an allocation or a send that fails, aborts the service too.
* A failure of `mtk_fw_cfg` is ignored by `Open`, so the client is never answered (`vi.silent`).
* A packet without payload makes `HciPacketizer` read 0 bytes, which it takes for a fatal error.
* `Send` and `OnTimeout` that meet leave the flag and the wake line in disagreement (`past.raced`); on this
  chip the wake operation does nothing.
* A write error drops the rest of a packet, so the controller loses its framing.

Wi-Fi:

* A callback that waits for the global lock when a stop begins waits for the stop, and the stop
  for the loop.
* A loop that takes more than 100 ms to end lets the stop return; the next start then fails a CHECK.
* A mode change that fails half way leaves a mode in which nothing runs; an RSSI monitor started in
  it dereferences a null handle.
* Stopping a monitor with an id the library does not know forgets the callback and leaves the command.
* Stopping a monitor with the id −1 returns SUCCESS and takes its handler away, but the registered command
  keeps its entry and its reference.
* A POLLHUP on the event socket ends the loop without a stop, which is `LOG(FATAL)` when it gets the
  lock. A stop that holds the lock and is not answered waits for that loop.
* Removing the STA interface leaves its monitor registered.
* The vendor library has no NAN: the constructor of a NAN interface invalidates it, and the next
  invalidate uses the legacy HAL it has given up.

### Sensitivity

`Mut_X` operators are plausible wrong versions of a definition X: a forgotten client, a missing
timer, a command issued too early. Each property of a passing run is violated when one of them
replaces its original; `PROJECT.json` lists the pairs.

## Proofs

The eight `...Proofs` modules are checked by TLAPS (SMT and Zenon for steps, LS4 for the temporal
conclusion). Every invariant, action property and refinement that a passing run checks is a
theorem; the liveness properties are TLC's. The proofs hold for every value of the constants that meets
the named assumptions of the modules. Where a theorem has a hypothesis of its own, it is listed here.

| theorem | property | hypothesis |
|---|---|---|
| `TypeCorrect`, `EpoFileSafe`, `OffloadStaysExclusive` | `TypeOK`, `EpoNotTorn`, `OffloadExclusive` | none: all offload modes |
| `NobodyIsStranded` | `NobodyStranded` | `"flp_test" \notin Clients` |
| `MonitorStaysOff` | `NmeaMonitorOff` | `OffloadMode = "always"` |
| `WatchdogsCorrect`, `AcksCorrect`, `HostProofs!WakelockCorrect` | `WatchdogArmed`, `AckDiscipline`, `WakelockBalanced` | `OffloadMode = "off"` |
| `NeverCrashes`, `EngineInStep`, `ServiceRefined` | `NoCrash`, `EngineFollows`, `HonoursService` | `OffloadMode = "off"` |
| `EpoTypeCorrect`, `FlagsCorrect`, `EpoRefines` | `TypeOK`, `FlagsTrue`, `HonoursEpo` | none |
| `OkCorrect` | `OkSound` | `MaxQepo = 0` |
| `FreshCorrect` | `OnlyFresh` | `LongGaps = FALSE` |
| `NullCorrect`, `WakelockCorrect`, `AgreementCorrect`, `NothingKeptCorrect` of `GnssProofs` | `NoNullCallback`, `WakelockHeld`, `Agreement`, `NothingKept` | none |
| `NothingOutlivesCorrect`, `FatalCorrect`, `SendCorrect` | `NothingOutlives`, `FatalJustified`, `SendSafe` | none |
| `WakeCorrect`, `WrittenCorrect`, `FramedCorrect` | `WakeKnown`, `Written`, `Framed` | none |
| `IfacesCorrect`, `SettledCorrect`, `RefsCorrect`, `AbortsAreKnown` | `IfacesFit`, `Settled`, `RefsExact`, `AbortsKnown` | none |

The hypotheses are not conveniences. In auto-switch mode `NoCrash` is false (`offload_crash`), a restart
for link users is deliberately not watched, and request and release of the wakelock are decided by
session types that change in between. `OkSound` is false with a QEPO reset and `OnlyFresh` with calls a
month apart (above). The FLP test client is the only low-power client that is not a link, and the code that
would register it is compiled out (`mnld.c:2084`, and its socket is not polled, `mnld.c:2500`).

### mnld

`MnldProofs`. `TypeCorrect`: one lemma per operator says that it maps contexts to contexts, one per
thread that its steps keep the types.

`EpoFileSafe` rests on `EpoHandshake`: while the downloader is at work the flag is set and no report of
it is in the main thread's socket, and there is never more than one report. So the flag that the
start and the main thread look at cannot have been cleared by an old report. A start that has passed its
check is beyond the flag: `EpoBehind` says that if the downloader is at work all the same, it began after
that check (`epo.crossed`), which is the one exception that `EpoNotTorn` makes, for one removal.

`OffloadStaysExclusive` and `NobodyIsStranded` have to cope with `mnld_fsm` running on another thread with a
state read earlier. `Goes(g, h, st)` says what every handler may do to users, session types, power and
NMEA timer; `Outcome(g, h, st, ev)` bounds the result of the handler of *any* state `st` applied to *any*
context `g`, also one in another state. `StepCalls` shows that every step calls `mnld_fsm` after
preparing the context (a user registered for a start, or dropped), or is slight, or is a restart. With
these both properties are inductive by themselves, for the main thread and for the other two alike.

`MonitorStaysOff`: in always-on mode the NMEA timer runs only with a host-based client and low-power mode
holds only without one (`Monitored`); a call of `mnld_fsm` brings both in line with the users, and a
notification arms the timer only for users it watches.

`HostProofs`. `HostInvariant` is `Spec => []HostInv`. None of the three properties is inductive alone.
`ApOnly` keeps the link sessions in AP mode and the offload states away, so that the power switch of
`mnld_fsm` does nothing, no session is dropped and every restart is watched. `Watched` adds to
`WatchdogArmed` that a reset is owed only outside IDLE and that, once the start is over, it has its own
timer. `Owed` adds to `AckDiscipline` that whoever was last told the GPS is on uses it or waits for
a close acknowledgement: without this, reaching IDLE would not show that everybody knows. The
invariant is about `ctx` only: an unexpected completion sets `dead` and changes nothing else, so it
needs nothing about the queues. The lemmas `...Fields` state what each handler does to each field,
`...Host` that it preserves the invariant; `HostStep` puts them together.

`EngineProofs` adds the queues. `EngineInv` has `HostInv` and `Tracks`, which says for each
`gps_state` which commands may be under way to the control thread, whether the engine runs, and
which completions may be on the way back: in STARTING at most one START and no STOP, and no START
any more once the engine is on; in STOPPING nothing is reported after a STOP_DONE; in STARTED and
IDLE no command at all. A message lost by a full socket only shortens a queue, and every part of
`Tracks` says that something is absent or there at most once, so drops preserve it. `Callbacks` says
that only a running library calls back, `Waiting` that while a start or stop is under way every
acknowledged user still waits to be told. `NeverCrashes` and `EngineInStep` follow. For
`ServiceRefined` a client's session is open, closed or on the way to either according to `used`,
`open` and `close`; each step is a step of `GpsService` or leaves its variables alone.

### EPO

`EpoProofs` proves, for every number of pieces (up to the code's 10) and of retries, whichever
transfers, checks, merges and reports fail and whenever the daemon dies:

* `EpoTypeCorrect` (`TypeOK`), `FlagsCorrect` (`FlagsTrue`) and `EpoRefines` (`HonoursEpo`: the
  downloader implements `EpoService`), for every number of QEPO resets;
* `OkCorrect` (`OkSound`: the reported file is sound, unless a crossing start removed it) if there are
  none (`MaxQepo = 0`); with one it is false (see above);
* `FreshCorrect` (`OnlyFresh`), with QEPO resets, if no two calls are a month apart to the day.

The inductive invariant has three layers. `EpoInv` survives QEPO: `Flags` adds to `FlagsTrue` what a
flag means between calls, when success has removed the files and left the flags; `AtPiece` says that
the counter is the piece at hand or has been reset to 0, and that the pieces before it are
available, so that a flag set for piece 0 by mistake was set already; `Begun` and `Handshake` relate
file, thread, report and a start under way (`gps.crossed`), which is what the refinement needs.
`SoundInv` adds for `MaxQepo = 0` that the counter is the piece (`InStep`) and that the file holds
exactly the pieces merged so far (`HalAt`): at a retry the failure was at the first piece and the
file is empty, which is why appending is safe; all this until a crossing start removes the file.
`FreshInv` says that every entry of the file was fetched on the day of its call (`FreshFile`) and
that a set flag stands for data of today while `last_DL_Date` is today, which it is while the loop
runs (`FreshFlags`); a flag of piece 0 set through a reset counter was set already.

### GNSS

`NullCorrect`. `NoNullCallback` is a history: the inductive `MeasKnown` says that before the callbacks
are stored nothing is *under way* that could lead to a measurement, neither in what the threads
have still to do, nor on the link to mnld or back, nor in mnld's setting. The sets of the type
invariant with the one dangerous element removed express this, so one set of lemmas about
sequences serves both.

The other three speak of quiet states, so their invariants say what the work still to be done leads
to. `After(q, u, on, off)` is a setting `u` once every entry of the queue `q` has been handled, where
entries in `on` set it and entries in `off` reset it. Three facts carry the proofs: taking the head of
a queue and doing what it says leaves `After` alone; an entry appended decides it; and moving an entry
from the threads' lists to the end of the link leaves the whole alone. In a quiet state all queues are
empty and `After` is the setting itself.

* `ShapeInvariant`: which lists of steps the two threads can have, and what mnld knows of its client in
  each state of its engine. It holds through all deaths and the other invariants start from it.
* `LocksInvariant`: while framework and service live, `sWakelockHeld` is the framework's lock and
  the requests and releases under way lead it to follow the engine, unless the missing one is
  in `lost.of`. From it `WakelockCorrect`.
* `MeantInvariant`: `Calm => Meant`. `Calm` says that no call has met the handling of a reboot and that the
  HAL is initialised, `Meant` that what the two threads have still to send does not go against the
  intent. It holds whatever was given up on, and is why a death of mnld or of the service puts right what
  was lost before.
* `AgreementInvariant`: `Sound => InStep`. `Sound` is `Calm` with no request and no report of a reboot given up
  on since the last death (`Told`); `InStep` says that the start, stop, init and cleanup commands under
  way lead mnld to what `gps_state_intent` will be (`WillUse`, `WillInit`, `WillBe`), unless a reboot message is
  on its way (`Coming`), which makes the worker send everything again. The hard case is a death of mnld:
  it empties the link, and the message of its successor is what makes `Coming` true.
* `KeptInvariant`: while nobody has died and every request arrived (`Told`), an open session whose end was
  not given up on (`WillSession`) is `Attended`: mnld has the user, owes a SESSION_END, or a start, a stop
  or a reboot with an intent to start is still to be handled (`Owed`).
  `Orderly` adds that the intent leaves "start" only in steps that also send the stop.
  `NothingKeptCorrect` follows with `LocksInvariant`.

### Bluetooth

`BtHciProofs` proves `NothingOutlives`, `FatalJustified`, `SendSafe` and `InterfaceMatches` with
`TypeOK`, for every length of the script and every number of sessions and events. `BtInv` has five
parts beside the types. `Lifecycle` relates state machine, looper and interface. `Alive` says up to
which step of `Close` watcher, library, firmware thread and UART may still be there; the order of
the joins is what makes it inductive. `Quiet` says that a thread that has not begun has no command
under way and nothing wrong with it, and that a closed UART has neither command nor event. `Excused`
follows a failure through event, watcher, command state and thread to the abort: at each stage
`fw.wrong` names a reason, or the callbacks are already gone, as they are whenever the thread is
terminated. `Undisturbed` says that while a session that overtook nothing is open, its initialize is
the only work there is.

`BtLinkProofs` proves `WakeKnown`, `Written` and `Framed`, for every set of packet types, every
`Radix`, every length of packets that two bytes hold (16 bits if `Radix` is 256) and every number of
failures. `Wake` adds the state of flag, line and timer at each step of `Send` and of `OnTimeout`;
`Gathered` says that what was written and what the iovecs still stand for make up the packet.

`FramedCorrect` needs the contents of the UART. Concatenating all packets would be a recursive
definition, so `Stream` says instead that there is a *layout*: a function giving the offset at which each
packet begins, with consecutive offsets one type byte and one packet apart (`Laid`), such that every
byte in the UART is the byte of the packet at its offset, and the packetizer's position is at the packet
being read, as far into it as its state and bytes say (`Placed`, `Reading`). Sending extends the layout by
one packet; reading any number of bytes moves the position. That the length field of the preamble
is the payload's length is what makes the end of one packet the start of the next.

### Wi-Fi

`WifiProofs` holds for every set of builds and any number of calls. `IfacesFit` needs the lemmas about
combinations: they are closed downwards and contain the empty one, which is shown from finite sets of
limits. `UnderWay` adds to `Settled` what a stop or a mode change has torn down at each point where it
waits.

`Handover` relates the binder thread and the event loop: the loop reaches its end only if a stop
waits for it, has given up on it (`past.late`), or its socket hung up (`past.hup`), and without a
started legacy HAL there is nothing left of the library but such a loop. `Monitors` says that at
most one monitor is registered, in the library's table, in its handlers and in the HAL's callback
alike (`Watching`), and that each command has one reference for its registration and one for a
callback under way. It holds until a monitor is stopped with a wrong id or with −1, or the service
aborts. `RefsCorrect` is a consequence, and `AbortsAreKnown` uses all of these to exclude each other
cause of an abort.

TLC has checked the inductive invariants on small instances before they were proved.

### Model-checked only

* Liveness, since TLAPS here reasons neither about fairness nor about ENABLED: `OpenAnswered`,
  `ResetAnswered`, `EngineReleased`, `DownloadEnds`, `Recovers`, `LooperFree`, `Answered`, `Sleeps`,
  `Delivers`, `StopReturns`.
* `EngineFollows` in auto-switch mode (run `offload`). The argument of `EngineProofs` does not carry over: with
  a handler of a stale state two STOPs can be under way.

No definition is recursive.

## Not modelled

In the modelled components: configuration of libmnl, measurement and navigation data, NMEA
parsing, logging, message encoding, the format of the EPO file, the QEPO and MTKNAV downloads, the
FLP and geofence side of a link beyond its type; the Bluetooth address, the debugger's archive and
what each vendor command says; netlink messages, gscan, RTT, NAN requests, ring buffers and
statistics of Wi-Fi.

Not modelled at all: FM radio, the combo loader and launcher, the LBS and debug services, the FLP
HAL, hostapd and supplicant adapters, test tools, the mt76xx programs. `PROJECT.json` gives the
reason for each. They are most of the repository's lines: headers and conversions between structures
(`mtk_gps_type.h`, `hidl_struct_util.cpp`), sequential test tools (`libwifitest.c`, `autobt.c`),
tables of vendor commands, a driver for a chip of another family (`gpsinf3337.c`) and vendored
headers (`curl.h`). A model of these would restate assignments; there is no interleaving, failure or
protocol in them for a model checker to find. The share of lines that the models stand for is small
for that reason.

## Plan

In order of weight:

1. `EngineFollows` in auto-switch mode as a theorem, from a weaker form of `Tracks` that allows a second stop.
2. QEPO and MTKNAV downloads beside `EpoDownloader`: their retries, flags and waits for each other.
3. `FlpLink`: the FLP and geofence side with its link status and batching, composed with
   `MnldSystem` in offload mode.
4. `GnssHal` composed with `MnldSystem` in place of its own short form of mnld.
