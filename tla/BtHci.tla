------------------------------- MODULE BtHci -------------------------------
(***************************************************************************)
(* The Bluetooth HCI service: the binder calls (bluetooth_hci.cc), the     *)
(* looper thread with the HAL state machine (hci_hal_state_machine.cc)     *)
(* that opens and closes the vendor interface (vendor_interface.cc), the   *)
(* watcher thread that reads the UART (async_fd_watcher.cc), and the       *)
(* vendor library with its firmware thread, which sends an initialisation  *)
(* script and waits for each answer (radiomod.c, radiomgr.c, mtk.c).       *)
(*                                                                         *)
(* A close may come at any moment of an initialisation.  The framework may *)
(* die and another one connect before the death is noticed, and the        *)
(* service may abort and be started again.                                 *)
(***************************************************************************)
EXTENDS Naturals, Sequences

CONSTANTS Script,      \* number of commands of the initialisation script
          MaxInits,    \* bound: initialize calls
          MaxOffs,     \* bound: close calls and deaths of the framework
          MaxEvents    \* bound: events that are not answers to the script

ASSUME ScriptAssumption == /\ Script \in Nat \ {0}
                           /\ MaxInits \in Nat
                           /\ MaxOffs \in Nat
                           /\ MaxEvents \in Nat

VARIABLES fwk,      \* the framework: its session, what it was told, unnoticed deaths
          queue,    \* messages of the looper
          sm,       \* current_state_
          looper,   \* the looper thread: what it is doing, and whether it opens again
          vi,       \* g_vendor_interface
          lib,      \* the vendor library's statics
          fw,       \* GORM_FW_Init_Thread; history: what has gone wrong for it
          icmd,     \* internal_command
          watcher,  \* AsyncFdWatcher
          ctrl,     \* the controller: the command it works on, what it has sent
          past      \* history: bounded counters and what has happened so far

vars == <<fwk, queue, sm, looper, vi, lib, fw, icmd, watcher, ctrl, past>>

Waiting == [pc |-> "wait", again |-> FALSE]
NoInterface == [exists |-> FALSE, owed |-> FALSE, hci |-> FALSE, silent |-> FALSE]
NoLibrary == [loaded |-> FALSE, cbacks |-> FALSE, running |-> FALSE, cmd |-> "success"]
NoThread == [pc |-> "none", i |-> 1, ret |-> FALSE, wrong |-> {}]
NoWatcher == [pc |-> "none", running |-> FALSE, ok |-> FALSE]
NoCommand == [cb |-> FALSE, opcode |-> 0]
NoUart == [open |-> FALSE, cmd |-> 0, evts |-> <<>>]
NoSession == [open |-> FALSE, told |-> "none", overtaken |-> FALSE, obituaries |-> 0]

\* An event: the answer to command op, or op = 0 for one that is for the stack
Event == [op : 0 .. Script, ok : BOOLEAN]

Init ==
    /\ fwk = NoSession
    /\ queue = <<>>
    /\ sm = "idle"
    /\ looper = Waiting
    /\ vi = NoInterface
    /\ lib = NoLibrary
    /\ fw = NoThread
    /\ icmd = NoCommand
    /\ watcher = NoWatcher
    /\ ctrl = NoUart
    /\ past = [inits |-> 0, offs |-> 0, events |-> 0, abort |-> "no"]

-----------------------------------------------------------------------------
\* Binder threads

\* BluetoothHci::initialize.  It overtakes what the service still does for an earlier session.
Initialize ==
    /\ past.inits < MaxInits
    /\ past' = [past EXCEPT !.inits = @ + 1]
    /\ fwk' = [fwk EXCEPT !.open = TRUE, !.told = "none",
                          !.overtaken = \/ queue # <<>> \/ looper.pc # "wait"
                                        \/ fw.pc \notin {"none", "end"}
                                        \/ fwk.obituaries > 0]
    /\ queue' = Append(queue, "on")
    /\ UNCHANGED <<sm, looper, vi, lib, fw, icmd, watcher, ctrl>>

Close ==
    /\ past.inits > 0 /\ past.offs < MaxOffs
    /\ past' = [past EXCEPT !.offs = @ + 1]
    /\ fwk' = [fwk EXCEPT !.open = FALSE]
    /\ queue' = Append(queue, "off")
    /\ UNCHANGED <<sm, looper, vi, lib, fw, icmd, watcher, ctrl>>

\* The framework dies; serviceDied runs when binder delivers the obituary
FwkDie ==
    /\ fwk.open /\ past.offs < MaxOffs
    /\ past' = [past EXCEPT !.offs = @ + 1]
    /\ fwk' = [fwk EXCEPT !.open = FALSE, !.obituaries = @ + 1]
    /\ UNCHANGED <<queue, sm, looper, vi, lib, fw, icmd, watcher, ctrl>>

ServiceDied ==
    /\ fwk.obituaries > 0
    /\ fwk' = [fwk EXCEPT !.obituaries = @ - 1]
    /\ queue' = Append(queue, "off")
    /\ UNCHANGED <<sm, looper, vi, lib, fw, icmd, watcher, ctrl, past>>

\* sendDataToController: the interface and the library are used unchecked
SendData ==
    /\ fwk.open /\ fwk.told = "success"
    /\ past.events < MaxEvents
    /\ past' = [past EXCEPT !.events = @ + 1,
                            !.abort = IF vi.exists /\ lib.loaded THEN @ ELSE "null"]
    /\ ctrl' = IF vi.hci THEN [ctrl EXCEPT !.evts = Append(@, [op |-> 0, ok |-> TRUE])] ELSE ctrl
    /\ UNCHANGED <<fwk, queue, sm, looper, vi, lib, fw, icmd, watcher>>

\* cb_->initializationComplete: cb_ is the callback of the latest initialize
Told(status) == fwk' = IF fwk.open THEN [fwk EXCEPT !.told = status] ELSE fwk

-----------------------------------------------------------------------------
\* The looper thread

Goto(pc) == looper' = [looper EXCEPT !.pc = pc]

\* IdleState, OnState and OffState::Handle
Handle ==
    /\ looper.pc = "wait" /\ queue # <<>>
    /\ queue' = Tail(queue)
    /\ looper' = CASE sm = "on" -> [pc |-> "stop", again |-> Head(queue) = "on"]
                   [] sm # "on" /\ Head(queue) = "on" -> [pc |-> "open", again |-> FALSE]
                   [] OTHER -> looper
    /\ UNCHANGED <<fwk, sm, vi, lib, fw, icmd, watcher, ctrl, past>>

Mut_ErrorLost ==
    /\ looper.pc = "open"
    /\ vi' = IF vi.exists THEN vi ELSE [NoInterface EXCEPT !.exists = TRUE, !.owed = TRUE]
    /\ Told("success")
    /\ sm' = "on"
    /\ Goto("wait")
    /\ UNCHANGED <<queue, lib, fw, icmd, watcher, ctrl, past>>

\* VendorInterface::Initialize returns false: there is one already, or dlopen or dlsym fails.
\* The interface stays behind, and TurnOn reports the error.
OpenFails ==
    /\ looper.pc = "open"
    /\ vi' = IF vi.exists THEN vi ELSE [NoInterface EXCEPT !.exists = TRUE, !.owed = TRUE]
    /\ Told("error")
    /\ sm' = "on"
    /\ Goto("wait")
    /\ UNCHANGED <<queue, lib, fw, icmd, watcher, ctrl, past>>

\* The library is loaded, but the serial port cannot be opened
OpenNoUart ==
    /\ looper.pc = "open" /\ ~vi.exists
    /\ vi' = [NoInterface EXCEPT !.exists = TRUE, !.owed = TRUE]
    /\ lib' = [NoLibrary EXCEPT !.loaded = TRUE, !.cbacks = TRUE]
    /\ Told("error")
    /\ sm' = "on"
    /\ Goto("wait")
    /\ UNCHANGED <<queue, fw, icmd, watcher, ctrl, past>>

\* Open up to the firmware's configuration: library, UART, watcher thread
Open ==
    /\ looper.pc = "open" /\ ~vi.exists
    /\ vi' = [exists |-> TRUE, owed |-> TRUE, hci |-> TRUE, silent |-> FALSE]
    /\ lib' = [NoLibrary EXCEPT !.loaded = TRUE, !.cbacks = TRUE]
    /\ ctrl' = [NoUart EXCEPT !.open = TRUE]
    /\ watcher' = [NoWatcher EXCEPT !.pc = "select", !.running = TRUE]
    /\ Goto("fwcfg")
    /\ UNCHANGED <<fwk, queue, sm, fw, icmd, past>>

\* BT_VND_OP_FW_CFG: mtk_fw_cfg may fail before there is a thread, and Open ignores that
FwCfg ==
    /\ looper.pc = "fwcfg"
    /\ \/ /\ fw' = [NoThread EXCEPT !.pc = "loop"]
          /\ lib' = [lib EXCEPT !.running = TRUE]
          /\ UNCHANGED vi
       \/ /\ vi' = [vi EXCEPT !.silent = TRUE]
          /\ UNCHANGED <<fw, lib>>
    /\ sm' = "on"
    /\ Goto("wait")
    /\ UNCHANGED <<fwk, queue, icmd, watcher, ctrl, past>>

Mut_StopWatching ==
    /\ looper.pc = "stop"
    /\ Goto(IF watcher.running THEN "join" ELSE "delete")
    /\ UNCHANGED <<fwk, queue, sm, vi, lib, fw, icmd, watcher, ctrl, past>>

\* VendorInterface::Close: stopThread of the watcher ...
StopWatching ==
    /\ looper.pc = "stop"
    /\ watcher' = [watcher EXCEPT !.running = FALSE]
    /\ Goto(IF watcher.running THEN "join" ELSE "delete")
    /\ UNCHANGED <<fwk, queue, sm, vi, lib, fw, icmd, ctrl, past>>

Join ==
    /\ looper.pc = "join" /\ watcher.pc = "none"
    /\ Goto("delete")
    /\ UNCHANGED <<fwk, queue, sm, vi, lib, fw, icmd, watcher, ctrl, past>>

\* ... the protocol object ...
DeleteHci ==
    /\ looper.pc = "delete"
    /\ vi' = [vi EXCEPT !.hci = FALSE]
    /\ Goto(IF lib.loaded THEN "uart" ELSE "unload")
    /\ UNCHANGED <<fwk, queue, sm, lib, fw, icmd, watcher, ctrl, past>>

\* ... the UART, with what is in it ...
CloseUart ==
    /\ looper.pc = "uart"
    /\ ctrl' = NoUart
    /\ Goto("callbacks")
    /\ UNCHANGED <<fwk, queue, sm, vi, lib, fw, icmd, watcher, past>>

Mut_CleanCallbacks ==
    /\ looper.pc = "callbacks"
    /\ Goto("terminate")
    /\ UNCHANGED <<fwk, queue, sm, vi, lib, fw, icmd, watcher, ctrl, past>>

\* ... and mtk_bt_cleanup: the callbacks first ...
CleanCallbacks ==
    /\ looper.pc = "callbacks"
    /\ lib' = [lib EXCEPT !.cbacks = FALSE]
    /\ Goto("terminate")
    /\ UNCHANGED <<fwk, queue, sm, vi, fw, icmd, watcher, ctrl, past>>

\* ... notify_thread_exit ...
Terminate ==
    /\ looper.pc = "terminate"
    /\ lib' = [lib EXCEPT !.cmd = IF lib.running THEN "terminate" ELSE @]
    /\ Goto("joinfw")
    /\ UNCHANGED <<fwk, queue, sm, vi, fw, icmd, watcher, ctrl, past>>

Mut_JoinFw ==
    /\ looper.pc = "joinfw" /\ (lib.running => fw.pc \in {"none", "exit", "end"})
    /\ Goto("unload")
    /\ UNCHANGED <<fwk, queue, sm, vi, lib, fw, icmd, watcher, ctrl, past>>

\* ... and "always do pthread_join"
JoinFw ==
    /\ looper.pc = "joinfw" /\ fw.pc \in {"none", "end"}
    /\ Goto("unload")
    /\ fw' = NoThread
    /\ UNCHANGED <<fwk, queue, sm, vi, lib, icmd, watcher, ctrl, past>>

\* dlclose unloads the library with its statics; Shutdown deletes the interface.  A double
\* "on" goes on to open again.
Unload ==
    /\ looper.pc = "unload"
    /\ lib' = NoLibrary
    /\ vi' = NoInterface
    /\ sm' = IF looper.again THEN sm ELSE "off"
    /\ looper' = [pc |-> IF looper.again THEN "open" ELSE "wait", again |-> FALSE]
    /\ UNCHANGED <<fwk, queue, fw, icmd, watcher, ctrl, past>>

LooperStep ==
    \/ Handle \/ OpenFails \/ OpenNoUart \/ Open \/ FwCfg
    \/ StopWatching \/ Join \/ DeleteHci \/ CloseUart
    \/ CleanCallbacks \/ Terminate \/ JoinFw \/ Unload

-----------------------------------------------------------------------------
\* The firmware thread

FwExit(ret) == fw' = [fw EXCEPT !.pc = "exit", !.ret = ret]

FwFails(why) == fw' = [fw EXCEPT !.pc = "exit", !.ret = FALSE, !.wrong = @ \cup {why}]

\* The thread begins and finds no script for its chip: goto exit
FwNoScript ==
    /\ fw.pc = "loop" /\ fw.i = 1
    /\ FwFails("script")
    /\ UNCHANGED <<fwk, queue, sm, looper, vi, lib, icmd, watcher, ctrl, past>>

\* The head of the script loop, up to CMD_PENDING.  The last entry of a script is 0.  There is
\* no buffer only when there are no callbacks to allocate it.
FwLoop ==
    /\ fw.pc = "loop"
    /\ \/ /\ lib.cmd = "terminate" \/ fw.i > Script \/ ~lib.cbacks
          /\ FwExit(fw.i > Script)
          /\ UNCHANGED lib
       \/ /\ lib.cmd # "terminate" /\ fw.i <= Script /\ lib.cbacks
          /\ lib' = [lib EXCEPT !.cmd = "pending"]
          /\ fw' = [fw EXCEPT !.pc = "send"]
    /\ UNCHANGED <<fwk, queue, sm, looper, vi, icmd, watcher, ctrl, past>>

\* A GORMcmd_* function, which fails only without callbacks; transmit_cb notes whose answer to intercept ...
FwSend ==
    /\ fw.pc = "send"
    /\ IF lib.cbacks THEN /\ icmd' = [cb |-> TRUE, opcode |-> fw.i]
                          /\ fw' = [fw EXCEPT !.pc = "xmit"]
                     ELSE /\ FwExit(FALSE)
                          /\ UNCHANGED icmd
    /\ UNCHANGED <<fwk, queue, sm, looper, vi, lib, watcher, ctrl, past>>

\* ... and calls VendorInterface::Send, which drops it if the protocol object is gone
FwXmit ==
    /\ fw.pc = "xmit"
    /\ ctrl' = IF vi.hci THEN [ctrl EXCEPT !.cmd = fw.i] ELSE ctrl
    /\ fw' = [fw EXCEPT !.pc = "wait"]
    /\ UNCHANGED <<fwk, queue, sm, looper, vi, lib, icmd, watcher, past>>

FwWoken ==
    /\ fw.pc = "wait" /\ lib.cmd # "pending"
    /\ IF lib.cmd = "success" THEN fw' = [fw EXCEPT !.pc = "loop", !.i = @ + 1] ELSE FwExit(FALSE)
    /\ lib' = [lib EXCEPT !.cmd = IF @ = "terminate" THEN "success" ELSE @]
    /\ UNCHANGED <<fwk, queue, sm, looper, vi, icmd, watcher, ctrl, past>>

\* Two seconds are over: the answer was lost, or is late, or the close has begun and nobody
\* reads it any more
FwTimeout ==
    /\ fw.pc = "wait" /\ lib.cmd = "pending"
    /\ lib' = [lib EXCEPT !.cmd = "fail"]
    /\ FwFails(IF watcher.running THEN "unanswered" ELSE "unread")
    /\ UNCHANGED <<fwk, queue, sm, looper, vi, icmd, watcher, ctrl, past>>

Mut_FwConfigured ==
    /\ fw.pc = "exit" /\ lib.cbacks
    /\ fw' = [fw EXCEPT !.pc = "lpm"]
    /\ vi' = [vi EXCEPT !.owed = FALSE]
    /\ past' = [past EXCEPT !.abort = IF vi.owed /\ ~fw.ret THEN "firmware" ELSE @]
    /\ UNCHANGED <<fwk, queue, sm, looper, lib, icmd, watcher, ctrl>>

\* fwcfg_cb, OnFirmwareConfigured: a failure is fatal ...
FwConfigured ==
    /\ fw.pc = "exit" /\ lib.cbacks
    /\ fw' = [fw EXCEPT !.pc = "lpm"]
    /\ vi' = [vi EXCEPT !.owed = FALSE]
    /\ past' = [past EXCEPT !.abort = IF vi.owed /\ ~fw.ret THEN "firmware" ELSE @]
    /\ IF vi.owed /\ fw.ret THEN Told("success") ELSE UNCHANGED fwk
    /\ UNCHANGED <<queue, sm, looper, lib, icmd, watcher, ctrl>>

\* ... and after the low power mode is set up the thread ends
FwEnd ==
    /\ fw.pc = "lpm" \/ (fw.pc = "exit" /\ ~lib.cbacks)
    /\ fw' = [fw EXCEPT !.pc = "end"]
    /\ lib' = [lib EXCEPT !.running = FALSE]
    /\ UNCHANGED <<fwk, queue, sm, looper, vi, icmd, watcher, ctrl, past>>

FwStep == FwNoScript \/ FwLoop \/ FwSend \/ FwXmit \/ FwWoken \/ FwTimeout \/ FwConfigured \/ FwEnd

-----------------------------------------------------------------------------
\* The watcher thread

\* OnDataReady with a whole event, HandleIncomingEvent: an answer to the library's command is
\* intercepted, anything else goes to the stack
WatcherRead ==
    /\ watcher.pc = "select" /\ ctrl.evts # <<>>
    /\ LET e == Head(ctrl.evts)
           mine == icmd.cb /\ e.op = icmd.opcode
       IN  /\ watcher' = IF mine THEN [watcher EXCEPT !.pc = "call", !.ok = e.ok] ELSE watcher
           /\ icmd' = IF mine THEN [icmd EXCEPT !.cb = FALSE] ELSE icmd
    /\ ctrl' = [ctrl EXCEPT !.evts = Tail(@)]
    /\ UNCHANGED <<fwk, queue, sm, looper, vi, lib, fw, past>>

\* GORMevt_HCE_Common_Complete
WatcherCall ==
    /\ watcher.pc = "call"
    /\ lib' = [lib EXCEPT !.cmd = IF watcher.ok THEN "success" ELSE "fail"]
    /\ watcher' = [watcher EXCEPT !.pc = "select"]
    /\ UNCHANGED <<fwk, queue, sm, looper, vi, fw, icmd, ctrl, past>>

WatcherExit ==
    /\ watcher.pc = "select" /\ ~watcher.running
    /\ watcher' = NoWatcher
    /\ UNCHANGED <<fwk, queue, sm, looper, vi, lib, fw, icmd, ctrl, past>>

WatcherStep == WatcherRead \/ WatcherCall \/ WatcherExit

-----------------------------------------------------------------------------
\* The controller answers a command, with success or not, or not at all
CtrlAnswer ==
    /\ ctrl.cmd # 0
    /\ \E ok \in BOOLEAN :
          /\ ctrl' = [ctrl EXCEPT !.cmd = 0, !.evts = Append(@, [op |-> ctrl.cmd, ok |-> ok])]
          /\ fw' = IF ok THEN fw ELSE [fw EXCEPT !.wrong = @ \cup {"failed"}]
    /\ UNCHANGED <<fwk, queue, sm, looper, vi, lib, icmd, watcher, past>>

CtrlLose ==
    /\ ctrl.cmd # 0
    /\ ctrl' = [ctrl EXCEPT !.cmd = 0]
    /\ UNCHANGED <<fwk, queue, sm, looper, vi, lib, fw, icmd, watcher, past>>

\* init starts an aborted service again
Restart ==
    /\ past.abort # "no"
    /\ fwk' = NoSession /\ queue' = <<>> /\ sm' = "idle" /\ looper' = Waiting
    /\ vi' = NoInterface /\ lib' = NoLibrary /\ fw' = NoThread /\ icmd' = NoCommand
    /\ watcher' = NoWatcher /\ ctrl' = NoUart
    /\ past' = [past EXCEPT !.abort = "no"]

Next ==
    \/ /\ past.abort = "no"
       /\ \/ Initialize \/ Close \/ FwkDie \/ ServiceDied \/ SendData
          \/ LooperStep \/ FwStep \/ WatcherStep \/ CtrlAnswer \/ CtrlLose
    \/ Restart

Spec == Init /\ [][Next]_vars

\* Threads that can run do, the controller answers or its answer is lost, binder delivers
\* obituaries, and init restarts the service
FairSpec ==
    /\ Spec
    /\ WF_vars(past.abort = "no" /\ LooperStep) /\ WF_vars(past.abort = "no" /\ FwStep)
    /\ WF_vars(past.abort = "no" /\ WatcherStep)
    /\ WF_vars(past.abort = "no" /\ (CtrlAnswer \/ CtrlLose))
    /\ WF_vars(past.abort = "no" /\ ServiceDied) /\ WF_vars(Restart)

-----------------------------------------------------------------------------
Framework == [open : BOOLEAN, told : {"none", "success", "error"}, overtaken : BOOLEAN,
              obituaries : Nat]
Looper == [pc : {"wait", "open", "fwcfg", "stop", "join", "delete", "uart", "callbacks",
                 "terminate", "joinfw", "unload"}, again : BOOLEAN]
Interface == [exists : BOOLEAN, owed : BOOLEAN, hci : BOOLEAN, silent : BOOLEAN]
Library == [loaded : BOOLEAN, cbacks : BOOLEAN, running : BOOLEAN,
            cmd : {"success", "fail", "pending", "terminate"}]
FwThread == [pc : {"none", "loop", "send", "xmit", "wait", "exit", "lpm", "end"},
             i : 1 .. Script + 1, ret : BOOLEAN,
             wrong : SUBSET {"script", "failed", "unanswered", "unread"}]
Command == [cb : BOOLEAN, opcode : 0 .. Script]
Watcher == [pc : {"none", "select", "call"}, running : BOOLEAN, ok : BOOLEAN]
Uart == [open : BOOLEAN, cmd : 0 .. Script, evts : Seq(Event)]
Past == [inits : Nat, offs : Nat, events : Nat, abort : {"no", "firmware", "null"}]

\* The variables have their types: in particular the firmware thread stays within its script.
TypeOK ==
    /\ fwk \in Framework
    /\ queue \in Seq({"on", "off"})
    /\ sm \in {"idle", "on", "off"}
    /\ looper \in Looper
    /\ vi \in Interface
    /\ lib \in Library
    /\ fw \in FwThread
    /\ icmd \in Command
    /\ watcher \in Watcher
    /\ ctrl \in Uart
    /\ past \in Past

\* The HAL state machine is in OnState exactly while there is a vendor interface, however
\* opening it went: Shutdown, which OnState calls, is fatal without one.
InterfaceMatches == looper.pc = "wait" => (sm = "on" <=> vi.exists)

\* Neither the watcher nor the firmware thread runs in a library that is unloaded or on an
\* interface that is deleted, and nothing stays open: Close joins both first.
NothingOutlives ==
    ~vi.exists => /\ watcher.pc = "none" /\ fw.pc = "none"
                  /\ ~lib.loaded /\ ~ctrl.open

\* OnFirmwareConfigured aborts the service only if this thread found no script for its chip,
\* had a command failed, or waited two seconds for an answer.  The wait may have outlasted the
\* watcher that a close has stopped; but to be terminated by a close is never reported as a
\* failure of the firmware.
FatalJustified == past.abort = "firmware" => fw.wrong # {}

\* A client that was told SUCCESS and has not closed finds the interface and the library that
\* sendDataToController uses unchecked, unless its initialize overtook an earlier session.
SendSafe == fwk.open /\ fwk.told = "success" /\ ~fwk.overtaken => vi.exists /\ lib.loaded

\* The looper gets back to its queue: no join in Close waits for ever.
LooperFree == []<>(looper.pc = "wait")

\* An initialize that overtook nothing is answered, unless mtk_fw_cfg fails without a word.
Answered ==
    (fwk.open /\ fwk.told = "none" /\ ~fwk.overtaken)
        ~> (~fwk.open \/ fwk.told # "none" \/ fwk.overtaken \/ vi.silent)

=============================================================================
