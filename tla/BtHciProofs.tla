---------------------------- MODULE BtHciProofs ----------------------------
(***************************************************************************)
(* Proofs about BtHci, for every length of the initialisation script and   *)
(* every number of initializations, closes, deaths and events.             *)
(***************************************************************************)
EXTENDS BtHci, TLAPS

-----------------------------------------------------------------------------
\* The inductive invariant

\* The steps of Close once the watcher is joined, once the UART is closed
Joined == {"delete", "uart", "callbacks", "terminate", "joinfw", "unload"}
UartClosed == {"callbacks", "terminate", "joinfw", "unload"}

\* The firmware thread has a command of the script in hand.
InScript == fw.pc \in {"send", "xmit", "wait"} => fw.i <= Script

\* The state machine, the looper and the interface go together.
Lifecycle ==
    /\ looper.pc = "wait" => (sm = "on" <=> vi.exists)
    /\ looper.pc = "open" => ~vi.exists
    /\ looper.pc \notin {"wait", "open"} => vi.exists

\* What lives in the interface: a watcher that is told to stop is being joined, and is gone
\* after that; the firmware thread and the UART need the library, which needs the interface.
Alive ==
    /\ lib.loaded => vi.exists
    /\ looper.pc = "fwcfg" => lib.loaded
    /\ watcher.pc # "none" => vi.exists /\ looper.pc \notin Joined
    /\ watcher.pc # "none" /\ ~watcher.running => looper.pc = "join"
    /\ fw.pc # "none" => lib.loaded /\ looper.pc # "unload"
    /\ ctrl.open => lib.loaded /\ looper.pc \notin UartClosed

\* A thread that has not begun has sent nothing and failed nothing; what the protocol object
\* writes to and what the controller answers on is open.
Quiet ==
    /\ looper.pc = "fwcfg" => fw.pc = "none"
    /\ fw.pc = "none" => ctrl.cmd = 0 /\ fw.wrong = {}
    /\ ~ctrl.open => ctrl.cmd = 0 /\ ctrl.evts = <<>>
    /\ vi.hci => ctrl.open /\ looper.pc \notin {"uart"} \cup UartClosed

\* A failure of the firmware's configuration has a reason, or nobody to be reported to.
Excused ==
    /\ \A k \in DOMAIN ctrl.evts : ~ctrl.evts[k].ok => fw.wrong # {}
    /\ watcher.pc = "call" /\ ~watcher.ok => fw.wrong # {}
    /\ lib.cmd = "fail" => fw.wrong # {} \/ ~lib.cbacks
    /\ lib.cmd = "terminate" => ~lib.cbacks
    /\ looper.pc \in {"terminate", "joinfw"} => ~lib.cbacks
    /\ fw.pc = "exit" /\ ~fw.ret => fw.wrong # {} \/ ~lib.cbacks
    /\ past.abort = "firmware" => fw.wrong # {}

\* An initialize that overtook nothing is the only thing the looper has to do, until it is open.
Undisturbed ==
    fwk.open /\ ~fwk.overtaken =>
        /\ fwk.obituaries = 0
        /\ \/ /\ queue = <<"on">> /\ looper.pc = "wait"
              /\ fwk.told = "none" /\ fw.pc \in {"none", "end"}
           \/ /\ queue = <<>> /\ looper.pc # "wait"
              /\ looper.pc \in {"open", "fwcfg"} \/ looper.again
              /\ fwk.told = "none" /\ fw.pc \in {"none", "end"}
           \/ /\ queue = <<>> /\ looper.pc = "wait"
              /\ fwk.told = "success" => lib.loaded

Typed == TypeOK /\ InScript
Sound == Typed /\ Lifecycle /\ Alive /\ Quiet

BtInv == Sound /\ Excused /\ Undisturbed


-----------------------------------------------------------------------------
\* The framework's calls keep the types.
LEMMA BinderTyped ==
    ASSUME Typed, Initialize \/ Close \/ FwkDie \/ ServiceDied \/ SendData
    PROVE  Typed'
  <1>1. CASE Initialize
    <2>1. fwk' \in Framework
      BY <1>1 DEF Initialize, Typed, TypeOK, Framework
    <2>2. past' \in Past
      BY <1>1 DEF Initialize, Typed, TypeOK, Past
    <2> QED BY <1>1, <2>1, <2>2 DEF Initialize, Typed, TypeOK, InScript
  <1>2. CASE Close
    <2>1. fwk' \in Framework
      BY <1>2 DEF Close, Typed, TypeOK, Framework
    <2>2. past' \in Past
      <3>1. past \in Past /\ past' = [past EXCEPT !.offs = @ + 1]
        BY <1>2 DEF Close, Typed, TypeOK
      <3> QED BY <3>1 DEF Past
    <2> QED BY <1>2, <2>1, <2>2 DEF Close, Typed, TypeOK, InScript
  <1>3. CASE FwkDie
    <2>1. fwk' \in Framework
      <3>1. /\ fwk \in Framework
            /\ fwk' = [fwk EXCEPT !.open = FALSE, !.obituaries = @ + 1]
        BY <1>3 DEF FwkDie, Typed, TypeOK
      <3>2. fwk.obituaries + 1 \in Nat
        BY <3>1 DEF Framework
      <3> QED BY <3>1, <3>2 DEF Framework
    <2>2. past' \in Past
      BY <1>3 DEF FwkDie, Typed, TypeOK, Past
    <2> QED BY <1>3, <2>1, <2>2 DEF FwkDie, Typed, TypeOK, InScript
  <1>4. CASE ServiceDied
    BY <1>4, ScriptAssumption DEF ServiceDied, Typed, TypeOK, InScript, Framework
  <1>5. CASE SendData
    <2>1. ctrl' \in Uart
      <3>1. /\ ctrl \in Uart
            /\ \/ ctrl' = ctrl
               \/ ctrl' = [ctrl EXCEPT !.evts = Append(@, [op |-> 0, ok |-> TRUE])]
        BY <1>5 DEF SendData, Typed, TypeOK
      <3>2. [op |-> 0, ok |-> TRUE] \in Event
        BY ScriptAssumption DEF Event
      <3>3. Append(ctrl.evts, [op |-> 0, ok |-> TRUE]) \in Seq(Event)
        BY <3>1, <3>2 DEF Uart
      <3> QED BY <3>1, <3>3 DEF Uart
    <2>2. past' \in Past
      <3>1. /\ past \in Past
            /\ \E a \in {past.abort, "null"} :
                  past' = [past EXCEPT !.events = @ + 1, !.abort = a]
        BY <1>5 DEF SendData, Typed, TypeOK
      <3>2. past.events + 1 \in Nat
        BY <3>1 DEF Past
      <3> QED BY <3>1, <3>2 DEF Past
    <2> QED BY <1>5, <2>1, <2>2 DEF SendData, Typed, TypeOK, InScript
  <1> QED BY <1>1, <1>2, <1>3, <1>4, <1>5

\* The looper's steps keep the types.
LEMMA LooperTyped ==
    ASSUME Typed, LooperStep
    PROVE  Typed'
  <1>1. CASE Handle
    BY <1>1, ScriptAssumption DEF Handle, Typed, TypeOK, InScript, Looper
  <1>2. CASE OpenFails
    BY <1>2, ScriptAssumption DEF OpenFails, Told, Goto, NoInterface, Typed, TypeOK, InScript,
       Framework, Interface, Looper
  <1>3. CASE OpenNoUart
    BY <1>3, ScriptAssumption DEF OpenNoUart, Told, Goto, NoInterface, NoLibrary, Typed, TypeOK,
       InScript, Framework, Interface, Library, Looper
  <1>4. CASE Open
    <2>1. vi' \in Interface
      BY <1>4 DEF Open, Typed, TypeOK, Interface
    <2>2. lib' \in Library
      BY <1>4 DEF Open, NoLibrary, Typed, TypeOK, Library
    <2>3. ctrl' \in Uart
      <3>1. ctrl' = [open |-> TRUE, cmd |-> 0, evts |-> <<>>]
        BY <1>4 DEF Open, NoUart
      <3> QED BY <3>1, ScriptAssumption DEF Uart
    <2>4. watcher' \in Watcher
      BY <1>4 DEF Open, NoWatcher, Typed, TypeOK, Watcher
    <2>5. looper' \in Looper
      BY <1>4 DEF Open, Goto, Typed, TypeOK, Looper
    <2> QED BY <1>4, <2>1, <2>2, <2>3, <2>4, <2>5 DEF Open, Typed, TypeOK, InScript
  <1>5. CASE FwCfg
    <2>1. fw' \in FwThread
      <3>1. fw \in FwThread /\ fw' \in {fw, [NoThread EXCEPT !.pc = "loop"]}
        BY <1>5 DEF FwCfg, Typed, TypeOK
      <3>2. 1 \in 1 .. Script + 1
        BY ScriptAssumption
      <3>3. NoThread \in FwThread
        BY <3>2 DEF NoThread, FwThread
      <3> QED BY <3>1, <3>3 DEF FwThread
    <2>2. lib' \in Library
      BY <1>5 DEF FwCfg, Typed, TypeOK, Library
    <2>3. vi' \in Interface
      BY <1>5 DEF FwCfg, Typed, TypeOK, Interface
    <2>4. looper' \in Looper
      BY <1>5 DEF FwCfg, Goto, Typed, TypeOK, Looper
    <2>5. InScript'
      BY <1>5, ScriptAssumption DEF FwCfg, NoThread, Typed, TypeOK, InScript
    <2> QED BY <1>5, <2>1, <2>2, <2>3, <2>4, <2>5 DEF FwCfg, Typed, TypeOK
  <1>6. CASE StopWatching
    BY <1>6, ScriptAssumption DEF StopWatching, Goto, Typed, TypeOK, InScript, Watcher, Looper
  <1>7. CASE Join
    BY <1>7, ScriptAssumption DEF Join, Goto, Typed, TypeOK, InScript, Looper
  <1>8. CASE DeleteHci
    BY <1>8, ScriptAssumption DEF DeleteHci, Goto, Typed, TypeOK, InScript, Interface, Looper
  <1>9. CASE CloseUart
    BY <1>9, ScriptAssumption DEF CloseUart, Goto, NoUart, Typed, TypeOK, InScript, Uart, Looper
  <1>10. CASE CleanCallbacks
    BY <1>10, ScriptAssumption DEF CleanCallbacks, Goto, Typed, TypeOK, InScript, Library, Looper
  <1>11. CASE Terminate
    BY <1>11, ScriptAssumption DEF Terminate, Goto, Typed, TypeOK, InScript, Library, Looper
  <1>12. CASE JoinFw
    BY <1>12, ScriptAssumption DEF JoinFw, Goto, NoThread, Typed, TypeOK, InScript, FwThread, Looper
  <1>13. CASE Unload
    BY <1>13, ScriptAssumption DEF Unload, NoLibrary, NoInterface, Typed, TypeOK, InScript,
       Library, Interface, Looper
  <1> QED BY <1>1, <1>2, <1>3, <1>4, <1>5, <1>6, <1>7, <1>8, <1>9, <1>10, <1>11, <1>12, <1>13
             DEF LooperStep

\* The firmware thread's steps keep the types.
LEMMA FwTyped ==
    ASSUME Typed, FwStep
    PROVE  Typed'
  <1>0. CASE FwNoScript
    BY <1>0, ScriptAssumption DEF FwNoScript, FwFails, Typed, TypeOK, InScript, FwThread
  <1>1. CASE FwLoop
    <2>1. fw' \in FwThread
      <3>1. /\ fw \in FwThread
            /\ \/ \E r \in BOOLEAN : fw' = [fw EXCEPT !.pc = "exit", !.ret = r]
               \/ fw' = [fw EXCEPT !.pc = "send"]
        <4>1. (fw.i > Script) \in BOOLEAN
          OBVIOUS
        <4> QED BY <1>1, <4>1 DEF FwLoop, FwExit, Typed, TypeOK
      <3> QED BY <3>1 DEF FwThread
    <2>2. lib' \in Library
      BY <1>1 DEF FwLoop, Typed, TypeOK, Library
    <2>3. InScript'
      BY <1>1, ScriptAssumption DEF FwLoop, FwExit, Typed, TypeOK, InScript, FwThread
    <2> QED BY <1>1, <2>1, <2>2, <2>3 DEF FwLoop, Typed, TypeOK
  <1>2. CASE FwSend
    <2>1. fw' \in FwThread
      BY <1>2, ScriptAssumption DEF FwSend, FwExit, Typed, TypeOK, FwThread
    <2>2. icmd' \in Command
      <3>1. /\ fw \in FwThread /\ fw.i <= Script
            /\ icmd \in Command
            /\ icmd' \in {icmd, [cb |-> TRUE, opcode |-> fw.i]}
        BY <1>2 DEF FwSend, Typed, TypeOK, InScript
      <3>2. fw.i \in 0 .. Script
        BY <3>1, ScriptAssumption DEF FwThread
      <3>3. [cb |-> TRUE, opcode |-> fw.i] \in Command
        BY <3>2 DEF Command
      <3> QED BY <3>1, <3>3
    <2>3. InScript'
      BY <1>2, ScriptAssumption DEF FwSend, FwExit, Typed, TypeOK, InScript, FwThread
    <2> QED BY <1>2, <2>1, <2>2, <2>3 DEF FwSend, Typed, TypeOK
  <1>3. CASE FwXmit
    <2>1. fw' \in FwThread
      BY <1>3, ScriptAssumption DEF FwXmit, Typed, TypeOK, FwThread
    <2>2. ctrl' \in Uart
      BY <1>3, ScriptAssumption, SMTT(30) DEF FwXmit, Typed, TypeOK, Uart, FwThread, InScript
    <2>3. InScript'
      BY <1>3, ScriptAssumption DEF FwXmit, Typed, TypeOK, InScript
    <2> QED BY <1>3, <2>1, <2>2, <2>3 DEF FwXmit, Typed, TypeOK
  <1>4. CASE FwWoken
    <2>1. fw' \in FwThread
      <3>1. /\ fw \in FwThread /\ fw.i <= Script
            /\ fw' \in {[fw EXCEPT !.pc = "loop", !.i = @ + 1],
                       [fw EXCEPT !.pc = "exit", !.ret = FALSE]}
        BY <1>4 DEF FwWoken, FwExit, Typed, TypeOK, InScript
      <3>2. fw.i + 1 \in 1 .. Script + 1
        BY <3>1, ScriptAssumption DEF FwThread
      <3> QED BY <3>1, <3>2 DEF FwThread
    <2>2. lib' \in Library
      BY <1>4 DEF FwWoken, Typed, TypeOK, Library
    <2>3. InScript'
      BY <1>4, ScriptAssumption DEF FwWoken, FwExit, Typed, TypeOK, InScript, FwThread
    <2> QED BY <1>4, <2>1, <2>2, <2>3 DEF FwWoken, Typed, TypeOK
  <1>5. CASE FwTimeout
    <2>1. fw' \in FwThread
      BY <1>5 DEF FwTimeout, FwFails, Typed, TypeOK, FwThread
    <2>2. lib' \in Library
      BY <1>5 DEF FwTimeout, Typed, TypeOK, Library
    <2>3. InScript'
      BY <1>5 DEF FwTimeout, FwFails, Typed, TypeOK, InScript, FwThread
    <2> QED BY <1>5, <2>1, <2>2, <2>3 DEF FwTimeout, Typed, TypeOK
  <1>6. CASE FwConfigured
    <2>1. fw' \in FwThread
      BY <1>6 DEF FwConfigured, Typed, TypeOK, FwThread
    <2>2. vi' \in Interface
      BY <1>6 DEF FwConfigured, Typed, TypeOK, Interface
    <2>3. past' \in Past
      <3>1. past \in Past /\ past' \in {past, [past EXCEPT !.abort = "firmware"]}
        BY <1>6 DEF FwConfigured, Typed, TypeOK, Past
      <3> QED BY <3>1 DEF Past
    <2>4. fwk' \in Framework
      BY <1>6 DEF FwConfigured, Told, Typed, TypeOK, Framework
    <2>5. InScript'
      BY <1>6 DEF FwConfigured, Typed, TypeOK, InScript, FwThread
    <2> QED BY <1>6, <2>1, <2>2, <2>3, <2>4, <2>5 DEF FwConfigured, Typed, TypeOK
  <1>7. CASE FwEnd
    BY <1>7, ScriptAssumption DEF FwEnd, Typed, TypeOK, InScript, FwThread, Library
  <1> QED BY <1>0, <1>1, <1>2, <1>3, <1>4, <1>5, <1>6, <1>7 DEF FwStep

\* The watcher's steps keep the types.
LEMMA WatcherTyped ==
    ASSUME Typed, WatcherStep
    PROVE  Typed'
  <1>1. CASE WatcherRead
    <2>e. Head(ctrl.evts) \in Event /\ Tail(ctrl.evts) \in Seq(Event)
      BY <1>1 DEF WatcherRead, Typed, TypeOK, Uart
    <2>1. watcher' \in Watcher
      <3>1. /\ watcher \in Watcher
            /\ watcher' \in {watcher, [watcher EXCEPT !.pc = "call", !.ok = Head(ctrl.evts).ok]}
        BY <1>1 DEF WatcherRead, Typed, TypeOK
      <3> QED BY <2>e, <3>1 DEF Watcher, Event
    <2>2. icmd' \in Command
      BY <1>1, ScriptAssumption DEF WatcherRead, Typed, TypeOK, Command
    <2>3. ctrl' \in Uart
      <3>1. ctrl \in Uart /\ ctrl' = [ctrl EXCEPT !.evts = Tail(@)]
        BY <1>1 DEF WatcherRead, Typed, TypeOK
      <3> QED BY <2>e, <3>1 DEF Uart
    <2> QED BY <1>1, <2>1, <2>2, <2>3 DEF WatcherRead, Typed, TypeOK, InScript
  <1>2. CASE WatcherCall
    BY <1>2, ScriptAssumption DEF WatcherCall, Typed, TypeOK, InScript, Library, Watcher
  <1>3. CASE WatcherExit
    BY <1>3, ScriptAssumption DEF WatcherExit, NoWatcher, Typed, TypeOK, InScript, Watcher
  <1> QED BY <1>1, <1>2, <1>3 DEF WatcherStep

\* The controller and the restart keep the types.
LEMMA CtrlTyped ==
    ASSUME Typed, CtrlAnswer \/ CtrlLose \/ Restart
    PROVE  Typed'
  <1>1. CASE CtrlAnswer
    <2>1. ctrl' \in Uart
      <3>1. PICK ok \in BOOLEAN :
              ctrl' = [ctrl EXCEPT !.cmd = 0, !.evts = Append(@, [op |-> ctrl.cmd, ok |-> ok])]
        BY <1>1 DEF CtrlAnswer
      <3>2. ctrl \in Uart
        BY DEF Typed, TypeOK
      <3>3. [op |-> ctrl.cmd, ok |-> ok] \in Event
        BY <3>2 DEF Uart, Event
      <3>4. 0 \in 0 .. Script /\ Append(ctrl.evts, [op |-> ctrl.cmd, ok |-> ok]) \in Seq(Event)
        BY <3>2, <3>3, ScriptAssumption DEF Uart
      <3> QED BY <3>1, <3>2, <3>4 DEF Uart
    <2>2. fw' \in FwThread /\ fw'.pc = fw.pc /\ fw'.i = fw.i
      <3>1. PICK ok \in BOOLEAN :
              fw' = IF ok THEN fw ELSE [fw EXCEPT !.wrong = @ \cup {"failed"}]
        BY <1>1 DEF CtrlAnswer
      <3> QED BY <3>1 DEF Typed, TypeOK, FwThread
    <2> QED BY <1>1, <2>1, <2>2 DEF CtrlAnswer, Typed, TypeOK, InScript
  <1>2. CASE CtrlLose
    <2>1. ctrl' \in Uart
      BY <1>2, ScriptAssumption DEF CtrlLose, Typed, TypeOK, Uart
    <2> QED BY <1>2, <2>1 DEF CtrlLose, Typed, TypeOK, InScript
  <1>3. CASE Restart
    <2>1. fwk' \in Framework
      BY <1>3 DEF Restart, NoSession, Typed, TypeOK, Framework
    <2>2. looper' \in Looper
      BY <1>3 DEF Restart, Waiting, Typed, TypeOK, Looper
    <2>3. vi' \in Interface
      BY <1>3 DEF Restart, NoInterface, Typed, TypeOK, Interface
    <2>4. lib' \in Library
      BY <1>3 DEF Restart, NoLibrary, Typed, TypeOK, Library
    <2>5. fw' \in FwThread
      BY <1>3, ScriptAssumption DEF Restart, NoThread, Typed, TypeOK, FwThread
    <2>6. icmd' \in Command
      BY <1>3, ScriptAssumption DEF Restart, NoCommand, Typed, TypeOK, Command
    <2>7. watcher' \in Watcher
      BY <1>3 DEF Restart, NoWatcher, Typed, TypeOK, Watcher
    <2>8. ctrl' \in Uart
      BY <1>3, ScriptAssumption DEF Restart, NoUart, Typed, TypeOK, Uart
    <2>9. past' \in Past
      BY <1>3 DEF Restart, Typed, TypeOK, Past
    <2>10. InScript'
      BY <1>3, ScriptAssumption DEF Restart, NoThread, Typed, TypeOK, InScript
    <2> QED BY <1>3, <2>1, <2>2, <2>3, <2>4, <2>5, <2>6, <2>7, <2>8, <2>9, <2>10 DEF Restart,
               Typed, TypeOK
  <1> QED BY <1>1, <1>2, <1>3

-----------------------------------------------------------------------------
\* The framework's calls keep what lives in the interface.
LEMMA BinderSound ==
    ASSUME Sound, Typed', Initialize \/ Close \/ FwkDie \/ ServiceDied \/ SendData
    PROVE  (Lifecycle /\ Alive /\ Quiet)'
  <1>1. CASE Initialize
    BY <1>1 DEF Initialize, Sound, Typed, TypeOK, Lifecycle, Alive, Quiet
  <1>2. CASE Close
    BY <1>2 DEF Close, Sound, Typed, TypeOK, Lifecycle, Alive, Quiet
  <1>3. CASE FwkDie
    BY <1>3 DEF FwkDie, Sound, Typed, TypeOK, Lifecycle, Alive, Quiet
  <1>4. CASE ServiceDied
    BY <1>4 DEF ServiceDied, Sound, Typed, TypeOK, Lifecycle, Alive, Quiet
  <1>5. CASE SendData
    BY <1>5 DEF SendData, Sound, Typed, TypeOK, Lifecycle, Alive, Quiet
  <1> QED BY <1>1, <1>2, <1>3, <1>4, <1>5

\* The looper's steps keep what lives in the interface.
LEMMA LooperSound ==
    ASSUME Sound, Typed', LooperStep
    PROVE  (Lifecycle /\ Alive /\ Quiet)'
  <1>1. CASE Handle
    BY <1>1 DEF Handle, Sound, Typed, TypeOK, Lifecycle, Alive, Quiet, Joined, UartClosed
  <1>2. CASE OpenFails
    BY <1>2 DEF OpenFails, Goto, NoInterface, Sound, Typed, TypeOK, Lifecycle, Alive, Quiet,
       UartClosed
  <1>3. CASE OpenNoUart
    BY <1>3 DEF OpenNoUart, Goto, NoInterface, Sound, Typed, TypeOK, Lifecycle, Alive, Quiet,
       UartClosed
  <1>4. CASE Open
    BY <1>4 DEF Open, Goto, NoUart, Sound, Typed, TypeOK, Lifecycle, Alive, Quiet, Joined,
       UartClosed
  <1>5. CASE FwCfg
    <2>1. /\ vi \in Interface /\ lib \in Library /\ looper \in Looper /\ vi.exists
      BY <1>5 DEF FwCfg, Sound, Typed, TypeOK, Lifecycle
    <2>2. /\ looper'.pc = "wait" /\ sm' = "on" /\ vi'.exists
          /\ lib'.loaded = lib.loaded
          /\ UNCHANGED <<watcher, ctrl>>
      BY <1>5, <2>1 DEF FwCfg, Goto, Interface, Library
    <2>3. fw'.pc # "none" => lib.loaded
      BY <1>5 DEF FwCfg, Sound, Alive
    <2>4. watcher.pc # "none" /\ ~watcher.running => FALSE
      BY <1>5 DEF FwCfg, Sound, Alive
    <2>5. Quiet'
      <3>1. vi'.hci = vi.hci /\ fw.pc = "none" /\ fw.wrong = {} /\ ctrl.cmd = 0
        BY <1>5, <2>1 DEF FwCfg, Interface, Sound, Quiet
      <3>2. fw'.pc = "none" => fw'.wrong = {}
        BY <1>5, <3>1 DEF FwCfg, NoThread
      <3> QED BY <2>2, <3>1, <3>2 DEF Sound, Quiet, UartClosed
    <2> QED BY <2>1, <2>2, <2>3, <2>4, <2>5 DEF Sound, Lifecycle, Alive, Joined, UartClosed
  <1>6. CASE StopWatching
    BY <1>6 DEF StopWatching, Goto, Sound, Typed, TypeOK, Lifecycle, Alive, Quiet, Joined,
       UartClosed
  <1>7. CASE Join
    BY <1>7 DEF Join, Goto, Sound, Typed, TypeOK, Lifecycle, Alive, Quiet, UartClosed
  <1>8. CASE DeleteHci
    BY <1>8 DEF DeleteHci, Goto, Sound, Typed, TypeOK, Lifecycle, Alive, Quiet, Joined, UartClosed
  <1>9. CASE CloseUart
    BY <1>9 DEF CloseUart, Goto, NoUart, Sound, Typed, TypeOK, Lifecycle, Alive, Quiet,
       UartClosed, Joined,
       Uart
  <1>10. CASE CleanCallbacks
    BY <1>10 DEF CleanCallbacks, Goto, Sound, Typed, TypeOK, Lifecycle, Alive, Quiet, Joined,
       UartClosed
  <1>11. CASE Terminate
    BY <1>11 DEF Terminate, Goto, Sound, Typed, TypeOK, Lifecycle, Alive, Quiet, Joined, UartClosed
  <1>12. CASE JoinFw
    BY <1>12 DEF JoinFw, Goto, NoThread, Sound, Typed, TypeOK, Lifecycle, Alive, Quiet, Joined,
       UartClosed
  <1>13. CASE Unload
    BY <1>13 DEF Unload, NoLibrary, NoInterface, Sound, Typed, TypeOK, Lifecycle, Alive, Quiet,
       Joined,
       UartClosed
  <1> QED BY <1>1, <1>2, <1>3, <1>4, <1>5, <1>6, <1>7, <1>8, <1>9, <1>10, <1>11, <1>12, <1>13
             DEF LooperStep

\* The firmware thread's steps keep what lives in the interface.
LEMMA FwSound ==
    ASSUME Sound, Typed', FwStep
    PROVE  (Lifecycle /\ Alive /\ Quiet)'
  <1>0. CASE FwNoScript
    BY <1>0 DEF FwNoScript, FwFails, Sound, Typed, TypeOK, Lifecycle, Alive, Quiet, FwThread
  <1>1. CASE FwLoop
    <2>1. fw \in FwThread /\ lib \in Library
      BY DEF Sound, Typed, TypeOK
    <2>2. fw.pc # "none" /\ fw'.pc # "none" /\ lib'.loaded = lib.loaded
      BY <1>1, <2>1 DEF FwLoop, FwExit, FwThread, Library
    <2>3. UNCHANGED <<sm, looper, vi, watcher, ctrl>>
      BY <1>1 DEF FwLoop
    <2> QED BY <2>2, <2>3 DEF Sound, Lifecycle, Alive, Quiet
  <1>2. CASE FwSend
    BY <1>2 DEF FwSend, FwExit, Sound, Typed, TypeOK, Lifecycle, Alive, Quiet, FwThread
  <1>3. CASE FwXmit
    BY <1>3 DEF FwXmit, Sound, Typed, TypeOK, Lifecycle, Alive, Quiet
  <1>4. CASE FwWoken
    <2>1. fw \in FwThread /\ lib \in Library
      BY DEF Sound, Typed, TypeOK
    <2>2. fw.pc # "none" /\ fw'.pc # "none" /\ lib'.loaded = lib.loaded
      BY <1>4, <2>1 DEF FwWoken, FwExit, FwThread, Library
    <2>3. UNCHANGED <<sm, looper, vi, watcher, ctrl>>
      BY <1>4 DEF FwWoken
    <2> QED BY <2>2, <2>3 DEF Sound, Lifecycle, Alive, Quiet
  <1>5. CASE FwTimeout
    BY <1>5 DEF FwTimeout, FwFails, Sound, Typed, TypeOK, Lifecycle, Alive, Quiet, FwThread,
       Library
  <1>6. CASE FwConfigured
    BY <1>6 DEF FwConfigured, Sound, Typed, TypeOK, Lifecycle, Alive, Quiet
  <1>7. CASE FwEnd
    BY <1>7 DEF FwEnd, Sound, Typed, TypeOK, Lifecycle, Alive, Quiet
  <1> QED BY <1>0, <1>1, <1>2, <1>3, <1>4, <1>5, <1>6, <1>7 DEF FwStep

\* The watcher's steps keep what lives in the interface.
LEMMA WatcherSound ==
    ASSUME Sound, Typed', WatcherStep
    PROVE  (Lifecycle /\ Alive /\ Quiet)'
  <1>1. CASE WatcherRead
    BY <1>1 DEF WatcherRead, Sound, Typed, TypeOK, Lifecycle, Alive, Quiet
  <1>2. CASE WatcherCall
    BY <1>2 DEF WatcherCall, Sound, Typed, TypeOK, Lifecycle, Alive, Quiet
  <1>3. CASE WatcherExit
    BY <1>3 DEF WatcherExit, Sound, Typed, TypeOK, Lifecycle, Alive, Quiet
  <1> QED BY <1>1, <1>2, <1>3 DEF WatcherStep

\* The controller and the restart keep what lives in the interface.
LEMMA CtrlSound ==
    ASSUME Sound, Typed', CtrlAnswer \/ CtrlLose \/ Restart
    PROVE  (Lifecycle /\ Alive /\ Quiet)'
  <1>1. CASE CtrlAnswer
    <2>1. ctrl \in Uart /\ fw \in FwThread
      BY DEF Sound, Typed, TypeOK
    <2>2. ctrl.cmd # 0 /\ ctrl.open /\ fw.pc # "none"
      BY <1>1, <2>1 DEF CtrlAnswer, Sound, Quiet, Uart
    <2>3. fw'.pc = fw.pc
      <3>1. PICK ok \in BOOLEAN :
              fw' = IF ok THEN fw ELSE [fw EXCEPT !.wrong = @ \cup {"failed"}]
        BY <1>1 DEF CtrlAnswer
      <3> QED BY <2>1, <3>1 DEF FwThread
    <2>4. ctrl'.open = ctrl.open
      BY <1>1, <2>1 DEF CtrlAnswer, Uart
    <2>5. UNCHANGED <<sm, looper, vi, lib, watcher>>
      BY <1>1 DEF CtrlAnswer
    <2> QED BY <2>2, <2>3, <2>4, <2>5 DEF Sound, Lifecycle, Alive, Quiet
  <1>2. CASE CtrlLose
    BY <1>2 DEF CtrlLose, Sound, Typed, TypeOK, Lifecycle, Alive, Quiet
  <1>3. CASE Restart
    BY <1>3 DEF Restart, Waiting, NoInterface, NoLibrary, NoThread, NoWatcher, NoUart, Sound,
       Typed, TypeOK, Lifecycle, Alive, Quiet
  <1> QED BY <1>1, <1>2, <1>3

-----------------------------------------------------------------------------
\* The framework's calls keep failures excused.
LEMMA BinderExcused ==
    ASSUME Sound, Excused, Initialize \/ Close \/ FwkDie \/ ServiceDied \/ SendData
    PROVE  Excused'
  <1>1. CASE Initialize
    BY <1>1 DEF Initialize, Sound, Typed, TypeOK, Excused
  <1>2. CASE Close
    BY <1>2 DEF Close, Sound, Typed, TypeOK, Excused
  <1>3. CASE FwkDie
    BY <1>3 DEF FwkDie, Sound, Typed, TypeOK, Excused
  <1>4. CASE ServiceDied
    BY <1>4 DEF ServiceDied, Sound, Typed, TypeOK, Excused
  <1>5. CASE SendData
    BY <1>5 DEF SendData, Sound, Typed, TypeOK, Excused
  <1> QED BY <1>1, <1>2, <1>3, <1>4, <1>5

\* The looper's steps keep failures excused.
LEMMA LooperExcused ==
    ASSUME Sound, Excused, LooperStep, past.abort = "no"
    PROVE  Excused'
  <1>1. CASE Handle
    BY <1>1 DEF Handle, Sound, Typed, TypeOK, Excused
  <1>2. CASE OpenFails
    BY <1>2 DEF OpenFails, Goto, Sound, Typed, TypeOK, Excused
  <1>3. CASE OpenNoUart
    BY <1>3 DEF OpenNoUart, Goto, NoLibrary, Sound, Typed, TypeOK, Alive, Excused
  <1>4. CASE Open
    BY <1>4 DEF Open, Goto, NoLibrary, NoUart, Sound, Typed, TypeOK, Alive, Excused
  <1>5. CASE FwCfg
    <2>1. fw.pc = "none" /\ fw.wrong = {} /\ fw \in FwThread /\ lib \in Library
      BY <1>5 DEF FwCfg, Sound, Typed, TypeOK, Quiet
    <2>2. /\ fw'.wrong = {} /\ fw'.pc # "exit"
          /\ lib'.cmd = lib.cmd /\ lib'.cbacks = lib.cbacks
          /\ looper'.pc = "wait" /\ UNCHANGED <<icmd, watcher, ctrl, past>>
      BY <1>5, <2>1 DEF FwCfg, Goto, NoThread, Library, Sound, Typed, TypeOK, Looper
    <2> QED BY <2>1, <2>2 DEF Excused
  <1>6. CASE StopWatching
    BY <1>6 DEF StopWatching, Goto, Sound, Typed, TypeOK, Excused
  <1>7. CASE Join
    BY <1>7 DEF Join, Goto, Sound, Typed, TypeOK, Excused
  <1>8. CASE DeleteHci
    BY <1>8 DEF DeleteHci, Goto, Sound, Typed, TypeOK, Excused
  <1>9. CASE CloseUart
    BY <1>9 DEF CloseUart, Goto, NoUart, Sound, Typed, TypeOK, Excused
  <1>10. CASE CleanCallbacks
    BY <1>10 DEF CleanCallbacks, Sound, Typed, TypeOK, Excused
  <1>11. CASE Terminate
    BY <1>11 DEF Terminate, Sound, Typed, TypeOK, Excused
  <1>12. CASE JoinFw
    BY <1>12 DEF JoinFw, Goto, NoThread, Sound, Typed, TypeOK, Alive, Quiet, Joined, UartClosed,
       Excused,
       FwThread
  <1>13. CASE Unload
    BY <1>13 DEF Unload, NoLibrary, Sound, Typed, TypeOK, Excused
  <1> QED BY <1>1, <1>2, <1>3, <1>4, <1>5, <1>6, <1>7, <1>8, <1>9, <1>10, <1>11, <1>12, <1>13
             DEF LooperStep

\* The firmware thread's steps keep failures excused.
LEMMA FwExcused ==
    ASSUME Sound, Excused, FwStep
    PROVE  Excused'
  <1>0. CASE FwNoScript
    BY <1>0 DEF FwNoScript, FwFails, Sound, Typed, TypeOK, Excused, FwThread
  <1>1. CASE FwLoop
    BY <1>1 DEF FwLoop, FwExit, Sound, Typed, TypeOK, Excused, FwThread, Library
  <1>2. CASE FwSend
    BY <1>2 DEF FwSend, FwExit, Sound, Typed, TypeOK, Excused, FwThread
  <1>3. CASE FwXmit
    BY <1>3 DEF FwXmit, Sound, Typed, TypeOK, Excused
  <1>4. CASE FwWoken
    BY <1>4 DEF FwWoken, FwExit, Sound, Typed, TypeOK, Excused, FwThread, Library
  <1>5. CASE FwTimeout
    BY <1>5 DEF FwTimeout, FwFails, Sound, Typed, TypeOK, Excused, FwThread, Library
  <1>6. CASE FwConfigured
    BY <1>6 DEF FwConfigured, Sound, Typed, TypeOK, Excused
  <1>7. CASE FwEnd
    BY <1>7 DEF FwEnd, Sound, Typed, TypeOK, Excused
  <1> QED BY <1>0, <1>1, <1>2, <1>3, <1>4, <1>5, <1>6, <1>7 DEF FwStep

\* The watcher's steps keep failures excused.
LEMMA WatcherExcused ==
    ASSUME Sound, Excused, WatcherStep
    PROVE  Excused'
  <1>1. CASE WatcherRead
    BY <1>1 DEF WatcherRead, Sound, Typed, TypeOK, Excused, Uart
  <1>2. CASE WatcherCall
    BY <1>2 DEF WatcherCall, Sound, Typed, TypeOK, Excused
  <1>3. CASE WatcherExit
    BY <1>3 DEF WatcherExit, NoWatcher, Sound, Typed, TypeOK, Excused
  <1> QED BY <1>1, <1>2, <1>3 DEF WatcherStep

\* The controller and the restart keep failures excused.
LEMMA CtrlExcused ==
    ASSUME Sound, Excused, CtrlAnswer \/ CtrlLose \/ Restart
    PROVE  Excused'
  <1>1. CASE CtrlAnswer
    <2>1. PICK ok \in BOOLEAN :
            /\ ctrl' = [ctrl EXCEPT !.cmd = 0, !.evts = Append(@, [op |-> ctrl.cmd, ok |-> ok])]
            /\ fw' = IF ok THEN fw ELSE [fw EXCEPT !.wrong = @ \cup {"failed"}]
      BY <1>1 DEF CtrlAnswer
    <2>2. ctrl \in Uart /\ fw \in FwThread
      BY DEF Sound, Typed, TypeOK
    <2>3. /\ fw'.pc = fw.pc /\ fw'.ret = fw.ret
          /\ fw.wrong # {} \/ ~ok => fw'.wrong # {}
      BY <2>1, <2>2 DEF FwThread
    <2>4. ctrl'.evts = Append(ctrl.evts, [op |-> ctrl.cmd, ok |-> ok])
      BY <2>1, <2>2 DEF Uart
    <2>5. \A k \in DOMAIN ctrl'.evts : ~ctrl'.evts[k].ok => fw'.wrong # {}
      <3>1. ASSUME NEW k \in DOMAIN ctrl'.evts, ~ctrl'.evts[k].ok PROVE fw'.wrong # {}
        <4>1. ctrl.evts \in Seq(Event)
          BY <2>2 DEF Uart
        <4>2. CASE k \in DOMAIN ctrl.evts
          BY <2>3, <2>4, <3>1, <4>1, <4>2 DEF Excused
        <4>3. CASE k = Len(ctrl.evts) + 1
          BY <2>3, <2>4, <3>1, <4>1, <4>3
        <4> QED BY <2>4, <3>1, <4>1, <4>2, <4>3
      <3> QED BY <3>1
    <2> QED BY <1>1, <2>3, <2>5 DEF CtrlAnswer, Excused
  <1>2. CASE CtrlLose
    BY <1>2 DEF CtrlLose, Sound, Typed, TypeOK, Excused
  <1>3. CASE Restart
    BY <1>3 DEF Restart, Waiting, NoLibrary, NoThread, NoWatcher, NoUart, Sound, Typed, TypeOK,
       Excused
  <1> QED BY <1>1, <1>2, <1>3

-----------------------------------------------------------------------------
\* The framework's calls leave an undisturbed initialization so.
LEMMA BinderUndisturbed ==
    ASSUME Sound, Undisturbed, Initialize \/ Close \/ FwkDie \/ ServiceDied \/ SendData
    PROVE  Undisturbed'
  <1>1. CASE Initialize
    <2>1. /\ fwk \in Framework /\ queue \in Seq({"on", "off"})
          /\ looper \in Looper /\ fw \in FwThread
      BY DEF Sound, Typed, TypeOK
    <2>2. fwk'.overtaken = \/ queue # <<>> \/ looper.pc # "wait"
                           \/ fw.pc \notin {"none", "end"} \/ fwk.obituaries > 0
      BY <1>1, <2>1 DEF Initialize, Framework
    <2>3. fwk'.told = "none" /\ fwk'.obituaries = fwk.obituaries
      BY <1>1, <2>1 DEF Initialize, Framework
    <2>4. ASSUME ~fwk'.overtaken
          PROVE  /\ fwk'.obituaries = 0 /\ queue' = <<"on">> /\ looper'.pc = "wait"
                 /\ fwk'.told = "none" /\ fw'.pc \in {"none", "end"}
      <3>1. queue = <<>> /\ looper.pc = "wait" /\ fw.pc \in {"none", "end"}
        BY <2>2, <2>4
      <3>2. fwk.obituaries = 0
        BY <2>1, <2>2, <2>4 DEF Framework
      <3>3. queue' = <<"on">>
        BY <1>1, <3>1 DEF Initialize
      <3> QED BY <1>1, <2>3, <3>1, <3>2, <3>3 DEF Initialize
    <2> QED BY <2>4 DEF Undisturbed
  <1>2. CASE Close
    BY <1>2 DEF Close, Sound, Typed, TypeOK, Undisturbed
  <1>3. CASE FwkDie
    BY <1>3 DEF FwkDie, Sound, Typed, TypeOK, Undisturbed
  <1>4. CASE ServiceDied
    BY <1>4 DEF ServiceDied, Sound, Typed, TypeOK, Undisturbed
  <1>5. CASE SendData
    BY <1>5 DEF SendData, Sound, Typed, TypeOK, Undisturbed
  <1> QED BY <1>1, <1>2, <1>3, <1>4, <1>5

\* The looper's steps leave an undisturbed initialization so.
LEMMA LooperUndisturbed ==
    ASSUME Sound, Undisturbed, LooperStep
    PROVE  Undisturbed'
  <1>1. CASE Handle
    <2>1. /\ looper \in Looper /\ looper.pc = "wait" /\ queue # <<>>
          /\ UNCHANGED <<fwk, fw>>
      BY <1>1 DEF Handle, Sound, Typed, TypeOK
    <2>2. SUFFICES ASSUME fwk.open, ~fwk.overtaken, queue = <<"on">>
                   PROVE  Undisturbed'
      BY <2>1 DEF Undisturbed
    <2>3. Head(queue) = "on" /\ queue' = <<>>
      BY <1>1, <2>2 DEF Handle
    <2>4. looper'.pc = "open" \/ (looper'.pc = "stop" /\ looper'.again)
      BY <1>1, <2>3 DEF Handle
    <2> QED BY <2>1, <2>2, <2>3, <2>4 DEF Undisturbed
  <1>2. CASE OpenFails
    BY <1>2 DEF OpenFails, Told, Goto, Sound, Typed, TypeOK, Undisturbed
  <1>3. CASE OpenNoUart
    BY <1>3 DEF OpenNoUart, Told, Goto, Sound, Typed, TypeOK, Undisturbed
  <1>4. CASE Open
    BY <1>4 DEF Open, Goto, Sound, Typed, TypeOK, Undisturbed
  <1>5. CASE FwCfg
    BY <1>5 DEF FwCfg, Goto, Sound, Typed, TypeOK, Undisturbed
  <1>6. CASE StopWatching
    BY <1>6 DEF StopWatching, Goto, Sound, Typed, TypeOK, Undisturbed
  <1>7. CASE Join
    BY <1>7 DEF Join, Goto, Sound, Typed, TypeOK, Undisturbed
  <1>8. CASE DeleteHci
    BY <1>8 DEF DeleteHci, Goto, Sound, Typed, TypeOK, Undisturbed
  <1>9. CASE CloseUart
    BY <1>9 DEF CloseUart, Goto, Sound, Typed, TypeOK, Undisturbed
  <1>10. CASE CleanCallbacks
    BY <1>10 DEF CleanCallbacks, Goto, Sound, Typed, TypeOK, Undisturbed
  <1>11. CASE Terminate
    BY <1>11 DEF Terminate, Goto, Sound, Typed, TypeOK, Undisturbed
  <1>12. CASE JoinFw
    BY <1>12 DEF JoinFw, Goto, NoThread, Sound, Typed, TypeOK, Undisturbed
  <1>13. CASE Unload
    BY <1>13 DEF Unload, Sound, Typed, TypeOK, Undisturbed
  <1> QED BY <1>1, <1>2, <1>3, <1>4, <1>5, <1>6, <1>7, <1>8, <1>9, <1>10, <1>11, <1>12, <1>13
             DEF LooperStep

\* The firmware thread's steps leave an undisturbed initialization so.
LEMMA FwUndisturbed ==
    ASSUME Sound, Undisturbed, FwStep
    PROVE  Undisturbed'
  <1>0. CASE FwNoScript
    BY <1>0 DEF FwNoScript, FwFails, Sound, Typed, TypeOK, Undisturbed
  <1>1. CASE FwLoop
    BY <1>1 DEF FwLoop, Sound, Typed, TypeOK, Undisturbed, Library
  <1>2. CASE FwSend
    BY <1>2 DEF FwSend, Sound, Typed, TypeOK, Undisturbed
  <1>3. CASE FwXmit
    BY <1>3 DEF FwXmit, Sound, Typed, TypeOK, Undisturbed
  <1>4. CASE FwWoken
    BY <1>4 DEF FwWoken, Sound, Typed, TypeOK, Undisturbed
  <1>5. CASE FwTimeout
    BY <1>5 DEF FwTimeout, Sound, Typed, TypeOK, Undisturbed
  <1>6. CASE FwConfigured
    BY <1>6 DEF FwConfigured, Told, Sound, Typed, TypeOK, Alive, Undisturbed, Framework
  <1>7. CASE FwEnd
    BY <1>7 DEF FwEnd, Sound, Typed, TypeOK, Undisturbed
  <1> QED BY <1>0, <1>1, <1>2, <1>3, <1>4, <1>5, <1>6, <1>7 DEF FwStep

\* The watcher's steps leave an undisturbed initialization so.
LEMMA WatcherUndisturbed ==
    ASSUME Sound, Undisturbed, WatcherStep
    PROVE  Undisturbed'
  <1>1. CASE WatcherRead
    BY <1>1 DEF WatcherRead, Sound, Typed, TypeOK, Undisturbed
  <1>2. CASE WatcherCall
    BY <1>2 DEF WatcherCall, Sound, Typed, TypeOK, Undisturbed
  <1>3. CASE WatcherExit
    BY <1>3 DEF WatcherExit, Sound, Typed, TypeOK, Undisturbed
  <1> QED BY <1>1, <1>2, <1>3 DEF WatcherStep

\* The controller and the restart leave an undisturbed initialization so.
LEMMA CtrlUndisturbed ==
    ASSUME Sound, Undisturbed, CtrlAnswer \/ CtrlLose \/ Restart
    PROVE  Undisturbed'
  <1>1. CASE CtrlAnswer
    BY <1>1 DEF CtrlAnswer, Sound, Typed, TypeOK, Undisturbed, FwThread
  <1>2. CASE CtrlLose
    BY <1>2 DEF CtrlLose, Sound, Typed, TypeOK, Undisturbed
  <1>3. CASE Restart
    BY <1>3 DEF Restart, NoSession, Waiting, Sound, Typed, TypeOK, Undisturbed
  <1> QED BY <1>1, <1>2, <1>3

-----------------------------------------------------------------------------
\* Every step keeps the inductive invariant.
LEMMA BtStep ==
    ASSUME BtInv, Next
    PROVE  BtInv'
  <1>1. Sound /\ Excused /\ Undisturbed /\ Typed
    BY DEF BtInv, Sound
  <1>2. Typed'
    BY <1>1, BinderTyped, LooperTyped, FwTyped, WatcherTyped, CtrlTyped DEF Next
  <1>3. (Lifecycle /\ Alive /\ Quiet)'
    BY <1>1, <1>2, BinderSound, LooperSound, FwSound, WatcherSound, CtrlSound DEF Next
  <1>4. Excused'
    BY <1>1, BinderExcused, LooperExcused, FwExcused, WatcherExcused, CtrlExcused DEF Next
  <1>5. Undisturbed'
    BY <1>1, BinderUndisturbed, LooperUndisturbed, FwUndisturbed, WatcherUndisturbed,
       CtrlUndisturbed DEF Next
  <1> QED BY <1>2, <1>3, <1>4, <1>5 DEF BtInv, Sound

\* The service starts with the inductive invariant.
LEMMA BtInit ==
    ASSUME Init
    PROVE  BtInv
  <1>1. Typed
    <2>1. 1 \in 1 .. Script + 1 /\ 0 \in 0 .. Script /\ 0 \in Nat
      BY ScriptAssumption
    <2>2. fwk \in Framework /\ looper \in Looper /\ vi \in Interface /\ lib \in Library
      BY <2>1 DEF Init, NoSession, Framework, Waiting, Looper, NoInterface, Interface,
                  NoLibrary, Library
    <2>3. fw \in FwThread /\ icmd \in Command /\ watcher \in Watcher
      BY <2>1 DEF Init, NoThread, FwThread, NoCommand, Command, NoWatcher, Watcher
    <2>4. ctrl \in Uart
      BY <2>1 DEF Init, NoUart, Uart
    <2>5. past \in Past
      BY <2>1 DEF Init, Past
    <2> QED BY <2>2, <2>3, <2>4, <2>5 DEF Init, Typed, TypeOK, InScript, NoThread
  <1>2. Lifecycle /\ Alive
    BY DEF Init, Lifecycle, Alive, Waiting, NoInterface, NoLibrary, NoWatcher, NoThread, NoUart
  <1>q. Quiet
    BY DEF Init, Quiet, Waiting, NoThread, NoUart, NoInterface
  <1>3. Excused
    BY DEF Init, Excused, NoUart, NoWatcher, NoThread, NoLibrary, Waiting
  <1>4. Undisturbed
    BY DEF Init, Undisturbed, NoSession
  <1> QED BY <1>1, <1>2, <1>q, <1>3, <1>4 DEF BtInv, Sound

\* In every behaviour of the service the invariant holds, however calls, deaths, failures and
\* the steps of its threads interleave.
THEOREM BtInvariant == Spec => []BtInv
  <1>1. BtInv /\ UNCHANGED vars => BtInv'
    BY DEF BtInv, Sound, Typed, TypeOK, InScript, Lifecycle, Alive, Quiet,
       Excused, Undisturbed, vars
  <1>2. BtInv /\ [Next]_vars => BtInv'
    BY <1>1, BtStep
  <1> QED BY <1>2, BtInit, PTL DEF Spec

\* Close leaves nothing behind: no thread in an unloaded library or on a deleted interface.
THEOREM NothingOutlivesCorrect == Spec => []NothingOutlives
  <1>1. BtInv => NothingOutlives
    BY DEF BtInv, Sound, Alive, NothingOutlives
  <1> QED BY <1>1, BtInvariant, PTL

\* OnFirmwareConfigured aborts the service only for a thread without a script, a failed command
\* or an expired wait, never for one that a close has terminated.
THEOREM FatalCorrect == Spec => []FatalJustified
  <1>1. BtInv => FatalJustified
    BY DEF BtInv, Excused, FatalJustified
  <1> QED BY <1>1, BtInvariant, PTL

\* A client that was told SUCCESS finds the interface and the library it sends through.
THEOREM SendCorrect == Spec => []SendSafe
  <1>1. BtInv => SendSafe
    BY DEF BtInv, Sound, Alive, Undisturbed, SendSafe
  <1> QED BY <1>1, BtInvariant, PTL

\* Between messages OnState means that there is an interface, so Shutdown is never called
\* without one; and the variables have their types.
THEOREM InterfaceCorrect == Spec => [](InterfaceMatches /\ TypeOK)
  <1>1. BtInv => InterfaceMatches /\ TypeOK
    BY DEF BtInv, Sound, Typed, Lifecycle, InterfaceMatches
  <1> QED BY <1>1, BtInvariant, PTL
=============================================================================
