------------------------------- MODULE BtLink -------------------------------
(***************************************************************************)
(* The data path of the Bluetooth HCI service once the firmware is         *)
(* configured: packets of the controller are framed out of the bytes of    *)
(* the UART (h4_protocol.cc, hci_packetizer.cc), packets of the framework  *)
(* are written to it (hci_protocol.cc), and the low power wake line is     *)
(* asserted for traffic and deasserted by a timeout (vendor_interface.cc,  *)
(* async_fd_watcher.cc).                                                   *)
(*                                                                         *)
(* Two threads meet here without a lock: a binder thread, which runs Send, *)
(* and the watcher's thread, which reads the UART and runs OnTimeout.  A   *)
(* read or a write may be of fewer bytes than asked for.  EAGAIN is        *)
(* repeated in a loop and changes nothing.  The end of the file and any    *)
(* other error of a read, which abort the service, are left out.           *)
(***************************************************************************)
EXTENDS Naturals, Sequences

CONSTANTS Types,        \* types of the packets from the controller
          Radix,        \* values of a byte that holds a length: 256, or fewer for checking
          MaxLength,    \* bound: bytes in the payload of a packet
          MaxIn,        \* bound: packets from the controller
          MaxOut,       \* bound: packets from the framework
          MaxFaults     \* bound: failing writes

ASSUME BtLinkAssumption == /\ Types \subseteq {2, 3, 4}
                           /\ Radix \in Nat \ {0, 1}
                           /\ MaxLength \in 0 .. Radix * Radix - 1
                           /\ MaxIn \in Nat
                           /\ MaxOut \in Nat
                           /\ MaxFaults \in Nat

VARIABLES sent,       \* packets that the controller has put on the UART
          uart,       \* bytes of them still unread
          rx,         \* H4Protocol and HciPacketizer
          delivered,  \* packets handed to event_cb_, acl_cb_ and sco_cb_
          lpm,        \* lpm_wake_deasserted, recent_activity_flag, timeout_ms_ > 0 of the
                      \* watcher, and the wake line itself
          pipe,       \* bytes in the notification pipe
          watcher,    \* ThreadRoutine, and whether its select has a timeout
          host,       \* a binder thread in VendorInterface::Send, and its iovecs
          wire,       \* bytes of the last packet written to the UART
          past        \* history: the bytes of that packet, bounds, and what has happened

vars == <<sent, uart, rx, delivered, lpm, pipe, watcher, host, wire, past>>

\* enum HciPacketType, and the preamble of each type
COMMAND == 1
ACL == 2
SCO == 3
EVENT == 4
UNKNOWN == 0
PreambleSize(type) == CASE type = ACL -> 4 [] type = EVENT -> 2 [] OTHER -> 3

\* HciGetPacketLengthForType: two bytes at offset 2, or the last byte of the preamble
PacketLength(type, preamble) ==
    IF type = ACL THEN preamble[3] + Radix * preamble[4] ELSE preamble[PreambleSize(type)]

\* The length of an ACL packet has two bytes, every other length has one
Longest(type) == IF type = ACL \/ MaxLength < Radix THEN MaxLength ELSE Radix - 1

\* The n-th packet of somebody, as its type and its bytes; a byte that is no length tells the
\* packet it is of
Packet(type, length, n) ==
    LET mark == 10 + n
        handle == [k \in 1 .. PreambleSize(type) - (IF type = ACL THEN 2 ELSE 1) |-> mark]
        len == IF type = ACL THEN <<length % Radix, length \div Radix>> ELSE <<length>>
    IN  [type |-> type, bytes |-> handle \o len \o [k \in 1 .. length |-> mark]]

Init ==
    /\ sent = <<>>
    /\ uart = <<>>
    /\ rx = [type |-> UNKNOWN, state |-> "preamble", bytes |-> <<>>, remaining |-> 0]
    /\ delivered = <<>>
    \* The firmware's commands have asserted wake, OnFirmwareConfigured has set the timeout
    /\ lpm = [deasserted |-> FALSE, recent |-> TRUE, timer |-> TRUE, line |-> "asserted"]
    /\ pipe = 0
    /\ watcher = [pc |-> "loop", timed |-> FALSE]
    /\ host = [pc |-> "idle", iov |-> <<>>, next |-> <<>>]
    /\ wire = <<>>
    /\ past = [asked |-> <<>>, out |-> 0, faults |-> 0, raced |-> FALSE, abort |-> FALSE]

-----------------------------------------------------------------------------
\* From the controller

\* A packet arrives on the UART
Arrive(type, length) ==
    /\ Len(sent) < MaxIn
    /\ LET p == Packet(type, length, Len(sent) + 1)
       IN  /\ sent' = Append(sent, p)
           /\ uart' = uart \o <<type>> \o p.bytes
    /\ UNCHANGED <<rx, delivered, lpm, pipe, watcher, host, wire, past>>

\* A round of the watcher's thread has called OnDataReady
Readable == watcher.pc = "select" /\ pipe = 0 /\ uart # <<>>
Rest(n) == SubSeq(uart, n + 1, Len(uart))
Taken(n) == SubSeq(uart, 1, n)
Unread(n) == n \in 1 .. Len(uart)

\* H4Protocol::OnDataReady, between packets: one byte
ReadType ==
    /\ Readable /\ rx.type = UNKNOWN
    /\ rx' = [rx EXCEPT !.type = Head(uart)]
    /\ uart' = Rest(1)
    /\ watcher' = [watcher EXCEPT !.pc = "loop"]
    /\ UNCHANGED <<sent, delivered, lpm, pipe, host, wire, past>>

Mut_ReadPreamble(n) ==
    /\ Readable /\ rx.type # UNKNOWN /\ rx.state = "preamble"
    /\ Unread(n) /\ n <= PreambleSize(rx.type)
    /\ LET bytes == rx.bytes \o Taken(n)
       IN  rx' = IF Len(bytes) >= PreambleSize(rx.type)
                 THEN [rx EXCEPT !.bytes = bytes, !.state = "payload",
                                 !.remaining = PacketLength(rx.type, bytes)]
                 ELSE [rx EXCEPT !.bytes = bytes]
    /\ uart' = Rest(n)
    /\ watcher' = [watcher EXCEPT !.pc = "loop"]
    /\ UNCHANGED <<sent, delivered, lpm, pipe, host, wire, past>>

\* HciPacketizer::OnDataReady, HCI_PREAMBLE
ReadPreamble(n) ==
    /\ Readable /\ rx.type # UNKNOWN /\ rx.state = "preamble"
    /\ Unread(n) /\ n <= PreambleSize(rx.type) - Len(rx.bytes)
    /\ LET bytes == rx.bytes \o Taken(n)
       IN  rx' = IF Len(bytes) = PreambleSize(rx.type)
                 THEN [rx EXCEPT !.bytes = bytes, !.state = "payload",
                                 !.remaining = PacketLength(rx.type, bytes)]
                 ELSE [rx EXCEPT !.bytes = bytes]
    /\ uart' = Rest(n)
    /\ watcher' = [watcher EXCEPT !.pc = "loop"]
    /\ UNCHANGED <<sent, delivered, lpm, pipe, host, wire, past>>

\* HciPacketizer::OnDataReady, HCI_PAYLOAD, and OnPacketReady once nothing remains
ReadPayload(n) ==
    /\ Readable /\ rx.state = "payload" /\ rx.remaining > 0
    /\ Unread(n) /\ n <= rx.remaining
    /\ LET bytes == rx.bytes \o Taken(n)
       IN  IF n = rx.remaining
           THEN /\ delivered' = Append(delivered, [type |-> rx.type, bytes |-> bytes])
                /\ rx' = [type |-> UNKNOWN, state |-> "preamble", bytes |-> <<>>,
                          remaining |-> 0]
           ELSE /\ rx' = [rx EXCEPT !.bytes = bytes, !.remaining = @ - n]
                /\ UNCHANGED delivered
    /\ uart' = Rest(n)
    /\ watcher' = [watcher EXCEPT !.pc = "loop"]
    /\ UNCHANGED <<sent, lpm, pipe, host, wire, past>>

\* HCI_PAYLOAD of a packet without one: to read no bytes returns 0, which is taken for the end
\* of the file
ReadNothing ==
    /\ Readable /\ rx.state = "payload" /\ rx.remaining = 0
    /\ past' = [past EXCEPT !.abort = TRUE]
    /\ UNCHANGED <<sent, uart, rx, delivered, lpm, pipe, watcher, host, wire>>

-----------------------------------------------------------------------------
\* The watcher's thread, and OnTimeout

\* The head of ThreadRoutine's loop: the timeout is read for select
Loop ==
    /\ watcher.pc = "loop"
    /\ watcher' = [pc |-> "select", timed |-> lpm.timer]
    /\ UNCHANGED <<sent, uart, rx, delivered, lpm, pipe, host, wire, past>>

Mut_Notified ==
    /\ watcher.pc = "select" /\ pipe > 0
    /\ watcher' = [watcher EXCEPT !.pc = "loop"]
    /\ UNCHANGED <<sent, uart, rx, delivered, lpm, pipe, host, wire, past>>

\* A byte of the pipe is read, and the timeout anew
Notified ==
    /\ watcher.pc = "select" /\ pipe > 0
    /\ pipe' = pipe - 1
    /\ watcher' = [watcher EXCEPT !.pc = "loop"]
    /\ UNCHANGED <<sent, uart, rx, delivered, lpm, host, wire, past>>

\* select times out; the callback is taken if there still is a timeout
Expire ==
    /\ watcher.pc = "select" /\ watcher.timed
    /\ pipe = 0 /\ uart = <<>>
    /\ watcher' = [watcher EXCEPT !.pc = IF lpm.timer THEN "check" ELSE "loop"]
    /\ UNCHANGED <<sent, uart, rx, delivered, lpm, pipe, host, wire, past>>

Go(pc) == watcher' = [watcher EXCEPT !.pc = pc]

\* OnTimeout, one access to the shared state after the other: was there traffic?
Check ==
    /\ watcher.pc = "check"
    /\ Go(IF lpm.recent THEN "clear" ELSE "flag")
    /\ past' = [past EXCEPT !.raced = @ \/ (~lpm.recent /\ host.pc # "idle")]
    /\ UNCHANGED <<sent, uart, rx, delivered, lpm, pipe, host, wire>>

Flag ==
    /\ watcher.pc = "flag"
    /\ lpm' = [lpm EXCEPT !.deasserted = TRUE]
    /\ Go("op")
    /\ UNCHANGED <<sent, uart, rx, delivered, pipe, host, wire, past>>

Deassert ==
    /\ watcher.pc = "op"
    /\ lpm' = [lpm EXCEPT !.line = "deasserted"]
    /\ Go("disarm")
    /\ UNCHANGED <<sent, uart, rx, delivered, pipe, host, wire, past>>

Disarm ==
    /\ watcher.pc = "disarm"
    /\ lpm' = [lpm EXCEPT !.timer = FALSE]
    /\ pipe' = pipe + 1
    /\ Go("clear")
    /\ UNCHANGED <<sent, uart, rx, delivered, host, wire, past>>

Mut_Clear ==
    /\ watcher.pc = "clear"
    /\ Go("loop")
    /\ UNCHANGED <<sent, uart, rx, delivered, lpm, pipe, host, wire, past>>

Clear ==
    /\ watcher.pc = "clear"
    /\ lpm' = [lpm EXCEPT !.recent = FALSE]
    /\ Go("loop")
    /\ UNCHANGED <<sent, uart, rx, delivered, pipe, host, wire, past>>

WatcherStep ==
    \/ Loop \/ Notified \/ ReadType \/ ReadNothing
    \/ \E n \in 1 .. 4 + MaxLength : ReadPreamble(n) \/ ReadPayload(n)
    \/ Expire \/ Check \/ Flag \/ Deassert \/ Disarm \/ Clear

-----------------------------------------------------------------------------
\* To the controller

InOnTimeout == watcher.pc \in {"flag", "op", "disarm", "clear"}

\* VendorInterface::Send: a call, which notes the activity ...
Send(type) ==
    /\ host.pc = "idle" /\ past.out < MaxOut
    /\ LET p == Packet(type, Longest(type), past.out + 1)
       IN  host' = [pc |-> "test", iov |-> <<>>, next |-> <<<<type>>, p.bytes>>]
    /\ lpm' = [lpm EXCEPT !.recent = TRUE]
    /\ past' = [past EXCEPT !.out = @ + 1, !.raced = @ \/ InOnTimeout]
    /\ UNCHANGED <<sent, uart, rx, delivered, pipe, watcher, wire>>

\* ... and asserts wake if it is deasserted ...
Test ==
    /\ host.pc = "test"
    /\ host' = [host EXCEPT !.pc = IF lpm.deasserted THEN "arm" ELSE "begin"]
    /\ UNCHANGED <<sent, uart, rx, delivered, lpm, pipe, watcher, wire, past>>

Mut_Arm ==
    /\ host.pc = "arm"
    /\ pipe' = pipe + 1
    /\ host' = [host EXCEPT !.pc = "flag"]
    /\ UNCHANGED <<sent, uart, rx, delivered, lpm, watcher, wire, past>>

Arm ==
    /\ host.pc = "arm"
    /\ lpm' = [lpm EXCEPT !.timer = TRUE]
    /\ pipe' = pipe + 1
    /\ host' = [host EXCEPT !.pc = "flag"]
    /\ UNCHANGED <<sent, uart, rx, delivered, watcher, wire, past>>

Unflag ==
    /\ host.pc = "flag"
    /\ lpm' = [lpm EXCEPT !.deasserted = FALSE]
    /\ host' = [host EXCEPT !.pc = "assert"]
    /\ UNCHANGED <<sent, uart, rx, delivered, pipe, watcher, wire, past>>

Assert ==
    /\ host.pc = "assert"
    /\ lpm' = [lpm EXCEPT !.line = "asserted"]
    /\ host' = [host EXCEPT !.pc = "begin"]
    /\ UNCHANGED <<sent, uart, rx, delivered, pipe, watcher, wire, past>>

\* ... and H4Protocol::Send gathers the type and the packet for writev
Begin ==
    /\ host.pc = "begin"
    /\ host' = [pc |-> "write", iov |-> host.next, next |-> <<>>]
    /\ past' = [past EXCEPT !.asked = host.next[1] \o host.next[2]]
    /\ wire' = <<>>
    /\ UNCHANGED <<sent, uart, rx, delivered, lpm, pipe, watcher>>

Total(iov) == Len(iov[1]) + (IF Len(iov) = 2 THEN Len(iov[2]) ELSE 0)

Mut_Consume(iov, n) ==
    CASE n = Total(iov)  -> <<>>
      [] n < Len(iov[1]) -> iov
      [] OTHER           -> Tail(iov)

\* WritevSafely: whole iovecs are consumed, and a part of the next
Consume(iov, n) ==
    LET part(s, k) == SubSeq(s, k + 1, Len(s))
    IN  CASE n = Total(iov)   -> <<>>
          [] n < Len(iov[1])  -> [iov EXCEPT ![1] = part(@, n)]
          [] OTHER            -> <<part(iov[2], n - Len(iov[1]))>>

\* writev takes n bytes of the iovecs
Write(n) ==
    /\ host.pc = "write" /\ n <= Total(host.iov)
    /\ LET bytes == host.iov[1] \o (IF Len(host.iov) = 2 THEN host.iov[2] ELSE <<>>)
       IN  wire' = wire \o SubSeq(bytes, 1, n)
    /\ LET iov == Consume(host.iov, n)
       IN  host' = [host EXCEPT !.pc = IF iov = <<>> THEN "idle" ELSE "write", !.iov = iov]
    /\ UNCHANGED <<sent, uart, rx, delivered, lpm, pipe, watcher, past>>

\* writev fails: what is left of the packet is dropped, and nobody looks at the length returned
WriteFails ==
    /\ host.pc = "write" /\ past.faults < MaxFaults
    /\ past' = [past EXCEPT !.faults = @ + 1, !.asked = <<>>]
    /\ wire' = <<>>
    /\ host' = [host EXCEPT !.pc = "idle", !.iov = <<>>]
    /\ UNCHANGED <<sent, uart, rx, delivered, lpm, pipe, watcher>>

HostStep ==
    \/ Test \/ Arm \/ Unflag \/ Assert \/ Begin
    \/ \E n \in 1 .. 5 + MaxLength : Write(n)

Next ==
    /\ ~past.abort
    /\ \/ \E type \in Types : \E length \in 0 .. Longest(type) : Arrive(type, length)
       \/ WatcherStep
       \/ Send(COMMAND)
       \/ HostStep \/ WriteFails

Spec == Init /\ [][Next]_vars

\* The threads run; a timeout that is set passes
FairSpec == /\ Spec
            /\ WF_vars(~past.abort /\ WatcherStep)
            /\ WF_vars(~past.abort /\ HostStep)

-----------------------------------------------------------------------------
Bytes == Seq(Nat)
Packets == Seq([type : Nat, bytes : Bytes])
Packetizer == [type : Nat, state : {"preamble", "payload"}, bytes : Bytes, remaining : Nat]
PowerMode == [deasserted : BOOLEAN, recent : BOOLEAN, timer : BOOLEAN,
              line : {"asserted", "deasserted"}]
WatcherThread == [pc : {"loop", "select", "check", "flag", "op", "disarm", "clear"},
                  timed : BOOLEAN]
HostThread == [pc : {"idle", "test", "arm", "flag", "assert", "begin", "write"},
               iov : Seq(Bytes), next : Seq(Bytes)]
Past == [asked : Bytes, out : Nat, faults : Nat, raced : BOOLEAN, abort : BOOLEAN]

\* The variables have their types.
TypeOK ==
    /\ sent \in Packets
    /\ uart \in Bytes
    /\ rx \in Packetizer
    /\ delivered \in Packets
    /\ lpm \in PowerMode
    /\ pipe \in Nat
    /\ watcher \in WatcherThread
    /\ host \in HostThread
    /\ wire \in Bytes
    /\ past \in Past

IsStart(s, t) == Len(s) <= Len(t) /\ s = SubSeq(t, 1, Len(s))

\* However the bytes come in, the packets handed up are the controller's, whole and in order,
\* and the packetizer holds the start of the next one; what it reads makes the service abort
\* only at a packet without payload.
Framed ==
    /\ IsStart(delivered, sent)
    /\ rx.type # UNKNOWN =>
          /\ Len(delivered) < Len(sent)
          /\ rx.type = sent[Len(delivered) + 1].type
          /\ IsStart(rx.bytes, sent[Len(delivered) + 1].bytes)
    /\ past.abort => Len(sent[Len(delivered) + 1].bytes) = PreambleSize(rx.type)

\* However writev splits it, the bytes of a packet reach the UART once and in order, and all of
\* them before Send returns, unless the write fails.
Written ==
    /\ IsStart(wire, past.asked)
    /\ host.pc # "write" => wire = past.asked

\* The wake line is what the code takes it for, unless a Send has met OnTimeout: no byte is
\* written while it is deasserted; outside the two, lpm_wake_deasserted tells its state, and
\* the timeout is armed while it is asserted, so that it will be deasserted.
WakeKnown ==
    ~past.raced =>
        /\ host.pc = "write" => lpm.line = "asserted"
        /\ host.pc = "idle" /\ ~InOnTimeout =>
              /\ lpm.deasserted <=> lpm.line = "deasserted"
              /\ lpm.line = "asserted" => lpm.timer

\* Once nothing is sent any more the controller may sleep, unless Send and OnTimeout have met or
\* the service has aborted.
Sleeps == <>[](lpm.line = "deasserted" \/ past.raced \/ past.abort)

\* A packet is handed up in the end, unless it or one before it has no payload.
Delivers ==
    \A k \in 1 .. MaxIn :
        Len(sent) >= k ~>
            \/ Len(delivered) >= k
            \/ \E j \in (1 .. k) \cap DOMAIN sent : Len(sent[j].bytes) = PreambleSize(sent[j].type)

=============================================================================
