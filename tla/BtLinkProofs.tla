---------------------------- MODULE BtLinkProofs ----------------------------
(***************************************************************************)
(* Proofs about BtLink, for every length and number of packets.            *)
(***************************************************************************)
EXTENDS BtLink, SequenceTheorems, TLAPS

-----------------------------------------------------------------------------
\* The inductive invariant

\* The flag tells the state of the line, and the timeout will deassert it.
Consistent ==
    /\ lpm.deasserted <=> lpm.line = "deasserted"
    /\ lpm.line = "asserted" => lpm.timer

\* Where Send and OnTimeout are, and what they have done to the line so far, if they never met.
Wake ==
    ~past.raced =>
        /\ host.pc # "idle" => watcher.pc \notin {"flag", "op", "disarm"}
        /\ host.pc \in {"idle", "test"} /\ watcher.pc \notin {"op", "disarm"} => Consistent
        /\ host.pc \in {"arm", "flag"} => lpm.deasserted /\ lpm.line = "deasserted"
        /\ host.pc \in {"flag", "assert"} => lpm.timer
        /\ host.pc = "assert" => ~lpm.deasserted
        /\ host.pc \in {"begin", "write"} => lpm.line = "asserted" /\ Consistent
        /\ watcher.pc \in {"op", "disarm"} => lpm.deasserted
        /\ watcher.pc = "disarm" => lpm.line = "deasserted"

\* The bytes that an array of iovecs stands for
Flat(iov) == iov[1] \o (IF Len(iov) = 2 THEN iov[2] ELSE <<>>)

\* What writev has still to write is the rest of the packet.
Gathered ==
    /\ host.pc \in {"test", "arm", "flag", "assert", "begin"} => Len(host.next) = 2
    /\ host.pc = "write" => /\ Len(host.iov) \in {1, 2}
                            /\ past.asked = wire \o Flat(host.iov)
    /\ host.pc # "write" => wire = past.asked

LinkInv == TypeOK /\ Wake /\ Gathered

-----------------------------------------------------------------------------
\* Bytes

\* The longest payload of a type; a length that is not an ACL packet's fits into one byte.
LEMMA LongestType ==
    ASSUME NEW type \in Nat
    PROVE  /\ Longest(type) \in Nat /\ Longest(type) <= MaxLength
           /\ type # ACL => Longest(type) < Radix
  BY BtLinkAssumption DEF Longest

\* Dividing by the number of a byte's values, as HciGetPacketLengthForType undoes it.
LEMMA Divided ==
    ASSUME NEW length \in Nat
    PROVE  /\ length % Radix \in Nat /\ length \div Radix \in Nat
           /\ (length % Radix) + Radix * (length \div Radix) = length
  <1>1. Radix \in Nat /\ Radix > 0
    BY BtLinkAssumption
  <1> QED BY <1>1, SMTT(30)

\* Every packet is a sequence of bytes.
LEMMA PacketType ==
    ASSUME NEW type \in Nat, NEW length \in Nat, NEW n \in Nat
    PROVE  Packet(type, length, n) \in [type : {type}, bytes : Bytes]
  <1>1. PreambleSize(type) - (IF type = ACL THEN 2 ELSE 1) \in Nat
    BY DEF PreambleSize, ACL, EVENT
  <1>2. [k \in 1 .. PreambleSize(type) - (IF type = ACL THEN 2 ELSE 1) |-> 10 + n] \in Bytes
    BY <1>1 DEF Bytes
  <1>3. [k \in 1 .. length |-> 10 + n] \in Bytes
    BY DEF Bytes
  <1>4. (IF type = ACL THEN <<length % Radix, length \div Radix>> ELSE <<length>>) \in Bytes
    BY Divided DEF Bytes
  <1> QED BY <1>2, <1>3, <1>4, ConcatProperties DEF Packet, Bytes

\* Parts of what is in the UART are sequences of bytes.
LEMMA UartParts ==
    ASSUME NEW n \in Nat, Unread(n), uart \in Bytes
    PROVE  Rest(n) \in Bytes /\ Taken(n) \in Bytes /\ Len(Taken(n)) = n
  <1>1. \A i \in 1 .. Len(uart) : uart[i] \in Nat
    BY DEF Bytes
  <1>2. n \in 1 .. Len(uart) /\ Len(uart) \in Nat
    BY DEF Unread, Bytes
  <1>3. \A i \in n + 1 .. Len(uart) : uart[i] \in Nat
    BY <1>1, <1>2
  <1>4. \A i \in 1 .. n : uart[i] \in Nat
    BY <1>1, <1>2
  <1> QED BY <1>2, <1>3, <1>4, SubSeqProperties DEF Rest, Taken, Bytes

\* The length of one or two iovecs is a number.
LEMMA TotalType ==
    ASSUME NEW iov \in Seq(Bytes), Len(iov) \in {1, 2}
    PROVE  Total(iov) \in Nat
  <1>1. iov[1] \in Bytes /\ (Len(iov) = 2 => iov[2] \in Bytes)
    BY DEF Bytes
  <1>2. Len(iov[1]) \in Nat /\ (Len(iov) = 2 => Len(iov[2]) \in Nat)
    BY <1>1 DEF Bytes
  <1>3. CASE Len(iov) = 2
    BY <1>2, <1>3 DEF Total
  <1>4. CASE Len(iov) # 2
    BY <1>2, <1>4 DEF Total
  <1> QED BY <1>3, <1>4

\* writev's bookkeeping: what is left of the iovecs is the rest of their bytes.
LEMMA ConsumeFlat ==
    ASSUME NEW iov \in Seq(Bytes), Len(iov) \in {1, 2}, NEW n \in 1 .. Total(iov)
    PROVE  /\ Flat(iov) \in Bytes /\ Len(Flat(iov)) = Total(iov) /\ Total(iov) \in Nat
           /\ Consume(iov, n) \in Seq(Bytes)
           /\ n = Total(iov) <=> Consume(iov, n) = <<>>
           /\ n # Total(iov) => /\ Len(Consume(iov, n)) \in {1, 2}
                                /\ Flat(Consume(iov, n)) = SubSeq(Flat(iov), n + 1, Total(iov))
  <1> DEFINE a == iov[1]
             b == IF Len(iov) = 2 THEN iov[2] ELSE <<>>
  <1>1. a \in Bytes /\ b \in Bytes
    BY DEF Bytes
  <1>2. /\ Flat(iov) = a \o b /\ Total(iov) = Len(a) + Len(b)
        /\ Len(a) \in Nat /\ Len(b) \in Nat
    BY <1>1 DEF Flat, Total, Bytes
  <1> HIDE DEF a, b
  <1>3. Flat(iov) \in Bytes /\ Len(Flat(iov)) = Total(iov) /\ Total(iov) \in Nat
    BY <1>1, <1>2, ConcatProperties DEF Bytes
  <1>4. CASE n = Total(iov)
    <2>1. Consume(iov, n) = <<>>
      <3>1. ~(n < Len(a))
        BY <1>2, <1>4
      <3> QED BY <1>4, <3>1 DEF Consume, a
    <2> QED BY <1>3, <1>4, <2>1
  <1>5. CASE n # Total(iov) /\ n < Len(a)
    <2> DEFINE r == SubSeq(a, n + 1, Len(a))
    <2>1. Consume(iov, n) = [iov EXCEPT ![1] = r]
      BY <1>5 DEF Consume, a
    <2>2. r \in Bytes /\ Len(r) = Len(a) - n /\ \A i \in 1 .. Len(a) - n : r[i] = a[n + i]
      <3>1. \A i \in n + 1 .. Len(a) : a[i] \in Nat
        BY <1>1, <1>2 DEF Bytes
      <3>2. n + 1 \in Int /\ Len(a) \in Int /\ n + 1 <= Len(a)
        BY <1>2, <1>5
      <3>3. /\ r \in Seq(Nat) /\ Len(r) = Len(a) - (n + 1) + 1
            /\ \A i \in 1 .. Len(a) - (n + 1) + 1 : r[i] = a[n + 1 + i - 1]
        BY <3>1, <3>2, SubSeqProperties
      <3> QED BY <1>2, <3>3 DEF Bytes
    <2> HIDE DEF r
    <2>3. /\ Consume(iov, n) \in Seq(Bytes) /\ Len(Consume(iov, n)) = Len(iov)
          /\ Consume(iov, n)[1] = r
          /\ Len(iov) = 2 => Consume(iov, n)[2] = iov[2]
      BY <2>1, <2>2
    <2>4. Flat(Consume(iov, n)) = r \o b
      BY <2>3 DEF Flat, b
    <2>5. r \o b = SubSeq(a \o b, n + 1, Len(a) + Len(b))
      <3> DEFINE l == r \o b
                 u == SubSeq(a \o b, n + 1, Len(a) + Len(b))
      <3>1. /\ a \o b \in Seq(Nat) /\ Len(a \o b) = Len(a) + Len(b)
            /\ \A i \in 1 .. Len(a) + Len(b) :
                  (a \o b)[i] = IF i <= Len(a) THEN a[i] ELSE b[i - Len(a)]
        BY <1>1, <1>2, ConcatProperties DEF Bytes
      <3>2. /\ l \in Seq(Nat) /\ Len(l) = Len(r) + Len(b)
            /\ \A i \in 1 .. Len(r) + Len(b) :
                  l[i] = IF i <= Len(r) THEN r[i] ELSE b[i - Len(r)]
        BY <1>1, <2>2, ConcatProperties DEF Bytes
      <3>3. /\ u \in Seq(Nat) /\ Len(u) = Len(a) + Len(b) - n
            /\ \A i \in 1 .. Len(a) + Len(b) - n : u[i] = (a \o b)[n + i]
        <4>1. ASSUME NEW i \in n + 1 .. Len(a) + Len(b) PROVE (a \o b)[i] \in Nat
          <5> DEFINE z == a \o b
          <5>1. z \in Seq(Nat) /\ i \in 1 .. Len(z)
            BY <1>2, <3>1
          <5> HIDE DEF z
          <5>2. z[i] \in Nat
            BY <5>1
          <5> QED BY <5>2 DEF z
        <4>2. n + 1 \in Int /\ Len(a) + Len(b) \in Int /\ n + 1 <= Len(a) + Len(b)
          BY <1>2, <1>5
        <4>3. /\ u \in Seq(Nat) /\ Len(u) = Len(a) + Len(b) - (n + 1) + 1
              /\ \A i \in 1 .. Len(a) + Len(b) - (n + 1) + 1 : u[i] = (a \o b)[n + 1 + i - 1]
          BY <4>1, <4>2, SubSeqProperties
        <4> QED BY <1>2, <4>3, SMTT(30)
      <3>4. Len(l) = Len(u) /\ Len(l) = Len(a) + Len(b) - n
        BY <1>2, <2>2, <3>2, <3>3
      <3>5. ASSUME NEW i \in 1 .. Len(l) PROVE l[i] = u[i]
        <4>1. i \in 1 .. Len(a) + Len(b) - n /\ n + i \in 1 .. Len(a) + Len(b)
          BY <1>2, <3>4
        <4>2. u[i] = IF n + i <= Len(a) THEN a[n + i] ELSE b[n + i - Len(a)]
          BY <3>1, <3>3, <4>1
        <4>3. l[i] = IF i <= Len(a) - n THEN a[n + i] ELSE b[i - (Len(a) - n)]
          BY <1>2, <2>2, <3>2, <4>1, SMTT(30)
        <4> QED BY <1>2, <4>1, <4>2, <4>3, SMTT(30)
      <3> HIDE DEF l, u
      <3>6. l = u
        BY <3>2, <3>3, <3>4, <3>5, SeqEqual
      <3> QED BY <3>6 DEF l, u
    <2> QED BY <1>2, <1>3, <1>5, <2>3, <2>4, <2>5
  <1>6. CASE n # Total(iov) /\ ~(n < Len(a))
    <2>1. Len(iov) = 2
      BY <1>2, <1>6 DEF b
    <2>2. Consume(iov, n) = <<SubSeq(b, n - Len(a) + 1, Len(b))>>
      BY <1>6, <2>1 DEF Consume, a, b
    <2>3. SubSeq(b, n - Len(a) + 1, Len(b)) \in Bytes
      BY <1>1, <1>2, <1>6 DEF Bytes
    <2>4. SubSeq(a \o b, n + 1, Len(a) + Len(b)) = SubSeq(b, n - Len(a) + 1, Len(b))
      <3>1. n + 1 \in Len(a) + 1 .. Len(a) + Len(b) /\ Len(a) + Len(b) \in Len(a) + 1 .. Len(a) + Len(b)
        BY <1>2, <1>6
      <3>2. SubSeq(a \o b, n + 1, Len(a) + Len(b))
               = SubSeq(b, (n + 1) - Len(a), (Len(a) + Len(b)) - Len(a))
        BY <1>1, <3>1, SubSeqOfConcat2 DEF Bytes
      <3> QED BY <1>2, <3>1, <3>2, SMTT(30)
    <2>5. Flat(Consume(iov, n)) = SubSeq(b, n - Len(a) + 1, Len(b))
      BY <2>2, <2>3 DEF Flat, Bytes
    <2>6. /\ Consume(iov, n) \in Seq(Bytes) /\ Len(Consume(iov, n)) = 1
          /\ Consume(iov, n) # <<>>
      BY <2>2, <2>3
    <2> QED BY <1>2, <1>3, <1>6, <2>4, <2>5, <2>6
  <1> QED BY <1>4, <1>5, <1>6

-----------------------------------------------------------------------------
\* Types

\* What arrives and how it is framed keeps the types.
LEMMA ReadTyped ==
    ASSUME TypeOK,
           \/ \E type \in Types : \E length \in 0 .. Longest(type) : Arrive(type, length)
           \/ ReadType \/ ReadNothing
           \/ \E n \in 1 .. 4 + MaxLength : ReadPreamble(n) \/ ReadPayload(n)
    PROVE  TypeOK'
  <1>m. MaxLength \in Nat /\ Types \subseteq Nat /\ \A type \in Types : Longest(type) \in Nat
    BY BtLinkAssumption, LongestType
  <1>1. ASSUME NEW type \in Types, NEW length \in 0 .. Longest(type), Arrive(type, length)
        PROVE  TypeOK'
    <2> DEFINE p == Packet(type, length, Len(sent) + 1)
    <2>1. type \in Nat /\ length \in Nat /\ Len(sent) + 1 \in Nat
      BY <1>m, <1>1 DEF TypeOK, Packets
    <2>2. p \in [type : Nat, bytes : Bytes]
      BY <2>1, PacketType
    <2>3. sent' = Append(sent, p) /\ uart' = uart \o <<type>> \o p.bytes
      BY <1>1 DEF Arrive
    <2> HIDE DEF p
    <2>4. sent' \in Packets
      BY <2>2, <2>3 DEF TypeOK, Packets
    <2>5. uart' \in Bytes
      BY <2>1, <2>2, <2>3 DEF TypeOK, Bytes
    <2> QED BY <1>1, <2>4, <2>5 DEF TypeOK, Arrive
  <1>2. CASE ReadType
    <2>1. Head(uart) \in Nat /\ uart' \in Bytes
      BY <1>2 DEF ReadType, Readable, Rest, TypeOK, Bytes
    <2>2. rx' \in Packetizer
      BY <1>2, <2>1 DEF ReadType, TypeOK, Packetizer
    <2>3. watcher' \in WatcherThread
      BY <1>2 DEF ReadType, TypeOK, WatcherThread
    <2> QED BY <1>2, <2>1, <2>2, <2>3 DEF ReadType, TypeOK
  <1>3. CASE ReadNothing
    <2>1. past' \in Past
      BY <1>3 DEF ReadNothing, TypeOK, Past
    <2> QED BY <1>3, <2>1 DEF ReadNothing, TypeOK
  <1>4. ASSUME NEW n \in 1 .. 4 + MaxLength, ReadPreamble(n)
        PROVE  TypeOK'
    <2> DEFINE bytes == rx.bytes \o Taken(n)
    <2>n. n \in Nat
      BY <1>m
    <2>1. n \in Nat /\ Unread(n) /\ uart \in Bytes /\ rx \in Packetizer
      BY <1>4, <2>n DEF ReadPreamble, TypeOK
    <2>2. Rest(n) \in Bytes /\ Taken(n) \in Bytes
      BY <2>1, UartParts
    <2>3. bytes \in Bytes
      BY <2>1, <2>2 DEF Packetizer, Bytes
    <2>4. /\ \/ /\ Len(bytes) = PreambleSize(rx.type)
                /\ rx' = [rx EXCEPT !.bytes = bytes, !.state = "payload",
                                    !.remaining = PacketLength(rx.type, bytes)]
             \/ rx' = [rx EXCEPT !.bytes = bytes]
          /\ uart' = Rest(n)
      BY <1>4 DEF ReadPreamble
    <2> HIDE DEF bytes
    <2>5. ASSUME Len(bytes) = PreambleSize(rx.type) PROVE PacketLength(rx.type, bytes) \in Nat
      <3>1. CASE rx.type = ACL
        <4>1. bytes[3] \in Nat /\ bytes[4] \in Nat
          <5>1. PreambleSize(rx.type) = 4
            BY <3>1 DEF PreambleSize, ACL, EVENT
          <5>2. bytes \in Seq(Nat) /\ 3 \in 1 .. Len(bytes) /\ 4 \in 1 .. Len(bytes)
            BY <2>3, <2>5, <5>1 DEF Bytes
          <5> QED BY <5>2, ElementOfSeq
        <4>2. Radix * bytes[4] \in Nat
          BY <4>1, BtLinkAssumption
        <4> QED BY <3>1, <4>1, <4>2 DEF PacketLength
      <3>2. CASE rx.type # ACL
        BY <2>3, <2>5, <3>2 DEF PacketLength, PreambleSize, ACL, EVENT, Bytes
      <3> QED BY <3>1, <3>2
    <2>6. rx' \in Packetizer
      BY <2>1, <2>3, <2>4, <2>5 DEF Packetizer
    <2>7. watcher' \in WatcherThread
      BY <1>4 DEF ReadPreamble, TypeOK, WatcherThread
    <2> QED BY <1>4, <2>2, <2>4, <2>6, <2>7 DEF ReadPreamble, TypeOK
  <1>5. ASSUME NEW n \in 1 .. 4 + MaxLength, ReadPayload(n)
        PROVE  TypeOK'
    <2> DEFINE bytes == rx.bytes \o Taken(n)
    <2>n. n \in Nat
      BY <1>m
    <2>1. n \in Nat /\ Unread(n) /\ uart \in Bytes /\ rx \in Packetizer /\ n <= rx.remaining
      BY <1>5, <2>n DEF ReadPayload, TypeOK
    <2>2. Rest(n) \in Bytes /\ Taken(n) \in Bytes
      BY <2>1, UartParts
    <2>3. bytes \in Bytes
      BY <2>1, <2>2 DEF Packetizer, Bytes
    <2>4. /\ \/ /\ delivered' = Append(delivered, [type |-> rx.type, bytes |-> bytes])
                /\ rx' = [type |-> UNKNOWN, state |-> "preamble", bytes |-> <<>>, remaining |-> 0]
             \/ /\ rx' = [rx EXCEPT !.bytes = bytes, !.remaining = @ - n]
                /\ delivered' = delivered
          /\ uart' = Rest(n)
      BY <1>5 DEF ReadPayload
    <2> HIDE DEF bytes
    <2>5. rx.remaining - n \in Nat
      BY <2>1 DEF Packetizer
    <2>6. rx' \in Packetizer
      <3>1. <<>> \in Bytes /\ UNKNOWN \in Nat
        BY DEF Bytes, UNKNOWN
      <3>2. [rx EXCEPT !.bytes = bytes, !.remaining = @ - n] \in Packetizer
        BY <2>1, <2>3, <2>5 DEF Packetizer
      <3>3. [type |-> UNKNOWN, state |-> "preamble", bytes |-> <<>>, remaining |-> 0]
               \in Packetizer
        BY <3>1 DEF Packetizer
      <3> QED BY <2>4, <3>2, <3>3
    <2>7. [type |-> rx.type, bytes |-> bytes] \in [type : Nat, bytes : Bytes]
      BY <2>1, <2>3 DEF Packetizer
    <2>8. delivered' \in Packets
      <3>1. Append(delivered, [type |-> rx.type, bytes |-> bytes]) \in Packets
        BY <2>7 DEF TypeOK, Packets
      <3> QED BY <2>4, <3>1 DEF TypeOK
    <2>9. watcher' \in WatcherThread
      BY <1>5 DEF ReadPayload, TypeOK, WatcherThread
    <2> QED BY <1>5, <2>2, <2>4, <2>6, <2>8, <2>9 DEF ReadPayload, TypeOK
  <1> QED BY <1>1, <1>2, <1>3, <1>4, <1>5

\* The watcher's loop and OnTimeout keep the types.
LEMMA WatcherTyped ==
    ASSUME TypeOK, Loop \/ Notified \/ Expire \/ Check \/ Flag \/ Deassert \/ Disarm \/ Clear
    PROVE  TypeOK'
  <1>1. CASE Loop
    BY <1>1 DEF Loop, TypeOK, WatcherThread, PowerMode
  <1>2. CASE Notified
    <2>1. pipe' \in Nat
      BY <1>2 DEF Notified, TypeOK
    <2> QED BY <1>2, <2>1 DEF Notified, TypeOK, WatcherThread
  <1>3. CASE Expire
    BY <1>3 DEF Expire, TypeOK, WatcherThread
  <1>4. CASE Check
    <2>1. past' \in Past
      BY <1>4 DEF Check, TypeOK, Past
    <2> QED BY <1>4, <2>1 DEF Check, Go, TypeOK, WatcherThread
  <1>5. CASE Flag
    BY <1>5 DEF Flag, Go, TypeOK, WatcherThread, PowerMode
  <1>6. CASE Deassert
    BY <1>6 DEF Deassert, Go, TypeOK, WatcherThread, PowerMode
  <1>7. CASE Disarm
    <2>1. pipe' \in Nat
      BY <1>7 DEF Disarm, TypeOK
    <2> QED BY <1>7, <2>1 DEF Disarm, Go, TypeOK, WatcherThread, PowerMode
  <1>8. CASE Clear
    BY <1>8 DEF Clear, Go, TypeOK, WatcherThread, PowerMode
  <1> QED BY <1>1, <1>2, <1>3, <1>4, <1>5, <1>6, <1>7, <1>8

\* Send up to the write keeps the types.
LEMMA SendTyped ==
    ASSUME TypeOK, Gathered, Send(COMMAND) \/ Test \/ Arm \/ Unflag \/ Assert \/ Begin
    PROVE  TypeOK'
  <1>1. CASE Send(COMMAND)
    <2> DEFINE p == Packet(COMMAND, Longest(COMMAND), past.out + 1)
    <2>1. past \in Past /\ past.out + 1 \in Nat
      BY DEF TypeOK, Past
    <2>2. p \in [type : {COMMAND}, bytes : Bytes]
      BY <2>1, PacketType, LongestType DEF COMMAND
    <2>3. host' = [pc |-> "test", iov |-> <<>>, next |-> <<<<COMMAND>>, p.bytes>>]
      BY <1>1 DEF Send
    <2> HIDE DEF p
    <2>4. <<<<COMMAND>>, p.bytes>> \in Seq(Bytes)
      BY <2>2 DEF Bytes, COMMAND
    <2>5. host' \in HostThread
      BY <2>3, <2>4 DEF HostThread
    <2>6. past' \in Past
      BY <1>1, <2>1 DEF Send, Past
    <2> QED BY <1>1, <2>5, <2>6 DEF Send, TypeOK, PowerMode
  <1>2. CASE Test
    BY <1>2 DEF Test, TypeOK, HostThread
  <1>3. CASE Arm
    <2>1. pipe' \in Nat
      BY <1>3 DEF Arm, TypeOK
    <2> QED BY <1>3, <2>1 DEF Arm, TypeOK, HostThread, PowerMode
  <1>4. CASE Unflag
    BY <1>4 DEF Unflag, TypeOK, HostThread, PowerMode
  <1>5. CASE Assert
    BY <1>5 DEF Assert, TypeOK, HostThread, PowerMode
  <1>6. CASE Begin
    <2>1. host.next \in Seq(Bytes) /\ Len(host.next) = 2
      BY <1>6 DEF Begin, TypeOK, Gathered, HostThread
    <2>2. host.next[1] \o host.next[2] \in Bytes
      BY <2>1 DEF Bytes
    <2>3. past' \in Past
      BY <1>6, <2>2 DEF Begin, TypeOK, Past
    <2>4. host' \in HostThread
      BY <1>6, <2>1 DEF Begin, HostThread
    <2> QED BY <1>6, <2>3, <2>4 DEF Begin, TypeOK, Bytes
  <1> QED BY <1>1, <1>2, <1>3, <1>4, <1>5, <1>6

\* The write keeps the types and what is still to be written.
LEMMA WriteGathered ==
    ASSUME TypeOK, Gathered, WriteFails \/ \E n \in 1 .. 5 + MaxLength : Write(n)
    PROVE  TypeOK' /\ Gathered'
  <1>1. CASE WriteFails
    <2>1. <<>> \in Bytes /\ <<>> \in Seq(Bytes)
      BY DEF Bytes
    <2>2. past' \in Past /\ past'.asked = <<>>
      <3>1. past \in Past /\ past' = [past EXCEPT !.faults = @ + 1, !.asked = <<>>]
        BY <1>1 DEF WriteFails, TypeOK
      <3>2. past.faults + 1 \in Nat
        BY <3>1 DEF Past
      <3> QED BY <2>1, <3>1, <3>2 DEF Past
    <2>3. host' \in HostThread /\ host'.pc = "idle"
      BY <1>1, <2>1 DEF WriteFails, TypeOK, HostThread
    <2>4. wire' = <<>>
      BY <1>1 DEF WriteFails
    <2> QED BY <1>1, <2>1, <2>2, <2>3, <2>4 DEF WriteFails, TypeOK, Gathered
  <1>2. ASSUME NEW n \in 1 .. 5 + MaxLength, Write(n)
        PROVE  TypeOK' /\ Gathered'
    <2> DEFINE iov == host.iov
               new == Consume(iov, n)
    <2>1. /\ iov \in Seq(Bytes) /\ Len(iov) \in {1, 2}
          /\ wire \in Bytes /\ past.asked = wire \o Flat(iov)
      BY <1>2 DEF Write, TypeOK, HostThread, Gathered
    <2>2. n \in 1 .. Total(iov)
      <3>1. Total(iov) \in Nat
        BY <2>1, TotalType
      <3>2. n <= Total(iov)
        BY <1>2 DEF Write
      <3>3. n \in Nat /\ 1 <= n
        BY BtLinkAssumption
      <3> QED BY <3>1, <3>2, <3>3
    <2>3. /\ wire' = wire \o SubSeq(Flat(iov), 1, n)
          /\ host' = [host EXCEPT !.pc = IF new = <<>> THEN "idle" ELSE "write", !.iov = new]
          /\ UNCHANGED past
      BY <1>2 DEF Write, Flat
    <2> HIDE DEF new
    <2>4. /\ Flat(iov) \in Bytes /\ Len(Flat(iov)) = Total(iov) /\ Total(iov) \in Nat
          /\ new \in Seq(Bytes)
          /\ n = Total(iov) <=> new = <<>>
          /\ n # Total(iov) => /\ Len(new) \in {1, 2}
                               /\ Flat(new) = SubSeq(Flat(iov), n + 1, Total(iov))
      BY <2>1, <2>2, ConsumeFlat DEF new
    <2>5. host' \in HostThread /\ host'.iov = new
          /\ host'.pc = IF new = <<>> THEN "idle" ELSE "write"
      BY <2>3, <2>4 DEF TypeOK, HostThread
    <2> HIDE DEF iov
    <2> DEFINE f == Flat(iov)
    <2>6. f \in Seq(Nat) /\ Len(f) = Total(iov) /\ wire \in Seq(Nat)
      BY <2>1, <2>4 DEF Bytes
    <2> HIDE DEF f
    <2>7. /\ SubSeq(f, 1, n) \in Seq(Nat)
          /\ SubSeq(f, n + 1, Len(f)) \in Seq(Nat)
      BY <2>2, <2>4, <2>6, SMTT(20)
    <2>8. SubSeq(f, 1, n) \o SubSeq(f, n + 1, Len(f)) = f
      <3>1. /\ 1 \in 1 .. Len(f) + 1 /\ n \in 1 - 1 .. Len(f) /\ Len(f) \in n .. Len(f)
        BY <2>2, <2>4, <2>6
      <3>2. SubSeq(f, 1, n) \o SubSeq(f, n + 1, Len(f)) = SubSeq(f, 1, Len(f))
        BY <2>6, <3>1, ConcatAdjacentSubSeq
      <3> QED BY <2>6, <3>2, SubSeqFull
    <2>9. wire' \in Bytes
      BY <2>3, <2>6, <2>7, ConcatProperties DEF Bytes, f
    <2>10. ASSUME n = Total(iov) PROVE wire' = past'.asked
      <3>1. SubSeq(f, 1, n) = f
        BY <2>6, <2>10, SubSeqFull
      <3> QED BY <2>1, <2>3, <3>1 DEF f, iov
    <2>11. ASSUME n # Total(iov) PROVE past'.asked = wire' \o Flat(new)
      <3>1. Flat(new) = SubSeq(f, n + 1, Len(f))
        BY <2>4, <2>6, <2>11 DEF f
      <3>2. (wire \o SubSeq(f, 1, n)) \o Flat(new) = wire \o (SubSeq(f, 1, n) \o Flat(new))
        <4>1. Flat(new) \in Seq(Nat) /\ wire \in Seq(Nat) /\ SubSeq(f, 1, n) \in Seq(Nat)
          BY <2>6, <2>7, <3>1
        <4> QED BY <4>1, ConcatAssociative, SMTT(30)
      <3> QED BY <2>1, <2>3, <2>8, <3>1, <3>2 DEF f, iov
    <2>12. Gathered'
      BY <2>4, <2>5, <2>10, <2>11 DEF Gathered
    <2> QED BY <1>2, <2>5, <2>9, <2>12 DEF Write, TypeOK
  <1> QED BY <1>1, <1>2

\* Everything else leaves the packet in hand alone.
LEMMA OtherGathered ==
    ASSUME TypeOK, Gathered,
           \/ UNCHANGED <<host, wire, past>>
           \/ Check \/ ReadNothing \/ Send(COMMAND) \/ Test \/ Arm \/ Unflag \/ Assert \/ Begin
    PROVE  Gathered'
  <1>1. CASE UNCHANGED <<host, wire, past>>
    BY <1>1 DEF Gathered
  <1>2. CASE Check \/ ReadNothing
    BY <1>2 DEF Check, ReadNothing, Gathered, TypeOK, Past
  <1>3. CASE Send(COMMAND)
    BY <1>3 DEF Send, Gathered, TypeOK, HostThread, Past
  <1>4. CASE Test \/ Arm \/ Unflag \/ Assert
    BY <1>4 DEF Test, Arm, Unflag, Assert, Gathered, TypeOK, HostThread
  <1>5. CASE Begin
    <2>1. host.next \in Seq(Bytes) /\ Len(host.next) = 2
      BY <1>5 DEF Begin, TypeOK, Gathered, HostThread
    <2>2. /\ wire' = <<>> /\ host'.pc = "write" /\ host'.iov = host.next
          /\ past'.asked = Flat(host.next)
      BY <1>5, <2>1 DEF Begin, TypeOK, Past, Flat
    <2>3. Flat(host.next) \in Bytes
      BY <2>1 DEF Flat, Bytes
    <2>4. <<>> \o Flat(host.next) = Flat(host.next)
      BY <2>3, ConcatEmptySeq DEF Bytes
    <2> QED BY <2>1, <2>2, <2>4 DEF Gathered
  <1> QED BY <1>1, <1>2, <1>3, <1>4, <1>5

-----------------------------------------------------------------------------
\* The wake line

\* OnTimeout keeps the wake line as the code takes it.
LEMMA WatcherWake ==
    ASSUME TypeOK, Wake, Check \/ Flag \/ Deassert \/ Disarm \/ Clear
    PROVE  Wake'
  <1>1. CASE Check
    BY <1>1 DEF Check, Go, TypeOK, PowerMode, WatcherThread, Past, Wake, Consistent
  <1>2. CASE Flag
    BY <1>2 DEF Flag, Go, TypeOK, PowerMode, WatcherThread, Wake, Consistent
  <1>3. CASE Deassert
    BY <1>3 DEF Deassert, Go, TypeOK, PowerMode, WatcherThread, Wake, Consistent
  <1>4. CASE Disarm
    BY <1>4 DEF Disarm, Go, TypeOK, PowerMode, WatcherThread, Wake, Consistent
  <1>5. CASE Clear
    BY <1>5 DEF Clear, Go, TypeOK, PowerMode, WatcherThread, Wake, Consistent
  <1> QED BY <1>1, <1>2, <1>3, <1>4, <1>5

\* The rest of the watcher's steps and arriving packets do not touch it.
LEMMA OtherWake ==
    ASSUME TypeOK, Wake,
           \/ \E type \in Types : \E length \in 0 .. Longest(type) : Arrive(type, length)
           \/ Loop \/ Notified \/ Expire \/ ReadType \/ ReadNothing
           \/ \E n \in 1 .. 4 + MaxLength : ReadPreamble(n) \/ ReadPayload(n)
    PROVE  Wake'
  <1>1. UNCHANGED <<lpm, host>> /\ past'.raced = past.raced
    BY DEF Arrive, Loop, Notified, Expire, ReadType, ReadNothing, ReadPreamble, ReadPayload,
           TypeOK, Past
  <1>2. watcher' = watcher \/ watcher'.pc \in {"loop", "select", "check"}
    <2>1. /\ watcher \in WatcherThread
          /\ \/ watcher' = watcher
             \/ \E pc \in {"loop", "check"} : watcher' = [watcher EXCEPT !.pc = pc]
             \/ watcher' = [pc |-> "select", timed |-> lpm.timer]
      BY DEF Arrive, Loop, Notified, Expire, ReadType, ReadNothing, ReadPreamble, ReadPayload,
             TypeOK
    <2> QED BY <2>1 DEF WatcherThread
  <1>3. watcher'.pc \in {"op", "disarm"} => watcher.pc = watcher'.pc
    BY <1>2
  <1>4. watcher.pc \in {"op", "disarm"} => watcher' = watcher
    BY DEF Arrive, Loop, Notified, Expire, ReadType, ReadNothing, ReadPreamble, ReadPayload,
           Readable
  <1> QED BY <1>1, <1>2, <1>3, <1>4 DEF Wake, Consistent

\* Send asserts the line before it writes.
LEMMA HostWake ==
    ASSUME TypeOK, Wake,
           \/ Send(COMMAND) \/ Test \/ Arm \/ Unflag \/ Assert \/ Begin \/ WriteFails
           \/ \E n \in 1 .. 5 + MaxLength : Write(n)
    PROVE  Wake'
  <1>1. CASE Send(COMMAND)
    BY <1>1 DEF Send, InOnTimeout, TypeOK, PowerMode, HostThread, Past, Wake, Consistent
  <1>2. CASE Test
    BY <1>2 DEF Test, TypeOK, PowerMode, HostThread, Wake, Consistent
  <1>3. CASE Arm
    BY <1>3 DEF Arm, TypeOK, PowerMode, HostThread, Wake, Consistent
  <1>4. CASE Unflag
    BY <1>4 DEF Unflag, TypeOK, PowerMode, HostThread, Wake, Consistent
  <1>5. CASE Assert
    BY <1>5 DEF Assert, TypeOK, PowerMode, HostThread, Wake, Consistent
  <1>6. CASE Begin \/ WriteFails \/ \E n \in 1 .. 5 + MaxLength : Write(n)
    <2>1. /\ host.pc \in {"begin", "write"} /\ host'.pc \in {"write", "idle"}
          /\ UNCHANGED <<lpm, watcher>> /\ past'.raced = past.raced
      <3>1. CASE Begin
        BY <3>1 DEF Begin, TypeOK, Past
      <3>2. CASE WriteFails
        BY <3>2 DEF WriteFails, TypeOK, HostThread, Past
      <3>3. CASE \E n \in 1 .. 5 + MaxLength : Write(n)
        BY <3>3 DEF Write, TypeOK, HostThread
      <3> QED BY <1>6, <3>1, <3>2, <3>3
    <2> QED BY <2>1 DEF Wake, Consistent
  <1> QED BY <1>1, <1>2, <1>3, <1>4, <1>5, <1>6

-----------------------------------------------------------------------------
\* Every step keeps the inductive invariant.
LEMMA LinkStep ==
    ASSUME LinkInv, Next
    PROVE  LinkInv'
  <1>1. TypeOK /\ Wake /\ Gathered
    BY DEF LinkInv
  <1>2. CASE WriteFails \/ \E n \in 1 .. 5 + MaxLength : Write(n)
    BY <1>1, <1>2, WriteGathered, HostWake DEF LinkInv
  <1>3. CASE Send(COMMAND) \/ Test \/ Arm \/ Unflag \/ Assert \/ Begin
    BY <1>1, <1>3, SendTyped, OtherGathered, HostWake DEF LinkInv
  <1>4. CASE Loop \/ Notified \/ Expire \/ Check \/ Flag \/ Deassert \/ Disarm \/ Clear
    <2>1. UNCHANGED <<host, wire, past>> \/ Check
      BY <1>4 DEF Loop, Notified, Expire, Flag, Deassert, Disarm, Clear
    <2> QED BY <1>1, <1>4, <2>1, WatcherTyped, OtherGathered, WatcherWake, OtherWake DEF LinkInv
  <1>5. CASE \/ \E type \in Types : \E length \in 0 .. Longest(type) : Arrive(type, length)
             \/ ReadType \/ ReadNothing
             \/ \E n \in 1 .. 4 + MaxLength : ReadPreamble(n) \/ ReadPayload(n)
    <2>1. UNCHANGED <<host, wire, past>> \/ ReadNothing
      BY <1>5 DEF Arrive, ReadType, ReadPreamble, ReadPayload
    <2> QED BY <1>1, <1>5, <2>1, ReadTyped, OtherGathered, OtherWake DEF LinkInv
  <1> QED BY <1>2, <1>3, <1>4, <1>5 DEF Next, WatcherStep, HostStep

\* The link starts with the inductive invariant.
LEMMA LinkInit ==
    ASSUME Init
    PROVE  LinkInv
  <1>1. /\ <<>> \in Packets /\ <<>> \in Bytes /\ <<>> \in Seq(Bytes) /\ 0 \in Nat
        /\ UNKNOWN \in Nat
    BY DEF Packets, Bytes, UNKNOWN
  <1>2. rx \in Packetizer /\ lpm \in PowerMode /\ watcher \in WatcherThread
    BY <1>1 DEF Init, Packetizer, PowerMode, WatcherThread
  <1>3. host \in HostThread /\ past \in Past
    BY <1>1 DEF Init, HostThread, Past
  <1>4. Wake /\ Gathered
    BY DEF Init, Wake, Consistent, Gathered
  <1> QED BY <1>1, <1>2, <1>3, <1>4 DEF Init, TypeOK, LinkInv

\* In every behaviour of the link the invariant holds.
THEOREM LinkInvariant == Spec => []LinkInv
  <1>1. LinkInv /\ UNCHANGED vars => LinkInv'
    BY DEF LinkInv, TypeOK, Wake, Consistent, Gathered, vars
  <1>2. LinkInv /\ [Next]_vars => LinkInv'
    BY <1>1, LinkStep
  <1> QED BY <1>2, LinkInit, PTL DEF Spec

\* The wake line is what VendorInterface takes it for, and nothing is written while it is
\* deasserted, as long as Send and OnTimeout do not meet.
THEOREM WakeCorrect == Spec => []WakeKnown
  <1>1. LinkInv => WakeKnown
    BY DEF LinkInv, Wake, Consistent, WakeKnown, InOnTimeout
  <1> QED BY <1>1, LinkInvariant, PTL

\* However writev splits a packet, its bytes are written once and in order.
THEOREM WrittenCorrect == Spec => []Written
  <1>1. ASSUME NEW s \in Bytes, NEW t \in Bytes PROVE IsStart(s, s \o t)
    <2>1. Len(s) \in Nat /\ Len(s \o t) = Len(s) + Len(t) /\ Len(t) \in Nat
      BY ConcatProperties DEF Bytes
    <2>2. CASE s = <<>>
      BY <2>1, <2>2, SubSeqEmpty DEF IsStart
    <2>3. CASE s # <<>>
      <3>1. 1 \in 1 .. Len(s) /\ Len(s) \in 1 .. Len(s)
        BY <2>1, <2>3 DEF Bytes
      <3>2. SubSeq(s \o t, 1, Len(s)) = SubSeq(s, 1, Len(s))
        BY <3>1, SubSeqOfConcat1 DEF Bytes
      <3> QED BY <2>1, <3>2, SubSeqFull DEF IsStart, Bytes
    <2> QED BY <2>2, <2>3
  <1>2. ASSUME NEW s \in Bytes PROVE IsStart(s, s)
    <2>1. SubSeq(s, 1, Len(s)) = s /\ Len(s) \in Nat
      BY SubSeqFull DEF Bytes
    <2> QED BY <2>1 DEF IsStart
  <1>3. LinkInv => Written
    <2>1. SUFFICES ASSUME LinkInv PROVE Written
      OBVIOUS
    <2>2. wire \in Bytes /\ host \in HostThread
      BY <2>1 DEF LinkInv, TypeOK
    <2>3. CASE host.pc = "write"
      <3>1. /\ host.iov \in Seq(Bytes) /\ Len(host.iov) \in {1, 2}
            /\ past.asked = wire \o Flat(host.iov)
        BY <2>1, <2>2, <2>3 DEF LinkInv, Gathered, HostThread
      <3>2. Flat(host.iov) \in Bytes
        BY <3>1 DEF Flat, Bytes
      <3> QED BY <1>1, <2>2, <2>3, <3>1, <3>2 DEF Written
    <2>4. CASE host.pc # "write"
      BY <1>2, <2>1, <2>2, <2>4 DEF LinkInv, Gathered, Written
    <2> QED BY <2>3, <2>4
  <1> QED BY <1>3, LinkInvariant, PTL

-----------------------------------------------------------------------------
\* Framing

\* s is the start of t, position by position.
Starts(s, t) == Len(s) <= Len(t) /\ \A i \in 1 .. Len(s) : s[i] = t[i]

\* A packet is of a type that the packetizer knows, and as long as it says.
Formed(p) ==
    /\ p.type \in {ACL, SCO, EVENT}
    /\ PacketLength(p.type, p.bytes) \in Nat
    /\ Len(p.bytes) = PreambleSize(p.type) + PacketLength(p.type, p.bytes)

Wellformed(s) == \A j \in 1 .. Len(s) : Formed(s[j])

\* The packetizer r, which has handed up the packets d of s, holds the start of the next one
\* and knows how much of it is to come.
Reading(s, d, r) ==
    /\ Starts(d, s)
    /\ r.type = UNKNOWN => r.state = "preamble" /\ r.bytes = <<>>
    /\ r.type # UNKNOWN =>
          /\ Len(d) < Len(s)
          /\ r.type = s[Len(d) + 1].type
          /\ Starts(r.bytes, s[Len(d) + 1].bytes)
          /\ r.state = "preamble" => Len(r.bytes) < PreambleSize(r.type)
          /\ r.state = "payload" =>
                /\ PreambleSize(r.type) <= Len(r.bytes)
                /\ Len(r.bytes) + r.remaining = Len(s[Len(d) + 1].bytes)
                /\ r.remaining = 0 => Len(r.bytes) = PreambleSize(r.type)

\* The bytes of all packets of s, one after the other: packet j is behind at[j], its type
\* first.  The first pos bytes have been read, the others are in u.
Laid(at, pos, s, u) ==
    /\ at \in [1 .. Len(s) + 1 -> Nat] /\ pos \in Nat
    /\ at[Len(s) + 1] = pos + Len(u)
    /\ \A j \in 1 .. Len(s) : at[j + 1] = at[j] + 1 + Len(s[j].bytes)
    /\ \A i, j \in 1 .. Len(s) + 1 : i <= j => at[i] <= at[j]
    /\ \A j \in 1 .. Len(s) :
          /\ at[j] + 1 > pos => u[(at[j] + 1) - pos] = s[j].type
          /\ \A i \in 1 .. Len(s[j].bytes) :
                at[j] + 1 + i > pos => u[(at[j] + 1 + i) - pos] = s[j].bytes[i]

\* The type and the bytes b of packet k have been read.
Behind(at, pos, k, b) == pos = at[k] + (1 + Len(b))

\* The packetizer has read up to where the packets say.
Placed(at, pos, d, r) ==
    pos = at[Len(d) + 1] + (IF r.type = UNKNOWN THEN 0 ELSE 1 + Len(r.bytes))

Stream(s, u, d, r) ==
    /\ Wellformed(s)
    /\ Reading(s, d, r)
    /\ \E at, pos : Laid(at, pos, s, u) /\ Placed(at, pos, d, r)

StreamInv ==
    /\ Stream(sent, uart, delivered, rx)
    /\ past.abort => rx.state = "payload" /\ rx.remaining = 0

\* The same, as Framed says it.
LEMMA StartsIsStart ==
    ASSUME NEW S, NEW s \in Seq(S), NEW t \in Seq(S), Starts(s, t)
    PROVE  IsStart(s, t)
  <1>1. Len(s) \in Nat /\ Len(t) \in Nat /\ Len(s) <= Len(t)
    BY DEF Starts
  <1>2. \A i \in 1 .. Len(s) : t[i] \in S /\ s[i] = t[i]
    BY <1>1 DEF Starts
  <1>3. /\ SubSeq(t, 1, Len(s)) \in Seq(S)
        /\ Len(SubSeq(t, 1, Len(s))) = Len(s)
        /\ \A i \in 1 .. Len(s) : SubSeq(t, 1, Len(s))[i] = t[i]
    BY <1>1, <1>2, SubSeqProperties
  <1>4. s = SubSeq(t, 1, Len(s))
    BY <1>2, <1>3, SeqEqual
  <1> QED BY <1>1, <1>4 DEF IsStart

\* A packet of the controller is as long as its preamble says.
LEMMA PacketShape ==
    ASSUME NEW type \in {2, 3, 4}, NEW length \in Nat, NEW n \in Nat
    PROVE  LET p == Packet(type, length, n)
           IN  /\ p.type = type /\ p.bytes \in Bytes
               /\ PacketLength(type, p.bytes) = length
               /\ Len(p.bytes) = PreambleSize(type) + length
  <1> DEFINE m == PreambleSize(type) - (IF type = ACL THEN 2 ELSE 1)
             h == [k \in 1 .. m |-> 10 + n]
             l == IF type = ACL THEN <<length % Radix, length \div Radix>> ELSE <<length>>
             d == [k \in 1 .. length |-> 10 + n]
             p == Packet(type, length, n)
  <1>1. p.type = type /\ p.bytes = h \o l \o d
    BY DEF Packet
  <1>2. /\ m \in Nat /\ Len(l) \in Nat /\ m + Len(l) = PreambleSize(type)
        /\ PreambleSize(type) \in {2, 3, 4}
        /\ type = ACL => m = 2 /\ Len(l) = 2
        /\ type # ACL => Len(l) = 1
    <2>1. CASE type = ACL
      BY <2>1 DEF PreambleSize, ACL, EVENT
    <2>2. CASE type # ACL
      BY <2>2 DEF PreambleSize, ACL, EVENT
    <2> QED BY <2>1, <2>2
  <1> HIDE DEF m
  <1>3. h \in Seq(Nat) /\ Len(h) = m
    BY <1>2
  <1>4. d \in Seq(Nat) /\ Len(d) = length
    OBVIOUS
  <1>6. /\ l \in Seq(Nat)
        /\ type = ACL => l[1] = length % Radix /\ l[2] = length \div Radix
        /\ type # ACL => l[1] = length
    BY Divided
  <1> HIDE DEF h, l, d, p
  <1>7. /\ h \o l \in Seq(Nat) /\ Len(h \o l) = m + Len(l)
        /\ \A i \in 1 .. m + Len(l) : (h \o l)[i] = IF i <= m THEN h[i] ELSE l[i - m]
    BY <1>3, <1>6, ConcatProperties, ZenonT(30)
  <1>8. /\ p.bytes \in Seq(Nat) /\ Len(p.bytes) = m + Len(l) + length
        /\ \A i \in 1 .. m + Len(l) : p.bytes[i] = (h \o l)[i]
    <2> DEFINE g == h \o l
               q == m + Len(l)
    <2>1. g \in Seq(Nat) /\ Len(g) = q /\ p.bytes = g \o d /\ q \in Nat
      BY <1>1, <1>2, <1>7
    <2> HIDE DEF g, q
    <2>2. /\ p.bytes \in Seq(Nat) /\ Len(p.bytes) = Len(g) + Len(d)
          /\ \A i \in 1 .. Len(g) + Len(d) :
                p.bytes[i] = IF i <= Len(g) THEN g[i] ELSE d[i - Len(g)]
      <3>1. d \in Seq(Nat) /\ g \in Seq(Nat)
        BY <1>4, <2>1
      <3>2. /\ g \o d \in Seq(Nat) /\ Len(g \o d) = Len(g) + Len(d)
            /\ \A i \in 1 .. Len(g) + Len(d) :
                  (g \o d)[i] = IF i <= Len(g) THEN g[i] ELSE d[i - Len(g)]
        BY <3>1, ConcatProperties
      <3> QED BY <2>1, <3>2, Zenon
    <2>3. p.bytes \in Seq(Nat) /\ Len(p.bytes) = q + length /\ \A i \in 1 .. q : p.bytes[i] = g[i]
      BY <1>4, <2>1, <2>2
    <2> QED BY <2>3 DEF g, q
  <1>9. PacketLength(type, p.bytes) = length
    <2>1. CASE type = ACL
      <3>1. p.bytes[3] = l[1] /\ p.bytes[4] = l[2]
        <4>1. m = 2 /\ m + Len(l) = 4 /\ {3, 4} \subseteq 1 .. m + Len(l)
          BY <1>2, <2>1
        <4>2. (h \o l)[3] = l[3 - m] /\ (h \o l)[4] = l[4 - m]
          BY <1>7, <4>1
        <4>3. p.bytes[3] = (h \o l)[3] /\ p.bytes[4] = (h \o l)[4]
          BY <1>8, <4>1
        <4> QED BY <4>1, <4>2, <4>3
      <3>2. p.bytes[3] = length % Radix /\ p.bytes[4] = length \div Radix
        BY <1>6, <2>1, <3>1
      <3>3. PacketLength(type, p.bytes) = p.bytes[3] + Radix * p.bytes[4]
        BY <2>1 DEF PacketLength
      <3> QED BY <3>2, <3>3, Divided
    <2>2. CASE type # ACL
      <3>1. p.bytes[PreambleSize(type)] = l[1]
        <4>0. m \in Nat /\ Len(l) = 1 /\ m + Len(l) = PreambleSize(type)
          BY <1>2, <2>2
        <4>1. m + 1 = PreambleSize(type) /\ m + 1 \in 1 .. m + Len(l) /\ m \in Nat
          BY <4>0
        <4>2. (h \o l)[m + 1] = l[(m + 1) - m] /\ (m + 1) - m = 1
          BY <1>7, <4>1
        <4>3. p.bytes[m + 1] = (h \o l)[m + 1]
          BY <1>8, <4>1
        <4> QED BY <4>1, <4>2, <4>3
      <3>2. PacketLength(type, p.bytes) = p.bytes[PreambleSize(type)]
        BY <2>2 DEF PacketLength
      <3> QED BY <1>6, <2>2, <3>1, <3>2
    <2> QED BY <2>1, <2>2
  <1> QED BY <1>1, <1>2, <1>8, <1>9 DEF p, Bytes

\* The packets of a sequence of them.
LEMMA PacketAt ==
    ASSUME NEW s \in Packets, NEW j \in 1 .. Len(s)
    PROVE  /\ Len(s) \in Nat /\ s[j] \in [type : Nat, bytes : Bytes]
           /\ s[j].bytes \in Bytes /\ Len(s[j].bytes) \in Nat
  <1> DEFINE T == [type : Nat, bytes : Bytes]
  <1>0. s \in Seq(T)
    BY DEF Packets
  <1> HIDE DEF T
  <1>1. Len(s) \in Nat /\ s[j] \in T
    BY <1>0, ElementOfSeq, LenProperties
  <1> USE DEF T
  <1> QED BY <1>1 DEF Bytes

\* The byte at a position, before and after n of them are taken away.
LEMMA Shift ==
    ASSUME NEW u \in Bytes, NEW n \in 1 .. Len(u), NEW pos \in Nat, NEW x \in Nat,
           x > pos + n, x <= pos + Len(u)
    PROVE  SubSeq(u, n + 1, Len(u))[x - (pos + n)] = u[x - pos]
  <1> DEFINE v == SubSeq(u, n + 1, Len(u))
  <1>1. Len(u) \in Nat /\ n \in Nat /\ n <= Len(u) /\ \A i \in n + 1 .. Len(u) : u[i] \in Nat
    BY DEF Bytes
  <1>2. \A i \in 1 .. Len(u) - (n + 1) + 1 : v[i] = u[n + 1 + i - 1]
    BY <1>1, SubSeqProperties
  <1>3. /\ x - (pos + n) \in 1 .. Len(u) - (n + 1) + 1
        /\ n + 1 + (x - (pos + n)) - 1 = x - pos
    BY <1>1
  <1> HIDE DEF v
  <1>4. v[x - (pos + n)] = u[n + 1 + (x - (pos + n)) - 1]
    BY <1>2, <1>3
  <1>5. v[x - (pos + n)] = u[x - pos]
    BY <1>3, <1>4
  <1> QED BY <1>5 DEF v

\* Reading n bytes leaves the others where they are.
LEMMA LaidRead ==
    ASSUME NEW at, NEW pos, NEW s \in Packets, NEW u \in Bytes, Laid(at, pos, s, u),
           NEW n \in 1 .. Len(u)
    PROVE  Laid(at, pos + n, s, SubSeq(u, n + 1, Len(u)))
  <1> DEFINE v == SubSeq(u, n + 1, Len(u))
  <1>1. Len(u) \in Nat /\ n \in Nat /\ n <= Len(u) /\ Len(s) \in Nat
    BY DEF Bytes, Packets
  <1>2. Len(v) = Len(u) - n /\ \A i \in 1 .. Len(u) - n : v[i] = u[n + i]
    <2>1. \A i \in n + 1 .. Len(u) : u[i] \in Nat
      BY <1>1 DEF Bytes
    <2>2. /\ Len(v) = IF n + 1 <= Len(u) THEN Len(u) - (n + 1) + 1 ELSE 0
          /\ \A i \in 1 .. Len(u) - (n + 1) + 1 : v[i] = u[n + 1 + i - 1]
      BY <1>1, <2>1, SubSeqProperties
    <2> QED BY <1>1, <2>2, SMTT(30)
  <1>3. /\ at \in [1 .. Len(s) + 1 -> Nat] /\ pos \in Nat
        /\ at[Len(s) + 1] = pos + Len(u)
    BY DEF Laid
  <1> HIDE DEF v
  <1>4. ASSUME NEW j \in 1 .. Len(s)
        PROVE  /\ at[j] \in Nat /\ Len(s[j].bytes) \in Nat
               /\ at[j] + 1 + Len(s[j].bytes) <= pos + Len(u)
    <2>1. Len(s[j].bytes) \in Nat
      BY PacketAt
    <2>2. j \in 1 .. Len(s) + 1 /\ j + 1 \in 1 .. Len(s) + 1 /\ Len(s) + 1 \in 1 .. Len(s) + 1
          /\ j + 1 <= Len(s) + 1
      BY <1>1
    <2>3. at[j + 1] <= at[Len(s) + 1] /\ at[j + 1] = at[j] + 1 + Len(s[j].bytes)
      BY <2>2 DEF Laid
    <2>4. at[j] \in Nat
      BY <1>3, <2>2
    <2> QED BY <1>1, <1>3, <2>1, <2>3, <2>4
  <1>b. \A x \in Nat : x > pos + n /\ x <= pos + Len(u) => v[x - (pos + n)] = u[x - pos]
    BY <1>3, Shift DEF v
  <1>5. ASSUME NEW j \in 1 .. Len(s)
        PROVE  /\ at[j] + 1 > pos + n => v[(at[j] + 1) - (pos + n)] = s[j].type
               /\ \A i \in 1 .. Len(s[j].bytes) :
                     at[j] + 1 + i > pos + n => v[(at[j] + 1 + i) - (pos + n)] = s[j].bytes[i]
    <2>1. /\ at[j] \in Nat /\ Len(s[j].bytes) \in Nat
          /\ at[j] + 1 + Len(s[j].bytes) <= pos + Len(u)
      BY <1>4
    <2>2. ASSUME at[j] + 1 > pos + n PROVE v[(at[j] + 1) - (pos + n)] = s[j].type
      <3>1. PICK x \in Nat : x = at[j] + 1
        BY <2>1
      <3>2. x <= pos + Len(u) /\ x > pos + n /\ x > pos
        BY <1>1, <1>3, <2>1, <2>2, <3>1, SMTT(30)
      <3>3. u[x - pos] = s[j].type
        BY <3>1, <3>2 DEF Laid
      <3>4. v[x - (pos + n)] = u[x - pos]
        BY <1>b, <3>2
      <3> QED BY <3>1, <3>3, <3>4
    <2>3. ASSUME NEW i \in 1 .. Len(s[j].bytes), at[j] + 1 + i > pos + n
          PROVE  v[(at[j] + 1 + i) - (pos + n)] = s[j].bytes[i]
      <3>1. PICK x \in Nat : x = at[j] + 1 + i
        BY <2>1
      <3>2. x <= pos + Len(u) /\ x > pos + n /\ x > pos
        <4>1. i \in Nat /\ i <= Len(s[j].bytes)
          BY <2>1
        <4>2. n \in Nat /\ pos \in Nat
          BY <1>1, <1>3
        <4>3. x <= at[j] + 1 + Len(s[j].bytes)
          BY <2>1, <3>1, <4>1, SMTT(30)
        <4>4. x > pos + n
          BY <2>3, <3>1
        <4> QED BY <1>1, <2>1, <4>2, <4>3, <4>4, SMTT(30)
      <3>3. u[x - pos] = s[j].bytes[i]
        BY <3>1, <3>2 DEF Laid
      <3>4. v[x - (pos + n)] = u[x - pos]
        BY <1>b, <3>2
      <3> QED BY <3>1, <3>3, <3>4
    <2> QED BY <2>2, <2>3
  <1>6. pos + n \in Nat /\ at[Len(s) + 1] = pos + n + Len(v)
    BY <1>1, <1>2, <1>3
  <1>7. /\ \A j \in 1 .. Len(s) : at[j + 1] = at[j] + 1 + Len(s[j].bytes)
        /\ \A i, j \in 1 .. Len(s) + 1 : i <= j => at[i] <= at[j]
    BY DEF Laid
  <1>8. Laid(at, pos + n, s, v)
    BY <1>3, <1>5, <1>6, <1>7 DEF Laid
  <1> QED BY <1>8 DEF v

\* The packet p has arrived behind the packets s and the bytes u.
Arrived(q, v, s, u, p) ==
    /\ Len(q) = Len(s) + 1 /\ q[Len(s) + 1] = p
    /\ \A j \in 1 .. Len(s) : q[j] = s[j]
    /\ Len(v) = Len(u) + 1 + Len(p.bytes)
    /\ \A i \in 1 .. Len(u) : v[i] = u[i]
    /\ v[Len(u) + 1] = p.type
    /\ \A i \in 1 .. Len(p.bytes) : v[Len(u) + 1 + i] = p.bytes[i]

\* The first n packets are where they were.
Longer(new, at, n) == \A j \in 1 .. n : new[j] = at[j]

\* Arrive appends a packet and its bytes.
LEMMA ArriveAppends ==
    ASSUME NEW s \in Packets, NEW u \in Bytes, NEW p \in [type : Nat, bytes : Bytes],
           NEW w \in Bytes, Len(w) = 1, w[1] = p.type
    PROVE  Arrived(Append(s, p), u \o w \o p.bytes, s, u, p)
  <1> DEFINE q == Append(s, p)
             a == u \o w
             v == a \o p.bytes
  <1>1. Len(u) \in Nat /\ Len(p.bytes) \in Nat /\ p.type \in Nat
    BY DEF Bytes
  <1>3. /\ Len(q) = Len(s) + 1 /\ q[Len(s) + 1] = p
        /\ \A j \in 1 .. Len(s) : q[j] = s[j]
    BY AppendProperties DEF Packets
  <1>4. /\ Len(v) = Len(u) + 1 + Len(p.bytes)
        /\ \A i \in 1 .. Len(u) : v[i] = u[i]
        /\ v[Len(u) + 1] = p.type
        /\ \A i \in 1 .. Len(p.bytes) : v[Len(u) + 1 + i] = p.bytes[i]
    <2>1. /\ w \in Seq(Nat) /\ Len(w) = 1 /\ w[1] = p.type
          /\ u \in Seq(Nat) /\ p.bytes \in Seq(Nat)
      BY <1>1 DEF Bytes
    <2>2. /\ a \in Seq(Nat) /\ Len(a) = Len(u) + Len(w)
          /\ \A i \in 1 .. Len(u) + Len(w) : a[i] = IF i <= Len(u) THEN u[i] ELSE w[i - Len(u)]
      BY <2>1, ConcatProperties
    <2> HIDE DEF a
    <2>3. /\ Len(v) = Len(a) + Len(p.bytes)
          /\ \A i \in 1 .. Len(a) + Len(p.bytes) :
                v[i] = IF i <= Len(a) THEN a[i] ELSE p.bytes[i - Len(a)]
      <3> DEFINE b == p.bytes
      <3>1. a \in Seq(Nat) /\ b \in Seq(Nat)
        BY <2>1, <2>2
      <3> HIDE DEF b
      <3>2. /\ Len(a \o b) = Len(a) + Len(b)
            /\ \A i \in 1 .. Len(a) + Len(b) :
                  (a \o b)[i] = IF i <= Len(a) THEN a[i] ELSE b[i - Len(a)]
        BY <3>1, ConcatProperties
      <3> QED BY <3>2 DEF b
    <2> HIDE DEF v
    <2>4. \A i \in 1 .. Len(u) : v[i] = u[i]
      BY <1>1, <2>2, <2>3
    <2>5. v[Len(u) + 1] = p.type
      <3>1. Len(u) + 1 \in 1 .. Len(u) + 1 /\ ~(Len(u) + 1 <= Len(u)) /\ Len(u) + 1 - Len(u) = 1
        BY <1>1
      <3>2. a[Len(u) + 1] = p.type
        BY <2>1, <2>2, <3>1
      <3> QED BY <1>1, <2>2, <2>3, <3>2
    <2>6. ASSUME NEW i \in 1 .. Len(p.bytes) PROVE v[Len(u) + 1 + i] = p.bytes[i]
      <3>1. /\ Len(u) + 1 + i \in 1 .. Len(a) + Len(p.bytes)
            /\ ~(Len(u) + 1 + i <= Len(a)) /\ Len(u) + 1 + i - Len(a) = i
        BY <1>1, <2>2
      <3> QED BY <2>3, <3>1
    <2> QED BY <1>1, <2>2, <2>3, <2>4, <2>5, <2>6
  <1> QED BY <1>3, <1>4 DEF Arrived

\* A packet that arrives is behind the others.
LEMMA LaidArrive ==
    ASSUME NEW at, NEW pos, NEW s \in Packets, NEW u \in Bytes, Laid(at, pos, s, u),
           NEW p \in [type : Nat, bytes : Bytes], NEW q, NEW v, Arrived(q, v, s, u, p)
    PROVE  \E new : Laid(new, pos, q, v) /\ Longer(new, at, Len(s) + 1)
  <1> DEFINE L == Len(s)
             end == at[L + 1] + 1 + Len(p.bytes)
             new == [j \in 1 .. L + 2 |-> IF j = L + 2 THEN end ELSE at[j]]
  <1>1. Len(u) \in Nat /\ L \in Nat /\ Len(p.bytes) \in Nat /\ p.type \in Nat
    BY DEF Bytes, Packets
  <1>2. /\ at \in [1 .. L + 1 -> Nat] /\ pos \in Nat /\ at[L + 1] = pos + Len(u)
    BY DEF Laid
  <1>3. /\ Len(q) = L + 1 /\ q[L + 1] = p
        /\ \A j \in 1 .. L : q[j] = s[j]
    BY DEF Arrived
  <1>4. /\ Len(v) = Len(u) + 1 + Len(p.bytes)
        /\ \A i \in 1 .. Len(u) : v[i] = u[i]
        /\ v[Len(u) + 1] = p.type
        /\ \A i \in 1 .. Len(p.bytes) : v[Len(u) + 1 + i] = p.bytes[i]
    BY DEF Arrived
  <1>5. end \in Nat /\ at[L + 1] \in Nat /\ at[L + 1] <= end /\ end = pos + Len(v)
    BY <1>1, <1>2, <1>4
  <1>6. /\ new \in [1 .. L + 2 -> Nat] /\ new[L + 2] = end
        /\ \A j \in 1 .. L + 1 : new[j] = at[j]
    BY <1>1, <1>2, <1>5
  <1> HIDE DEF new, end
  <1>7. ASSUME NEW i \in 1 .. L + 2, NEW j \in 1 .. L + 2, i <= j PROVE new[i] <= new[j]
    <2>1. CASE j # L + 2
      <3>1. i \in 1 .. L + 1 /\ j \in 1 .. L + 1
        BY <1>1, <1>7, <2>1
      <3> QED BY <1>6, <1>7, <3>1 DEF Laid
    <2>2. CASE j = L + 2 /\ i # L + 2
      <3>1. i \in 1 .. L + 1 /\ L + 1 \in 1 .. L + 1 /\ i <= L + 1
        BY <1>1, <2>2
      <3>2. at[i] <= at[L + 1] /\ at[i] \in Nat
        BY <1>2, <3>1 DEF Laid
      <3> QED BY <1>5, <1>6, <2>2, <3>1, <3>2
    <2>3. CASE j = L + 2 /\ i = L + 2
      BY <1>5, <1>6, <2>3
    <2> QED BY <2>1, <2>2, <2>3
  <1>8. ASSUME NEW j \in 1 .. L + 1
        PROVE  /\ new[j + 1] = new[j] + 1 + Len(q[j].bytes)
               /\ new[j] + 1 > pos => v[(new[j] + 1) - pos] = q[j].type
               /\ \A i \in 1 .. Len(q[j].bytes) :
                     new[j] + 1 + i > pos => v[(new[j] + 1 + i) - pos] = q[j].bytes[i]
    <2>1. CASE j = L + 1
      <3>1. new[j] = at[L + 1] /\ new[j + 1] = end /\ q[j] = p
        BY <1>1, <1>3, <1>6, <2>1
      <3>2. (new[j] + 1) - pos = Len(u) + 1
        BY <1>1, <1>2, <3>1
      <3>3. ASSUME NEW i \in 1 .. Len(p.bytes) PROVE v[(new[j] + 1 + i) - pos] = p.bytes[i]
        <4>1. (new[j] + 1 + i) - pos = Len(u) + 1 + i
          BY <1>1, <1>2, <3>1
        <4> QED BY <1>4, <4>1
      <3> QED BY <1>4, <3>1, <3>2, <3>3 DEF end
    <2>2. CASE j # L + 1
      <3>1. j \in 1 .. L /\ j + 1 \in 1 .. L + 1
        BY <1>1, <2>2
      <3>2. new[j] = at[j] /\ new[j + 1] = at[j + 1] /\ q[j] = s[j] /\ at[j] \in Nat
        BY <1>2, <1>3, <1>6, <3>1
      <3>3. at[j + 1] = at[j] + 1 + Len(s[j].bytes) /\ at[j + 1] <= pos + Len(u)
        <4>1. L + 1 \in 1 .. L + 1 /\ j + 1 <= L + 1
          BY <1>1, <3>1
        <4>2. at[j + 1] = at[j] + 1 + Len(s[j].bytes) /\ at[j + 1] <= at[L + 1]
          BY <3>1, <4>1 DEF Laid
        <4> QED BY <1>2, <4>2
      <3>4. Len(s[j].bytes) \in Nat
        BY <3>1, PacketAt
      <3>5. ASSUME at[j] + 1 > pos PROVE v[(at[j] + 1) - pos] = s[j].type
        <4> DEFINE x == at[j]
                   y == Len(s[j].bytes)
                   z == Len(u)
        <4>0. x \in Nat /\ y \in Nat /\ z \in Nat /\ pos \in Nat /\ x + 1 + y <= pos + z
              /\ x + 1 > pos
          BY <1>1, <1>2, <3>2, <3>3, <3>4, <3>5
        <4> HIDE DEF x, y, z
        <4>1. (x + 1) - pos \in 1 .. z
          BY <4>0
        <4> USE DEF x, z
        <4>2. u[(at[j] + 1) - pos] = s[j].type
          BY <3>1, <3>5 DEF Laid
        <4> QED BY <1>4, <4>1, <4>2
      <3>6. ASSUME NEW i \in 1 .. Len(s[j].bytes), at[j] + 1 + i > pos
            PROVE  v[(at[j] + 1 + i) - pos] = s[j].bytes[i]
        <4> DEFINE x == at[j]
                   y == Len(s[j].bytes)
                   z == Len(u)
        <4>0. x \in Nat /\ y \in Nat /\ z \in Nat /\ pos \in Nat /\ x + 1 + y <= pos + z
              /\ x + 1 + i > pos /\ i \in 1 .. y
          BY <1>1, <1>2, <3>2, <3>3, <3>4, <3>6
        <4> HIDE DEF x, y, z
        <4>1. (x + 1 + i) - pos \in 1 .. z
          BY <4>0
        <4> USE DEF x, z
        <4>2. u[(at[j] + 1 + i) - pos] = s[j].bytes[i]
          BY <3>1, <3>6 DEF Laid
        <4> QED BY <1>4, <4>1, <4>2
      <3> QED BY <3>2, <3>3, <3>5, <3>6
    <2> QED BY <2>1, <2>2
  <1>9. Laid(new, pos, q, v)
    <2>1. Len(q) + 1 = L + 2
      BY <1>1, <1>3
    <2> QED BY <1>2, <1>3, <1>5, <1>6, <1>7, <1>8, <2>1 DEF Laid
  <1> QED BY <1>6, <1>9 DEF Longer

\* The next bytes are those of the packet that is being read.
LEMMA LaidNext ==
    ASSUME NEW at, NEW pos, NEW s \in Packets, NEW u \in Bytes, Laid(at, pos, s, u),
           NEW k \in 1 .. Len(s), NEW r \in Bytes, Starts(r, s[k].bytes),
           Behind(at, pos, k, r),
           NEW n \in 1 .. Len(u), Len(r) + n <= Len(s[k].bytes)
    PROVE  LET b == r \o SubSeq(u, 1, n)
           IN  /\ b \in Bytes /\ Len(b) = Len(r) + n /\ Starts(b, s[k].bytes)
               /\ Behind(at, pos + n, k, b)
  <1> DEFINE t == SubSeq(u, 1, n)
             b == r \o t
             full == s[k].bytes
  <1>0. Len(s) \in Nat /\ full \in Bytes /\ Len(full) \in Nat
    BY PacketAt
  <1>1. /\ Len(u) \in Nat /\ n \in Nat /\ n <= Len(u) /\ Len(r) \in Nat /\ at[k] \in Nat
        /\ pos \in Nat
    <2>1. at \in [1 .. Len(s) + 1 -> Nat] /\ pos \in Nat /\ k \in 1 .. Len(s) + 1
      BY <1>0 DEF Laid
    <2>2. Len(u) \in Nat /\ Len(r) \in Nat
      BY DEF Bytes
    <2> QED BY <2>1, <2>2
  <1>2. /\ full \in Seq(Nat) /\ Len(full) \in Nat /\ Starts(r, full) /\ Len(r) + n <= Len(full)
        /\ \A i \in 1 .. Len(full) : at[k] + 1 + i > pos => u[(at[k] + 1 + i) - pos] = full[i]
    BY <1>0 DEF Bytes, Laid
  <1> HIDE DEF full
  <1>3. t \in Seq(Nat) /\ Len(t) = n /\ \A i \in 1 .. n : t[i] = u[i]
    <2>1. \A i \in 1 .. n : u[i] \in Nat
      BY <1>1, SMTT(20) DEF Bytes
    <2> QED BY <1>1, <2>1, SubSeqProperties
  <1> HIDE DEF t
  <1>4. /\ b \in Seq(Nat) /\ Len(b) = Len(r) + n
        /\ \A i \in 1 .. Len(r) + n : b[i] = IF i <= Len(r) THEN r[i] ELSE t[i - Len(r)]
    <2>1. r \in Seq(Nat)
      BY DEF Bytes
    <2> QED BY <1>3, <2>1, ConcatProperties, ZenonT(30)
  <1> HIDE DEF b
  <1>5. ASSUME NEW i \in 1 .. Len(b) PROVE b[i] = full[i]
    <2>0. i \in Int /\ 1 <= i /\ i <= Len(r) + n
      BY <1>1, <1>4
    <2>n. Len(r) \in Nat /\ n \in Nat /\ Len(full) \in Nat /\ Len(r) + n <= Len(full)
      BY <1>1, <1>2
    <2>1. CASE i <= Len(r)
      <3>1. i \in 1 .. Len(r) /\ i \in 1 .. Len(r) + n
        BY <2>0, <2>n, <2>1
      <3>2. b[i] = r[i]
        BY <1>4, <2>1, <3>1
      <3>3. r[i] = full[i]
        BY <1>2, <3>1 DEF Starts
      <3> QED BY <3>2, <3>3
    <2>2. CASE ~(i <= Len(r))
      <3>1. i - Len(r) \in 1 .. n /\ i \in 1 .. Len(full)
        BY <2>0, <2>n, <2>2
      <3>2. b[i] = u[i - Len(r)]
        <4>1. i \in 1 .. Len(r) + n
          BY <2>0, <2>n
        <4>2. b[i] = t[i - Len(r)]
          BY <1>4, <2>2, <4>1
        <4> QED BY <1>3, <3>1, <4>2
      <3>3. at[k] + 1 + i > pos /\ (at[k] + 1 + i) - pos = i - Len(r)
        <4> DEFINE x == at[k]
                   y == Len(r)
        <4>1. x \in Nat /\ y \in Nat /\ pos = x + (1 + y) /\ i \in Int /\ ~(i <= y)
          BY <1>1, <2>0, <2>2 DEF Behind
        <4> HIDE DEF x, y
        <4>2. x + 1 + i > pos /\ (x + 1 + i) - pos = i - y
          BY <4>1
        <4> QED BY <4>2 DEF x, y
      <3>4. u[(at[k] + 1 + i) - pos] = full[i]
        BY <1>2, <3>1, <3>3
      <3> QED BY <3>2, <3>3, <3>4
    <2> QED BY <2>1, <2>2
  <1>6. Starts(b, full) /\ Behind(at, pos + n, k, b)
    <2>1. Len(b) = Len(r) + n
      BY <1>4
    <2>2. pos + n = at[k] + (1 + Len(b))
      <3> DEFINE x == at[k]
                 y == Len(r)
      <3>1. x \in Nat /\ y \in Nat /\ n \in Nat /\ pos = x + (1 + y) /\ Len(b) = y + n
        BY <1>1, <2>1 DEF Behind
      <3> HIDE DEF x, y
      <3>2. pos + n = x + (1 + Len(b))
        BY <3>1
      <3> QED BY <3>2 DEF x
    <2>3. Starts(b, full)
      BY <1>2, <1>5, <2>1 DEF Starts
    <2> QED BY <2>2, <2>3 DEF Behind
  <1> QED BY <1>4, <1>6 DEF b, t, full, Bytes

\* A packet arrives.
LEMMA StreamArrive ==
    ASSUME NEW s \in Packets, NEW u \in Bytes, NEW d \in Packets, NEW r \in Packetizer,
           Stream(s, u, d, r),
           NEW p \in [type : Nat, bytes : Bytes], Formed(p),
           NEW q, NEW v, Arrived(q, v, s, u, p)
    PROVE  Stream(q, v, d, r)
  <1>3. /\ Len(q) = Len(s) + 1 /\ q[Len(s) + 1] = p /\ Len(s) \in Nat /\ Len(d) \in Nat
        /\ \A j \in 1 .. Len(s) : q[j] = s[j]
    BY DEF Arrived, Packets
  <1>4. Wellformed(q)
    <2> SUFFICES ASSUME NEW j \in 1 .. Len(q) PROVE Formed(q[j])
      BY DEF Wellformed
    <2>1. CASE j \in 1 .. Len(s)
      BY <1>3, <2>1 DEF Stream, Wellformed
    <2>2. CASE j = Len(s) + 1
      BY <1>3, <2>2
    <2> QED BY <1>3, <2>1, <2>2
  <1>5. Len(d) <= Len(s) /\ Len(d) + 1 \in 1 .. Len(s) + 1
    BY <1>3 DEF Stream, Reading, Starts
  <1>6. Reading(q, d, r)
    <2>1. Starts(d, q)
      BY <1>3, <1>5 DEF Stream, Reading, Starts
    <2>2. Len(d) < Len(s) => Len(d) < Len(q) /\ q[Len(d) + 1] = s[Len(d) + 1]
      BY <1>3
    <2> QED BY <2>1, <2>2 DEF Stream, Reading
  <1>7. PICK at, pos : Laid(at, pos, s, u) /\ Placed(at, pos, d, r)
    BY DEF Stream
  <1>8. PICK new : Laid(new, pos, q, v) /\ Longer(new, at, Len(s) + 1)
    BY <1>7, LaidArrive
  <1>9. Placed(new, pos, d, r)
    BY <1>5, <1>7, <1>8 DEF Placed, Longer
  <1> QED BY <1>4, <1>6, <1>8, <1>9 DEF Stream

\* The type of the next packet is read.
LEMMA StreamType ==
    ASSUME NEW s \in Packets, NEW u \in Bytes, NEW d \in Packets, NEW r \in Packetizer,
           Stream(s, u, d, r), r.type = UNKNOWN, u # <<>>
    PROVE  Stream(s, SubSeq(u, 1 + 1, Len(u)), d, [r EXCEPT !.type = Head(u)])
  <1> DEFINE k == Len(d) + 1
             h == [r EXCEPT !.type = Head(u)]
  <1>1. PICK at, pos : Laid(at, pos, s, u) /\ Placed(at, pos, d, r)
    BY DEF Stream
  <1>2. /\ Len(u) \in Nat /\ 1 \in 1 .. Len(u) /\ Head(u) = u[1]
        /\ Len(s) \in Nat /\ Len(d) \in Nat /\ Len(d) <= Len(s)
    <2>1. Len(u) \in Nat /\ 1 \in 1 .. Len(u) /\ Head(u) = u[1]
      BY DEF Bytes
    <2>2. Len(s) \in Nat /\ Len(d) \in Nat
      BY DEF Packets
    <2>3. Len(d) <= Len(s)
      BY DEF Stream, Reading, Starts
    <2> QED BY <2>1, <2>2, <2>3
  <1>3. /\ at \in [1 .. Len(s) + 1 -> Nat] /\ pos \in Nat
        /\ at[Len(s) + 1] = pos + Len(u) /\ pos = at[k]
    <2>1. /\ at \in [1 .. Len(s) + 1 -> Nat] /\ pos \in Nat
          /\ at[Len(s) + 1] = pos + Len(u)
      BY <1>1 DEF Laid
    <2>2. at[k] \in Nat
      BY <1>2, <2>1
    <2>3. pos = at[k] + 0
      BY <1>1 DEF Placed
    <2> QED BY <2>1, <2>2, <2>3
  <1>4. k \in 1 .. Len(s)
    BY <1>2, <1>3
  <1>5. u[1] = s[k].type
    <2>1. at[k] + 1 > pos /\ (at[k] + 1) - pos = 1
      BY <1>2, <1>3, <1>4
    <2> QED BY <1>1, <1>4, <2>1 DEF Laid
  <1>6. s[k].type \in {ACL, SCO, EVENT} /\ s[k].type # UNKNOWN
    BY <1>4 DEF Stream, Wellformed, Formed, ACL, SCO, EVENT, UNKNOWN
  <1>7. /\ h.type = s[k].type /\ h.state = "preamble" /\ h.bytes = <<>>
    BY <1>2, <1>5 DEF Packetizer, Stream, Reading
  <1> HIDE DEF h
  <1>8. Starts(<<>>, s[k].bytes) /\ Len(<<>>) = 0
    <2>1. Len(s[k].bytes) \in Nat
      BY <1>4, PacketAt
    <2> QED BY <2>1 DEF Starts
  <1>9. Reading(s, d, h)
    <2>1. Len(d) < Len(s)
      BY <1>2, <1>4
    <2>2. Len(h.bytes) < PreambleSize(h.type)
      BY <1>7, <1>8 DEF PreambleSize
    <2> QED BY <1>6, <1>7, <1>8, <2>1, <2>2 DEF Stream, Reading
  <1>10. Laid(at, pos + 1, s, SubSeq(u, 1 + 1, Len(u)))
    BY <1>1, <1>2, LaidRead
  <1>11. Placed(at, pos + 1, d, h)
    BY <1>3, <1>6, <1>7, <1>8 DEF Placed
  <1> QED BY <1>9, <1>10, <1>11 DEF Stream, h

\* What a read of n bytes of a packet brings, as long as it is not too long.
LEMMA StreamBytes ==
    ASSUME NEW s \in Packets, NEW u \in Bytes, NEW d \in Packets, NEW r \in Packetizer,
           Stream(s, u, d, r), r.type # UNKNOWN, NEW n \in 1 .. Len(u),
           Len(r.bytes) + n <= Len(s[Len(d) + 1].bytes)
    PROVE  LET b == r.bytes \o SubSeq(u, 1, n)
               v == SubSeq(u, n + 1, Len(u))
           IN  /\ b \in Bytes /\ Len(b) = Len(r.bytes) + n
               /\ Starts(b, s[Len(d) + 1].bytes)
               /\ \E at, pos : Laid(at, pos, s, v) /\ Behind(at, pos, Len(d) + 1, b)
  <1> DEFINE k == Len(d) + 1
             x == r.bytes
             b == x \o SubSeq(u, 1, n)
             v == SubSeq(u, n + 1, Len(u))
  <1>1. PICK at, pos : Laid(at, pos, s, u) /\ Placed(at, pos, d, r)
    BY DEF Stream
  <1>2. /\ k \in 1 .. Len(s) /\ x \in Bytes /\ Starts(x, s[k].bytes)
        /\ Behind(at, pos, k, x) /\ Len(x) + n <= Len(s[k].bytes)
    BY <1>1, SMTT(30) DEF Stream, Reading, Packets, Packetizer, Placed, Behind
  <1> HIDE DEF k, x
  <1>3. /\ b \in Bytes /\ Len(b) = Len(x) + n /\ Starts(b, s[k].bytes)
        /\ Behind(at, pos + n, k, b)
    BY <1>1, <1>2, LaidNext
  <1>4. Laid(at, pos + n, s, v)
    BY <1>1, LaidRead
  <1> QED BY <1>3, <1>4 DEF k, x

\* Bytes of the preamble are read.
LEMMA StreamPreamble ==
    ASSUME NEW s \in Packets, NEW u \in Bytes, NEW d \in Packets, NEW r \in Packetizer,
           Stream(s, u, d, r), r.type # UNKNOWN, r.state = "preamble",
           NEW n \in 1 .. Len(u), n <= PreambleSize(r.type) - Len(r.bytes)
    PROVE  LET b == r.bytes \o SubSeq(u, 1, n)
           IN  Stream(s, SubSeq(u, n + 1, Len(u)), d,
                      IF Len(b) = PreambleSize(r.type)
                      THEN [r EXCEPT !.bytes = b, !.state = "payload",
                                     !.remaining = PacketLength(r.type, b)]
                      ELSE [r EXCEPT !.bytes = b])
  <1> DEFINE k == Len(d) + 1
             b == r.bytes \o SubSeq(u, 1, n)
             v == SubSeq(u, n + 1, Len(u))
             full == s[k].bytes
             size == PreambleSize(r.type)
             length == PacketLength(r.type, full)
             h == IF Len(b) = PreambleSize(r.type)
                  THEN [r EXCEPT !.bytes = b, !.state = "payload",
                                 !.remaining = PacketLength(r.type, b)]
                  ELSE [r EXCEPT !.bytes = b]
  <1>1. /\ k \in 1 .. Len(s) /\ Len(d) < Len(s) /\ r.type = s[k].type
        /\ Len(r.bytes) \in Nat /\ Starts(d, s)
    <2>1. Len(d) < Len(s) /\ r.type = s[k].type /\ Starts(d, s)
      BY DEF Stream, Reading
    <2>2. Len(s) \in Nat /\ Len(d) \in Nat
      BY DEF Packets
    <2>3. Len(r.bytes) \in Nat
      BY DEF Packetizer, Bytes
    <2> QED BY <2>1, <2>2, <2>3
  <1>2. /\ r.type \in {ACL, SCO, EVENT} /\ size \in Nat /\ length \in Nat
        /\ Len(full) = size + length
    BY <1>1 DEF Stream, Wellformed, Formed, PreambleSize
  <1>3. n \in Nat /\ Len(r.bytes) + n <= size /\ Len(r.bytes) + n <= Len(full)
    <2>1. n \in Nat
      BY DEF Bytes
    <2> HIDE DEF full, size, length
    <2>2. n <= size - Len(r.bytes)
      BY DEF size
    <2> QED BY <1>1, <1>2, <2>1, <2>2
  <1>4. /\ b \in Bytes /\ Len(b) = Len(r.bytes) + n /\ Starts(b, full)
        /\ \E at, pos : Laid(at, pos, s, v) /\ Behind(at, pos, k, b)
    BY <1>3, StreamBytes
  <1> HIDE DEF b, v
  <1>5. CASE Len(b) = size
    <2>1. PacketLength(r.type, b) = length
      <3>1. \A i \in 1 .. Len(b) : b[i] = full[i]
        BY <1>4 DEF Starts
      <3>2. CASE r.type = ACL
        <4>1. 3 \in 1 .. Len(b) /\ 4 \in 1 .. Len(b)
          BY <1>5, <3>2 DEF PreambleSize, ACL, EVENT
        <4> QED BY <3>1, <3>2, <4>1 DEF PacketLength
      <3>3. CASE r.type # ACL
        <4>1. size \in 1 .. Len(b)
          BY <1>2, <1>5, <3>3 DEF PreambleSize
        <4> QED BY <3>1, <3>3, <4>1 DEF PacketLength
      <3> QED BY <3>2, <3>3
    <2>2. /\ h.type = r.type /\ h.bytes = b /\ h.state = "payload" /\ h.remaining = length
      BY <1>5, <2>1 DEF Packetizer
    <2> HIDE DEF h, full, size, length
    <2>3. Reading(s, d, h)
      <3>1. /\ Starts(h.bytes, full) /\ size <= Len(h.bytes)
            /\ Len(h.bytes) + h.remaining = Len(full) /\ Len(h.bytes) = size
        BY <1>2, <1>4, <1>5, <2>2
      <3> QED BY <1>1, <2>2, <3>1 DEF Reading, full, size
    <2>4. \E at, pos : Laid(at, pos, s, v) /\ Placed(at, pos, d, h)
      BY <1>4, <2>2 DEF Placed, Behind
    <2> QED BY <2>3, <2>4 DEF Stream, h, v, b
  <1>6. CASE Len(b) # size
    <2>1. /\ h.type = r.type /\ h.bytes = b /\ h.state = "preamble"
      BY <1>6 DEF Packetizer
    <2> HIDE DEF h, full, size, length
    <2>2. Reading(s, d, h)
      <3>1. Starts(h.bytes, full) /\ Len(h.bytes) < size
        <4>1. Len(b) < size
          BY <1>1, <1>2, <1>3, <1>4, <1>6
        <4> QED BY <1>4, <2>1, <4>1
      <3> QED BY <1>1, <2>1, <3>1 DEF Reading, full, size
    <2>3. \E at, pos : Laid(at, pos, s, v) /\ Placed(at, pos, d, h)
      BY <1>4, <2>1 DEF Placed, Behind
    <2> QED BY <2>2, <2>3 DEF Stream, h, v, b
  <1> QED BY <1>5, <1>6

\* Bytes of the payload are read, and the packet is handed up once it is whole.
LEMMA StreamPayload ==
    ASSUME NEW s \in Packets, NEW u \in Bytes, NEW d \in Packets, NEW r \in Packetizer,
           Stream(s, u, d, r), r.state = "payload",
           NEW n \in 1 .. Len(u), n <= r.remaining
    PROVE  LET b == r.bytes \o SubSeq(u, 1, n)
               v == SubSeq(u, n + 1, Len(u))
           IN  /\ n = r.remaining =>
                     Stream(s, v, Append(d, [type |-> r.type, bytes |-> b]),
                            [type |-> UNKNOWN, state |-> "preamble", bytes |-> <<>>,
                             remaining |-> 0])
               /\ n # r.remaining =>
                     Stream(s, v, d, [r EXCEPT !.bytes = b, !.remaining = @ - n])
  <1> DEFINE k == Len(d) + 1
             b == r.bytes \o SubSeq(u, 1, n)
             v == SubSeq(u, n + 1, Len(u))
             full == s[k].bytes
             size == PreambleSize(r.type)
  <1>1. /\ k \in 1 .. Len(s) /\ Len(d) < Len(s) /\ r.type = s[k].type /\ r.type # UNKNOWN
        /\ Len(r.bytes) \in Nat /\ r.remaining \in Nat /\ Starts(d, s)
        /\ size <= Len(r.bytes) /\ Len(r.bytes) + r.remaining = Len(full)
    <2>1. Reading(s, d, r)
      BY DEF Stream
    <2>2. r.type # UNKNOWN
      BY <2>1 DEF Reading
    <2>3. /\ Starts(d, s) /\ Len(d) < Len(s) /\ r.type = s[k].type
          /\ size <= Len(r.bytes) /\ Len(r.bytes) + r.remaining = Len(full)
      BY <2>1, <2>2 DEF Reading
    <2>4. Len(r.bytes) \in Nat /\ r.remaining \in Nat
      BY DEF Packetizer, Bytes
    <2>5. k \in 1 .. Len(s)
      <3>1. Len(d) \in Nat /\ Len(s) \in Nat
        BY DEF Packets
      <3> QED BY <2>3, <3>1
    <2> QED BY <2>2, <2>3, <2>4, <2>5
  <1>2. Len(s) \in Nat /\ Len(d) \in Nat /\ Len(full) \in Nat /\ n \in Nat /\ size \in Nat
    <2>1. Len(full) \in Nat /\ Len(s) \in Nat
      BY <1>1, PacketAt
    <2>2. Len(d) \in Nat /\ n \in Nat
      BY DEF Packets, Bytes
    <2> QED BY <2>1, <2>2 DEF PreambleSize
  <1>3. Len(r.bytes) + n <= Len(full)
    <2> HIDE DEF full
    <2> QED BY <1>1, <1>2
  <1>4. /\ b \in Bytes /\ Len(b) = Len(r.bytes) + n /\ Starts(b, full)
        /\ \E at, pos : Laid(at, pos, s, v) /\ Behind(at, pos, k, b)
    BY <1>1, <1>3, StreamBytes
  <1>w. Wellformed(s)
    BY DEF Stream
  <1> HIDE DEF b, v
  <1>5. ASSUME n = r.remaining
        PROVE  Stream(s, v, Append(d, [type |-> r.type, bytes |-> b]),
                      [type |-> UNKNOWN, state |-> "preamble", bytes |-> <<>>, remaining |-> 0])
    <2> DEFINE m == [type |-> r.type, bytes |-> b]
               e == Append(d, m)
               h == [type |-> UNKNOWN, state |-> "preamble", bytes |-> <<>>, remaining |-> 0]
    <2>1. b = full
      <3>1. full \in Bytes
        BY <1>1, PacketAt
      <3> HIDE DEF full
      <3>2. Len(b) = Len(full) /\ \A i \in 1 .. Len(b) : b[i] = full[i]
        BY <1>1, <1>4, <1>5 DEF Starts
      <3> QED BY <1>4, <3>1, <3>2, SeqEqual DEF Bytes
    <2>2. m \in [type : Nat, bytes : Bytes] /\ m = s[k]
      <3>1. s[k] \in [type : Nat, bytes : Bytes]
        BY <1>1, PacketAt
      <3> QED BY <1>1, <2>1, <3>1
    <2> HIDE DEF m
    <2>3. /\ Len(e) = k /\ e[k] = m
          /\ \A i \in 1 .. Len(d) : e[i] = d[i]
      BY <2>2, AppendProperties DEF Packets
    <2>4. Starts(e, s)
      <3>1. Len(e) <= Len(s)
        BY <1>1, <2>3
      <3>2. ASSUME NEW i \in 1 .. Len(e) PROVE e[i] = s[i]
        <4>1. CASE i = k
          BY <2>2, <2>3, <4>1
        <4>2. CASE i # k
          <5>1. i \in 1 .. Len(d)
            BY <1>2, <2>3, <4>2
          <5> QED BY <1>1, <2>3, <5>1 DEF Starts
        <4> QED BY <4>1, <4>2
      <3> QED BY <3>1, <3>2 DEF Starts
    <2>5. h.type = UNKNOWN /\ h.state = "preamble" /\ h.bytes = <<>>
      OBVIOUS
    <2> HIDE DEF e, h
    <2>6. Reading(s, e, h)
      BY <2>4, <2>5 DEF Reading
    <2>7. PICK at, pos : Laid(at, pos, s, v) /\ Behind(at, pos, k, b)
      BY <1>4
    <2>8. Placed(at, pos, e, h)
      <3>1. at[k + 1] = at[k] + 1 + Len(full)
        BY <1>1, <2>7 DEF Laid
      <3>2. at[k] \in Nat
        BY <1>1, <1>2, <2>7 DEF Laid
      <3>3. pos = at[k] + (1 + Len(full))
        BY <2>1, <2>7 DEF Behind
      <3> HIDE DEF full, k
      <3>4. pos = at[k + 1] + 0
        <4> DEFINE x == at[k]
                   y == Len(full)
                   z == at[k + 1]
        <4>1. x \in Nat /\ y \in Nat /\ z = x + 1 + y /\ pos = x + (1 + y)
          BY <1>2, <3>1, <3>2, <3>3
        <4> HIDE DEF x, y, z
        <4>2. pos = z + 0
          BY <4>1
        <4> QED BY <4>2 DEF z
      <3> QED BY <2>3, <2>5, <3>4 DEF Placed
    <2> QED BY <1>w, <2>6, <2>7, <2>8 DEF Stream, e, h, m
  <1>6. ASSUME n # r.remaining
        PROVE  Stream(s, v, d, [r EXCEPT !.bytes = b, !.remaining = @ - n])
    <2> DEFINE h == [r EXCEPT !.bytes = b, !.remaining = @ - n]
    <2>1. /\ h.type = r.type /\ h.bytes = b /\ h.state = "payload"
          /\ h.remaining = r.remaining - n
      BY DEF Packetizer
    <2> HIDE DEF h, full, size
    <2>2. /\ h.remaining # 0 /\ size <= Len(h.bytes) /\ Starts(h.bytes, full)
          /\ Len(h.bytes) + h.remaining = Len(full)
      <3> DEFINE x == Len(r.bytes)
                 y == r.remaining
                 z == Len(full)
      <3>1. /\ x \in Nat /\ y \in Nat /\ z \in Nat /\ n \in Nat /\ size \in Nat
            /\ x + y = z /\ size <= x /\ n # y /\ n <= y
            /\ Len(h.bytes) = x + n /\ h.remaining = y - n
        BY <1>1, <1>2, <1>4, <1>6, <2>1
      <3> HIDE DEF x, y, z
      <3>2. h.remaining # 0 /\ size <= Len(h.bytes) /\ Len(h.bytes) + h.remaining = z
        BY <3>1
      <3> QED BY <1>4, <2>1, <3>2 DEF z
    <2>3. Reading(s, d, h)
      BY <1>1, <2>1, <2>2 DEF Reading, full, size
    <2>4. \E at, pos : Laid(at, pos, s, v) /\ Placed(at, pos, d, h)
      BY <1>1, <1>4, <2>1 DEF Placed, Behind
    <2> QED BY <1>w, <2>3, <2>4 DEF Stream, h
  <1> QED BY <1>5, <1>6 DEF b, v

\* The invariant after a step, from the variables after it.
LEMMA StreamPrime ==
    ASSUME Stream(sent', uart', delivered', rx'),
           past'.abort => rx'.state = "payload" /\ rx'.remaining = 0
    PROVE  StreamInv'
  BY DEF StreamInv, Stream, Wellformed, Formed, Reading, Starts, Laid, Placed

\* Every step keeps the stream of packets together.
LEMMA StreamStep ==
    ASSUME TypeOK, StreamInv, Next
    PROVE  StreamInv'
  <1>0. /\ sent \in Packets /\ uart \in Bytes /\ delivered \in Packets /\ rx \in Packetizer
        /\ past \in Past /\ Stream(sent, uart, delivered, rx) /\ ~past.abort
    BY DEF TypeOK, StreamInv, Next
  <1>1. ASSUME NEW type \in Types, NEW length \in 0 .. Longest(type), Arrive(type, length)
        PROVE  Stream(sent', uart', delivered', rx')
    <2> DEFINE m == Len(sent) + 1
               p == Packet(type, length, m)
               w == <<type>>
    <2>0. type \in {2, 3, 4} /\ type \in Nat
      BY BtLinkAssumption
    <2>1. type \in {2, 3, 4} /\ length \in Nat /\ m \in Nat
      BY <2>0, <1>0, <1>1, BtLinkAssumption, LongestType DEF Packets
    <2>2. /\ sent' = Append(sent, p) /\ uart' = uart \o w \o p.bytes
          /\ delivered' = delivered /\ rx' = rx
      BY <1>1 DEF Arrive
    <2>3. w \in Bytes /\ Len(w) = 1 /\ w[1] = type
      BY <2>1 DEF Bytes
    <2> HIDE DEF m
    <2>4. /\ p.type = type /\ p.bytes \in Bytes /\ PacketLength(type, p.bytes) = length
          /\ Len(p.bytes) = PreambleSize(type) + length
      BY <2>1, PacketShape, ZenonT(30)
    <2>5. p \in [type : Nat, bytes : Bytes]
      <3>1. type \in Nat /\ length \in Nat
        BY <2>1
      <3>2. p \in [type : {type}, bytes : Bytes]
        BY <2>1, <3>1, PacketType
      <3> QED BY <3>1, <3>2
    <2> HIDE DEF p, w
    <2>6. Formed(p)
      BY <2>1, <2>4 DEF Formed, ACL, SCO, EVENT
    <2>7. Arrived(Append(sent, p), uart \o w \o p.bytes, sent, uart, p)
      BY <1>0, <2>3, <2>4, <2>5, ArriveAppends
    <2> QED BY <1>0, <2>2, <2>5, <2>6, <2>7, StreamArrive
  <1>2. ASSUME ReadType PROVE Stream(sent', uart', delivered', rx')
    <2>1. /\ rx.type = UNKNOWN /\ uart # <<>> /\ rx' = [rx EXCEPT !.type = Head(uart)]
          /\ uart' = SubSeq(uart, 1 + 1, Len(uart)) /\ sent' = sent /\ delivered' = delivered
      BY <1>2 DEF ReadType, Readable, Rest
    <2>2. Stream(sent, SubSeq(uart, 1 + 1, Len(uart)), delivered,
                 [rx EXCEPT !.type = Head(uart)])
      BY <1>0, <2>1, StreamType
    <2> QED BY <2>1, <2>2
  <1>3. ASSUME NEW n \in 1 .. 4 + MaxLength, ReadPreamble(n)
        PROVE  Stream(sent', uart', delivered', rx')
    <2> DEFINE b == rx.bytes \o SubSeq(uart, 1, n)
               h == IF Len(b) = PreambleSize(rx.type)
                    THEN [rx EXCEPT !.bytes = b, !.state = "payload",
                                    !.remaining = PacketLength(rx.type, b)]
                    ELSE [rx EXCEPT !.bytes = b]
               v == SubSeq(uart, n + 1, Len(uart))
    <2>1. /\ rx.type # UNKNOWN /\ rx.state = "preamble" /\ n \in 1 .. Len(uart)
          /\ n <= PreambleSize(rx.type) - Len(rx.bytes)
          /\ rx' = h /\ uart' = v /\ sent' = sent /\ delivered' = delivered
      BY <1>3 DEF ReadPreamble, Unread, Taken, Rest
    <2>2. Stream(sent, v, delivered, h)
      BY <1>0, <2>1, StreamPreamble
    <2> HIDE DEF h, v
    <2> QED BY <2>1, <2>2
  <1>4. ASSUME NEW n \in 1 .. 4 + MaxLength, ReadPayload(n)
        PROVE  Stream(sent', uart', delivered', rx')
    <2> DEFINE b == rx.bytes \o SubSeq(uart, 1, n)
               v == SubSeq(uart, n + 1, Len(uart))
               e == Append(delivered, [type |-> rx.type, bytes |-> b])
               h == [type |-> UNKNOWN, state |-> "preamble", bytes |-> <<>>, remaining |-> 0]
               g == [rx EXCEPT !.bytes = b, !.remaining = @ - n]
    <2>1. /\ rx.state = "payload" /\ n \in 1 .. Len(uart) /\ n <= rx.remaining
          /\ n = rx.remaining => delivered' = e /\ rx' = h
          /\ n # rx.remaining => delivered' = delivered /\ rx' = g
          /\ uart' = v /\ sent' = sent
      BY <1>4 DEF ReadPayload, Unread, Taken, Rest
    <2>2. /\ n = rx.remaining => Stream(sent, v, e, h)
          /\ n # rx.remaining => Stream(sent, v, delivered, g)
      BY <1>0, <2>1, StreamPayload
    <2> HIDE DEF e, g, h, v
    <2> QED BY <2>1, <2>2
  <1>5. ASSUME ReadNothing PROVE StreamInv'
    <2>1. /\ rx.state = "payload" /\ rx.remaining = 0
          /\ UNCHANGED <<sent, uart, rx, delivered>>
      BY <1>5 DEF ReadNothing
    <2>2. Stream(sent', uart', delivered', rx')
      BY <1>0, <2>1
    <2>3. rx'.state = "payload" /\ rx'.remaining = 0
      BY <2>1
    <2> QED BY <2>2, <2>3, StreamPrime
  <1>6. ASSUME Stream(sent', uart', delivered', rx'), past'.abort = past.abort
        PROVE  StreamInv'
    BY <1>0, <1>6, StreamPrime
  <1>7. CASE \/ \E type \in Types : \E length \in 0 .. Longest(type) : Arrive(type, length)
             \/ ReadType \/ \E n \in 1 .. 4 + MaxLength : ReadPreamble(n) \/ ReadPayload(n)
    <2>1. past' = past
      BY <1>7 DEF Arrive, ReadType, ReadPreamble, ReadPayload
    <2> QED BY <1>1, <1>2, <1>3, <1>4, <1>6, <1>7, <2>1
  <1>8. CASE \/ Loop \/ Notified \/ Expire \/ Check \/ Flag \/ Deassert \/ Disarm \/ Clear
             \/ Send(COMMAND) \/ HostStep \/ WriteFails
    <2>1. /\ UNCHANGED <<sent, uart, rx, delivered>>
          /\ past'.abort = past.abort
      BY <1>0, <1>8
         DEF Loop, Notified, Expire, Check, Flag, Deassert, Disarm, Clear, Send, HostStep, Test,
             Arm, Unflag, Assert, Begin, Write, WriteFails, Past
    <2> QED BY <1>0, <1>6, <2>1
  <1> QED BY <1>5, <1>7, <1>8 DEF Next, WatcherStep

\* However the bytes of the controller come in, its packets are handed up whole and in order,
\* and the service aborts on a packet without payload only.
THEOREM FramedCorrect == Spec => []Framed
  <1>1. Init => StreamInv
    <2> SUFFICES ASSUME Init PROVE StreamInv
      OBVIOUS
    <2>1. /\ sent = <<>> /\ uart = <<>> /\ delivered = <<>> /\ rx.type = UNKNOWN
          /\ rx.state = "preamble" /\ rx.bytes = <<>> /\ ~past.abort
      BY DEF Init
    <2> DEFINE at == [j \in {1} |-> 0]
    <2>2. Laid(at, 0, sent, uart) /\ Placed(at, 0, delivered, rx)
      BY <2>1 DEF Laid, Placed
    <2> HIDE DEF at
    <2>3. Wellformed(sent) /\ Reading(sent, delivered, rx)
      BY <2>1 DEF Wellformed, Reading, Starts
    <2> QED BY <2>1, <2>2, <2>3 DEF StreamInv, Stream
  <1>2. LinkInv /\ StreamInv /\ [Next]_vars => StreamInv'
    <2>1. ASSUME StreamInv, UNCHANGED vars PROVE StreamInv'
      <3>1. UNCHANGED <<sent, uart, delivered, rx, past>>
        BY <2>1 DEF vars
      <3>2. /\ Stream(sent', uart', delivered', rx')
            /\ past'.abort => rx'.state = "payload" /\ rx'.remaining = 0
        BY <2>1, <3>1 DEF StreamInv
      <3> QED BY <3>2, StreamPrime
    <2> QED BY <2>1, StreamStep DEF LinkInv
  <1>3. LinkInv /\ StreamInv => Framed
    <2> SUFFICES ASSUME TypeOK, StreamInv PROVE Framed
      BY DEF LinkInv
    <2>0. /\ sent \in Packets /\ delivered \in Packets /\ rx \in Packetizer
          /\ Reading(sent, delivered, rx)
      BY DEF TypeOK, StreamInv, Stream
    <2>1. IsStart(delivered, sent)
      BY <2>0, StartsIsStart DEF Packets, Reading
    <2>2. ASSUME rx.type # UNKNOWN
          PROVE  /\ Len(delivered) < Len(sent)
                 /\ rx.type = sent[Len(delivered) + 1].type
                 /\ IsStart(rx.bytes, sent[Len(delivered) + 1].bytes)
      <3> DEFINE k == Len(delivered) + 1
      <3>1. /\ Len(delivered) < Len(sent) /\ rx.type = sent[k].type
            /\ Starts(rx.bytes, sent[k].bytes) /\ rx.bytes \in Bytes /\ k \in 1 .. Len(sent)
        BY <2>0, <2>2 DEF Reading, Packetizer, Packets
      <3>2. sent[k].bytes \in Bytes
        BY <2>0, <3>1, PacketAt
      <3> HIDE DEF k
      <3>3. IsStart(rx.bytes, sent[k].bytes)
        BY <3>1, <3>2, StartsIsStart DEF Bytes
      <3> QED BY <3>1, <3>3 DEF k
    <2>3. ASSUME past.abort
          PROVE  Len(sent[Len(delivered) + 1].bytes) = PreambleSize(rx.type)
      <3>1. rx.state = "payload" /\ rx.remaining = 0 /\ rx.bytes \in Bytes
        BY <2>0, <2>3 DEF StreamInv, Packetizer
      <3>2. /\ Len(rx.bytes) + 0 = Len(sent[Len(delivered) + 1].bytes)
            /\ Len(rx.bytes) = PreambleSize(rx.type)
        BY <2>0, <3>1 DEF Reading
      <3> QED BY <3>1, <3>2 DEF Bytes
    <2> QED BY <2>1, <2>2, <2>3 DEF Framed
  <1> QED BY <1>1, <1>2, <1>3, LinkInvariant, PTL DEF Spec

=============================================================================
