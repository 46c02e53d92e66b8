----------------------------- MODULE EpoProofs -----------------------------
(***************************************************************************)
(* Proofs about the EPO downloader, for every number of pieces and of      *)
(* retries, with failing merges, calls a month apart, lost reports and     *)
(* deaths of the daemon at any point.                                      *)
(*                                                                         *)
(* The first part needs no assumption about QEPO, whose thread resets the  *)
(* counter of the loop at any moment: the types, FlagsTrue, and that the   *)
(* downloader implements EpoService.  The second part excludes QEPO        *)
(* downloads (MaxQepo = 0) and shows that a report of success can be       *)
(* relied on (OkSound).  The third part has them again, excludes calls a   *)
(* month apart, and shows that no data of an earlier day gets into the     *)
(* file (OnlyFresh).                                                       *)
(***************************************************************************)
EXTENDS EpoDownloader, TLAPS

AtWork  == {"md5", "dat", "check", "merge", "copy"}
Working == AtWork \cup {"piece"}

\* A DAT flag comes with its MD5 flag, and its file was checked or has been removed
\* since.  While the loop is running a flag means that the file is there.
Flags ==
    \A p \in Pieces :
        /\ "MD5" \in status.EPO_piece_flag[p] /\ th.pc \in Working => p \in disk.md5
        /\ "DAT" \in status.EPO_piece_flag[p] =>
             /\ "MD5" \in status.EPO_piece_flag[p]
             /\ \/ p \in disk.md5 /\ disk.dat[p] = "checked"
                \/ th.pc \notin Working /\ p \notin disk.md5 /\ disk.dat[p] = "none"

\* The pieces before n are available.
Before(n) == \A p \in Pieces : p < n => status.EPO_piece_flag[p] = Bits

\* The piece the thread is at.  The counter is the piece of the file names or was reset
\* to 0, and then the flags of piece 0 are set already: what is done to them by mistake
\* does no harm.
AtPiece ==
    /\ th.pc = "piece" => Before(th.count)
    /\ th.pc \in AtWork =>
         /\ th.count \in {0, th.name}
         /\ Before(th.name)
    /\ th.pc \in {"md5", "dat", "check"} => "DAT" \notin status.EPO_piece_flag[th.name]
    /\ th.pc = "md5" => "MD5" \notin status.EPO_piece_flag[th.name]
    /\ th.pc \in {"dat", "check"} /\ th.count = th.name =>
         "MD5" \in status.EPO_piece_flag[th.name]
    /\ th.pc \in {"merge", "copy"} /\ th.kind = "full" /\ th.count = th.name =>
         status.EPO_piece_flag[th.name] = Bits

\* There is a file once a piece was merged, unless a start of the GPS has removed it.
Begun ==
    gps.crossed # "removed" =>
        /\ th.pc \in Working /\ th.count # 0 => hal # << >>
        /\ th.pc = "copy" => hal # << >>
        /\ th.pc = "end" /\ th.ok => hal # << >>

\* The thread and the report: one download at a time.  A start of the GPS that is past its
\* check while a download is announced was crossed by it.
Handshake ==
    /\ th.pc # "idle" => main.downloading /\ main.msg = "none"
    /\ main.msg # "none" => main.downloading
    /\ gps.start # "none" /\ main.downloading => gps.crossed = "begun"

EpoInv == TypeOK /\ Flags /\ AtPiece /\ Begun /\ Handshake

\* The first n entries of the file are the first n pieces, complete and checked.
Good(n) ==
    \A i \in 1..n :
        hal[i].piece = i - 1 /\ hal[i].kind = "full" /\ hal[i].checked

\* A complete file: good entries, then perhaps the beginning of a last piece.
Sound ==
    /\ hal # << >>
    /\ \A i \in 1..Len(hal) :
         /\ hal[i].piece = i - 1
         /\ \/ hal[i].kind = "full" /\ hal[i].checked
            \/ hal[i].kind = "part" /\ i = Len(hal)

\* Without QEPO the counter is the piece, a part was fetched by this call, and the file
\* holds what the loop has done so far, unless a start of the GPS has removed it.
InStep ==
    /\ th.pc \in AtWork => th.count = th.name
    /\ th.pc = "check" => disk.dat[th.name] = "new" /\ th.ok
    /\ th.pc \in {"merge", "copy"} /\ th.kind = "part" => disk.dat[th.name] = "new" /\ th.ok

HalAt ==
    gps.crossed # "removed" =>
        /\ th.pc = "loop" => hal = << >>
        /\ th.pc \in Working \ {"copy"} => Len(hal) = th.count /\ Good(th.count)
        /\ th.pc = "copy" =>
             /\ Len(hal) = th.count + 1 /\ Good(th.count)
             /\ hal[Len(hal)].piece = th.count /\ hal[Len(hal)].kind = "torn"
             /\ th.kind = "full" => hal[Len(hal)].checked
        /\ th.pc = "end" /\ th.ok => Sound
        /\ th.pc = "end" /\ ~th.ok /\ th.count = 0 => hal = << >>
        /\ main.msg = "OK" => Sound

SoundInv == InStep /\ HalAt

----------------------------------------------------------------------------
\* The ranges of the thread's counters start at 0, and an idle thread is well typed.
LEMMA Ranges ==
    /\ NPieces \in Nat \ {0} /\ DlRetries \in Nat /\ CallRetries \in Nat /\ MaxQepo \in Nat
    /\ 0 \in Pieces /\ Pieces \subseteq 0 .. NPieces
    /\ 0 \in 0 .. NPieces /\ 0 \in 0 .. DlRetries /\ 0 \in 0 .. CallRetries /\ 0 \in 0 .. MaxQepo
    /\ Idle \in Thread
  <1>1. /\ NPieces \in Nat \ {0} /\ DlRetries \in Nat /\ CallRetries \in Nat /\ MaxQepo \in Nat
        /\ 0 \in Pieces /\ Pieces \subseteq 0 .. NPieces
        /\ 0 \in 0 .. NPieces /\ 0 \in 0 .. DlRetries /\ 0 \in 0 .. CallRetries /\ 0 \in 0 .. MaxQepo
    BY EpoAssumption DEF Pieces
  <1> QED BY <1>1 DEF Idle, Thread

\* No flags and no data are well typed, and so are the flags whose files exist.
LEMMA FlagTypes ==
    /\ NoFlags \in [Pieces -> SUBSET Bits]
    /\ NoData \in [Pieces -> {"none", "new", "checked"}]
    /\ \A f \in [Pieces -> SUBSET Bits] : Existing(f, disk) \in [Pieces -> SUBSET Bits]
  BY DEF NoFlags, NoData, Existing

\* At a piece the counter and the file names are those of a piece.
LEMMA CountRange ==
    ASSUME TypeOK, AtPiece, th.pc \in AtWork
    PROVE  th.count \in Pieces /\ th.name \in Pieces
  BY Ranges DEF TypeOK, Thread, AtPiece

\* Reading the report keeps the types.
LEMMA OnEpoDoneType == ASSUME TypeOK, OnEpoDone PROVE TypeOK'
  <1>1. << >> \in Seq(Entry)
    OBVIOUS
  <1>2. hal' \in Seq(Entry)
    <2>1. hal' \in {hal, << >>}
      BY DEF OnEpoDone
    <2> QED BY <1>1, <2>1 DEF TypeOK
  <1> QED BY <1>2 DEF TypeOK, OnEpoDone, Main

\* The QEPO thread's reset of the counter keeps the types.
LEMMA QepoUrlType == ASSUME TypeOK, QepoUrl PROVE TypeOK'
  <1>1. th.qepo + 1 \in 0 .. MaxQepo
    <2>1. th.qepo \in 0 .. MaxQepo /\ th.qepo < MaxQepo
      BY DEF TypeOK, Thread, QepoUrl
    <2> QED BY <2>1, Ranges
  <1>2. th' \in Thread
    BY <1>1, Ranges DEF TypeOK, Thread, QepoUrl
  <1> QED BY <1>2 DEF TypeOK, QepoUrl

\* The beginning of a call keeps the types.
LEMMA BeginType == ASSUME TypeOK, Begin PROVE TypeOK'
  <1>1. th' \in Thread
    BY Ranges DEF Begin, Thread
  <1>2. status' \in Status
    BY DEF TypeOK, Begin, Status
  <1>3. disk' \in Disk
    BY DEF TypeOK, Begin, Disk
  <1> QED BY <1>1, <1>2, <1>3 DEF TypeOK, Begin

\* The check of the day and of the files keeps the types.
LEMMA LoopTopType == ASSUME TypeOK, LoopTop PROVE TypeOK'
  <1>1. th' \in Thread
    BY Ranges DEF TypeOK, LoopTop, Thread
  <1>2. status' \in Status
    <2>1. CASE status.today
      <3>1. status' = [status EXCEPT !.EPO_piece_flag = Existing(@, disk)]
        BY <2>1 DEF LoopTop, NewDay
      <3>2. status \in Status /\ status.EPO_piece_flag \in [Pieces -> SUBSET Bits]
        BY DEF TypeOK, Status
      <3>3. Existing(status.EPO_piece_flag, disk) \in [Pieces -> SUBSET Bits]
        BY <3>2, FlagTypes
      <3> QED BY <3>1, <3>2, <3>3 DEF Status
    <2>2. CASE ~status.today
      <3>1. status' = [EPO_piece_flag |-> NoFlags, today |-> TRUE]
        BY <2>2 DEF LoopTop, NewDay
      <3> QED BY <3>1, FlagTypes DEF Status
    <2> QED BY <2>1, <2>2
  <1>3. disk' \in Disk
    <2>1. disk' \in {disk, Unlinked(disk)} /\ disk \in Disk
      BY DEF TypeOK, LoopTop, NewDay
    <2>2. Unlinked(disk) \in Disk
      BY <2>1, FlagTypes DEF Unlinked, Disk
    <2> QED BY <2>1, <2>2
  <1> QED BY <1>1, <1>2, <1>3 DEF TypeOK, LoopTop

\* The choice of what a piece needs keeps the types.
LEMMA PieceType == ASSUME TypeOK, Piece PROVE TypeOK'
  <1>1. th' \in Thread
    <2>1. th \in Thread
      BY DEF TypeOK
    <2>2. CASE th.count = NPieces
      BY <2>1, <2>2 DEF Piece, Thread
    <2>3. CASE th.count # NPieces
      <3>1. th.count \in Pieces
        BY <2>1, <2>3, Ranges DEF Thread, Pieces
      <3>2. [th EXCEPT !.name = th.count] \in Thread
        BY <2>1, <3>1 DEF Thread
      <3>3. LET t == [th EXCEPT !.name = th.count]
            IN  \/ th' = [t EXCEPT !.pc = "merge", !.kind = "full"]
                \/ th' = [t EXCEPT !.pc = "md5", !.tries = 0]
                \/ th' = [t EXCEPT !.pc = "dat", !.tries = 0]
        BY <2>3 DEF Piece
      <3>4. \A t \in Thread : /\ [t EXCEPT !.pc = "merge", !.kind = "full"] \in Thread
                              /\ [t EXCEPT !.pc = "md5", !.tries = 0] \in Thread
                              /\ [t EXCEPT !.pc = "dat", !.tries = 0] \in Thread
        BY Ranges DEF Thread
      <3> QED BY <3>2, <3>3, <3>4
    <2> QED BY <2>2, <2>3
  <1> QED BY <1>1 DEF TypeOK, Piece

\* Repeating a transfer, or giving up with t, keeps the thread well typed.
LEMMA AgainType ==
    ASSUME th \in Thread, NEW t \in Thread, Again(t)
    PROVE  th' \in Thread
  <1>1. CASE th.tries < DlRetries
    <2>1. th.tries + 1 \in 0 .. DlRetries
      BY <1>1, Ranges DEF Thread
    <2> QED BY <1>1, <2>1 DEF Again, Thread
  <1>2. CASE ~(th.tries < DlRetries)
    BY <1>2 DEF Again
  <1> QED BY <1>1, <1>2

\* Fetching a checksum keeps the types.
LEMMA FetchMD5Type == ASSUME TypeOK, AtPiece, FetchMD5 PROVE TypeOK'
  <1>0. th.count \in Pieces /\ th.name \in Pieces
    BY CountRange DEF FetchMD5, AtWork
  <1>1. th' \in Thread
    <2>1. CASE th' = [th EXCEPT !.pc = "dat", !.tries = 0]
      BY <2>1, Ranges DEF TypeOK, Thread
    <2>2. [th EXCEPT !.pc = "end", !.ok = @ /\ th.count # 0] \in Thread
      BY DEF TypeOK, Thread
    <2>3. CASE Again([th EXCEPT !.pc = "end", !.ok = @ /\ th.count # 0])
      BY <2>2, <2>3, AgainType DEF TypeOK
    <2> QED BY <2>1, <2>2, <2>3 DEF FetchMD5
  <1>2. status' \in Status
    BY <1>0 DEF TypeOK, FetchMD5, Status, Bits
  <1>3. disk' \in Disk
    BY <1>0 DEF TypeOK, FetchMD5, Disk
  <1> QED BY <1>1, <1>2, <1>3 DEF TypeOK, FetchMD5

\* Fetching data keeps the types.
LEMMA FetchDATType == ASSUME TypeOK, AtPiece, FetchDAT PROVE TypeOK'
  <1>0. th.count \in Pieces /\ th.name \in Pieces
    BY CountRange DEF FetchDAT, AtWork
  <1>1. th' \in Thread
    <2>1. CASE th' = [th EXCEPT !.pc = "check", !.ok = TRUE]
      BY <2>1 DEF TypeOK, Thread
    <2>2. [th EXCEPT !.pc = "end", !.ok = FALSE] \in Thread
      BY DEF TypeOK, Thread
    <2>3. CASE Again([th EXCEPT !.pc = "end", !.ok = FALSE])
      BY <2>2, <2>3, AgainType DEF TypeOK
    <2> QED BY <2>1, <2>2, <2>3 DEF FetchDAT
  <1>2. disk' \in Disk
    <2>1. CASE disk' = [disk EXCEPT !.dat[th.name] = "new", !.fresh = @ \cup {th.name}]
      BY <1>0, <2>1 DEF TypeOK, Disk
    <2>2. CASE disk' = [disk EXCEPT !.dat[th.name] = "none"]
      BY <1>0, <2>2 DEF TypeOK, Disk
    <2>3. CASE disk' = disk
      BY <2>3 DEF TypeOK
    <2> QED BY <2>1, <2>2, <2>3 DEF FetchDAT
  <1> QED BY <1>1, <1>2 DEF TypeOK, FetchDAT

\* A match of the checksum keeps the types.
LEMMA MatchType == ASSUME TypeOK, AtPiece, Match PROVE TypeOK'
  <1>0. th.count \in Pieces /\ th.name \in Pieces
    BY CountRange DEF Match, AtWork
  <1>1. th' \in Thread
    BY DEF TypeOK, Match, Thread
  <1>2. status' \in Status
    BY <1>0 DEF TypeOK, Match, Status, Bits
  <1>3. disk' \in Disk
    BY <1>0 DEF TypeOK, Match, Disk
  <1> QED BY <1>1, <1>2, <1>3 DEF TypeOK, Match

\* A mismatch keeps the types.
LEMMA MismatchType == ASSUME TypeOK, AtPiece, Mismatch PROVE TypeOK'
  <1>0. th.count \in Pieces /\ th.name \in Pieces
    BY CountRange DEF Mismatch, AtWork
  <1>1. th' \in Thread
    BY DEF TypeOK, Mismatch, Thread
  <1>2. status' \in Status
    BY <1>0 DEF TypeOK, Mismatch, Status, Bits
  <1>3. disk' \in Disk
    BY <1>0 DEF TypeOK, Mismatch, Disk
  <1> QED BY <1>1, <1>2, <1>3 DEF TypeOK, Mismatch

\* A merge adds an entry.
LEMMA MergedType ==
    ASSUME TypeOK, th.name \in Pieces, NEW k \in {"void", "torn"}
    PROVE  Merged(k) \in Seq(Entry) /\ Merged(k) # << >>
  <1> DEFINE e == [piece |-> th.name, kind |-> k, checked |-> disk.dat[th.name] = "checked",
                   fresh |-> th.name \in disk.fresh]
  <1>1. e \in Entry
    BY DEF Entry
  <1>2. << >> \in Seq(Entry) /\ hal \in Seq(Entry)
    BY DEF TypeOK
  <1> HIDE DEF e
  <1>3. \A s \in Seq(Entry) : Append(s, e) \in Seq(Entry) /\ Len(Append(s, e)) = Len(s) + 1
    BY <1>1
  <1>4. \A s \in Seq(Entry) : Append(s, e) # << >>
    BY <1>3
  <1> QED BY <1>2, <1>3, <1>4 DEF Merged, e

\* Opening the file for a merge keeps the types.
LEMMA MergeType == ASSUME TypeOK, AtPiece, Merge PROVE TypeOK'
  <1>0. th.name \in Pieces
    BY CountRange DEF Merge, AtWork
  <1>1. th' \in Thread
    <2>1. CASE th' = [th EXCEPT !.pc = "copy"]
      BY <2>1 DEF TypeOK, Thread
    <2>2. CASE th' = [th EXCEPT !.pc = "end", !.ok = FALSE]
      BY <2>2 DEF TypeOK, Thread
    <2> QED BY <2>1, <2>2 DEF Merge
  <1>2. hal' \in Seq(Entry)
    <2>1. << >> \in Seq(Entry) /\ hal \in Seq(Entry)
      BY DEF TypeOK
    <2>2. \A k \in {"void", "torn"} : Merged(k) \in Seq(Entry)
      BY <1>0, MergedType
    <2> QED BY <2>1, <2>2 DEF Merge
  <1> QED BY <1>1, <1>2 DEF TypeOK, Merge

\* Copying a piece keeps the types: only the last entry changes.
LEMMA CopyType == ASSUME TypeOK, AtPiece, Copy PROVE TypeOK'
  <1>0. th.count \in Pieces
    BY CountRange DEF Copy, AtWork
  <1>1. th' \in Thread
    <2>1. th.count + 1 \in 0 .. NPieces
      BY <1>0, Ranges DEF Pieces
    <2>2. \/ th' = [th EXCEPT !.pc = "end"]
          \/ th' = [th EXCEPT !.pc = "piece", !.count = th.count + 1]
      BY DEF Copy, AfterCopy
    <2> QED BY <2>1, <2>2 DEF TypeOK, Thread
  <1>2. hal' \in Seq(Entry)
    <2>0. CASE hal = << >>
      BY <2>0 DEF TypeOK, Copy
    <2> SUFFICES ASSUME hal # << >> PROVE hal' \in Seq(Entry)
      BY <2>0
    <2>1. hal \in Seq(Entry) /\ th.kind \in {"full", "part"}
      BY DEF TypeOK, Thread
    <2>2. Len(hal) \in 1 .. Len(hal)
      BY <2>1
    <2>3. [hal[Len(hal)] EXCEPT !.kind = IF @ = "torn" THEN th.kind ELSE @] \in Entry
      <3>1. hal[Len(hal)] \in Entry
        BY <2>1, <2>2
      <3>2. ASSUME NEW e \in Entry
            PROVE  [e EXCEPT !.kind = IF @ = "torn" THEN th.kind ELSE @] \in Entry
        BY <2>1 DEF Entry
      <3> QED BY <3>1, <3>2
    <2> QED BY <2>1, <2>2, <2>3 DEF Copy
  <1> QED BY <1>1, <1>2 DEF TypeOK, Copy

\* The report keeps the types.
LEMMA FinishType == ASSUME TypeOK, Finish PROVE TypeOK'
  <1>1. th' \in Thread
    BY DEF TypeOK, Finish, Report, Thread
  <1>2. main' \in Main
    BY DEF TypeOK, Finish, Report, Main
  <1>3. disk' \in Disk
    BY FlagTypes DEF TypeOK, Finish, Unlinked, Disk
  <1> QED BY <1>1, <1>2, <1>3 DEF TypeOK, Finish

\* A retry of the call keeps the types: dl_retry_cnt stays within its bound.
LEMMA RetryType == ASSUME TypeOK, Retry PROVE TypeOK'
  <1>1. th.retry + 1 \in 0 .. CallRetries
    <2>1. th.retry \in 0 .. CallRetries /\ th.retry < CallRetries
      BY DEF TypeOK, Thread, Retry
    <2> QED BY <2>1, Ranges
  <1>2. th' \in Thread
    BY <1>1 DEF TypeOK, Thread, Retry
  <1> QED BY <1>2 DEF TypeOK, Retry

\* Starting a download: there is no other, and no report on its way.
LEMMA TriggerInv == ASSUME EpoInv, Trigger PROVE EpoInv'
  <1>1. TypeOK'
    BY FlagTypes DEF EpoInv, TypeOK, Status, Thread, Main, Gps, Trigger
  <1>2. Flags'
    BY DEF EpoInv, TypeOK, Status, Disk, Thread, Flags, Working, AtWork, Trigger
  <1>3. AtPiece'
    BY DEF EpoInv, TypeOK, Status, Disk, Thread, AtPiece, AtWork, Trigger
  <1>4. Begun'
    BY DEF EpoInv, TypeOK, Thread, Begun, Working, AtWork, Trigger
  <1>5. Handshake'
    BY DEF EpoInv, TypeOK, Thread, Main, Gps, Handshake, Trigger
  <1> QED BY <1>1, <1>2, <1>3, <1>4, <1>5 DEF EpoInv

\* The main thread reads the report when the downloader is idle.
LEMMA OnEpoDoneInv == ASSUME EpoInv, OnEpoDone PROVE EpoInv'
  <1>1. TypeOK'
    BY OnEpoDoneType DEF EpoInv
  <1>2. Flags'
    BY DEF EpoInv, TypeOK, Status, Disk, Thread, Flags, OnEpoDone
  <1>3. AtPiece'
    BY DEF EpoInv, TypeOK, Status, Disk, Thread, AtPiece, Before, OnEpoDone
  <1>4. Begun'
    <2>1. th' = th /\ th.pc = "idle"
      BY DEF EpoInv, TypeOK, Main, Handshake, OnEpoDone
    <2> QED BY <2>1 DEF Begun, Working, AtWork
  <1>5. Handshake'
    BY DEF EpoInv, TypeOK, Thread, Main, Handshake, OnEpoDone
  <1> QED BY <1>1, <1>2, <1>3, <1>4, <1>5 DEF EpoInv

\* A start of the GPS removes the file only while there is no download, or was crossed by one.
LEMMA EpoAtStartInv == ASSUME EpoInv, EpoAtStart PROVE EpoInv'
  <1> USE DEF EpoAtStart, EpoCheck, EpoInject, EpoUnlink
  <1>0. /\ gps \in Gps /\ gps' \in Gps /\ hal' \in {hal, << >>}
        /\ UNCHANGED <<status, disk, th, main>>
    BY DEF EpoInv, TypeOK, Gps
  <1>1. TypeOK'
    <2>1. << >> \in Seq(Entry)
      OBVIOUS
    <2>2. hal' \in Seq(Entry)
      BY <1>0, <2>1 DEF EpoInv, TypeOK
    <2> QED BY <1>0, <2>2 DEF EpoInv, TypeOK
  <1>2. Flags' /\ AtPiece'
    BY <1>0 DEF EpoInv, Flags, AtPiece, Before
  <1>3. gps.crossed = "removed" => gps'.crossed = "removed"
    BY <1>0 DEF Gps
  <1>4. Begun'
    <2>1. CASE hal' = hal
      BY <1>0, <1>3, <2>1 DEF EpoInv, Begun
    <2>2. CASE EpoUnlink /\ main.downloading
      BY <1>0, <2>2 DEF EpoInv, Handshake, Begun
    <2>3. CASE ~main.downloading
      BY <1>0, <2>3 DEF EpoInv, Handshake, Begun, Working, AtWork
    <2> QED BY <2>1, <2>2, <2>3 DEF EpoInv, TypeOK, Main
  <1>5. Handshake'
    BY <1>0 DEF EpoInv, TypeOK, Main, Gps, Handshake
  <1> QED BY <1>1, <1>2, <1>4, <1>5 DEF EpoInv

\* After a death the flags are gone; what files remain does not matter.
LEMMA DieInv == ASSUME EpoInv, Die PROVE EpoInv'
  <1>1. TypeOK'
    BY Ranges, FlagTypes DEF EpoInv, TypeOK, Status, Thread, Main, Gps, Die
  <1>2. Flags'
    BY DEF EpoInv, TypeOK, Status, Disk, Thread, Flags, Die, NoFlags
  <1>3. AtPiece'
    BY DEF EpoInv, TypeOK, Status, Disk, Thread, AtPiece, AtWork, Die, Idle
  <1>4. Begun'
    BY DEF EpoInv, TypeOK, Thread, Begun, Die, Idle
  <1>5. Handshake'
    BY DEF EpoInv, TypeOK, Thread, Main, Handshake, Die, Idle
  <1> QED BY <1>1, <1>2, <1>3, <1>4, <1>5 DEF EpoInv

\* The reset of the counter leaves it at a piece whose flags are set.
LEMMA QepoUrlInv == ASSUME EpoInv, QepoUrl PROVE EpoInv'
  <1>1. TypeOK'
    BY QepoUrlType DEF EpoInv
  <1>2. Flags'
    BY DEF EpoInv, TypeOK, Status, Disk, Thread, Flags, QepoUrl
  <1>3. AtPiece'
    <2>1. /\ th'.pc = th.pc /\ th'.name = th.name /\ th'.kind = th.kind /\ th'.count = 0
          /\ status' = status
      BY DEF EpoInv, TypeOK, Thread, QepoUrl
    <2>2. Before(0)' /\ (Before(th.name)' <=> Before(th.name))
      BY <2>1, Ranges DEF Before, Pieces
    <2>3. th.pc \in AtWork /\ th.name = 0 => th.count = 0
      BY DEF EpoInv, AtPiece
    <2> QED BY <2>1, <2>2, <2>3 DEF EpoInv, AtPiece, AtWork, Before
  <1>4. Begun'
    BY DEF EpoInv, TypeOK, Thread, Begun, QepoUrl
  <1>5. Handshake'
    BY DEF EpoInv, TypeOK, Thread, Main, Handshake, QepoUrl
  <1> QED BY <1>1, <1>2, <1>3, <1>4, <1>5 DEF EpoInv

\* A call begins with no EPOHAL.DAT.
LEMMA BeginInv == ASSUME EpoInv, Begin PROVE EpoInv'
  <1>1. TypeOK'
    BY BeginType DEF EpoInv
  <1>2. Flags'
    BY DEF EpoInv, TypeOK, Status, Disk, Thread, Flags, Working, AtWork, Begin
  <1>3. AtPiece'
    BY DEF EpoInv, TypeOK, Status, Disk, Thread, AtPiece, AtWork, Begin
  <1>4. Begun'
    BY DEF EpoInv, TypeOK, Thread, Begun, Begin, Idle
  <1>5. Handshake'
    BY DEF EpoInv, TypeOK, Thread, Main, Handshake, Begin
  <1> QED BY <1>1, <1>2, <1>3, <1>4, <1>5 DEF EpoInv

\* Flags that survive the check of the files come with a checked file.
LEMMA LoopTopInv == ASSUME EpoInv, LoopTop PROVE EpoInv'
  <1>1. TypeOK'
    BY LoopTopType DEF EpoInv
  <1>2. Flags'
    <2>1. th.pc \notin Working
      BY DEF LoopTop, Working, AtWork
    <2>2. CASE status.today
      <3>1. /\ disk' = disk
            /\ status'.EPO_piece_flag = Existing(status.EPO_piece_flag, disk)
        BY <2>2 DEF EpoInv, TypeOK, Status, LoopTop, NewDay
      <3>2. \A p \in Pieces : "MD5" \in status'.EPO_piece_flag[p] =>
                "MD5" \in status.EPO_piece_flag[p] /\ p \in disk.md5
        BY <3>1 DEF Existing
      <3>3. \A p \in Pieces : "DAT" \in status'.EPO_piece_flag[p] =>
                "DAT" \in status.EPO_piece_flag[p] /\ disk.dat[p] # "none"
        BY <3>1 DEF Existing
      <3>4. \A p \in Pieces : "MD5" \in status.EPO_piece_flag[p] /\ p \in disk.md5 =>
                "MD5" \in status'.EPO_piece_flag[p]
        BY <3>1 DEF Existing
      <3> QED BY <2>1, <3>1, <3>2, <3>3, <3>4 DEF EpoInv, Flags
    <2>3. CASE ~status.today
      <3>1. status'.EPO_piece_flag = NoFlags
        BY <2>3 DEF LoopTop, NewDay
      <3> QED BY <3>1 DEF Flags, NoFlags
    <2> QED BY <2>2, <2>3
  <1>3. AtPiece'
    <2>1. th'.pc = "piece" /\ th'.count = 0
      BY DEF EpoInv, TypeOK, Thread, LoopTop
    <2>2. \A p \in Pieces : ~(p < 0)
      BY DEF Pieces
    <2> QED BY <2>1, <2>2 DEF AtPiece, Before, AtWork
  <1>4. Begun'
    BY DEF EpoInv, TypeOK, Thread, Begun, LoopTop
  <1>5. Handshake'
    BY DEF EpoInv, TypeOK, Thread, Main, Handshake, LoopTop
  <1> QED BY <1>1, <1>2, <1>3, <1>4, <1>5 DEF EpoInv

\* A piece whose two flags are set is merged as it is, another one is fetched.
LEMMA PieceInv == ASSUME EpoInv, Piece PROVE EpoInv'
  <1>1. TypeOK'
    BY PieceType DEF EpoInv
  <1>2. Flags'
    <2>1. th.pc \in Working /\ status' = status /\ disk' = disk
      BY DEF Piece, Working, AtWork
    <2> QED BY <2>1 DEF EpoInv, Flags
  <1>3. AtPiece'
    <2>1. status' = status /\ th.pc = "piece" /\ Before(th.count)
      BY DEF EpoInv, AtPiece, Piece
    <2>2. CASE th.count = NPieces
      <3>1. th'.pc = "end"
        BY <2>2 DEF EpoInv, TypeOK, Thread, Piece
      <3> QED BY <3>1 DEF AtPiece, AtWork
    <2>3. CASE th.count # NPieces
      <3>1. th'.count = th.count /\ th'.name = th.count
        BY <2>3 DEF EpoInv, TypeOK, Thread, Piece
      <3>2. th.count \in Pieces
        <4>1. th.count \in 0 .. NPieces
          BY DEF EpoInv, TypeOK, Thread
        <4> QED BY <2>3, <4>1, Ranges DEF Pieces
      <3>3. LET flag == status.EPO_piece_flag[th.count]
            IN  \/ th'.pc = "merge" /\ flag = Bits
                \/ th'.pc = "md5" /\ "MD5" \notin flag
                \/ th'.pc = "dat" /\ "MD5" \in flag /\ flag # Bits
        BY <2>3 DEF EpoInv, TypeOK, Thread, Piece
      <3>4. LET flag == status.EPO_piece_flag[th.count]
            IN  /\ "MD5" \notin flag => "DAT" \notin flag
                /\ "MD5" \in flag /\ flag # Bits => "DAT" \notin flag
        BY <3>2 DEF EpoInv, TypeOK, Status, Flags, Bits
      <3>5. \A p \in Pieces : p < th'.name => status'.EPO_piece_flag[p] = Bits
        BY <2>1, <3>1 DEF Before
      <3> QED BY <2>1, <3>1, <3>3, <3>4, <3>5 DEF AtPiece, Before
    <2> QED BY <2>2, <2>3
  <1>4. Begun'
    BY Ranges DEF EpoInv, TypeOK, Thread, Begun, Working, Piece
  <1>5. Handshake'
    BY DEF EpoInv, TypeOK, Thread, Main, Handshake, Piece
  <1> QED BY <1>1, <1>2, <1>3, <1>4, <1>5 DEF EpoInv

\* Fetching a checksum: it is there, is tried again, or ends the call.  A call that ends
\* well here has merged a piece before (th.count # 0).
LEMMA FetchMD5Inv == ASSUME EpoInv, FetchMD5 PROVE EpoInv'
  <1>1. TypeOK'
    BY FetchMD5Type DEF EpoInv
  <1>2. th.count \in Pieces /\ th.name \in Pieces
    BY CountRange DEF EpoInv, FetchMD5, AtWork
  <1>3. UNCHANGED <<hal, main, gps>>
    BY DEF FetchMD5
  <1>4. CASE /\ th.pc = "md5"
             /\ disk' = [disk EXCEPT !.md5 = @ \cup {th.name}]
             /\ status' = [status EXCEPT !.EPO_piece_flag[th.count] = @ \cup {"MD5"}]
             /\ th' = [th EXCEPT !.pc = "dat", !.tries = 0]
    <2>1. Flags'
      BY <1>2, <1>3, <1>4
         DEF EpoInv, TypeOK, Status, Disk, Thread, Flags, AtPiece, Before, Working, AtWork,
         Bits
    <2>2. AtPiece'
      <3>1. th'.pc = "dat" /\ th'.count = th.count /\ th'.name = th.name
        BY <1>4 DEF EpoInv, TypeOK, Thread
      <3>2. \A p \in Pieces : status'.EPO_piece_flag[p] =
                IF p = th.count THEN status.EPO_piece_flag[p] \cup {"MD5"} ELSE status.EPO_piece_flag[p]
        BY <1>2, <1>4 DEF EpoInv, TypeOK, Status
      <3>3. /\ th.count \in {0, th.name} /\ Before(th.name)
            /\ "DAT" \notin status.EPO_piece_flag[th.name]
        BY <1>4 DEF EpoInv, AtPiece, AtWork
      <3>4. Before(th.name)'
        BY <3>1, <3>2, <3>3 DEF Before, Bits
      <3> QED BY <1>2, <3>1, <3>2, <3>3, <3>4 DEF AtPiece, Before
    <2>3. Begun'
      BY <1>2, <1>3, <1>4 DEF EpoInv, TypeOK, Thread, Begun, Working, AtWork
    <2>4. Handshake'
      BY <1>3, <1>4 DEF EpoInv, TypeOK, Thread, Main, Handshake
    <2> QED BY <1>1, <2>1, <2>2, <2>3, <2>4 DEF EpoInv
  <1>5. CASE /\ th.pc = "md5"
             /\ disk' = [disk EXCEPT !.md5 = @ \ {th.name}]
             /\ status' = status
             /\ th' = [th EXCEPT !.tries = @ + 1]
    <2>1. Flags'
      BY <1>2, <1>3, <1>5 DEF EpoInv, TypeOK, Status, Disk, Thread, Flags, AtPiece
    <2>2. AtPiece'
      BY <1>2, <1>3, <1>5 DEF EpoInv, TypeOK, Status, Disk, Thread, AtPiece, Before
    <2>3. Begun'
      BY <1>2, <1>3, <1>5 DEF EpoInv, TypeOK, Thread, Begun
    <2>4. Handshake'
      BY <1>3, <1>5 DEF EpoInv, TypeOK, Thread, Main, Handshake
    <2> QED BY <1>1, <2>1, <2>2, <2>3, <2>4 DEF EpoInv
  <1>6. CASE /\ th.pc = "md5"
             /\ disk' \in {disk, [disk EXCEPT !.md5 = @ \ {th.name}]}
             /\ status' = status
             /\ th' = [th EXCEPT !.pc = "end", !.ok = @ /\ th.count # 0]
    <2>1. Flags'
      BY <1>2, <1>3, <1>6
         DEF EpoInv, TypeOK, Status, Disk, Thread, Flags, AtPiece, Working, AtWork
    <2>2. AtPiece'
      BY <1>2, <1>3, <1>6 DEF EpoInv, TypeOK, Status, Disk, Thread, AtPiece, AtWork
    <2>3. Begun'
      BY <1>2, <1>3, <1>6 DEF EpoInv, TypeOK, Thread, Begun, Working, AtWork
    <2>4. Handshake'
      BY <1>3, <1>6 DEF EpoInv, TypeOK, Thread, Main, Handshake
    <2> QED BY <1>1, <2>1, <2>2, <2>3, <2>4 DEF EpoInv
  <1> QED BY <1>4, <1>5, <1>6 DEF FetchMD5, Again

\* Fetching data: what was fetched is not trusted before its check.
LEMMA FetchDATInv == ASSUME EpoInv, FetchDAT PROVE EpoInv'
  <1>1. TypeOK'
    BY FetchDATType DEF EpoInv
  <1>2. th.count \in Pieces /\ th.name \in Pieces
    BY CountRange DEF EpoInv, FetchDAT, AtWork
  <1>3. UNCHANGED <<status, hal, main, gps>>
    BY DEF FetchDAT
  <1>4. CASE /\ th.pc = "dat"
             /\ disk' = [disk EXCEPT !.dat[th.name] = "new", !.fresh = @ \cup {th.name}]
             /\ th' = [th EXCEPT !.pc = "check", !.ok = TRUE]
    <2>1. Flags'
      BY <1>2, <1>3, <1>4
         DEF EpoInv, TypeOK, Status, Disk, Thread, Flags, AtPiece, Working, AtWork
    <2>2. AtPiece'
      BY <1>2, <1>3, <1>4 DEF EpoInv, TypeOK, Status, Disk, Thread, AtPiece, Before, AtWork
    <2>3. Begun'
      BY <1>2, <1>3, <1>4 DEF EpoInv, TypeOK, Thread, Begun, Working, AtWork
    <2>4. Handshake'
      BY <1>3, <1>4 DEF EpoInv, TypeOK, Thread, Main, Handshake
    <2> QED BY <1>1, <2>1, <2>2, <2>3, <2>4 DEF EpoInv
  <1>5. CASE /\ th.pc = "dat"
             /\ disk' = [disk EXCEPT !.dat[th.name] = "none"]
             /\ th' = [th EXCEPT !.tries = @ + 1]
    <2>1. Flags'
      BY <1>2, <1>3, <1>5 DEF EpoInv, TypeOK, Status, Disk, Thread, Flags, AtPiece
    <2>2. AtPiece'
      BY <1>2, <1>3, <1>5 DEF EpoInv, TypeOK, Status, Disk, Thread, AtPiece, Before
    <2>3. Begun'
      BY <1>2, <1>3, <1>5 DEF EpoInv, TypeOK, Thread, Begun
    <2>4. Handshake'
      BY <1>3, <1>5 DEF EpoInv, TypeOK, Thread, Main, Handshake
    <2> QED BY <1>1, <2>1, <2>2, <2>3, <2>4 DEF EpoInv
  <1>6. CASE /\ th.pc = "dat"
             /\ disk' \in {disk, [disk EXCEPT !.dat[th.name] = "none"]}
             /\ th' = [th EXCEPT !.pc = "end", !.ok = FALSE]
    <2>1. Flags'
      <3>1. "DAT" \notin status.EPO_piece_flag[th.name] /\ th'.pc = "end"
        BY <1>6 DEF EpoInv, TypeOK, Thread, AtPiece
      <3>2. disk'.md5 = disk.md5 /\ \A p \in Pieces : p # th.name => disk'.dat[p] = disk.dat[p]
        BY <1>2, <1>6 DEF EpoInv, TypeOK, Disk
      <3> QED BY <1>3, <1>6, <3>1, <3>2 DEF EpoInv, Flags, Working, AtWork
    <2>2. AtPiece'
      BY <1>2, <1>3, <1>6 DEF EpoInv, TypeOK, Status, Disk, Thread, AtPiece, AtWork
    <2>3. Begun'
      BY <1>2, <1>3, <1>6 DEF EpoInv, TypeOK, Thread, Begun, Working, AtWork
    <2>4. Handshake'
      BY <1>3, <1>6 DEF EpoInv, TypeOK, Thread, Main, Handshake
    <2> QED BY <1>1, <2>1, <2>2, <2>3, <2>4 DEF EpoInv
  <1> QED BY <1>4, <1>5, <1>6 DEF FetchDAT, Again

\* A match makes the data checked.
LEMMA MatchInv == ASSUME EpoInv, Match PROVE EpoInv'
  <1>1. TypeOK'
    BY MatchType DEF EpoInv
  <1>2. /\ th.pc = "check" /\ th.count \in Pieces /\ th.name \in Pieces
        /\ th'.pc = "merge" /\ th'.count = th.count /\ th'.name = th.name
        /\ disk'.md5 = disk.md5
    BY CountRange DEF EpoInv, TypeOK, Thread, Disk, Match, AtWork
  <1>3. \A p \in Pieces :
            /\ disk'.dat[p] = IF p = th.name THEN "checked" ELSE disk.dat[p]
            /\ status'.EPO_piece_flag[p] = IF p = th.count THEN status.EPO_piece_flag[p] \cup {"DAT"}
                                                           ELSE status.EPO_piece_flag[p]
    BY <1>2 DEF EpoInv, TypeOK, Disk, Status, Match
  <1>4. /\ th.count \in {0, th.name} /\ Before(th.name)
        /\ "DAT" \notin status.EPO_piece_flag[th.name]
        /\ th.count = th.name => "MD5" \in status.EPO_piece_flag[th.name]
    BY <1>2 DEF EpoInv, AtPiece, AtWork
  <1>5. th.count # th.name => status.EPO_piece_flag[th.count] = Bits
    BY <1>2, <1>4 DEF Before, Pieces
  <1>6. Flags'
    <2> SUFFICES ASSUME NEW p \in Pieces
                 PROVE  /\ "MD5" \in status'.EPO_piece_flag[p] => p \in disk'.md5
                        /\ "DAT" \in status'.EPO_piece_flag[p] =>
                             /\ "MD5" \in status'.EPO_piece_flag[p]
                             /\ p \in disk'.md5 /\ disk'.dat[p] = "checked"
      BY DEF Flags
    <2>1. /\ "MD5" \in status.EPO_piece_flag[p] => p \in disk.md5
          /\ "DAT" \in status.EPO_piece_flag[p] =>
               /\ "MD5" \in status.EPO_piece_flag[p]
               /\ p \in disk.md5 /\ disk.dat[p] = "checked"
      BY <1>2 DEF EpoInv, Flags, Working, AtWork
    <2>2. CASE p = th.count
      BY <1>2, <1>3, <1>4, <1>5, <2>1, <2>2 DEF Bits
    <2>3. CASE p # th.count
      BY <1>2, <1>3, <1>4, <2>1, <2>3
    <2> QED BY <2>2, <2>3
  <1>7. AtPiece'
    <2>1. Before(th.name)'
      BY <1>2, <1>3, <1>4 DEF Before, Bits
    <2>2. th.count = th.name => status'.EPO_piece_flag[th.name] = Bits
      <3>1. status'.EPO_piece_flag[th.name] \in SUBSET Bits
        BY <1>1, <1>2 DEF TypeOK, Status
      <3>2. th.count = th.name => {"MD5", "DAT"} \subseteq status'.EPO_piece_flag[th.name]
        BY <1>2, <1>3, <1>4
      <3> QED BY <3>1, <3>2 DEF Bits
    <2> QED BY <1>2, <1>4, <2>1, <2>2 DEF AtPiece, AtWork, Before
  <1>8. Begun'
    BY <1>2 DEF EpoInv, Begun, Working, AtWork, Match
  <1>9. Handshake'
    BY <1>2 DEF EpoInv, Handshake, Match
  <1> QED BY <1>1, <1>6, <1>7, <1>8, <1>9 DEF EpoInv

\* Data with a good beginning is merged as a part and not flagged.
LEMMA PrefixInv == ASSUME EpoInv, Prefix PROVE EpoInv'
  <1>1. TypeOK'
    BY FlagTypes DEF EpoInv, TypeOK, Status, Thread, Main, Prefix
  <1>2. Flags'
    BY DEF EpoInv, TypeOK, Status, Disk, Thread, Flags, Working, AtWork, Prefix
  <1>3. AtPiece'
    BY DEF EpoInv, TypeOK, Status, Disk, Thread, AtPiece, Before, AtWork, Prefix
  <1>4. Begun'
    BY DEF EpoInv, TypeOK, Thread, Begun, Working, AtWork, Prefix
  <1>5. Handshake'
    BY DEF EpoInv, TypeOK, Thread, Main, Handshake, Prefix
  <1> QED BY <1>1, <1>2, <1>3, <1>4, <1>5 DEF EpoInv

\* A mismatch forgets the piece and fails the call.
LEMMA MismatchInv == ASSUME EpoInv, Mismatch PROVE EpoInv'
  <1>1. TypeOK'
    BY MismatchType DEF EpoInv
  <1>2. Flags'
    <2>1. th.count \in Pieces /\ th.name \in Pieces /\ th.pc \in Working
      BY CountRange DEF EpoInv, Mismatch, Working, AtWork
    <2>2. th'.pc = "end" /\ th'.pc \notin Working
      BY DEF EpoInv, TypeOK, Thread, Mismatch, Working, AtWork
    <2>3. \A p \in Pieces :
             status'.EPO_piece_flag[p] = IF p = th.count THEN {} ELSE status.EPO_piece_flag[p]
      BY <2>1 DEF EpoInv, TypeOK, Status, Mismatch
    <2>4. \A p \in Pieces : IF p = th.name THEN p \notin disk'.md5 /\ disk'.dat[p] = "none"
                            ELSE (p \in disk'.md5 <=> p \in disk.md5) /\ disk'.dat[p] = disk.dat[p]
      BY <2>1 DEF EpoInv, TypeOK, Disk, Mismatch
    <2> QED BY <2>1, <2>2, <2>3, <2>4 DEF EpoInv, Flags
  <1>3. AtPiece'
    BY DEF EpoInv, TypeOK, Status, Disk, Thread, AtPiece, AtWork, Mismatch
  <1>4. Begun'
    BY DEF EpoInv, TypeOK, Thread, Begun, Working, AtWork, Mismatch
  <1>5. Handshake'
    BY DEF EpoInv, TypeOK, Thread, Main, Handshake, Mismatch
  <1> QED BY <1>1, <1>2, <1>3, <1>4, <1>5 DEF EpoInv

\* A merge begins the file or goes on with it, or fails the call.
LEMMA MergeInv == ASSUME EpoInv, Merge PROVE EpoInv'
  <1>1. TypeOK'
    BY MergeType DEF EpoInv
  <1>2. Flags'
    BY DEF EpoInv, TypeOK, Status, Disk, Thread, Flags, Working, AtWork, Merge
  <1>3. AtPiece'
    <2>1. /\ th.pc = "merge" /\ status' = status /\ th'.pc \in {"copy", "end"}
          /\ th'.count = th.count /\ th'.name = th.name /\ th'.kind = th.kind
      BY DEF EpoInv, TypeOK, Thread, Merge
    <2> QED BY <2>1 DEF EpoInv, AtPiece, AtWork, Before
  <1>4. Begun'
    <2>1. /\ th.pc = "merge" /\ th'.count = th.count
          /\ th'.pc = "copy" \/ (th'.pc = "end" /\ ~th'.ok)
      BY DEF EpoInv, TypeOK, Thread, Merge
    <2>2. CASE th'.pc = "copy"
      <3>1. th.name \in Pieces /\ TypeOK
        BY <2>1, CountRange DEF EpoInv, AtWork
      <3>2. \A k \in {"void", "torn"} : Merged(k) # << >>
        BY <3>1, MergedType
      <3>3. hal' # << >>
        BY <2>2, <3>2 DEF EpoInv, TypeOK, Thread, Merge
      <3> QED BY <3>3 DEF Begun
    <2>3. CASE th'.pc = "end" /\ ~th'.ok
      BY <2>3 DEF Begun, Working, AtWork
    <2> QED BY <2>1, <2>2, <2>3
  <1>5. Handshake'
    BY DEF EpoInv, TypeOK, Thread, Main, Handshake, Merge
  <1> QED BY <1>1, <1>2, <1>3, <1>4, <1>5 DEF EpoInv

\* After a copy there is a file, and the pieces before the next one are available.
LEMMA CopyInv == ASSUME EpoInv, Copy PROVE EpoInv'
  <1>1. TypeOK'
    BY CopyType DEF EpoInv
  <1>2. Flags'
    BY DEF EpoInv, TypeOK, Status, Disk, Thread, Flags, Working, AtWork, Copy
  <1>3. AtPiece'
    <2>1. th.pc = "copy" /\ th.count \in Pieces /\ th.name \in Pieces /\ status' = status
      BY CountRange DEF EpoInv, Copy, AtWork
    <2>2. CASE th.kind = "part"
      <3>1. th'.pc = "end"
        BY <2>2 DEF EpoInv, TypeOK, Thread, Copy, AfterCopy
      <3> QED BY <3>1 DEF AtPiece, AtWork
    <2>3. CASE th.kind = "full"
      <3>1. th'.pc = "piece" /\ th'.count = th.count + 1
        BY <2>3 DEF EpoInv, TypeOK, Thread, Copy, AfterCopy
      <3>2. /\ th.count \in {0, th.name} /\ Before(th.name)
            /\ th.count = th.name => status.EPO_piece_flag[th.name] = Bits
        BY <2>1, <2>3 DEF EpoInv, AtPiece, AtWork
      <3>3. Before(th.count + 1)
        BY <2>1, <3>2 DEF Before, Pieces
      <3> QED BY <2>1, <3>1, <3>3 DEF AtPiece, AtWork, Before
    <2> QED BY <2>2, <2>3 DEF EpoInv, TypeOK, Thread
  <1>4. Begun'
    BY DEF EpoInv, TypeOK, Thread, Begun, Copy
  <1>5. Handshake'
    BY DEF EpoInv, TypeOK, Thread, Main, Handshake, Copy
  <1> QED BY <1>1, <1>2, <1>3, <1>4, <1>5 DEF EpoInv

\* A report ends the call.
LEMMA FinishInv == ASSUME EpoInv, Finish PROVE EpoInv'
  <1>1. TypeOK'
    BY FinishType DEF EpoInv
  <1>2. Flags'
    BY DEF EpoInv, TypeOK, Status, Disk, Thread, Flags, Working, AtWork, Finish,
       Report, Unlinked, NoData
  <1>3. AtPiece'
    BY DEF EpoInv, TypeOK, Status, Disk, Thread, AtPiece, AtWork, Finish, Report
  <1>4. Begun'
    BY DEF EpoInv, TypeOK, Thread, Begun, Working, AtWork, Finish, Report
  <1>5. Handshake'
    BY DEF EpoInv, TypeOK, Thread, Main, Handshake, Finish, Report
  <1> QED BY <1>1, <1>2, <1>3, <1>4, <1>5 DEF EpoInv

\* A retry begins the loop again.
LEMMA RetryInv == ASSUME EpoInv, Retry PROVE EpoInv'
  <1>1. TypeOK'
    BY RetryType DEF EpoInv
  <1>2. Flags'
    BY DEF EpoInv, TypeOK, Status, Disk, Thread, Flags, Working, AtWork, Retry
  <1>3. AtPiece'
    BY DEF EpoInv, TypeOK, Status, Disk, Thread, AtPiece, AtWork, Retry
  <1>4. Begun'
    BY DEF EpoInv, TypeOK, Thread, Begun, Retry
  <1>5. Handshake'
    BY DEF EpoInv, TypeOK, Thread, Main, Handshake, Retry
  <1> QED BY <1>1, <1>2, <1>3, <1>4, <1>5 DEF EpoInv

----------------------------------------------------------------------------
\* The inductive invariant holds in the beginning ...
LEMMA EpoInit == Init => EpoInv
  <1> SUFFICES ASSUME Init PROVE EpoInv
    OBVIOUS
  <1>1. TypeOK
    BY Ranges, FlagTypes DEF Init, TypeOK, Status, Disk, Main, Gps
  <1>2. Flags /\ AtPiece /\ Begun /\ Handshake
    BY DEF Init, Flags, AtPiece, Begun, Handshake, AtWork, Idle, NoFlags
  <1> QED BY <1>1, <1>2 DEF EpoInv

\* ... every step keeps it ...
LEMMA EpoStep == EpoInv /\ [Next]_vars => EpoInv'
  <1>1. EpoInv /\ Next => EpoInv'
    BY TriggerInv, OnEpoDoneInv, EpoAtStartInv, DieInv, QepoUrlInv, BeginInv, LoopTopInv,
       PieceInv, FetchMD5Inv,
       FetchDATInv, MatchInv, PrefixInv, MismatchInv, MergeInv, CopyInv, FinishInv, RetryInv
       DEF Next, DownloaderStep
  <1>2. ASSUME EpoInv, UNCHANGED vars PROVE EpoInv'
    BY <1>2 DEF EpoInv, TypeOK, Flags, AtPiece, Before, Begun, Handshake, vars
  <1> QED BY <1>1, <1>2

\* ... and so it always holds.
LEMMA EpoAlways == Spec => []EpoInv
  BY EpoInit, EpoStep, PTL DEF Spec

\* The variables keep their types: the file counter, the retry counters and the flags
\* of epo.c stay within their bounds, also when QEPO resets the counter.
THEOREM EpoTypeCorrect == Spec => []TypeOK
  <1>1. EpoInv => TypeOK
    BY DEF EpoInv
  <1> QED BY <1>1, EpoAlways, PTL

\* The flags of epo_status never vouch for data that was not checked, also when the
\* QEPO thread makes the downloader set the flags of another piece.
THEOREM FlagsCorrect == Spec => []FlagsTrue
  <1>1. EpoInv => FlagsTrue
    BY DEF EpoInv, Flags, FlagsTrue, Working, AtWork
  <1> QED BY <1>1, EpoAlways, PTL

\* The downloader implements EpoService: epo.c's pieces, flags and retries give the
\* main thread one download at a time and a file behind every report of success, which only
\* a start of the GPS can have removed whose check the download's begin has followed.
THEOREM EpoRefines == Spec => HonoursEpo
  <1>1. Init => Service!Init
    BY DEF Init, Service!Init, Idle
  <1>2. EpoInv /\ [Next]_vars => [Service!Next]_(Service!vars)
    <2> SUFFICES ASSUME EpoInv, [Next]_vars
                 PROVE  Service!Next \/ UNCHANGED Service!vars
      OBVIOUS
    <2>0. main \in Main /\ th \in Thread /\ gps \in Gps
      BY DEF EpoInv, TypeOK
    <2>1. CASE Trigger
      BY <2>0, <2>1 DEF Trigger, Main, Thread, Gps, Service!Next, Service!Trigger
    <2>2. CASE OnEpoDone
      BY <2>0, <2>2 DEF OnEpoDone, Main, Service!Next, Service!OnDone
    <2>3. CASE EpoAtStart
      <3>1. CASE EpoCheck
        BY <2>0, <3>1 DEF EpoCheck, Gps, Service!Next, Service!Claim
      <3>2. CASE EpoInject
        BY <2>0, <3>2 DEF EpoInject, Gps, Service!Next, Service!Leave, Service!vars
      <3>3. CASE EpoUnlink
        BY <2>0, <3>3 DEF EpoUnlink, Gps, Service!Next, Service!Remove
      <3> QED BY <2>3, <3>1, <3>2, <3>3 DEF EpoAtStart
    <2>4. CASE Die
      BY <2>4 DEF Die, Idle, Service!Next, Service!Die
    <2>5. CASE QepoUrl
      BY <2>0, <2>5 DEF QepoUrl, Thread, Service!vars
    <2>6. CASE DownloaderStep /\ ~Finish
      <3>1. th.pc # "idle" /\ th'.pc # "idle" /\ main' = main /\ gps' = gps
        BY <2>0, <2>6
           DEF DownloaderStep, Begin, LoopTop, Piece, FetchMD5, FetchDAT, Again, Match,
           Prefix, Mismatch, Merge, Copy, AfterCopy, Retry, Thread, Idle
      <3> QED BY <3>1 DEF Service!Next, Service!Write
    <2>7. CASE Finish
      <3>1. /\ th.pc = "end" /\ th'.pc = "idle" /\ hal' = hal /\ gps' = gps
            /\ main'.downloading = main.downloading
            /\ main'.msg \in {IF th.ok THEN "OK" ELSE "FAIL", main.msg}
        BY <2>0, <2>7 DEF Finish, Report, Main, Thread
      <3>2. (th.ok => hal # << >> \/ gps.crossed = "removed") /\ main.msg = "none"
        BY <3>1 DEF EpoInv, Begun, Handshake
      <3> QED BY <3>1, <3>2 DEF Service!Next, Service!Done
    <2>8. CASE UNCHANGED vars
      BY <2>8 DEF vars, Service!vars
    <2> QED BY <2>1, <2>2, <2>3, <2>4, <2>5, <2>6, <2>7, <2>8 DEF Next
  <1> QED BY <1>1, <1>2, EpoAlways, PTL DEF Spec, HonoursEpo, Service!Spec

----------------------------------------------------------------------------
\* Starting a download: no report is on its way.
LEMMA TriggerSound == ASSUME EpoInv, SoundInv, Trigger PROVE SoundInv'
  <1>1. InStep'
    BY CountRange DEF EpoInv, TypeOK, Disk, Thread, InStep, AtWork, Trigger
  <1>2. HalAt'
    BY CountRange DEF EpoInv, TypeOK, Thread, Main, Handshake, HalAt, Working, AtWork, Trigger
  <1> QED BY <1>1, <1>2 DEF SoundInv

\* Reading a report: the downloader is idle.
LEMMA OnEpoDoneSound == ASSUME EpoInv, SoundInv, OnEpoDone PROVE SoundInv'
  <1>1. InStep'
    BY CountRange DEF SoundInv, EpoInv, TypeOK, Disk, Thread, InStep, OnEpoDone
  <1>2. HalAt'
    BY CountRange DEF EpoInv, TypeOK, Thread, Main, Handshake, HalAt, Working, AtWork, OnEpoDone
  <1> QED BY <1>1, <1>2 DEF SoundInv

\* A start of the GPS: the downloader is idle and there is no report, or the file is lost.
LEMMA EpoAtStartSound == ASSUME EpoInv, SoundInv, EpoAtStart PROVE SoundInv'
  <1> USE DEF EpoAtStart, EpoCheck, EpoInject, EpoUnlink
  <1>0. gps \in Gps /\ gps' \in Gps /\ UNCHANGED <<status, disk, th, main>>
    BY DEF EpoInv, TypeOK, Gps
  <1>1. InStep'
    BY <1>0 DEF SoundInv, InStep
  <1>2. HalAt'
    <2>1. CASE EpoCheck \/ EpoInject
      <3>1. hal' = hal /\ (gps.crossed = "removed" => gps'.crossed = "removed")
        BY <1>0, <2>1 DEF Gps
      <3> QED BY <1>0, <3>1 DEF SoundInv, HalAt, Good, Sound
    <2>2. CASE EpoUnlink /\ main.downloading
      <3>1. gps'.crossed = "removed"
        BY <1>0, <2>2 DEF EpoInv, Handshake, Gps
      <3> QED BY <3>1 DEF HalAt
    <2>3. CASE EpoUnlink /\ ~main.downloading
      <3>1. th'.pc = "idle" /\ main'.msg = "none"
        BY <1>0, <2>3 DEF EpoInv, TypeOK, Main, Handshake
      <3> QED BY <3>1 DEF HalAt, Working, AtWork
    <2> QED BY <2>1, <2>2, <2>3 DEF EpoInv, TypeOK, Main
  <1> QED BY <1>1, <1>2 DEF SoundInv

\* A death leaves no report.
LEMMA DieSound == ASSUME EpoInv, SoundInv, Die PROVE SoundInv'
  <1>1. InStep'
    BY CountRange DEF EpoInv, TypeOK, Disk, Thread, InStep, Die, Idle
  <1>2. HalAt'
    BY CountRange DEF EpoInv, TypeOK, Thread, Main, HalAt, Working, AtWork, Die, Idle
  <1> QED BY <1>1, <1>2 DEF SoundInv

\* A call begins with no file.
LEMMA BeginSound == ASSUME EpoInv, SoundInv, Begin PROVE SoundInv'
  <1>1. InStep'
    BY CountRange DEF EpoInv, TypeOK, Disk, Thread, InStep, Begin, Idle
  <1>2. HalAt'
    BY CountRange DEF EpoInv, TypeOK, Thread, Main, Handshake, HalAt, Working, AtWork, Begin
  <1> QED BY <1>1, <1>2 DEF SoundInv

\* The loop begins with no file.
LEMMA LoopTopSound == ASSUME EpoInv, SoundInv, LoopTop PROVE SoundInv'
  <1>1. InStep'
    BY CountRange DEF EpoInv, TypeOK, Disk, Thread, InStep, AtWork, LoopTop
  <1>2. HalAt'
    BY CountRange DEF SoundInv, EpoInv, TypeOK, Thread, Main, HalAt, Good, Sound, LoopTop
  <1> QED BY <1>1, <1>2 DEF SoundInv

\* The end of the loop leaves a sound file.
LEMMA PieceSound == ASSUME EpoInv, SoundInv, Piece PROVE SoundInv'
  <1>1. InStep'
    BY CountRange DEF EpoInv, TypeOK, Disk, Thread, InStep, AtWork, Piece
  <1>2. HalAt'
    <2> SUFFICES ASSUME gps.crossed # "removed" PROVE HalAt'
      BY DEF HalAt, Piece
    <2>1. /\ th.pc = "piece" /\ hal' = hal /\ main' = main /\ main.msg = "none"
          /\ Len(hal) = th.count /\ Good(th.count) /\ th.count \in Nat
          /\ th'.count = th.count /\ th'.pc \in {"end", "merge", "md5", "dat"}
          /\ th'.pc = "end" => th.count = NPieces
      BY Ranges
         DEF EpoInv, TypeOK, Thread, Handshake, SoundInv, HalAt, Working, Piece
    <2>2. (Good(th.count)' <=> Good(th.count)) /\ (Sound' <=> Sound)
      BY <2>1 DEF Good, Sound
    <2>3. th.count = NPieces => Sound
      BY <2>1, Ranges DEF EpoInv, TypeOK, Good, Sound
    <2> QED BY <2>1, <2>2, <2>3, Ranges DEF HalAt, Working, AtWork, Good
  <1> QED BY <1>1, <1>2 DEF SoundInv

\* A call that ends well without the next checksum has a sound file.
LEMMA FetchMD5Sound == ASSUME EpoInv, SoundInv, FetchMD5 PROVE SoundInv'
  <1>0. /\ th.pc = "md5" /\ hal' = hal /\ main' = main
        /\ th'.count = th.count /\ th'.name = th.name /\ th'.pc \in {"dat", "md5", "end"}
        /\ th'.pc = "end" /\ th'.ok => th.count # 0
    <2>1. /\ th.pc = "md5" /\ hal' = hal /\ main' = main /\ th \in Thread
          /\ \/ th' = [th EXCEPT !.pc = "dat", !.tries = 0]
             \/ th' = [th EXCEPT !.tries = @ + 1]
             \/ th' = [th EXCEPT !.pc = "end", !.ok = @ /\ th.count # 0]
      BY DEF EpoInv, TypeOK, FetchMD5, Again
    <2> QED BY <2>1 DEF Thread
  <1>1. InStep'
    BY <1>0 DEF SoundInv, InStep, AtWork
  <1>2. HalAt'
    <2> SUFFICES ASSUME gps.crossed # "removed" PROVE HalAt'
      BY DEF HalAt, FetchMD5
    <2>1. /\ Len(hal) = th.count /\ Good(th.count) /\ hal \in Seq(Entry)
          /\ main.msg = "none"
      BY <1>0 DEF EpoInv, TypeOK, Handshake, SoundInv, HalAt, Working, AtWork
    <2>2. th.count # 0 => Sound
      BY <2>1 DEF Good, Sound
    <2>3. th.count = 0 => hal = << >>
      BY <2>1
    <2>4. (Sound' <=> Sound) /\ (Good(th.count)' <=> Good(th.count))
      BY <1>0 DEF Sound, Good
    <2> QED BY <1>0, <2>1, <2>2, <2>3, <2>4 DEF HalAt
  <1> QED BY <1>1, <1>2 DEF SoundInv

\* Fetching data leaves the file alone.
LEMMA FetchDATSound == ASSUME EpoInv, SoundInv, FetchDAT PROVE SoundInv'
  <1>0. /\ th.pc = "dat" /\ hal' = hal /\ main' = main
        /\ th'.count = th.count /\ th'.name = th.name /\ th'.pc \in {"check", "dat", "end"}
        /\ th'.pc = "end" => ~th'.ok
        /\ th'.pc = "check" => th'.ok /\ disk'.dat[th.name] = "new"
    <2>1. th.pc = "dat" /\ th.name \in Pieces /\ th \in Thread /\ disk \in Disk
      BY CountRange DEF EpoInv, TypeOK, FetchDAT, AtWork
    <2>2. hal' = hal /\ main' = main
      BY DEF FetchDAT
    <2>3. CASE /\ th' = [th EXCEPT !.pc = "check", !.ok = TRUE]
               /\ disk' = [disk EXCEPT !.dat[th.name] = "new", !.fresh = @ \cup {th.name}]
      <3>1. disk'.dat[th.name] = "new"
        BY <2>1, <2>3 DEF Disk
      <3> QED BY <2>1, <2>2, <2>3, <3>1 DEF Thread
    <2>4. CASE th' = [th EXCEPT !.tries = @ + 1]
      BY <2>1, <2>2, <2>4 DEF Thread
    <2>5. CASE th' = [th EXCEPT !.pc = "end", !.ok = FALSE]
      BY <2>1, <2>2, <2>5 DEF Thread
    <2> QED BY <2>3, <2>4, <2>5 DEF FetchDAT, Again
  <1>1. InStep'
    BY <1>0 DEF SoundInv, InStep, AtWork
  <1>2. HalAt'
    <2> SUFFICES ASSUME gps.crossed # "removed" PROVE HalAt'
      BY DEF HalAt, FetchDAT
    <2>1. /\ Len(hal) = th.count /\ Good(th.count) /\ hal \in Seq(Entry)
          /\ main.msg = "none"
      BY <1>0 DEF EpoInv, TypeOK, Handshake, SoundInv, HalAt, Working, AtWork
    <2>2. th.count = 0 => hal = << >>
      BY <2>1
    <2> QED BY <1>0, <2>1, <2>2 DEF HalAt, Working, AtWork, Good
  <1> QED BY <1>1, <1>2 DEF SoundInv

\* A match leaves the file alone.
LEMMA MatchSound == ASSUME EpoInv, SoundInv, Match PROVE SoundInv'
  <1>1. InStep'
    BY CountRange DEF SoundInv, EpoInv, TypeOK, Disk, Thread, InStep, AtWork, Match
  <1>2. HalAt'
    BY CountRange
       DEF SoundInv, EpoInv, TypeOK, Thread, Main, HalAt, Good, Sound, Working, AtWork,
       Match
  <1> QED BY <1>1, <1>2 DEF SoundInv

\* A part was fetched by this call.
LEMMA PrefixSound == ASSUME EpoInv, SoundInv, Prefix PROVE SoundInv'
  <1>1. InStep'
    BY CountRange DEF SoundInv, EpoInv, TypeOK, Disk, Thread, InStep, AtWork, Prefix
  <1>2. HalAt'
    BY CountRange
       DEF SoundInv, EpoInv, TypeOK, Thread, Main, HalAt, Good, Sound, Working, AtWork,
       Prefix
  <1> QED BY <1>1, <1>2 DEF SoundInv

\* A mismatch fails the call.
LEMMA MismatchSound == ASSUME EpoInv, SoundInv, Mismatch PROVE SoundInv'
  <1>1. InStep'
    BY CountRange DEF EpoInv, TypeOK, Disk, Thread, InStep, AtWork, Mismatch
  <1>2. HalAt'
    BY CountRange
       DEF SoundInv, EpoInv, TypeOK, Thread, Main, HalAt, Sound, Working, AtWork, Mismatch
  <1> QED BY <1>1, <1>2 DEF SoundInv

\* A merge appends the next piece to the good ones.
LEMMA MergeSound == ASSUME EpoInv, SoundInv, Merge PROVE SoundInv'
  <1>1. InStep'
    <2>1. disk' = disk /\ th.pc = "merge"
      BY DEF Merge
    <2>2. \/ th' = [th EXCEPT !.pc = "copy"]
          \/ th' = [th EXCEPT !.pc = "end", !.ok = FALSE]
      BY DEF Merge
    <2> QED BY <2>1, <2>2 DEF SoundInv, EpoInv, TypeOK, Thread, InStep, AtWork
  <1>2. HalAt'
    <2> SUFFICES ASSUME gps.crossed # "removed" PROVE HalAt'
      BY DEF HalAt, Merge
    <2>1. /\ th.pc = "merge" /\ main' = main /\ main.msg = "none"
          /\ th'.count = th.count /\ th'.kind = th.kind
          /\ Len(hal) = th.count /\ Good(th.count) /\ hal \in Seq(Entry)
          /\ th.count = th.name /\ th.name \in Pieces
      BY CountRange
         DEF EpoInv, TypeOK, Thread, Handshake, SoundInv, InStep, HalAt, Working, AtWork,
         Merge
    <2>2. CASE /\ th' = [th EXCEPT !.pc = "copy"]
               /\ hal' = Merged(IF disk.dat[th.name] = "none" THEN "void" ELSE "torn")
      <3> DEFINE e == [piece |-> th.name, kind |-> "torn",
                       checked |-> disk.dat[th.name] = "checked",
                       fresh |-> th.name \in disk.fresh]
      <3>1. th.kind = "full" => disk.dat[th.name] = "checked"
        BY <2>1 DEF EpoInv, AtPiece, Flags, Bits, Working, AtWork
      <3>2. disk.dat[th.name] # "none"
        BY <2>1, <3>1 DEF EpoInv, TypeOK, Thread, SoundInv, InStep
      <3>3. hal' = Append(hal, e)
        BY <2>1, <2>2, <3>2 DEF Merged
      <3>4. e \in Entry
        BY <2>1 DEF Entry
      <3>5. e.piece = th.count /\ e.kind = "torn" /\ (th.kind = "full" => e.checked)
        BY <2>1, <3>1
      <3> HIDE DEF e
      <3>6. /\ Len(hal') = th.count + 1
            /\ hal'[th.count + 1] = e
            /\ \A i \in 1 .. th.count : hal'[i] = hal[i]
        BY <2>1, <3>3, <3>4
      <3>7. th'.pc = "copy"
        BY <2>2 DEF EpoInv, TypeOK, Thread
      <3>8. \A i \in 1 .. th.count : hal'[i].piece = i - 1 /\ hal'[i].kind = "full" /\ hal'[i].checked
        BY <2>1, <3>6 DEF Good
      <3> QED BY <2>1, <3>5, <3>6, <3>7, <3>8 DEF HalAt, Good
    <2>3. CASE th'.pc = "end" /\ ~th'.ok /\ (th.count = 0 => hal' = << >>)
      BY <2>1, <2>3 DEF HalAt, Working, AtWork
    <2> QED BY <2>2, <2>3 DEF EpoInv, TypeOK, Thread, Merge
  <1> QED BY <1>1, <1>2 DEF SoundInv

\* A copied piece is a good one, or a part that ends the file.
LEMMA CopySound == ASSUME EpoInv, SoundInv, Copy PROVE SoundInv'
  <1>1. InStep'
    BY CountRange DEF EpoInv, TypeOK, Disk, Thread, InStep, AtWork, Copy, AfterCopy
  <1>2. HalAt'
    <2> SUFFICES ASSUME gps.crossed # "removed" PROVE HalAt'
      BY DEF HalAt, Copy
    <2> DEFINE n == th.count + 1
    <2>1. /\ Len(hal) = n /\ Good(th.count) /\ hal \in Seq(Entry) /\ th.count \in Nat
          /\ hal[n].piece = th.count /\ hal[n].kind = "torn"
          /\ th.kind = "full" => hal[n].checked
      BY DEF EpoInv, TypeOK, Thread, SoundInv, HalAt, Copy
    <2>2. hal' = [hal EXCEPT ![n] = [hal[n] EXCEPT !.kind = th.kind]]
      BY <2>1 DEF Copy
    <2>3. /\ Len(hal') = n
          /\ \A i \in 1 .. th.count : hal'[i] = hal[i]
          /\ hal'[n] = [hal[n] EXCEPT !.kind = th.kind]
      BY <2>1, <2>2
    <2>4. hal'[n].piece = th.count /\ hal'[n].kind = th.kind /\ hal'[n].checked = hal[n].checked
      <3>1. hal[n] \in Entry
        BY <2>1
      <3>2. \A e \in Entry : LET c == [e EXCEPT !.kind = th.kind] IN
                c.piece = e.piece /\ c.kind = th.kind /\ c.checked = e.checked
        BY DEF Entry
      <3> QED BY <2>1, <2>3, <3>1, <3>2
    <2>5. ASSUME NEW i \in 1 .. th.count
          PROVE  hal'[i].piece = i - 1 /\ hal'[i].kind = "full" /\ hal'[i].checked
      BY <2>1, <2>3 DEF Good
    <2>6. \A i \in 1 .. n : i \in 1 .. th.count \/ i = n
      BY <2>1
    <2>7. main' = main /\ main.msg = "none"
      BY DEF EpoInv, Handshake, Copy
    <2>8. CASE th.kind = "part"
      <3>1. th'.pc = "end" /\ th'.count = th.count /\ th'.ok = th.ok /\ th.ok
        BY <2>8 DEF EpoInv, TypeOK, Thread, SoundInv, InStep, Copy, AfterCopy
      <3>2. ASSUME NEW i \in 1 .. n
            PROVE  /\ hal'[i].piece = i - 1
                   /\ \/ hal'[i].kind = "full" /\ hal'[i].checked
                      \/ hal'[i].kind = "part" /\ i = n
        <4>1. CASE i \in 1 .. th.count
          BY <2>5, <4>1
        <4>2. CASE i = n
          BY <2>1, <2>4, <2>8, <4>2
        <4> QED BY <2>6, <4>1, <4>2
      <3>3. Sound'
        BY <2>1, <2>3, <3>2 DEF Sound
      <3> QED BY <3>1, <3>3 DEF HalAt, Working, AtWork
    <2>9. CASE th.kind = "full"
      <3>1. th'.pc = "piece" /\ th'.count = n
        BY <2>9 DEF EpoInv, TypeOK, Thread, Copy, AfterCopy
      <3>2. \A i \in 1 .. n : hal'[i].piece = i - 1 /\ hal'[i].kind = "full" /\ hal'[i].checked
        <4>1. hal'[n].piece = n - 1 /\ hal'[n].kind = "full" /\ hal'[n].checked
          BY <2>1, <2>4, <2>9
        <4> QED BY <2>5, <2>6, <4>1
      <3> QED BY <2>3, <2>7, <3>1, <3>2 DEF HalAt, Good
    <2> QED BY <2>8, <2>9 DEF EpoInv, TypeOK, Thread
  <1> QED BY <1>1, <1>2 DEF SoundInv

\* A report of success is given with a sound file.
LEMMA FinishSound == ASSUME EpoInv, SoundInv, Finish PROVE SoundInv'
  <1>1. InStep'
    BY CountRange DEF EpoInv, TypeOK, Disk, Thread, InStep, AtWork, Finish, Report
  <1>2. HalAt'
    BY CountRange
       DEF SoundInv, EpoInv, TypeOK, Thread, Main, HalAt, Sound, Working, AtWork, Finish,
       Report
  <1> QED BY <1>1, <1>2 DEF SoundInv

\* A retry begins with no file: it is only done at the first piece.
LEMMA RetrySound == ASSUME EpoInv, SoundInv, Retry PROVE SoundInv'
  <1>1. InStep'
    BY CountRange DEF EpoInv, TypeOK, Disk, Thread, InStep, AtWork, Retry
  <1>2. HalAt'
    BY CountRange
       DEF SoundInv, EpoInv, TypeOK, Thread, Main, HalAt, Sound, Working, AtWork, Retry
  <1> QED BY <1>1, <1>2 DEF SoundInv

\* Without QEPO downloads every step keeps the file in step with the loop.
LEMMA SoundStep ==
    ASSUME MaxQepo = 0
    PROVE  EpoInv /\ SoundInv /\ [Next]_vars => SoundInv'
  <1>1. EpoInv => ~QepoUrl
    BY DEF EpoInv, TypeOK, Thread, QepoUrl
  <1>2. EpoInv /\ SoundInv /\ Next => SoundInv'
    BY <1>1, TriggerSound, OnEpoDoneSound, EpoAtStartSound, DieSound, BeginSound, LoopTopSound,
       PieceSound,
       FetchMD5Sound, FetchDATSound, MatchSound, PrefixSound, MismatchSound, MergeSound, CopySound, FinishSound, RetrySound
       DEF Next, DownloaderStep
  <1>3. ASSUME SoundInv, UNCHANGED vars PROVE SoundInv'
    BY <1>3 DEF SoundInv, InStep, HalAt, Good, Sound, vars
  <1> QED BY <1>2, <1>3

\* A report of success always comes with a sound EPOHAL.DAT, for every number of pieces
\* and retries, whichever transfers, checks and merges fail and whenever the daemon dies,
\* as long as no QEPO download begins meanwhile and no start of the GPS that was past its
\* check of is_epo_downloading removes the new file.
THEOREM OkCorrect ==
    ASSUME MaxQepo = 0
    PROVE  Spec => []OkSound
  <1>1. Init => SoundInv
    BY DEF Init, Idle, SoundInv, InStep, HalAt, AtWork, Working
  <1>2. SoundInv => OkSound
    BY DEF SoundInv, HalAt, Sound, OkSound
  <1> QED BY <1>1, <1>2, SoundStep, EpoAlways, PTL DEF Spec

----------------------------------------------------------------------------
\* The day of the data

\* Every entry of the file was fetched on the day of its call.
FreshFile == \A i \in 1 .. Len(hal) : hal[i].fresh

\* While last_DL_Date is today, a DAT flag stands for data fetched today; while the loop is
\* running it is today, and what is being merged was fetched today.
FreshFlags ==
    /\ status.today =>
         \A p \in Pieces : "DAT" \in status.EPO_piece_flag[p] => p \in disk.fresh
    /\ th.pc \in Working => status.today
    /\ th.pc \in {"check", "merge", "copy"} => th.name \in disk.fresh

FreshInv == FreshFile /\ FreshFlags

\* A call on a new day finds last_DL_Date different, unless a month has passed.
LEMMA BeginFresh == ASSUME LongGaps = FALSE, EpoInv, FreshInv, Begin PROVE FreshInv'
  <1>1. PICK newDay \in BOOLEAN :
          /\ status' = IF newDay THEN [status EXCEPT !.today = FALSE] ELSE status
          /\ disk' = IF newDay THEN [disk EXCEPT !.fresh = {}] ELSE disk
    <2>1. PICK newDay \in BOOLEAN, sameDate \in BOOLEAN :
            /\ sameDate => LongGaps
            /\ status' = IF newDay THEN [status EXCEPT !.today = @ /\ sameDate] ELSE status
            /\ disk' = IF newDay THEN [disk EXCEPT !.fresh = {}] ELSE disk
      BY DEF Begin
    <2>2. sameDate = FALSE
      BY <2>1
    <2>3. status.today \in BOOLEAN
      BY DEF EpoInv, TypeOK, Status
    <2> QED BY <2>1, <2>2, <2>3
  <1>2. th'.pc = "loop" /\ hal' = << >>
    BY DEF Begin, Idle
  <1>3. FreshFile'
    BY <1>2 DEF FreshFile
  <1>4. FreshFlags'
    BY <1>1, <1>2 DEF EpoInv, TypeOK, Status, Disk, FreshInv, FreshFlags, Working, AtWork
  <1> QED BY <1>3, <1>4 DEF FreshInv

\* "Check if a new day comes, reset flag to re-dl": the flags of another day are reset.
LEMMA LoopTopFresh == ASSUME EpoInv, FreshInv, LoopTop PROVE FreshInv'
  <1>1. th'.pc = "piece" /\ hal' = hal
    BY DEF EpoInv, TypeOK, Thread, LoopTop
  <1>2. CASE status.today
    <2>1. /\ status' = [status EXCEPT !.EPO_piece_flag = Existing(@, disk)] /\ disk' = disk
      BY <1>2 DEF LoopTop, NewDay
    <2>2. \A p \in Pieces : status'.EPO_piece_flag[p] \subseteq status.EPO_piece_flag[p]
      BY <2>1 DEF EpoInv, TypeOK, Status, Existing
    <2>3. status'.today
      BY <1>2, <2>1 DEF EpoInv, TypeOK, Status
    <2> QED BY <1>1, <1>2, <2>1, <2>2, <2>3 DEF FreshInv, FreshFile, FreshFlags
  <1>3. CASE ~status.today
    <2>1. status' = [EPO_piece_flag |-> NoFlags, today |-> TRUE]
      BY <1>3 DEF LoopTop, NewDay
    <2>2. status'.today /\ \A p \in Pieces : status'.EPO_piece_flag[p] = {}
      BY <2>1 DEF NoFlags
    <2> QED BY <1>1, <2>2 DEF FreshInv, FreshFile, FreshFlags
  <1> QED BY <1>2, <1>3

\* A piece that is taken as available was fetched today.
LEMMA PieceFresh == ASSUME EpoInv, FreshInv, Piece PROVE FreshInv'
  <1>1. th.pc = "piece" /\ UNCHANGED <<status, disk, hal>>
    BY DEF Piece
  <1>2. CASE th.count = NPieces
    BY <1>1, <1>2 DEF EpoInv, TypeOK, Thread, Piece, FreshInv, FreshFile, FreshFlags, Working,
       AtWork
  <1>3. CASE th.count # NPieces
    <2>1. th.count \in Pieces
      BY <1>3, Ranges, SMTT(20) DEF EpoInv, TypeOK, Thread, Pieces
    <2>2. \/ /\ status.EPO_piece_flag[th.count] = Bits
             /\ th' = [th EXCEPT !.name = th.count, !.pc = "merge", !.kind = "full"]
          \/ th' = [th EXCEPT !.name = th.count, !.pc = "md5", !.tries = 0]
          \/ th' = [th EXCEPT !.name = th.count, !.pc = "dat", !.tries = 0]
      BY <1>3 DEF Piece
    <2>3. th'.name = th.count /\ th'.pc \in {"merge", "md5", "dat"}
          /\ (th'.pc = "merge" => status.EPO_piece_flag[th.count] = Bits)
      BY <2>2 DEF EpoInv, TypeOK, Thread
    <2>4. status.today /\ (th'.pc = "merge" => th.count \in disk.fresh)
      BY <1>1, <2>1, <2>3 DEF FreshInv, FreshFlags, Working, Bits
    <2> QED BY <1>1, <2>3, <2>4 DEF FreshInv, FreshFile, FreshFlags
  <1> QED BY <1>2, <1>3

\* The checksum file sets no DAT flag.
LEMMA FetchMD5Fresh == ASSUME EpoInv, FreshInv, FetchMD5 PROVE FreshInv'
  <1>1. hal' = hal /\ disk'.fresh = disk.fresh /\ status'.today = status.today /\ th.pc = "md5"
    BY DEF EpoInv, TypeOK, Disk, Status, FetchMD5
  <1>2. th'.pc \in {"md5", "dat", "end"}
    BY DEF EpoInv, TypeOK, Thread, FetchMD5, Again
  <1>3. \A p \in Pieces : "DAT" \in status'.EPO_piece_flag[p] => "DAT" \in status.EPO_piece_flag[p]
    <2>1. th.count \in Pieces
      BY <1>1, CountRange DEF EpoInv, AtWork
    <2>2. CASE status' = status
      BY <2>2
    <2>3. CASE status' = [status EXCEPT !.EPO_piece_flag[th.count] = @ \cup {"MD5"}]
      BY <2>1, <2>3 DEF EpoInv, TypeOK, Status
    <2> QED BY <2>2, <2>3 DEF FetchMD5
  <1> QED BY <1>1, <1>2, <1>3 DEF FreshInv, FreshFile, FreshFlags, Working, AtWork

\* Data that has arrived is of today.
LEMMA FetchDATFresh == ASSUME EpoInv, FreshInv, FetchDAT PROVE FreshInv'
  <1>0. hal' = hal /\ status' = status /\ th.pc = "dat" /\ th \in Thread /\ disk \in Disk
    BY DEF EpoInv, TypeOK, FetchDAT
  <1>1. \/ /\ disk' = [disk EXCEPT !.dat[th.name] = "new", !.fresh = @ \cup {th.name}]
           /\ th' = [th EXCEPT !.pc = "check", !.ok = TRUE]
        \/ /\ disk' = disk \/ disk' = [disk EXCEPT !.dat[th.name] = "none"]
           /\ \/ th' = [th EXCEPT !.tries = @ + 1]
              \/ th' = [th EXCEPT !.pc = "end", !.ok = FALSE]
    BY DEF FetchDAT, Again
  <1>2. /\ disk.fresh \subseteq disk'.fresh
        /\ th'.pc \in {"check", "dat", "end"} /\ th'.name = th.name
        /\ th'.pc = "check" => th.name \in disk'.fresh
    <2>1. CASE /\ disk' = [disk EXCEPT !.dat[th.name] = "new", !.fresh = @ \cup {th.name}]
               /\ th' = [th EXCEPT !.pc = "check", !.ok = TRUE]
      <3>1. disk'.fresh = disk.fresh \cup {th.name}
        BY <1>0, <2>1 DEF Disk
      <3>2. th'.pc = "check" /\ th'.name = th.name
        BY <1>0, <2>1 DEF Thread
      <3> QED BY <3>1, <3>2
    <2>2. CASE /\ disk' = disk \/ disk' = [disk EXCEPT !.dat[th.name] = "none"]
               /\ \/ th' = [th EXCEPT !.tries = @ + 1]
                  \/ th' = [th EXCEPT !.pc = "end", !.ok = FALSE]
      <3>1. disk'.fresh = disk.fresh
        BY <1>0, <2>2 DEF Disk
      <3>2. th'.pc \in {"dat", "end"} /\ th'.name = th.name
        BY <1>0, <2>2 DEF Thread
      <3> QED BY <3>1, <3>2
    <2> QED BY <1>1, <2>1, <2>2
  <1> QED BY <1>0, <1>2 DEF FreshInv, FreshFile, FreshFlags, Working, AtWork

\* The flag that a matching MD5 sets is that of the piece, or of piece 0, which has it.
LEMMA MatchFresh == ASSUME EpoInv, FreshInv, Match PROVE FreshInv'
  <1>1. /\ th.pc = "check" /\ hal' = hal /\ disk'.fresh = disk.fresh
        /\ status'.today = status.today
        /\ th'.pc = "merge" /\ th'.name = th.name
    BY DEF EpoInv, TypeOK, Disk, Status, Thread, Match
  <1>2. th.count \in Pieces /\ th.name \in Pieces /\ th.count \in {0, th.name} /\ Before(th.name)
    BY <1>1, CountRange DEF EpoInv, AtPiece, AtWork
  <1>3. th.name \in disk.fresh /\ status.today
    BY <1>1 DEF FreshInv, FreshFlags, Working, AtWork
  <1>4. th.count \in disk.fresh
    <2>1. CASE th.count = th.name
      BY <1>3, <2>1
    <2>2. CASE th.count # th.name
      <3>1. status.EPO_piece_flag[th.count] = Bits
        BY <1>2, <2>2, Ranges DEF Before, Pieces
      <3> QED BY <1>2, <1>3, <3>1 DEF FreshInv, FreshFlags, Bits
    <2> QED BY <2>1, <2>2
  <1>5. \A p \in Pieces : "DAT" \in status'.EPO_piece_flag[p] =>
                            p = th.count \/ "DAT" \in status.EPO_piece_flag[p]
    BY <1>2 DEF EpoInv, TypeOK, Status, Match
  <1> QED BY <1>1, <1>3, <1>4, <1>5 DEF FreshInv, FreshFile, FreshFlags

\* A piece that is forgotten has no flag.
LEMMA MismatchFresh == ASSUME EpoInv, FreshInv, Mismatch PROVE FreshInv'
  <1>1. /\ th.pc = "check" /\ hal' = hal /\ disk'.fresh = disk.fresh
        /\ status'.today = status.today /\ th'.pc = "end"
    BY DEF EpoInv, TypeOK, Disk, Status, Thread, Mismatch
  <1>2. th.count \in Pieces
    BY <1>1, CountRange DEF EpoInv, AtWork
  <1>3. \A p \in Pieces : "DAT" \in status'.EPO_piece_flag[p] => "DAT" \in status.EPO_piece_flag[p]
    BY <1>2 DEF EpoInv, TypeOK, Status, Mismatch
  <1> QED BY <1>1, <1>3 DEF FreshInv, FreshFile, FreshFlags, Working, AtWork

\* What is merged was fetched today.
LEMMA MergeFresh == ASSUME EpoInv, FreshInv, Merge PROVE FreshInv'
  <1>1. /\ th.pc = "merge" /\ UNCHANGED <<status, disk>> /\ th'.pc \in {"copy", "end"}
        /\ th'.name = th.name
    BY DEF EpoInv, TypeOK, Thread, Merge
  <1>2. th.name \in disk.fresh /\ th.name \in Pieces /\ hal \in Seq(Entry)
    BY <1>1, CountRange DEF FreshInv, FreshFlags, EpoInv, TypeOK, AtWork
  <1>3. FreshFile'
    <2>1. CASE hal' \in {hal, << >>}
      BY <2>1 DEF FreshInv, FreshFile
    <2>2. ASSUME NEW k \in {"void", "torn"}, hal' = Merged(k) PROVE FreshFile'
      <3> DEFINE e == [piece |-> th.name, kind |-> k, checked |-> disk.dat[th.name] = "checked",
                       fresh |-> th.name \in disk.fresh]
      <3>1. e.fresh /\ e \in Entry
        BY <1>2 DEF Entry
      <3>2. PICK h \in {hal, << >>} : hal' = Append(h, e)
        <4>1. CASE th.count = 0
          BY <2>2, <4>1 DEF Merged
        <4>2. CASE th.count # 0
          BY <2>2, <4>2 DEF Merged
        <4> QED BY <4>1, <4>2
      <3>3. h \in Seq(Entry) /\ \A i \in 1 .. Len(h) : h[i].fresh
        <4>1. CASE h = hal
          BY <1>2, <4>1 DEF FreshInv, FreshFile
        <4>2. CASE h = << >>
          BY <4>2
        <4> QED BY <3>2, <4>1, <4>2
      <3> HIDE DEF e
      <3>4. \A i \in 1 .. Len(hal') : hal'[i] = e \/ (i \in 1 .. Len(h) /\ hal'[i] = h[i])
        BY <3>1, <3>2, <3>3
      <3> QED BY <3>1, <3>3, <3>4 DEF FreshFile
    <2> QED BY <2>1, <2>2 DEF Merge
  <1> QED BY <1>1, <1>3 DEF FreshInv, FreshFlags, Working, AtWork

\* Copying changes the kind of an entry only.
LEMMA CopyFresh == ASSUME EpoInv, FreshInv, Copy PROVE FreshInv'
  <1>1. /\ th.pc = "copy" /\ UNCHANGED <<status, disk>> /\ th'.pc \in {"piece", "end"}
    BY DEF EpoInv, TypeOK, Thread, Copy, AfterCopy
  <1>2. FreshFile'
    <2>0. CASE hal = << >>
      BY <2>0 DEF Copy, FreshFile
    <2> SUFFICES ASSUME hal # << >> PROVE FreshFile'
      BY <2>0
    <2>1. hal \in Seq(Entry) /\ Len(hal) \in 1 .. Len(hal)
      BY DEF EpoInv, TypeOK
    <2>2. PICK k : hal' = [hal EXCEPT ![Len(hal)] = [hal[Len(hal)] EXCEPT !.kind = k]]
      BY DEF Copy
    <2>3. Len(hal') = Len(hal) /\ \A i \in 1 .. Len(hal) : i # Len(hal) => hal'[i] = hal[i]
      BY <2>1, <2>2
    <2>4. hal'[Len(hal)].fresh = hal[Len(hal)].fresh
      <3>1. hal[Len(hal)] \in Entry
        BY <2>1
      <3>2. \A e \in Entry : [e EXCEPT !.kind = k].fresh = e.fresh
        BY DEF Entry
      <3> QED BY <2>1, <2>2, <3>1, <3>2
    <2> QED BY <2>1, <2>3, <2>4 DEF FreshInv, FreshFile
  <1> QED BY <1>1, <1>2 DEF FreshInv, FreshFlags, Working, AtWork

\* The other steps.
LEMMA RestFresh ==
    ASSUME EpoInv, FreshInv,
           Trigger \/ OnEpoDone \/ EpoAtStart \/ Die \/ QepoUrl \/ Prefix \/ Finish \/ Retry
    PROVE  FreshInv'
  <1>1. CASE Trigger
    BY <1>1 DEF EpoInv, TypeOK, Thread, Trigger, FreshInv, FreshFile, FreshFlags, Working, AtWork
  <1>2. CASE OnEpoDone \/ EpoAtStart
    <2>1. hal' \in {hal, << >>} /\ UNCHANGED <<status, disk, th>>
      BY <1>2 DEF OnEpoDone, EpoAtStart, EpoCheck, EpoInject, EpoUnlink
    <2> QED BY <2>1 DEF FreshInv, FreshFile, FreshFlags
  <1>3. CASE Die
    BY <1>3 DEF Die, Idle, FreshInv, FreshFile, FreshFlags, Working, AtWork
  <1>4. CASE QepoUrl
    BY <1>4 DEF EpoInv, TypeOK, Thread, QepoUrl, FreshInv, FreshFile, FreshFlags
  <1>5. CASE Prefix
    BY <1>5 DEF EpoInv, TypeOK, Thread, Prefix, FreshInv, FreshFile, FreshFlags, Working, AtWork
  <1>6. CASE Finish
    <2>1. /\ UNCHANGED <<status, hal>> /\ disk'.fresh = disk.fresh /\ th'.pc = "idle"
      BY <1>6 DEF EpoInv, TypeOK, Thread, Disk, Finish, Report, Unlinked
    <2> QED BY <2>1 DEF FreshInv, FreshFile, FreshFlags, Working, AtWork
  <1>7. CASE Retry
    BY <1>7 DEF EpoInv, TypeOK, Thread, Retry, FreshInv, FreshFile, FreshFlags, Working, AtWork
  <1> QED BY <1>1, <1>2, <1>3, <1>4, <1>5, <1>6, <1>7

\* Only data fetched on the day of the call gets into EPOHAL.DAT, for every number of pieces
\* and retries, with QEPO downloads and deaths at any point, unless two calls are a month
\* apart to the day (epo_file_download_impl compares the day of the month only).
THEOREM FreshCorrect ==
    ASSUME LongGaps = FALSE
    PROVE  Spec => []OnlyFresh
  <1>1. Init => FreshInv
    BY DEF Init, Idle, FreshInv, FreshFile, FreshFlags, Working, AtWork
  <1>2. EpoInv /\ FreshInv /\ [Next]_vars => FreshInv'
    <2>1. EpoInv /\ FreshInv /\ Next => FreshInv'
      BY BeginFresh, LoopTopFresh, PieceFresh, FetchMD5Fresh, FetchDATFresh, MatchFresh,
         MismatchFresh, MergeFresh, CopyFresh, RestFresh DEF Next, DownloaderStep
    <2>2. ASSUME FreshInv, UNCHANGED vars PROVE FreshInv'
      BY <2>2 DEF vars, FreshInv, FreshFile, FreshFlags
    <2> QED BY <2>1, <2>2
  <1>3. FreshInv => OnlyFresh
    BY DEF FreshInv, FreshFile, OnlyFresh
  <1> QED BY <1>1, <1>2, <1>3, EpoAlways, PTL DEF Spec

=============================================================================
