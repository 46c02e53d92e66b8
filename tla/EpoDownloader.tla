--------------------------- MODULE EpoDownloader ---------------------------
(***************************************************************************)
(* The EPO downloader of mnld (gps/mtk_mnld/mnld_entity/src/epo.c).        *)
(*                                                                         *)
(* EPO data is offered by the server in pieces of three days.  For each    *)
(* piece the thread fetches a checksum file (MD5) and the data (DAT),      *)
(* compares the two and appends the data to EPOHAL.DAT.  Flags in memory   *)
(* and piece files on disk let a later call of the same day go on where an *)
(* earlier one failed.  The main thread starts a download and reads its    *)
(* report; a start of the GPS injects the file.  The QEPO thread asks in   *)
(* between whether EPO.DAT is expired, which resets the downloader's       *)
(* counter gps_epo_file_count.                                             *)
(*                                                                         *)
(* Abstracted: the contents of a piece to whether its MD5 was found to     *)
(* match, file names, the network's state (any transfer may fail) and the  *)
(* waiting for QEPO, after which the thread goes on or gives up.           *)
(***************************************************************************)
EXTENDS Naturals, Sequences

CONSTANTS NPieces,        \* gps_epo_download_piece
          DlRetries,      \* EPO_DL_MAX_RETRY_TIME
          CallRetries,    \* EPO_INVALIDE_DL_MAX_RETRY_TIME
          MergeMayFail,   \* EPOHAL.DAT cannot always be opened
          LongGaps,       \* two calls may be a month apart, to the day
          MayDie,         \* a watchdog or init may end the daemon
          MayLose,        \* the main thread's socket may be full
          MaxQepo         \* how many QEPO downloads may begin during a call

ASSUME EpoAssumption ==
    /\ NPieces \in 1..10
    /\ DlRetries \in Nat /\ CallRetries \in Nat /\ MaxQepo \in Nat
    /\ {MergeMayFail, LongGaps, MayDie, MayLose} \subseteq BOOLEAN

VARIABLES status,   \* epo_status
          disk,     \* the piece files
          hal,      \* EPOHAL.DAT: the entries merged; << >> is no file
          th,       \* the downloader's thread
          main,     \* is_epo_downloading and the report for the main thread
          gps       \* a start of the GPS that has found EPOHAL.DAT; history: whether the
                    \* download was begun behind its check, and then lost the file to it

vars == <<status, disk, hal, th, main, gps>>

Pieces == 0 .. NPieces - 1
Bits   == {"MD5", "DAT"}

Status == [EPO_piece_flag : [Pieces -> SUBSET Bits],
           today : BOOLEAN]                 \* last_DL_Date is today's day of the month
Disk   == [md5   : SUBSET Pieces,           \* the checksum files that are there
           dat   : [Pieces -> {"none", "new", "checked"}],
           fresh : SUBSET Pieces]           \* the data fetched on the day of this call
Entry  == [piece   : Pieces,
           kind    : {"torn", "full", "part", "void"},
           checked : BOOLEAN,
           fresh   : BOOLEAN]
Thread == [pc    : {"idle", "begin", "loop", "piece", "md5", "dat", "check",
                    "merge", "copy", "end"},
           count : 0 .. NPieces,            \* gps_epo_file_count
           name  : Pieces,                  \* the piece gps_epo_file_name is of
           kind  : {"full", "part"},        \* what is being merged
           ok    : BOOLEAN,                 \* ret is EPO_DOWNLOAD_RESULT_SUCCESS
           retry : 0 .. CallRetries,        \* dl_retry_cnt
           tries : 0 .. DlRetries,          \* md5_retry_cnt, dat_retry_cnt
           qepo  : 0 .. MaxQepo]            \* how often the counter was reset
Main   == [downloading : BOOLEAN, msg : {"none", "OK", "FAIL"}]
Gps    == [start : {"none", "inject", "unlink"}, crossed : {"no", "begun", "removed"}]

NoFlags == [p \in Pieces |-> {}]
NoData  == [p \in Pieces |-> "none"]

Idle == [pc |-> "idle", count |-> 0, name |-> 0, kind |-> "full",
         ok |-> TRUE, retry |-> 0, tries |-> 0, qepo |-> 0]

Init ==
    /\ status = [EPO_piece_flag |-> NoFlags, today |-> FALSE]
    /\ disk = [md5 |-> {}, dat |-> NoData, fresh |-> {}]
    /\ hal = << >>
    /\ th = Idle
    /\ main = [downloading |-> FALSE, msg |-> "none"]
    /\ gps = [start |-> "none", crossed |-> "no"]

----------------------------------------------------------------------------
\* Main thread and GPS control thread

\* hal_start_gps_trigger_epo_download, hal_update_network_state
Trigger ==
    /\ ~main.downloading
    /\ main' = [main EXCEPT !.downloading = TRUE]
    /\ th' = [th EXCEPT !.pc = "begin"]
    /\ gps' = [gps EXCEPT !.crossed = IF gps.start = "none" THEN "no" ELSE "begun"]
    /\ UNCHANGED <<status, disk, hal>>

\* EPO2MAIN_EVENT_EPO_DONE: inject (if the GPS is on and libmnl accepts), keep or remove
OnEpoDone ==
    /\ main.msg # "none"
    /\ main' = [downloading |-> FALSE, msg |-> "none"]
    /\ hal' \in IF main.msg = "OK" THEN {hal, << >>} ELSE {<< >>}
    /\ UNCHANGED <<status, disk, th, gps>>

Mut_EpoCheck ==
    /\ gps.start = "none"
    /\ hal # << >>
    /\ gps' = [gps EXCEPT !.start = "inject"]
    /\ UNCHANGED <<status, disk, hal, th, main>>

\* The end of linux_gps_init, on the GPS control thread: there is a file, and it is not
\* being downloaded ...
EpoCheck ==
    /\ gps.start = "none"
    /\ ~main.downloading
    /\ hal # << >>
    /\ gps' = [gps EXCEPT !.start = "inject"]
    /\ UNCHANGED <<status, disk, hal, th, main>>

\* ... mtk_agps_agent_epo_file_update takes it, or not ...
EpoInject ==
    /\ gps.start = "inject"
    /\ \/ gps' = [gps EXCEPT !.start = "unlink"]
       \/ gps' = [start |-> "none", crossed |-> IF gps.crossed = "begun" THEN "no" ELSE gps.crossed]
    /\ UNCHANGED <<status, disk, hal, th, main>>

\* ... and what bears its name by then is removed, though a download may have begun
EpoUnlink ==
    /\ gps.start = "unlink"
    /\ hal' = << >>
    /\ gps' = [start |-> "none",
               crossed |-> IF gps.crossed = "begun" THEN "removed" ELSE gps.crossed]
    /\ UNCHANGED <<status, disk, th, main>>

EpoAtStart == EpoCheck \/ EpoInject \/ EpoUnlink

\* The daemon ends and init starts it again: the files stay, the memory does not
Die ==
    /\ MayDie
    /\ status' = [EPO_piece_flag |-> NoFlags, today |-> FALSE]
    /\ th' = Idle
    /\ main' = [downloading |-> FALSE, msg |-> "none"]
    /\ gps' = [start |-> "none", crossed |-> "no"]
    /\ UNCHANGED <<disk, hal>>

\* getQepoUrl on the QEPO thread finds EPO.DAT expired: mtk_epo_is_expired resets the
\* counter and leaves the file names
QepoUrl ==
    /\ th.qepo < MaxQepo
    /\ th' = [th EXCEPT !.count = 0, !.qepo = @ + 1]
    /\ UNCHANGED <<status, disk, hal, main, gps>>

----------------------------------------------------------------------------
\* epo_file_download_impl

\* The call's day is read once.  On a new day no piece is fresh, and last_DL_Date
\* differs unless the last call was a month ago.
Begin ==
    /\ th.pc = "begin"
    /\ \E newDay, sameDate \in BOOLEAN :
         /\ sameDate => LongGaps
         /\ status' = IF newDay THEN [status EXCEPT !.today = @ /\ sameDate] ELSE status
         /\ disk' = IF newDay THEN [disk EXCEPT !.fresh = {}] ELSE disk
    /\ hal' = << >>
    /\ th' = [Idle EXCEPT !.pc = "loop"]
    /\ UNCHANGED <<main, gps>>

\* check_epo_file_exist: a flag without its file is dropped
Mut_Existing(flag, d) == flag
Existing(flag, d) ==
    [p \in Pieces |-> {b \in flag[p] : \/ b = "MD5" /\ p \in d.md5
                                       \/ b = "DAT" /\ d.dat[p] # "none"}]

Unlinked(d) == [d EXCEPT !.md5 = {}, !.dat = NoData]

Mut_NewDay ==
    /\ status' = [EPO_piece_flag |-> Existing(status.EPO_piece_flag, disk), today |-> TRUE]
    /\ UNCHANGED disk

\* "Check if a new day comes, reset flag to re-dl"
NewDay ==
    IF status.today
    THEN /\ status' = [status EXCEPT !.EPO_piece_flag = Existing(@, disk)]
         /\ UNCHANGED disk
    ELSE /\ status' = [EPO_piece_flag |-> NoFlags, today |-> TRUE]
         /\ disk' = Unlinked(disk)

LoopTop ==
    /\ th.pc = "loop"
    /\ NewDay
    /\ th' = [th EXCEPT !.pc = "piece", !.count = 0]
    /\ UNCHANGED <<hal, main, gps>>

\* The body of the for loop: what the piece still needs
Piece ==
    /\ th.pc = "piece"
    /\ th' = IF th.count = NPieces THEN [th EXCEPT !.pc = "end"]
             ELSE LET flag == status.EPO_piece_flag[th.count]
                      t == [th EXCEPT !.name = th.count] IN
                  CASE flag = Bits -> [t EXCEPT !.pc = "merge", !.kind = "full"]
                    [] "MD5" \notin flag -> [t EXCEPT !.pc = "md5", !.tries = 0]
                    [] OTHER -> [t EXCEPT !.pc = "dat", !.tries = 0]
    /\ UNCHANGED <<status, disk, hal, main, gps>>

\* A failed transfer is repeated; after the last one the process gives up with t
Again(t) ==
    th' = IF th.tries < DlRetries THEN [th EXCEPT !.tries = @ + 1] ELSE t

\* epo_MD5_download_process: the transfer is done, it fails, or QEPO hangs.  A failure
\* fails the call only at the first piece.
FetchMD5 ==
    /\ th.pc = "md5"
    /\ \/ /\ disk' = [disk EXCEPT !.md5 = @ \cup {th.name}]
          /\ status' = [status EXCEPT !.EPO_piece_flag[th.count] = @ \cup {"MD5"}]
          /\ th' = [th EXCEPT !.pc = "dat", !.tries = 0]
       \/ /\ disk' = [disk EXCEPT !.md5 = @ \ {th.name}]
          /\ Again([th EXCEPT !.pc = "end", !.ok = @ /\ th.count # 0])
          /\ UNCHANGED status
       \/ /\ th' = [th EXCEPT !.pc = "end", !.ok = @ /\ th.count # 0]
          /\ UNCHANGED <<status, disk>>
    /\ UNCHANGED <<hal, main, gps>>

\* epo_DAT_download_process; its result is ret
FetchDAT ==
    /\ th.pc = "dat"
    /\ \/ /\ disk' = [disk EXCEPT !.dat[th.name] = "new", !.fresh = @ \cup {th.name}]
          /\ th' = [th EXCEPT !.pc = "check", !.ok = TRUE]
       \/ /\ disk' = [disk EXCEPT !.dat[th.name] = "none"]
          /\ Again([th EXCEPT !.pc = "end", !.ok = FALSE])
       \/ /\ th' = [th EXCEPT !.pc = "end", !.ok = FALSE]
          /\ UNCHANGED disk
    /\ UNCHANGED <<status, hal, main, gps>>

\* mtk_gps_epo_md5_match_check: the piece is as the server meant it ...
Match ==
    /\ th.pc = "check"
    /\ disk' = [disk EXCEPT !.dat[th.name] = "checked"]
    /\ status' = [status EXCEPT !.EPO_piece_flag[th.count] = @ \cup {"DAT"}]
    /\ th' = [th EXCEPT !.pc = "merge", !.kind = "full"]
    /\ UNCHANGED <<hal, main, gps>>

Mut_Prefix ==
    /\ th.pc = "check"
    /\ status' = [status EXCEPT !.EPO_piece_flag[th.count] = @ \cup {"DAT"}]
    /\ th' = [th EXCEPT !.pc = "merge", !.kind = "part"]
    /\ UNCHANGED <<disk, hal, main, gps>>

\* ... or not, and then epo_DAT_checksum_check finds enough good data in front ...
Prefix ==
    /\ th.pc = "check"
    /\ th' = [th EXCEPT !.pc = "merge", !.kind = "part"]
    /\ UNCHANGED <<status, disk, hal, main, gps>>

\* ... or not, and the piece is forgotten
Mismatch ==
    /\ th.pc = "check"
    /\ status' = [status EXCEPT !.EPO_piece_flag[th.count] = {}]
    /\ disk' = [disk EXCEPT !.md5 = @ \ {th.name}, !.dat[th.name] = "none"]
    /\ th' = [th EXCEPT !.pc = "end", !.ok = FALSE]
    /\ UNCHANGED <<hal, main, gps>>

\* epo_DAT_file_merge: the first piece begins a new file; a piece that cannot be
\* opened is skipped without an error
Merged(kind) ==
    Append(IF th.count = 0 THEN << >> ELSE hal,
           [piece |-> th.name, kind |-> kind,
            checked |-> disk.dat[th.name] = "checked", fresh |-> th.name \in disk.fresh])

Merge ==
    /\ th.pc = "merge"
    /\ \/ /\ hal' = Merged(IF disk.dat[th.name] = "none" THEN "void" ELSE "torn")
          /\ th' = [th EXCEPT !.pc = "copy"]
       \/ /\ MergeMayFail
          /\ hal' = IF th.count = 0 THEN << >> ELSE hal
          /\ th' = [th EXCEPT !.pc = "end", !.ok = FALSE]
    /\ UNCHANGED <<status, disk, main, gps>>

\* A part ends the file: nothing may follow it
AfterCopy ==
    IF th.kind = "part" THEN [th EXCEPT !.pc = "end"]
                        ELSE [th EXCEPT !.pc = "piece", !.count = @ + 1]

\* What is written after the file was unlinked is lost with it
Copy ==
    /\ th.pc = "copy"
    /\ hal' = IF hal = << >> THEN << >>
              ELSE [hal EXCEPT ![Len(hal)].kind = IF @ = "torn" THEN th.kind ELSE @]
    /\ th' = AfterCopy
    /\ UNCHANGED <<status, disk, main, gps>>

\* mnld_epo_download_done; safe_sendto may give up
Report ==
    /\ \/ main' = [main EXCEPT !.msg = IF th.ok THEN "OK" ELSE "FAIL"]
       \/ MayLose /\ UNCHANGED main
    /\ th' = [th EXCEPT !.pc = "idle"]

\* Success removes the piece files; a failure at the first piece is tried again
Finish ==
    /\ th.pc = "end"
    /\ th.ok \/ th.count # 0 \/ th.retry = CallRetries
    /\ Report
    /\ disk' = IF th.ok THEN Unlinked(disk) ELSE disk
    /\ UNCHANGED <<status, hal, gps>>

Mut_RetryOnceMore ==
    /\ th.pc = "end"
    /\ ~th.ok /\ th.count = 0 /\ th.retry <= CallRetries
    /\ th' = [th EXCEPT !.pc = "loop", !.retry = @ + 1]
    /\ UNCHANGED <<status, disk, hal, main, gps>>
Mut_Retry ==
    /\ th.pc = "end"
    /\ ~th.ok /\ th.count = 0 /\ th.retry < CallRetries
    /\ th' = [th EXCEPT !.pc = "loop"]
    /\ UNCHANGED <<status, disk, hal, main, gps>>

Retry ==
    /\ th.pc = "end"
    /\ ~th.ok /\ th.count = 0 /\ th.retry < CallRetries
    /\ th' = [th EXCEPT !.pc = "loop", !.retry = @ + 1]
    /\ UNCHANGED <<status, disk, hal, main, gps>>

DownloaderStep ==
    \/ Begin \/ LoopTop \/ Piece \/ FetchMD5 \/ FetchDAT
    \/ Match \/ Prefix \/ Mismatch \/ Merge \/ Copy \/ Finish \/ Retry

Next == Trigger \/ OnEpoDone \/ EpoAtStart \/ Die \/ QepoUrl \/ DownloaderStep

Spec == Init /\ [][Next]_vars

\* The downloader's thread and the main thread run; every transfer ends (curl has a
\* time limit) but none need succeed.
FairSpec == Spec /\ WF_vars(DownloaderStep) /\ WF_vars(OnEpoDone)

----------------------------------------------------------------------------
\* The variables have their types.
TypeOK ==
    /\ status \in Status
    /\ disk \in Disk
    /\ hal \in Seq(Entry)
    /\ th \in Thread
    /\ main \in Main
    /\ gps \in Gps

\* A report of success can be relied on: EPOHAL.DAT holds the pieces in order from
\* the first one, complete and with matching MD5, but perhaps for the last one, whose
\* good beginning ends the file.  Retries, flags of earlier calls, vanished piece
\* files and restarts in the middle of a merge do not spoil it; what does is a start of
\* the GPS whose check the download's begin has followed, if it removes the new file.
OkSound ==
    main.msg = "OK" /\ gps.crossed # "removed" =>
        /\ hal # << >>
        /\ \A i \in 1..Len(hal) :
             /\ hal[i].piece = i - 1
             /\ \/ hal[i].kind = "full" /\ hal[i].checked
                \/ hal[i].kind = "part" /\ i = Len(hal)

\* "Check if a new day comes, reset flag to re-dl": no piece of an earlier day gets
\* into the file, if no two calls are a month apart to the day.
OnlyFresh == \A i \in 1..Len(hal) : th.pc # "idle" => hal[i].fresh

\* A flag tells the truth when it decides what to fetch: data that is taken as
\* available has been checked against its MD5.
FlagsTrue ==
    th.pc \in {"piece", "md5", "dat", "check", "merge", "copy"} =>
        \A p \in Pieces : "DAT" \in status.EPO_piece_flag[p] =>
            "MD5" \in status.EPO_piece_flag[p] /\ p \in disk.md5 /\ disk.dat[p] = "checked"

\* The downloader keeps the promises of EpoService.
Service == INSTANCE EpoService
    WITH downloading <- main.downloading,
         busy        <- th.pc # "idle",
         file        <- hal # << >>,
         report      <- main.msg,
         claimed     <- gps.start # "none",
         crossed     <- gps.crossed

HonoursEpo == Service!Spec

\* A download that was begun comes to an end, however often transfers fail, and
\* lets the next one be started.
DownloadEnds == main.downloading ~> ~main.downloading
=============================================================================
