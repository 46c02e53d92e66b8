----------------------------- MODULE EpoService -----------------------------
(***************************************************************************)
(* What the EPO downloader promises the rest of mnld, without its pieces,  *)
(* checks and retries: one download at a time; the file EPOHAL.DAT changes *)
(* by the downloader's hand only while it is at work, and by the others'   *)
(* only while no download is announced or by a start of the GPS that had   *)
(* claimed the file before the download; a report of success means that    *)
(* there is a file, unless such a start has removed it.                    *)
(* MnldSystem uses the downloader in this form.                            *)
(***************************************************************************)
VARIABLES downloading,  \* epo_status.is_epo_downloading
          busy,         \* the downloader is at work
          file,         \* EPOHAL.DAT is there
          report,       \* the report on its way to the main thread
          claimed,      \* a start of the GPS means to inject the file, and to remove it then
          crossed       \* the download was begun under such a claim ("begun"), which has
                        \* removed the file since ("removed")

vars == <<downloading, busy, file, report, claimed, crossed>>

Init == /\ downloading = FALSE /\ busy = FALSE /\ report = "none"
        /\ file \in BOOLEAN
        /\ claimed = FALSE /\ crossed = "no"

Trigger ==
    /\ ~downloading
    /\ downloading' = TRUE /\ busy' = TRUE
    /\ crossed' = IF claimed THEN "begun" ELSE "no"
    /\ UNCHANGED <<file, report, claimed>>

Write ==
    /\ busy
    /\ file' \in BOOLEAN
    /\ UNCHANGED <<downloading, busy, report, claimed, crossed>>

\* The report may be lost
Done ==
    /\ busy
    /\ busy' = FALSE
    /\ report' \in {"FAIL", "none"} \cup IF file \/ crossed = "removed" THEN {"OK"} ELSE {}
    /\ UNCHANGED <<downloading, file, claimed, crossed>>

\* The main thread reads the report: the file is injected, kept or removed
OnDone ==
    /\ report # "none"
    /\ downloading' = FALSE /\ report' = "none"
    /\ file' \in IF report = "OK" THEN {file, FALSE} ELSE {FALSE}
    /\ UNCHANGED <<busy, claimed, crossed>>

\* A start of the GPS finds the file, and no download announced
Claim ==
    /\ ~downloading /\ file /\ ~claimed
    /\ claimed' = TRUE
    /\ UNCHANGED <<downloading, busy, file, report, crossed>>

\* It removes the file once it is injected, or leaves it
Remove ==
    /\ claimed
    /\ claimed' = FALSE /\ file' = FALSE
    /\ crossed' = IF crossed = "begun" THEN "removed" ELSE crossed
    /\ UNCHANGED <<downloading, busy, report>>

Leave ==
    /\ claimed
    /\ claimed' = FALSE
    /\ crossed' = IF crossed = "begun" THEN "no" ELSE crossed
    /\ UNCHANGED <<downloading, busy, file, report>>

\* The daemon dies; the file stays
Die ==
    /\ downloading' = FALSE /\ busy' = FALSE /\ report' = "none"
    /\ claimed' = FALSE /\ crossed' = "no"
    /\ UNCHANGED file

Next == Trigger \/ Write \/ Done \/ OnDone \/ Claim \/ Remove \/ Leave \/ Die

Spec == Init /\ [][Next]_vars
=============================================================================
