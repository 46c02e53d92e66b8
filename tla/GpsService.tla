----------------------------- MODULE GpsService -----------------------------
(***************************************************************************)
(* What mnld promises the clients that share the GPS engine, without its   *)
(* states, queues, threads and timers.  A client's session is closed,      *)
(* opening (asked for, not confirmed), open or closing.  The promises:     *)
(* a session becomes open only while the engine runs; the engine is not    *)
(* turned off under an open session; and a session changes only at the     *)
(* client's own request, by its acknowledgement, or because the daemon     *)
(* recovers or dies, which closes them all.                                *)
(***************************************************************************)
CONSTANT Sharers

VARIABLES engine,   \* does the engine run
          session   \* the session of every client

States == {"closed", "opening", "open", "closing"}

Init == engine = FALSE /\ session = [c \in Sharers |-> "closed"]

\* What an acknowledgement does
Acked(from, to) ==
    \/ to = from
    \/ from = "opening" /\ to = "open" /\ engine
    \/ from = "closing" /\ to = "closed"

\* A request of c, or none; the acknowledgements it triggers are part of the step
Serve(c) ==
    /\ session' \in [Sharers -> States]
    /\ \A d \in Sharers \ {c} : Acked(session[d], session'[d])
    /\ session'[c] = "open" => engine
    /\ UNCHANGED engine

TurnOn == engine' = TRUE /\ UNCHANGED session

TurnOff ==
    /\ \A c \in Sharers : session[c] # "open"
    /\ engine' = FALSE
    /\ UNCHANGED session

\* The daemon gives every client up: recovery (the engine still runs, and who was
\* closing still gets the acknowledgement) or death
GiveUp ==
    \/ /\ session' = [c \in Sharers |-> "closed"]
       /\ engine' = FALSE
    \/ /\ session' = [c \in Sharers |->
                         IF session[c] = "closing" THEN "closing" ELSE "closed"]
       /\ UNCHANGED engine

Next == TurnOn \/ TurnOff \/ GiveUp \/ \E c \in Sharers : Serve(c)

Spec == Init /\ [][Next]_<<engine, session>>
=============================================================================
