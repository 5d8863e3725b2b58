---------------------------- MODULE MCRecording ----------------------------
(* Recordings of a call, side by side: "egress", two jobs whose requests and *)
(* webhooks fail; "kept", two jobs and retention; "stopped", two jobs beside *)
(* the spool processor that takes every stopped row; "spool", a captured     *)
(* recording and two processors; "settle", a stopped and a captured          *)
(* recording and one processor.                                              *)
EXTENDS Recording

CONSTANTS r1, r2, r3, w1, Sides

VARIABLE side

mcVars == <<vars, side>>

Egress == INSTANCE Recording WITH Workers <- {}, Faults <- {"reply", "lookup", "backfill", "hook"}, Stoppable <- {r1}
Kept == INSTANCE Recording WITH Workers <- {}, Faults <- {"start", "stop", "hook", "clean"}
Stopped == INSTANCE Recording WITH Workers <- {w1}, Faults <- {"hook"}, Stoppable <- {r1}
Spool == INSTANCE Recording WITH Faults <- {"worker", "crash", "clean"}, Expiring <- {r3}
Settle == INSTANCE Recording WITH Workers <- {w1}, Faults <- {"crash", "hook"}

\* The captured recording, or the call and its recordings, stay as they are.
StoredRests == row'[r3] = row[r3] /\ spool' = spool
CallRests == UNCHANGED <<call, start>>
NothingExpires == expired' = {} /\ ~row'[r1].hold

MCInit ==
    /\ side \in Sides
    /\ Init /\ (side \in {"egress", "kept", "stopped"} => spool = {})

\* Bounds: the captured recording rests beside the jobs and the jobs beside the
\* captured one; retention runs where no id is lost; in "settle" one job runs, and a
\* processor dies only at work and while attempts are left to count it.
MCNext ==
    /\ UNCHANGED side
    /\ \/ side = "egress" /\ Egress!Next /\ StoredRests /\ NothingExpires
       \/ side = "kept" /\ Kept!Next /\ StoredRests
       \/ side = "stopped" /\ Stopped!Next /\ StoredRests /\ NothingExpires /\ UNCHANGED call
       \/ side = "spool" /\ Spool!Next /\ CallRests
       \/ /\ side = "settle" /\ Settle!Next /\ start'[r2] = start[r2] /\ NothingExpires
          /\ Settle!WorkerCrash(w1) =>
                worker[w1].rec # None /\ row[worker[w1].rec].attempts < AttemptBound

MCSpec ==
    /\ MCInit /\ [][MCNext]_mcVars
    /\ WF_mcVars(side = "settle" /\ Settle!WorkStep(w1) /\ UNCHANGED side)

=============================================================================
