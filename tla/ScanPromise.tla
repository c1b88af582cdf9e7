---------------------------- MODULE ScanPromise ----------------------------
(***************************************************************************)
(* What the scan history promises a client that polls it, without threads, *)
(* locks, flags or doctor.  A process scans once at a time, and a scan has *)
(* one run, the next one.  A success is recorded by the process that scans *)
(* for the run and by nobody else, so a run whose process ended can only   *)
(* be failed; and a success stands, unless a fault strikes before its      *)
(* scan is over.                                                           *)
(***************************************************************************)
EXTENDS Naturals

CONSTANTS Process, Run

VARIABLES
    verdict,    \* of each run: absent, running, succeeded, partial or failed
    busy,       \* the processes that scan
    doing,      \* <<process, run>>: the run a process scans for
    faulty      \* whether a fault has occurred

vars == <<verdict, busy, doing, faulty>>

Init ==
    /\ verdict = [r \in Run |-> "absent"]
    /\ busy = {}
    /\ doing = {}
    /\ faulty = FALSE

Success == {"succeeded", "partial"}
Underway(r) == \E p \in Process : <<p, r>> \in doing

\* What a run may be next.
MayBecome(r) ==
    {verdict[r]}
      \cup (IF verdict[r] = "running" THEN {"failed"} ELSE {})
      \cup (IF Underway(r) /\ verdict[r] \in {"running", "failed"} THEN Success ELSE {})
      \cup (IF Underway(r) /\ verdict[r] \in Success /\ faulty THEN {"failed"} ELSE {})

Take(p) ==
    /\ p \notin busy
    /\ busy' = busy \cup {p}
    /\ UNCHANGED <<verdict, doing>>

\* The first run that is not there yet.
Begin(p, r) ==
    /\ p \in busy
    /\ \A q \in Run : <<p, q>> \notin doing
    /\ \A q \in Run : verdict[q] = "absent" <=> q >= r
    /\ verdict' = [verdict EXCEPT ![r] = "running"]
    /\ doing' = doing \cup {<<p, r>>}
    /\ UNCHANGED busy

\* Verdicts are recorded, and a process may be done with its run.
Settle ==
    /\ verdict' \in [Run -> {"absent", "running", "failed"} \cup Success]
    /\ \A r \in Run : verdict'[r] \in MayBecome(r)
    /\ \/ UNCHANGED <<busy, doing>>
       \/ \E p \in Process : busy' = busy \ {p} /\ doing' = doing \ ({p} \X Run)

Next ==
    /\ \/ Settle
       \/ \E p \in Process : Take(p) \/ \E r \in Run : Begin(p, r)
    /\ faulty' \in BOOLEAN /\ (faulty => faulty')

Spec == Init /\ [][Next]_vars
=============================================================================
