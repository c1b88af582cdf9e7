------------------------------ MODULE ScanRuns ------------------------------
(***************************************************************************)
(* The life of a scan: ScanService and _run_scan_locked (scanner.py) as a  *)
(* client sees them, through the rows of scan_runs (storage/scans.py), the *)
(* stored flag meta.scanning and the process-wide _scan_lock.  What a scan *)
(* does to the watches is in WatchScan.                                    *)
(*                                                                         *)
(* A process has callers, which run scans themselves (run_once) or reserve *)
(* a run and hand it to the background thread (submit); the background     *)
(* thread is named like its process.  Every statement that reaches the     *)
(* database is one step and may raise, which costs one of MaxFaults; a     *)
(* process may die at any time, and `doctor` (maintenance.py) repairs what *)
(* a dead daemon left behind.                                              *)
(*                                                                         *)
(* An operator whose comment starts with "Mutant" is no part of the        *)
(* specification: it is the definition below it with a plausible bug.      *)
(***************************************************************************)
EXTENDS Integers, FiniteSets

CONSTANTS
    Process,       \* processes that open the database
    Daemon,        \* the one whose pid is in daemon.json
    Caller,        \* scheduler job, request handlers, command line
    Home,          \* the process of each caller
    MaxRuns,       \* bound: rows of scan_runs
    MaxFaults,     \* bound: database calls and thread starts that raise
    MaxCrashes     \* bound: processes that end with a scan half-way

ASSUME ScanRunsAssumption ==
    /\ Daemon \in Process
    /\ Caller \cap Process = {}
    /\ Home \in [Caller -> Process]
    /\ MaxRuns \in Nat
    /\ MaxFaults \in Nat
    /\ MaxCrashes \in Nat

Thread == Caller \cup Process
Run == 1..MaxRuns
Verdict == {"succeeded", "partial", "failed"}

VARIABLES
    status,        \* scan_runs.status ("absent": no row)
    nextRun,       \* AUTOINCREMENT
    scanning,      \* meta.scanning
    lock,          \* _scan_lock of each process
    life,          \* "up", "closing" (ScanService.close called) or "down"
    pc, run,       \* what each thread does, and its scan_run_id (0: none)
    doctor,        \* "idle", or what doctor has still to write
    overdue,       \* the runs doctor's cut-off makes abandoned
    (* observation only: runs reserved by submit(); the run whose thread
       could not be started; faults and crashes so far                   *)
    reserved, unstarted, faults, crashes

work == <<pc, run>>
ghosts == <<reserved, unstarted, faults, crashes>>
repair == <<doctor, overdue>>
vars == <<status, nextRun, scanning, lock, life, work, repair, ghosts>>

Of(t) == IF t \in Process THEN t ELSE Home[t]

Init ==
    /\ status = [r \in Run |-> "absent"]
    /\ nextRun = 1
    /\ scanning = FALSE
    /\ lock = [p \in Process |-> "free"]
    /\ life = [p \in Process |-> "up"]
    /\ pc = [t \in Thread |-> "idle"]
    /\ run = [t \in Thread |-> 0]
    /\ doctor = "idle"
    /\ overdue = {}
    /\ reserved = {}
    /\ unstarted = {}
    /\ faults = 0
    /\ crashes = 0

Goto(t, l) == pc' = [pc EXCEPT ![t] = l]

Raise == faults < MaxFaults /\ faults' = faults + 1

\* The end of a thread's scan: it forgets its run and releases the lock.
Release(t) ==
    /\ Goto(t, "idle")
    /\ run' = [run EXCEPT ![t] = 0]
    /\ lock' = [lock EXCEPT ![Of(t)] = "free"]

\* Mutant: the flag is tested, not the lock.
AcquireByFlag(t) ==
    /\ ~scanning
    /\ lock' = [lock EXCEPT ![Of(t)] = "held"]

\* _scan_lock.acquire(blocking=False), after the test of self._closed; a
\* caller that does not get the lock returns "busy" and changes nothing.
Acquire(t) ==
    /\ lock[Of(t)] = "free"
    /\ lock' = [lock EXCEPT ![Of(t)] = "held"]

StartRun(t) ==
    /\ nextRun \in Run
    /\ status' = [status EXCEPT ![nextRun] = "running"]
    /\ run' = [run EXCEPT ![t] = nextRun]
    /\ nextRun' = nextRun + 1

\* (Bound: whoever begins a scan finds a row for it.)
Room == nextRun + Cardinality({t \in Thread : pc[t] # "idle" /\ run[t] = 0})
          \in Run

Finish(r, verdict) == status' = [status EXCEPT ![r] = verdict]

-----------------------------------------------------------------------------
(* run_once and submit                                                     *)

RunOnce(t) ==
    /\ pc[t] = "idle"
    /\ life[Of(t)] = "up"
    /\ Room
    /\ Acquire(t)
    /\ Goto(t, "begin")
    /\ UNCHANGED <<status, nextRun, scanning, life, run, repair, ghosts>>

Submit(t) ==
    /\ pc[t] = "idle"
    /\ life[Of(t)] = "up"
    /\ Room
    /\ Acquire(t)
    /\ Goto(t, "reserve")
    /\ UNCHANGED <<status, nextRun, scanning, life, run, repair, ghosts>>

\* settings() and start_scan_run(); before there is a row, only the lock has
\* to be given back.
Reserve(t) ==
    /\ pc[t] = "reserve"
    /\ \/ /\ StartRun(t)
          /\ reserved' = reserved \cup {nextRun}
          /\ Goto(t, "mark")
          /\ UNCHANGED <<lock, faults>>
       \/ /\ Raise
          /\ Release(t)
          /\ UNCHANGED <<status, nextRun, reserved>>
    /\ UNCHANGED <<scanning, life, repair, unstarted, crashes>>

Mark(t) ==
    /\ pc[t] = "mark"
    /\ \/ scanning' = TRUE /\ Goto(t, "spawn") /\ UNCHANGED faults
       \/ Raise /\ Goto(t, "undo") /\ UNCHANGED scanning
    /\ UNCHANGED <<status, nextRun, lock, life, run, repair, reserved,
                   unstarted, crashes>>

\* Mutant: the background scan is not told of the reserved run.
ForgetReservation(t) == run' = [run EXCEPT ![t] = 0]

HandOver(t) == run' = [run EXCEPT ![t] = 0, ![Of(t)] = run[t]]

\* thread.start(): the background thread takes the run over, and the lock.
Spawn(t) ==
    /\ pc[t] = "spawn"
    /\ \/ /\ pc' = [pc EXCEPT ![t] = "idle", ![Of(t)] = "begin"]
          /\ HandOver(t)
          /\ UNCHANGED <<faults, unstarted>>
       \/ /\ Raise
          /\ Goto(t, "undo")
          /\ unstarted' = unstarted \cup {run[t]}
          /\ UNCHANGED run
    /\ UNCHANGED <<status, nextRun, scanning, lock, life, repair, reserved,
                   crashes>>

\* The except clause of submit(): the row is finished, if that can be written;
\* meta.scanning is left as it is.
Undo(t) ==
    /\ pc[t] = "undo"
    /\ \/ Finish(run[t], "failed") /\ UNCHANGED faults
       \/ Raise /\ UNCHANGED status
    /\ Release(t)
    /\ UNCHANGED <<nextRun, scanning, life, repair, reserved, unstarted,
                   crashes>>

-----------------------------------------------------------------------------
(* _run_scan_locked, and the finally clauses of its two callers            *)

\* Settings, watches and the flag, before the try statement.
Begin(t) ==
    /\ pc[t] = "begin"
    /\ \/ scanning' = TRUE /\ Goto(t, "open") /\ UNCHANGED faults
       \/ Raise /\ Goto(t, "finish") /\ UNCHANGED scanning
    /\ UNCHANGED <<status, nextRun, lock, life, run, repair, reserved,
                   unstarted, crashes>>

\* A scan with no reserved run starts one; if that fails there is nothing to
\* recover.
Open(t) ==
    /\ pc[t] = "open"
    /\ \/ /\ run[t] # 0
          /\ Goto(t, "scan")
          /\ UNCHANGED <<status, nextRun, run, faults>>
       \/ run[t] = 0 /\ StartRun(t) /\ Goto(t, "scan") /\ UNCHANGED faults
       \/ /\ run[t] = 0
          /\ Raise
          /\ Goto(t, "finish")
          /\ UNCHANGED <<status, nextRun, run>>
    /\ UNCHANGED <<scanning, lock, life, repair, reserved, unstarted, crashes>>

\* Network and detail pages, then the transaction that stores the snapshot,
\* the verdict and the idle flag together, or nothing.
Record(t) ==
    /\ pc[t] = "scan"
    /\ \/ /\ \E verdict \in Verdict : Finish(run[t], verdict)
          /\ scanning' = FALSE
          /\ Goto(t, "report")
          /\ UNCHANGED faults
       \/ Raise /\ Goto(t, "recover") /\ UNCHANGED <<status, scanning>>
    /\ UNCHANGED <<nextRun, lock, life, run, repair, reserved, unstarted,
                   crashes>>

\* get_setting("baseline_done") for the caller's answer, still inside the try.
Report(t) ==
    /\ pc[t] = "report"
    /\ \/ Goto(t, "finish") /\ UNCHANGED faults
       \/ Raise /\ Goto(t, "recover")
    /\ UNCHANGED <<status, nextRun, scanning, lock, life, run, repair,
                   reserved, unstarted, crashes>>

\* Mutants: the recovery resets the flag only, or deletes the row.
RecoverFlagOnly(t) == UNCHANGED status
RecoverByDelete(t) == Finish(run[t], "absent")

\* What the recovery transaction writes to scan_runs.
RecoverRow(t) == Finish(run[t], "failed")

Recover(t) ==
    /\ pc[t] = "recover"
    /\ \/ RecoverRow(t) /\ scanning' = FALSE /\ UNCHANGED faults
       \/ Raise /\ UNCHANGED <<status, scanning>>
    /\ Goto(t, "finish")
    /\ UNCHANGED <<nextRun, lock, life, run, repair, reserved, unstarted,
                   crashes>>

\* Mutant: if the flag cannot be written the lock is not released, either.
KeepLockOnFault(t) ==
    \/ scanning' = FALSE /\ Release(t) /\ UNCHANGED faults
    \/ /\ Raise
       /\ Goto(t, "idle")
       /\ run' = [run EXCEPT ![t] = 0]
       /\ UNCHANGED <<scanning, lock>>

\* Mutant: the flag is left to the transactions.
ReleaseOnly(t) == Release(t) /\ UNCHANGED <<scanning, faults>>

\* try: set_setting("scanning", False) finally: _scan_lock.release()
Finally(t) ==
    /\ \/ scanning' = FALSE /\ UNCHANGED faults
       \/ Raise /\ UNCHANGED scanning
    /\ Release(t)

Conclude(t) ==
    /\ pc[t] = "finish"
    /\ Finally(t)
    /\ UNCHANGED <<status, nextRun, life, repair, reserved, unstarted,
                   crashes>>

-----------------------------------------------------------------------------
(* Processes, and doctor                                                   *)

Active(p) == {t \in Thread : Of(t) = p /\ pc[t] # "idle"}

\* What is left of a process that ended: nothing but the database.
Vanish(p) ==
    /\ life' = [life EXCEPT ![p] = "down"]
    /\ pc' = [t \in Thread |-> IF Of(t) = p THEN "idle" ELSE pc[t]]
    /\ run' = [t \in Thread |-> IF Of(t) = p THEN 0 ELSE run[t]]
    /\ lock' = [lock EXCEPT ![p] = "free"]

Crash(p) ==
    /\ Active(p) # {}
    /\ crashes < MaxCrashes
    /\ crashes' = crashes + 1
    /\ Vanish(p)
    /\ UNCHANGED <<status, nextRun, scanning, repair, reserved, unstarted,
                   faults>>

\* ScanService.close(): no further scan is accepted.
Close(p) ==
    /\ life[p] = "up"
    /\ life' = [life EXCEPT ![p] = "closing"]
    /\ UNCHANGED <<status, nextRun, scanning, lock, work, repair, ghosts>>

\* The server waits for its callers, and 30 seconds for the background thread;
\* a scan that takes longer is cut off like by a crash.
Exit(p) ==
    /\ life[p] = "closing"
    /\ Active(p) \subseteq {p}
    /\ IF Active(p) = {} THEN UNCHANGED crashes
       ELSE crashes < MaxCrashes /\ crashes' = crashes + 1
    /\ Vanish(p)
    /\ UNCHANGED <<status, nextRun, scanning, repair, reserved, unstarted,
                   faults>>

Start(p) ==
    /\ life[p] = "down"
    /\ life' = [life EXCEPT ![p] = "up"]
    /\ UNCHANGED <<status, nextRun, scanning, lock, work, repair, ghosts>>

Running == {r \in Run : status[r] = "running"}

\* Mutant: doctor does not look whether the daemon is alive.
AlwaysRepairs == TRUE

\* `if not runtime_alive`
Repairs == life[Daemon] = "down"

\* doctor reads the settings and the runtime file and computes its cut-off:
\* any running rows may be older than that, the older ones first.
Examine ==
    /\ doctor = "idle"
    /\ Repairs
    /\ \E r \in 0..MaxRuns : overdue' = {q \in Running : q <= r}
    /\ doctor' = IF scanning THEN "rows then flag" ELSE "rows"
    /\ UNCHANGED <<status, nextRun, scanning, lock, life, work, ghosts>>

\* Mutant: the UPDATE does not ask for status = 'running'.
AbandonedAtCutoff == overdue

Abandoned == overdue \cap Running

MarkAbandoned ==
    /\ doctor \in {"rows", "rows then flag"}
    /\ status' = [r \in Run |->
                    IF r \in Abandoned THEN "failed" ELSE status[r]]
    /\ doctor' = IF doctor = "rows" THEN "idle" ELSE "flag"
    /\ overdue' = {}
    /\ UNCHANGED <<nextRun, scanning, lock, life, work, ghosts>>

ResetFlag ==
    /\ doctor = "flag"
    /\ scanning' = FALSE
    /\ doctor' = "idle"
    /\ UNCHANGED <<status, nextRun, lock, life, work, overdue, ghosts>>

Step(t) ==
    \/ Reserve(t) \/ Mark(t) \/ Spawn(t) \/ Undo(t)
    \/ Begin(t) \/ Open(t) \/ Record(t) \/ Report(t) \/ Recover(t)
    \/ Conclude(t)

Next ==
    \/ \E t \in Caller : RunOnce(t) \/ Submit(t)
    \/ \E t \in Thread : Step(t)
    \/ \E p \in Process : Crash(p) \/ Close(p) \/ Exit(p) \/ Start(p)
    \/ Examine \/ MarkAbandoned \/ ResetFlag

Spec == Init /\ [][Next]_vars

\* A thread that holds the lock keeps running.
FairSpec == Spec /\ \A t \in Thread : WF_vars(Step(t))

-----------------------------------------------------------------------------
(* Properties                                                              *)

\* Every variable has its type, and the rows are those started so far.
TypeOK ==
    /\ status \in [Run -> {"absent", "running"} \cup Verdict]
    /\ nextRun \in 1..(MaxRuns + 1)
    /\ \A r \in Run : status[r] = "absent" <=> r >= nextRun
    /\ scanning \in BOOLEAN
    /\ lock \in [Process -> {"free", "held"}]
    /\ life \in [Process -> {"up", "closing", "down"}]
    /\ pc \in [Thread -> {"idle", "reserve", "mark", "spawn", "undo", "begin",
                          "open", "scan", "report", "recover", "finish"}]
    /\ run \in [Thread -> 0..(nextRun - 1)]
    /\ doctor \in {"idle", "rows", "rows then flag", "flag"}
    /\ overdue \in SUBSET (1..(nextRun - 1))
    /\ reserved \in SUBSET (1..(nextRun - 1))
    /\ unstarted \in SUBSET reserved
    /\ faults \in 0..MaxFaults
    /\ crashes \in 0..MaxCrashes

\* submit() and run_once never let two scans of a process overlap, although
\* one thread takes the lock and another gives it back; and the lock is held
\* only while somebody is still going to give it back.
LockDiscipline ==
    \A p \in Process :
        /\ Cardinality(Active(p)) <= 1
        /\ lock[p] = "held" <=> Active(p) # {}

\* A row is left in `running` only by a crash, by a fault of the recovery
\* itself, or, if submit() reserved it, by one fault before the try statement.
RunsAreOwned ==
    \A r \in Running :
        \/ \E t \in Thread : run[t] = r
        \/ crashes > 0
        \/ faults >= 2
        \/ faults = 1 /\ r \in reserved

\* scanner.py:404: a persistence failure must not leave a run in `running`.
NoRunIsStuck == \A r \in Running : \E t \in Thread : run[t] = r

\* meta.scanning outlives the scans only after a crash, two faults, or a
\* background thread that could not be started.
FlagIsCleared ==
    scanning => \/ \E t \in Thread : pc[t] # "idle"
                \/ crashes > 0
                \/ faults >= 2
                \/ unstarted # {}

\* Seen by a client, the scans implement ScanPromise: a process is busy while
\* its lock is held, and whichever of its threads has a run scans for it.
busy == {p \in Process : lock[p] = "held"}
doing == {<<Of(t), run[t]>> : t \in {u \in Thread : run[u] # 0}}

Promise == INSTANCE ScanPromise
    WITH Process <- Process, Run <- Run, verdict <- status, busy <- busy,
         doing <- doing, faulty <- (faults > 0)

\* A scan fills the run it reserved, also when another thread takes it over;
\* only the process that scans for a run makes it a success, whatever doctor
\* or a restart does meanwhile; and a success that a client polled stands,
\* unless a fault follows it in the same scan (scanner.py, storage/scans.py).
KeepsScanPromise == Promise!Spec

\* doctor never fails a run that the daemon is executing, even if the daemon
\* is started between doctor's look at the pid and its update.
AbandonedIsDead ==
    [][doctor' # doctor =>
          \A t \in Thread : Of(t) = Daemon /\ run[t] # 0 =>
              status'[run[t]] = status[run[t]]]_vars

\* Whatever faults happen, the lock of a process is released again.
LockIsFreed ==
    \A p \in Process : lock[p] = "held" ~> lock[p] = "free"

\* Without crashes and faults a client that polls a run sees it end.
RunsEnd ==
    \A r \in Run : status[r] = "running" ~>
                      status[r] # "running" \/ crashes > 0 \/ faults > 0
=============================================================================
