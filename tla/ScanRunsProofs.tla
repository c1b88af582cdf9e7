--------------------------- MODULE ScanRunsProofs ---------------------------
(***************************************************************************)
(* The life of a scan, for any processes, callers, runs, faults and        *)
(* crashes.  IInv says where a thread may be with which run, and what must *)
(* have gone wrong for it to be there; it is inductive.  The steps of a    *)
(* thread are treated alike: ThreadStep says what is left to be shown of   *)
(* the thread that moves.                                                  *)
(***************************************************************************)
EXTENDS ScanRuns, FiniteSetTheorems, TLAPS

Stage == {"idle", "reserve", "mark", "spawn", "undo", "begin", "open", "scan",
          "report", "recover", "finish"}
Preparing == {"reserve", "mark", "spawn", "undo"}
Owning == {"mark", "spawn", "undo", "scan", "report", "recover"}

\* Where a thread may be with a run, and without one: only callers reserve,
\* and the background thread knows a reserved run before it opens it.
StageOf(t) ==
    /\ pc[t] \in Preparing => t \in Caller
    /\ pc[t] \in {"idle", "reserve"} => run[t] = 0
    /\ pc[t] \in Owning => run[t] # 0
    /\ pc[t] \in {"mark", "spawn", "undo", "begin", "open"} =>
          run[t] = 0 \/ run[t] \in reserved

StageInv == \A t \in Thread : StageOf(t)

\* A process has one scan, its lock is held as long as that runs, and a
\* process that is down has none.
LockInv ==
    /\ \A t, u \in Thread :
          Of(t) = Of(u) /\ pc[t] # "idle" /\ pc[u] # "idle" => t = u
    /\ \A p \in Process :
          lock[p] = "held" <=> \E t \in Thread : Of(t) = p /\ pc[t] # "idle"
    /\ \A t \in Thread : pc[t] # "idle" => life[Of(t)] # "down"

\* A run that is still to be recorded has no success yet, and no two threads
\* have the same run.
OwnerOf(t) ==
    run[t] # 0 /\ pc[t] \in Preparing \cup {"begin", "open", "scan"} =>
        status[run[t]] \in {"running", "failed"}

OwnerInv ==
    /\ \A t, u \in Thread : run[t] # 0 /\ run[t] = run[u] => t = u
    /\ \A t \in Thread : OwnerOf(t)

\* What must have gone wrong where.
FaultOf(t) ==
    /\ pc[t] \in {"undo", "recover"} => faults > 0
    /\ pc[t] = "report" => status[run[t]] # "running"
    /\ pc[t] = "finish" /\ run[t] # 0 /\ status[run[t]] = "running" =>
          faults >= 2 \/ (faults > 0 /\ run[t] \in reserved)

FaultInv == \A t \in Thread : FaultOf(t)

\* Who is going to clear the flag.
Clears(t) ==
    \/ pc[t] \in {"spawn", "begin", "open", "scan"}
    \/ faults > 0 /\ pc[t] \in {"recover", "finish"}

FlagMayStay == crashes > 0 \/ faults >= 2 \/ unstarted # {}

FlagInv == scanning => FlagMayStay \/ \E t \in Thread : Clears(t)

\* Runs that the daemon has are none of those doctor thinks of.
DeadInv == \A t \in Thread : Of(t) = Daemon /\ run[t] # 0 => run[t] \notin overdue

IInv ==
    /\ TypeOK
    /\ StageInv
    /\ LockInv
    /\ OwnerInv
    /\ FaultInv
    /\ FlagInv
    /\ RunsAreOwned
    /\ DeadInv

-----------------------------------------------------------------------------
(* The step of one thread.                                                 *)

\* A caller is no background thread, whose process is itself.
LEMMA Processes ==
    /\ \A t \in Thread : Of(t) \in Process
    /\ \A p \in Process : p \in Thread /\ Of(p) = p
    /\ \A t \in Caller : t \in Thread /\ t # Of(t)
BY ScanRunsAssumption DEF Of, Thread

\* The others do not move, and their runs keep their status.
Others(t) ==
    \A u \in Thread \ {t} :
        /\ pc'[u] = pc[u]
        /\ run'[u] = run[u]
        /\ run[u] # 0 => status'[run[u]] = status[run[u]]

\* The lock is left alone, taken or given back.
LockStep(t) ==
    \/ pc[t] # "idle" /\ pc'[t] # "idle" /\ lock' = lock
    \/ /\ pc[t] = "idle" /\ pc'[t] # "idle" /\ life[Of(t)] # "down"
       /\ lock[Of(t)] = "free" /\ lock' = [lock EXCEPT ![Of(t)] = "held"]
    \/ /\ pc[t] # "idle" /\ pc'[t] = "idle"
       /\ lock' = [lock EXCEPT ![Of(t)] = "free"]

\* A flag that is set stays somebody's business.
FlagStep(t) ==
    scanning' => FlagMayStay' \/ Clears(t)' \/ (scanning /\ ~Clears(t))

\* What excuses a run without a thread.
MayBeLost(r) ==
    crashes > 0 \/ faults >= 2 \/ (faults > 0 /\ r \in reserved)

\* The thread keeps its run, starts one, or leaves one that has ended or
\* may be lost.
RunStep(t) ==
    /\ run'[t] \in {0, run[t], nextRun}
    /\ \A r \in Run : status'[r] = "running" =>
          /\ status[r] = "running" \/ r = run'[t]
          /\ run[t] = r => run'[t] = r \/ MayBeLost(r)'

Grows ==
    /\ reserved \subseteq reserved'
    /\ unstarted \subseteq unstarted'
    /\ faults <= faults'
    /\ crashes' = crashes
    /\ nextRun <= nextRun'
    /\ life' = life
    /\ overdue' = overdue

LEMMA ThreadStep ==
    ASSUME IInv, TypeOK', NEW t \in Thread,
           Others(t), LockStep(t), FlagStep(t), RunStep(t), Grows,
           StageOf(t)', OwnerOf(t)', FaultOf(t)'
    PROVE  IInv'
<1>1. /\ \A u \in Thread : run[u] \in Int /\ run[u] < nextRun
      /\ nextRun \in Int /\ nextRun' \in Int
      /\ faults \in Int /\ faults' \in Int /\ crashes \in Int
  <2>1. \A u \in Thread : run[u] \in 0..(nextRun - 1)
    BY DEF IInv, TypeOK
  <2>2. /\ nextRun \in 1..(MaxRuns + 1) /\ nextRun' \in 1..(MaxRuns + 1)
        /\ faults \in 0..MaxFaults /\ faults' \in 0..MaxFaults
        /\ crashes \in 0..MaxCrashes
    BY DEF IInv, TypeOK
  <2>3. QED BY <2>1, <2>2
<1>2. StageInv'
  BY DEF IInv, StageInv, StageOf, Others, Grows
<1>3. LockInv'
  <2>1. Of(t) \in Process
    BY Processes
  <2>2. \A u \in Thread \ {t} : pc'[u] = pc[u]
    BY DEF Others
  <2>3. lock \in [Process -> {"free", "held"}]
    BY DEF IInv, TypeOK
  <2>4. CASE pc[t] # "idle" /\ pc'[t] # "idle" /\ lock' = lock
    BY <2>2, <2>4 DEF IInv, LockInv, Grows
  <2>5. CASE /\ pc[t] = "idle" /\ pc'[t] # "idle" /\ life[Of(t)] # "down"
             /\ lock[Of(t)] = "free" /\ lock' = [lock EXCEPT ![Of(t)] = "held"]
    <3>1. \A u \in Thread : pc[u] # "idle" => Of(u) # Of(t)
      BY <2>1, <2>5 DEF IInv, LockInv
    <3>2. /\ lock'[Of(t)] = "held"
          /\ \A p \in Process \ {Of(t)} : lock'[p] = lock[p]
      BY <2>1, <2>3, <2>5
    <3>3. QED BY <2>1, <2>2, <2>5, <3>1, <3>2 DEF IInv, LockInv, Grows
  <2>6. CASE /\ pc[t] # "idle" /\ pc'[t] = "idle"
             /\ lock' = [lock EXCEPT ![Of(t)] = "free"]
    <3>1. \A u \in Thread \ {t} : pc[u] # "idle" => Of(u) # Of(t)
      BY <2>6 DEF IInv, LockInv
    <3>2. /\ lock'[Of(t)] = "free"
          /\ \A p \in Process \ {Of(t)} : lock'[p] = lock[p]
      BY <2>1, <2>3, <2>6
    <3>3. QED BY <2>1, <2>2, <2>6, <3>1, <3>2 DEF IInv, LockInv, Grows
  <2>7. QED BY <2>4, <2>5, <2>6 DEF LockStep
<1>4. OwnerInv'
  <2>1. ASSUME NEW u \in Thread \ {t}
        PROVE  OwnerOf(u)' /\ (run'[u] # 0 => run'[u] # run'[t])
    BY <1>1 DEF IInv, OwnerInv, OwnerOf, Others, RunStep
  <2>2. \A u, v \in Thread \ {t} : run'[u] # 0 /\ run'[u] = run'[v] => u = v
    BY DEF IInv, OwnerInv, Others
  <2>3. QED BY <2>1, <2>2 DEF OwnerInv
<1>5. FaultInv'
  <2>1. ASSUME NEW u \in Thread \ {t}
        PROVE  FaultOf(u)'
    <3>1. FaultOf(u) /\ (pc[u] = "report" => run[u] # 0)
      BY DEF IInv, FaultInv, StageInv, StageOf, Owning
    <3>2. QED BY <1>1, <3>1 DEF FaultOf, Others, Grows
  <2>2. QED BY <2>1 DEF FaultInv
<1>6. FlagInv'
  <2>1. \A u \in Thread \ {t} : Clears(u) => Clears(u)'
    BY <1>1 DEF Clears, Others, Grows
  <2>2. FlagMayStay => FlagMayStay'
    BY <1>1 DEF FlagMayStay, Grows
  <2>3. QED BY <2>1, <2>2 DEF IInv, FlagInv, FlagStep
<1>7. RunsAreOwned'
  <2>1. SUFFICES ASSUME NEW r \in Run, status'[r] = "running"
                 PROVE  (\E u \in Thread : run'[u] = r) \/ MayBeLost(r)'
    BY <1>1 DEF RunsAreOwned, Running, MayBeLost
  <2>2. CASE r = run'[t]
    BY <2>2
  <2>3. CASE status[r] = "running" /\ r # run'[t]
    <3>1. (\E u \in Thread : run[u] = r) \/ MayBeLost(r)
      BY <1>1, <2>3 DEF IInv, RunsAreOwned, Running, MayBeLost
    <3>2. MayBeLost(r) => MayBeLost(r)'
      BY <1>1 DEF MayBeLost, Grows
    <3>3. run[t] = r => MayBeLost(r)'
      BY <2>1, <2>3 DEF RunStep, Run
    <3>4. QED BY <3>1, <3>2, <3>3 DEF Others
  <2>4. QED BY <2>1, <2>2, <2>3 DEF RunStep
<1>8. DeadInv'
  <2>1. overdue \in SUBSET (1..(nextRun - 1))
    BY DEF IInv, TypeOK
  <2>2. nextRun \notin overdue
    BY <1>1, <2>1
  <2>3. QED BY <2>2 DEF IInv, DeadInv, Others, RunStep, Grows
<1>9. QED BY <1>2, <1>3, <1>4, <1>5, <1>6, <1>7, <1>8 DEF IInv

-----------------------------------------------------------------------------
(* What the parts of the actions do.                                       *)

LEMMA Numbers ==
    ASSUME TypeOK
    PROVE  /\ nextRun \in Int /\ nextRun > 0
           /\ faults \in Int /\ crashes \in Int /\ 0 <= faults
           /\ 0 \notin Run
<1>1. nextRun \in 1..(MaxRuns + 1) /\ faults \in 0..MaxFaults /\ crashes \in 0..MaxCrashes
  BY DEF TypeOK
<1>2. QED BY <1>1 DEF Run

LEMMA Going ==
    ASSUME TypeOK, NEW t \in Thread, NEW l, Goto(t, l)
    PROVE  /\ pc'[t] = l /\ \A u \in Thread \ {t} : pc'[u] = pc[u]
           /\ l \in Stage => pc' \in [Thread -> Stage]
BY DEF TypeOK, Goto, Stage

LEMMA Releasing ==
    ASSUME TypeOK, NEW t \in Thread, Release(t)
    PROVE  /\ pc'[t] = "idle" /\ run'[t] = 0
           /\ \A u \in Thread \ {t} : pc'[u] = pc[u] /\ run'[u] = run[u]
           /\ lock' = [lock EXCEPT ![Of(t)] = "free"]
           /\ lock' \in [Process -> {"free", "held"}]
           /\ pc' \in [Thread -> Stage]
           /\ run' \in [Thread -> 0..(nextRun - 1)]
<1>1. 0 \in 0..(nextRun - 1)
  BY Numbers
<1>2. QED BY <1>1, Going, Processes DEF TypeOK, Release, Stage

\* A run that somebody has is a row, and not the next one.
LEMMA RunsAreRows ==
    ASSUME TypeOK
    PROVE  \A t \in Thread : run[t] \in Int /\ run[t] < nextRun
                           /\ (run[t] # 0 => run[t] \in Run)
<1>1. /\ nextRun \in 1..(MaxRuns + 1)
      /\ \A t \in Thread : run[t] \in 0..(nextRun - 1)
  BY DEF TypeOK
<1>2. QED BY <1>1, ScanRunsAssumption DEF Run

LEMMA Finishing ==
    ASSUME IInv, NEW t \in Thread, run[t] # 0, NEW v \in Verdict, Finish(run[t], v)
    PROVE  /\ status'[run[t]] = v
           /\ \A r \in Run \ {run[t]} : status'[r] = status[r]
           /\ \A u \in Thread \ {t} :
                 run[u] # 0 => status'[run[u]] = status[run[u]]
           /\ status' \in [Run -> {"absent", "running"} \cup Verdict]
           /\ \A r \in Run : status'[r] = "absent" <=> r >= nextRun
<1>1. run[t] \in Run /\ run[t] < nextRun /\ nextRun \in Int
  BY RunsAreRows, Numbers DEF IInv
<1>2. /\ status \in [Run -> {"absent", "running"} \cup Verdict]
      /\ \A r \in Run : status[r] = "absent" <=> r >= nextRun
  BY DEF IInv, TypeOK
<1>3. /\ status'[run[t]] = v
      /\ \A r \in Run \ {run[t]} : status'[r] = status[r]
      /\ status' \in [Run -> {"absent", "running"} \cup Verdict]
  BY <1>1, <1>2 DEF Finish
<1>4. \A u \in Thread \ {t} : run[u] # 0 => run[u] \in Run \ {run[t]}
  BY RunsAreRows DEF IInv, OwnerInv
<1>5. v # "absent"
  BY DEF Verdict
<1>6. \A r \in Run : status'[r] = "absent" <=> r >= nextRun
  <2>1. run[t] >= nextRun <=> FALSE
    BY <1>1, RunsAreRows DEF IInv
  <2>2. QED BY <1>2, <1>3, <1>5, <2>1
<1>7. QED BY <1>3, <1>4, <1>6

LEMMA Starting ==
    ASSUME IInv, NEW t \in Thread, StartRun(t)
    PROVE  /\ nextRun \in Run /\ run'[t] = nextRun /\ nextRun' = nextRun + 1
           /\ \A u \in Thread \ {t} : run'[u] = run[u]
           /\ status'[nextRun] = "running"
           /\ \A r \in Run \ {nextRun} : status'[r] = status[r]
           /\ \A u \in Thread : run[u] # 0 => status'[run[u]] = status[run[u]]
           /\ status' \in [Run -> {"absent", "running"} \cup Verdict]
           /\ \A r \in Run : status'[r] = "absent" <=> r >= nextRun'
           /\ run' \in [Thread -> 0..(nextRun' - 1)]
           /\ nextRun' \in 1..(MaxRuns + 1)
<1>1. /\ nextRun \in Run /\ nextRun' = nextRun + 1
      /\ run' = [run EXCEPT ![t] = nextRun]
      /\ status' = [status EXCEPT ![nextRun] = "running"]
  BY DEF StartRun
<1>2. /\ status \in [Run -> {"absent", "running"} \cup Verdict]
      /\ \A r \in Run : status[r] = "absent" <=> r >= nextRun
      /\ run \in [Thread -> 0..(nextRun - 1)]
  BY DEF IInv, TypeOK
<1>3. /\ status'[nextRun] = "running"
      /\ \A r \in Run \ {nextRun} : status'[r] = status[r]
      /\ status' \in [Run -> {"absent", "running"} \cup Verdict]
      /\ run'[t] = nextRun
      /\ \A u \in Thread \ {t} : run'[u] = run[u]
  BY <1>1, <1>2
<1>4. nextRun \in 1..MaxRuns /\ MaxRuns \in Nat
  BY <1>1, ScanRunsAssumption DEF Run
<1>5. run' \in [Thread -> 0..(nextRun' - 1)] /\ nextRun' \in 1..(MaxRuns + 1)
  BY <1>1, <1>2, <1>4
<1>6. \A r \in Run : status'[r] = "absent" <=> r >= nextRun'
  BY <1>1, <1>2, <1>3, <1>4 DEF Run
<1>7. \A u \in Thread : run[u] # 0 => run[u] \in Run \ {nextRun}
  BY <1>4, RunsAreRows DEF IInv
<1>8. QED BY <1>1, <1>3, <1>5, <1>6, <1>7

\* A fault is one more, and at least the first.
LEMMA Raising ==
    ASSUME TypeOK, Raise
    PROVE  faults' > 0 /\ faults <= faults' /\ faults' \in 0..MaxFaults
           /\ (faults > 0 => faults' >= 2)
<1>1. faults \in 0..MaxFaults
  BY DEF TypeOK
<1>2. QED BY <1>1, ScanRunsAssumption DEF Raise

-----------------------------------------------------------------------------
(* One lemma for each action of a thread.                                  *)

LEMMA RunOnceInv ==
    ASSUME IInv, NEW t \in Caller, RunOnce(t)
    PROVE  IInv'
<1>1. t \in Thread /\ Of(t) \in Process /\ TypeOK
  BY Processes DEF IInv
<1>2. /\ pc'[t] = "begin" /\ pc[t] = "idle"
      /\ \A u \in Thread \ {t} : pc'[u] = pc[u]
  BY <1>1, Going DEF RunOnce
<1>3. UNCHANGED <<status, nextRun, scanning, life, run, repair, ghosts>>
  BY DEF RunOnce
<1>4. run[t] = 0
  BY <1>1, <1>2 DEF IInv, StageInv, StageOf
<1>5. LockStep(t)
  BY <1>2 DEF RunOnce, Acquire, LockStep
<1>6. TypeOK'
  BY <1>1 DEF RunOnce, Acquire, Goto, TypeOK, repair, ghosts
<1>7. Others(t) /\ FlagStep(t) /\ RunStep(t) /\ Grows
  BY <1>1, <1>2, <1>3, Numbers
     DEF Others, FlagStep, Clears, RunStep, Grows, repair, ghosts
<1>8. StageOf(t)' /\ OwnerOf(t)' /\ FaultOf(t)'
  BY <1>2, <1>3, <1>4 DEF StageOf, OwnerOf, FaultOf, Preparing, Owning
<1>9. QED BY <1>1, <1>5, <1>6, <1>7, <1>8, ThreadStep

LEMMA SubmitInv ==
    ASSUME IInv, NEW t \in Caller, Submit(t)
    PROVE  IInv'
<1>1. t \in Thread /\ Of(t) \in Process /\ TypeOK
  BY Processes DEF IInv
<1>2. /\ pc'[t] = "reserve" /\ pc[t] = "idle"
      /\ \A u \in Thread \ {t} : pc'[u] = pc[u]
  BY <1>1, Going DEF Submit
<1>3. UNCHANGED <<status, nextRun, scanning, life, run, repair, ghosts>>
  BY DEF Submit
<1>4. run[t] = 0
  BY <1>1, <1>2 DEF IInv, StageInv, StageOf
<1>5. LockStep(t)
  BY <1>2 DEF Submit, Acquire, LockStep
<1>6. TypeOK'
  BY <1>1 DEF Submit, Acquire, Goto, TypeOK, repair, ghosts
<1>7. Others(t) /\ FlagStep(t) /\ RunStep(t) /\ Grows
  BY <1>1, <1>2, <1>3, Numbers
     DEF Others, FlagStep, Clears, RunStep, Grows, repair, ghosts
<1>8. StageOf(t)' /\ OwnerOf(t)' /\ FaultOf(t)'
  BY <1>2, <1>3, <1>4 DEF StageOf, OwnerOf, FaultOf, Preparing, Owning
<1>9. QED BY <1>1, <1>5, <1>6, <1>7, <1>8, ThreadStep

LEMMA ReserveInv ==
    ASSUME IInv, NEW t \in Thread, Reserve(t)
    PROVE  IInv'
<1>1. TypeOK /\ StageOf(t) /\ pc[t] = "reserve" /\ run[t] = 0 /\ t \in Caller
  BY DEF IInv, StageInv, StageOf, Reserve, Preparing
<1>2. UNCHANGED <<scanning, life, repair, unstarted, crashes>>
  BY DEF Reserve
<1>3. CASE /\ StartRun(t)
           /\ reserved' = reserved \cup {nextRun}
           /\ Goto(t, "mark")
           /\ UNCHANGED <<lock, faults>>
  <2>1. pc'[t] = "mark" /\ \A u \in Thread \ {t} : pc'[u] = pc[u]
    BY <1>1, <1>3, Going
  <2>2. TypeOK'
    <3>1. /\ reserved \in SUBSET (1..(nextRun - 1))
          /\ overdue \in SUBSET (1..(nextRun - 1))
          /\ unstarted \in SUBSET reserved
      BY <1>1 DEF TypeOK
    <3>2. /\ reserved' \in SUBSET (1..(nextRun' - 1))
          /\ overdue \in SUBSET (1..(nextRun' - 1))
          /\ unstarted \in SUBSET reserved'
      <4>1. nextRun \in 1..(nextRun' - 1) /\ 1..(nextRun - 1) \subseteq 1..(nextRun' - 1)
        BY <1>1, <1>3, Numbers, Starting
      <4>2. QED BY <1>3, <3>1, <4>1
    <3>3. pc' \in [Thread -> Stage]
      BY <1>1, <1>3, Going DEF Stage
    <3>4. QED BY <1>1, <1>2, <1>3, <3>2, <3>3, Starting DEF TypeOK, repair, Stage
  <2>3. Others(t) /\ LockStep(t)
    BY <1>1, <1>3, <2>1, Starting DEF Others, LockStep
  <2>4. FlagStep(t) /\ RunStep(t)
    BY <1>1, <1>2, <1>3, <2>1, Starting, Numbers DEF FlagStep, Clears, RunStep
  <2>5. Grows
    BY <1>1, <1>2, <1>3, Starting, Numbers DEF Grows, repair
  <2>6. StageOf(t)' /\ OwnerOf(t)' /\ FaultOf(t)'
    BY <1>1, <1>3, <2>1, Starting, Numbers DEF StageOf, OwnerOf, FaultOf, Preparing, Owning
  <2>7. QED BY <2>2, <2>3, <2>4, <2>5, <2>6, ThreadStep
<1>4. CASE Raise /\ Release(t) /\ UNCHANGED <<status, nextRun, reserved>>
  <2>1. TypeOK'
    BY <1>1, <1>2, <1>4, Releasing, Raising DEF TypeOK, repair, Stage
  <2>2. Others(t) /\ LockStep(t) /\ FlagStep(t) /\ RunStep(t)
    BY <1>1, <1>2, <1>4, Releasing, Numbers
       DEF Others, LockStep, FlagStep, Clears, RunStep
  <2>5. Grows
    BY <1>1, <1>2, <1>4, Raising, Numbers DEF Grows, repair
  <2>3. StageOf(t)' /\ OwnerOf(t)' /\ FaultOf(t)'
    BY <1>1, <1>4, Releasing DEF StageOf, OwnerOf, FaultOf, Preparing, Owning
  <2>4. QED BY <2>1, <2>2, <2>3, <2>5, ThreadStep
<1>5. QED BY <1>3, <1>4 DEF Reserve

LEMMA MarkInv ==
    ASSUME IInv, NEW t \in Thread, Mark(t)
    PROVE  IInv'
<1>1. TypeOK /\ StageOf(t) /\ OwnerOf(t) /\ pc[t] = "mark" /\ run[t] # 0 /\ t \in Caller
  BY DEF IInv, StageInv, StageOf, OwnerInv, Mark, Preparing, Owning
<1>2. UNCHANGED <<status, nextRun, lock, life, run, repair, reserved, unstarted,
                  crashes>>
  BY DEF Mark
<1>3. CASE scanning' = TRUE /\ Goto(t, "spawn") /\ UNCHANGED faults
  <2>1. /\ pc'[t] = "spawn" /\ \A u \in Thread \ {t} : pc'[u] = pc[u]
        /\ pc' \in [Thread -> Stage]
    BY <1>1, <1>3, Going DEF Stage
  <2>2. TypeOK'
    BY <1>1, <1>2, <1>3, <2>1 DEF TypeOK, repair, Stage
  <2>3. Others(t) /\ LockStep(t) /\ FlagStep(t) /\ RunStep(t)
    BY <1>1, <1>2, <2>1 DEF Others, LockStep, FlagStep, Clears, RunStep
  <2>4. Grows
    BY <1>1, <1>2, <1>3, Numbers DEF Grows, repair
  <2>5. StageOf(t)' /\ OwnerOf(t)' /\ FaultOf(t)'
    BY <1>1, <1>2, <2>1 DEF StageOf, OwnerOf, FaultOf, Preparing, Owning
  <2>6. QED BY <2>2, <2>3, <2>4, <2>5, ThreadStep
<1>4. CASE Raise /\ Goto(t, "undo") /\ UNCHANGED scanning
  <2>1. /\ pc'[t] = "undo" /\ \A u \in Thread \ {t} : pc'[u] = pc[u]
        /\ pc' \in [Thread -> Stage]
    BY <1>1, <1>4, Going DEF Stage
  <2>2. TypeOK'
    BY <1>1, <1>2, <1>4, <2>1, Raising DEF TypeOK, repair, Stage
  <2>3. Others(t) /\ LockStep(t) /\ FlagStep(t) /\ RunStep(t)
    BY <1>1, <1>2, <1>4, <2>1 DEF Others, LockStep, FlagStep, Clears, RunStep
  <2>4. Grows
    BY <1>1, <1>2, <1>4, Raising, Numbers DEF Grows, repair
  <2>5. StageOf(t)' /\ OwnerOf(t)' /\ FaultOf(t)'
    BY <1>1, <1>2, <1>4, <2>1, Raising
       DEF StageOf, OwnerOf, FaultOf, Preparing, Owning
  <2>6. QED BY <2>2, <2>3, <2>4, <2>5, ThreadStep
<1>5. QED BY <1>3, <1>4 DEF Mark

LEMMA UndoInv ==
    ASSUME IInv, NEW t \in Thread, Undo(t)
    PROVE  IInv'
<1>1. TypeOK /\ pc[t] = "undo" /\ run[t] # 0 /\ faults > 0 /\ t \in Caller
  BY DEF IInv, StageInv, StageOf, FaultInv, FaultOf, Undo, Preparing, Owning
<1>2. /\ pc'[t] = "idle" /\ run'[t] = 0
      /\ \A u \in Thread \ {t} : pc'[u] = pc[u] /\ run'[u] = run[u]
      /\ lock' = [lock EXCEPT ![Of(t)] = "free"]
      /\ pc' \in [Thread -> Stage]
      /\ run' \in [Thread -> 0..(nextRun - 1)]
      /\ lock' \in [Process -> {"free", "held"}]
      /\ UNCHANGED <<nextRun, scanning, life, repair, reserved, unstarted, crashes>>
  BY <1>1, Releasing DEF Undo
<1>3. LockStep(t) /\ FlagStep(t)
  BY <1>1, <1>2 DEF LockStep, FlagStep, Clears
<1>4. StageOf(t)' /\ OwnerOf(t)' /\ FaultOf(t)'
  BY <1>2 DEF StageOf, OwnerOf, FaultOf, Preparing, Owning
<1>5. CASE Finish(run[t], "failed") /\ UNCHANGED faults
  <2>1. "failed" \in Verdict
    BY DEF Verdict
  <2>2. TypeOK'
    BY <1>1, <1>2, <1>5, <2>1, Finishing DEF TypeOK, repair, Stage
  <2>3. Others(t) /\ RunStep(t)
    BY <1>1, <1>2, <1>5, <2>1, Finishing DEF Others, RunStep
  <2>4. Grows
    BY <1>1, <1>2, <1>5, Numbers DEF Grows, repair
  <2>5. QED BY <1>3, <1>4, <2>2, <2>3, <2>4, ThreadStep
<1>6. CASE Raise /\ UNCHANGED status
  <2>1. TypeOK'
    BY <1>1, <1>2, <1>6, Raising DEF TypeOK, repair, Stage
  <2>2. Others(t) /\ RunStep(t)
    BY <1>1, <1>2, <1>6, Raising DEF Others, RunStep, MayBeLost
  <2>3. Grows
    BY <1>1, <1>2, <1>6, Raising, Numbers DEF Grows, repair
  <2>4. QED BY <1>3, <1>4, <2>1, <2>2, <2>3, ThreadStep
<1>7. QED BY <1>5, <1>6 DEF Undo

LEMMA BeginInv ==
    ASSUME IInv, NEW t \in Thread, Begin(t)
    PROVE  IInv'
<1>1. TypeOK /\ StageOf(t) /\ OwnerOf(t) /\ pc[t] = "begin"
  BY DEF IInv, StageInv, OwnerInv, Begin
<1>2. UNCHANGED <<status, nextRun, lock, life, run, repair, reserved, unstarted,
                  crashes>>
  BY DEF Begin
<1>3. CASE scanning' = TRUE /\ Goto(t, "open") /\ UNCHANGED faults
  <2>1. /\ pc'[t] = "open" /\ \A u \in Thread \ {t} : pc'[u] = pc[u]
        /\ pc' \in [Thread -> Stage]
    BY <1>1, <1>3, Going DEF Stage
  <2>2. TypeOK'
    BY <1>1, <1>2, <1>3, <2>1 DEF TypeOK, repair, Stage
  <2>3. Others(t) /\ LockStep(t) /\ FlagStep(t) /\ RunStep(t)
    BY <1>1, <1>2, <2>1 DEF Others, LockStep, FlagStep, Clears, RunStep
  <2>4. Grows
    BY <1>1, <1>2, <1>3, Numbers DEF Grows, repair
  <2>5. StageOf(t)' /\ OwnerOf(t)' /\ FaultOf(t)'
    BY <1>1, <1>2, <2>1 DEF StageOf, OwnerOf, FaultOf, Preparing, Owning
  <2>6. QED BY <2>2, <2>3, <2>4, <2>5, ThreadStep
<1>4. CASE Raise /\ Goto(t, "finish") /\ UNCHANGED scanning
  <2>1. /\ pc'[t] = "finish" /\ \A u \in Thread \ {t} : pc'[u] = pc[u]
        /\ pc' \in [Thread -> Stage]
    BY <1>1, <1>4, Going DEF Stage
  <2>2. TypeOK'
    BY <1>1, <1>2, <1>4, <2>1, Raising DEF TypeOK, repair, Stage
  <2>3. Others(t) /\ LockStep(t) /\ FlagStep(t) /\ RunStep(t)
    BY <1>1, <1>2, <1>4, <2>1, Raising
       DEF Others, LockStep, FlagStep, Clears, RunStep
  <2>4. Grows
    BY <1>1, <1>2, <1>4, Raising, Numbers DEF Grows, repair
  <2>5. StageOf(t)' /\ OwnerOf(t)' /\ FaultOf(t)'
    BY <1>1, <1>2, <1>4, <2>1, Raising
       DEF StageOf, OwnerOf, FaultOf, Preparing, Owning
  <2>6. QED BY <2>2, <2>3, <2>4, <2>5, ThreadStep
<1>5. QED BY <1>3, <1>4 DEF Begin

LEMMA OpenInv ==
    ASSUME IInv, NEW t \in Thread, Open(t)
    PROVE  IInv'
<1>1. TypeOK /\ StageOf(t) /\ OwnerOf(t) /\ pc[t] = "open"
  BY DEF IInv, StageInv, OwnerInv, Open
<1>2. UNCHANGED <<scanning, lock, life, repair, reserved, unstarted, crashes>>
  BY DEF Open
<1>3. CASE run[t] # 0 /\ Goto(t, "scan") /\ UNCHANGED <<status, nextRun, run, faults>>
  <2>1. /\ pc'[t] = "scan" /\ \A u \in Thread \ {t} : pc'[u] = pc[u]
        /\ pc' \in [Thread -> Stage]
    BY <1>1, <1>3, Going DEF Stage
  <2>2. TypeOK'
    BY <1>1, <1>2, <1>3, <2>1 DEF TypeOK, repair, Stage
  <2>3. Others(t) /\ LockStep(t) /\ FlagStep(t) /\ RunStep(t)
    BY <1>1, <1>2, <1>3, <2>1 DEF Others, LockStep, FlagStep, Clears, RunStep
  <2>4. Grows
    BY <1>1, <1>2, <1>3, Numbers DEF Grows, repair
  <2>5. StageOf(t)' /\ OwnerOf(t)' /\ FaultOf(t)'
    BY <1>1, <1>2, <1>3, <2>1 DEF StageOf, OwnerOf, FaultOf, Preparing, Owning
  <2>6. QED BY <2>2, <2>3, <2>4, <2>5, ThreadStep
<1>4. CASE run[t] = 0 /\ StartRun(t) /\ Goto(t, "scan") /\ UNCHANGED faults
  <2>1. /\ pc'[t] = "scan" /\ \A u \in Thread \ {t} : pc'[u] = pc[u]
        /\ pc' \in [Thread -> Stage]
    BY <1>1, <1>4, Going DEF Stage
  <2>2. TypeOK'
    <3>1. /\ reserved \in SUBSET (1..(nextRun - 1))
          /\ overdue \in SUBSET (1..(nextRun - 1))
      BY <1>1 DEF TypeOK
    <3>2. 1..(nextRun - 1) \subseteq 1..(nextRun' - 1)
      BY <1>1, <1>4, Numbers, Starting
    <3>3. /\ reserved' \in SUBSET (1..(nextRun' - 1))
          /\ overdue' \in SUBSET (1..(nextRun' - 1))
      BY <1>2, <3>1, <3>2 DEF repair
    <3>4. QED BY <1>1, <1>2, <1>4, <2>1, <3>3, Starting DEF TypeOK, repair, Stage
  <2>3. Others(t) /\ LockStep(t)
    BY <1>1, <1>2, <1>4, <2>1, Starting DEF Others, LockStep
  <2>4. FlagStep(t) /\ RunStep(t)
    BY <1>1, <1>2, <1>4, <2>1, Starting, Numbers DEF FlagStep, Clears, RunStep
  <2>5. Grows
    BY <1>1, <1>2, <1>4, Starting, Numbers DEF Grows, repair
  <2>6. StageOf(t)' /\ OwnerOf(t)' /\ FaultOf(t)'
    BY <1>1, <1>4, <2>1, Starting, Numbers DEF StageOf, OwnerOf, FaultOf, Preparing, Owning
  <2>7. QED BY <2>2, <2>3, <2>4, <2>5, <2>6, ThreadStep
<1>5. CASE run[t] = 0 /\ Raise /\ Goto(t, "finish") /\ UNCHANGED <<status, nextRun, run>>
  <2>1. /\ pc'[t] = "finish" /\ \A u \in Thread \ {t} : pc'[u] = pc[u]
        /\ pc' \in [Thread -> Stage]
    BY <1>1, <1>5, Going DEF Stage
  <2>2. TypeOK'
    BY <1>1, <1>2, <1>5, <2>1, Raising DEF TypeOK, repair, Stage
  <2>3. Others(t) /\ LockStep(t) /\ FlagStep(t) /\ RunStep(t)
    BY <1>1, <1>2, <1>5, <2>1, Raising
       DEF Others, LockStep, FlagStep, Clears, RunStep
  <2>4. Grows
    BY <1>1, <1>2, <1>5, Raising, Numbers DEF Grows, repair
  <2>5. StageOf(t)' /\ OwnerOf(t)' /\ FaultOf(t)'
    BY <1>5, <2>1 DEF StageOf, OwnerOf, FaultOf, Preparing, Owning
  <2>6. QED BY <2>2, <2>3, <2>4, <2>5, ThreadStep
<1>6. QED BY <1>3, <1>4, <1>5 DEF Open

LEMMA RecordInv ==
    ASSUME IInv, NEW t \in Thread, Record(t)
    PROVE  IInv'
<1>1. TypeOK /\ StageOf(t) /\ OwnerOf(t) /\ pc[t] = "scan" /\ run[t] # 0
  BY DEF IInv, StageInv, StageOf, Owning, OwnerInv, Record
<1>2. UNCHANGED <<nextRun, lock, life, run, repair, reserved, unstarted, crashes>>
  BY DEF Record
<1>3. CASE /\ \E verdict \in Verdict : Finish(run[t], verdict)
           /\ scanning' = FALSE /\ Goto(t, "report") /\ UNCHANGED faults
  <2>1. /\ pc'[t] = "report" /\ \A u \in Thread \ {t} : pc'[u] = pc[u]
        /\ pc' \in [Thread -> Stage]
    BY <1>1, <1>3, Going DEF Stage
  <2>2. PICK verdict \in Verdict : Finish(run[t], verdict)
    BY <1>3
  <2>3. TypeOK'
    BY <1>1, <1>2, <1>3, <2>1, <2>2, Finishing DEF TypeOK, repair, Stage
  <2>4. status'[run[t]] # "running"
    BY <1>1, <2>2, Finishing DEF Verdict
  <2>5. Others(t) /\ LockStep(t) /\ FlagStep(t) /\ RunStep(t)
    BY <1>1, <1>2, <1>3, <2>1, <2>2, <2>4, Finishing
       DEF Others, LockStep, FlagStep, RunStep
  <2>6. Grows
    BY <1>1, <1>2, <1>3, Numbers DEF Grows, repair
  <2>7. StageOf(t)' /\ OwnerOf(t)' /\ FaultOf(t)'
    BY <1>1, <1>2, <2>1, <2>4 DEF StageOf, OwnerOf, FaultOf, Preparing, Owning
  <2>8. QED BY <2>3, <2>5, <2>6, <2>7, ThreadStep
<1>4. CASE Raise /\ Goto(t, "recover") /\ UNCHANGED <<status, scanning>>
  <2>1. /\ pc'[t] = "recover" /\ \A u \in Thread \ {t} : pc'[u] = pc[u]
        /\ pc' \in [Thread -> Stage]
    BY <1>1, <1>4, Going DEF Stage
  <2>2. TypeOK'
    BY <1>1, <1>2, <1>4, <2>1, Raising DEF TypeOK, repair, Stage
  <2>3. Others(t) /\ LockStep(t) /\ FlagStep(t) /\ RunStep(t)
    BY <1>1, <1>2, <1>4, <2>1, Raising
       DEF Others, LockStep, FlagStep, Clears, RunStep
  <2>4. Grows
    BY <1>1, <1>2, <1>4, Raising, Numbers DEF Grows, repair
  <2>5. StageOf(t)' /\ OwnerOf(t)' /\ FaultOf(t)'
    BY <1>1, <1>2, <1>4, <2>1, Raising
       DEF StageOf, OwnerOf, FaultOf, Preparing, Owning
  <2>6. QED BY <2>2, <2>3, <2>4, <2>5, ThreadStep
<1>5. QED BY <1>3, <1>4 DEF Record

LEMMA ReportInv ==
    ASSUME IInv, NEW t \in Thread, Report(t)
    PROVE  IInv'
<1>1. /\ TypeOK /\ pc[t] = "report" /\ run[t] # 0
      /\ status[run[t]] # "running"
  BY DEF IInv, StageInv, StageOf, Owning, FaultInv, FaultOf, Report
<1>2. UNCHANGED <<status, nextRun, scanning, lock, life, run, repair, reserved,
                  unstarted, crashes>>
  BY DEF Report
<1>3. \/ pc'[t] = "finish" /\ Goto(t, "finish") /\ UNCHANGED faults
      \/ pc'[t] = "recover" /\ Goto(t, "recover") /\ Raise
  BY <1>1, Going DEF Report
<1>4. /\ \A u \in Thread \ {t} : pc'[u] = pc[u]
      /\ pc' \in [Thread -> Stage]
  BY <1>1, <1>3, Going DEF Stage
<1>5. TypeOK'
  BY <1>1, <1>2, <1>3, <1>4, Raising DEF TypeOK, repair, Stage
<1>6. Others(t) /\ LockStep(t) /\ FlagStep(t) /\ RunStep(t)
  BY <1>1, <1>2, <1>3, <1>4 DEF Others, LockStep, FlagStep, Clears, RunStep
<1>7. Grows
  BY <1>1, <1>2, <1>3, Raising, Numbers DEF Grows, repair
<1>8. StageOf(t)' /\ OwnerOf(t)' /\ FaultOf(t)'
  BY <1>1, <1>2, <1>3, Raising DEF StageOf, OwnerOf, FaultOf, Preparing, Owning
<1>9. QED BY <1>5, <1>6, <1>7, <1>8, ThreadStep

LEMMA RecoverInv ==
    ASSUME IInv, NEW t \in Thread, Recover(t)
    PROVE  IInv'
<1>1. TypeOK /\ pc[t] = "recover" /\ run[t] # 0 /\ faults > 0
  BY DEF IInv, StageInv, StageOf, Owning, FaultInv, FaultOf, Recover
<1>2. /\ pc'[t] = "finish" /\ \A u \in Thread \ {t} : pc'[u] = pc[u]
      /\ pc' \in [Thread -> Stage]
  BY <1>1, Going DEF Recover, Stage
<1>3. UNCHANGED <<nextRun, lock, life, run, repair, reserved, unstarted, crashes>>
  BY DEF Recover
<1>4. CASE Finish(run[t], "failed") /\ scanning' = FALSE /\ UNCHANGED faults
  <2>1. "failed" \in Verdict
    BY DEF Verdict
  <2>2. TypeOK'
    BY <1>1, <1>2, <1>3, <1>4, <2>1, Finishing DEF TypeOK, repair, Stage
  <2>3. Others(t) /\ LockStep(t) /\ FlagStep(t) /\ RunStep(t)
    BY <1>1, <1>2, <1>3, <1>4, <2>1, Finishing DEF Others, LockStep, FlagStep, RunStep
  <2>4. Grows
    BY <1>1, <1>3, <1>4, Numbers DEF Grows, repair
  <2>5. StageOf(t)' /\ OwnerOf(t)' /\ FaultOf(t)'
    BY <1>1, <1>2, <1>3, <1>4, <2>1, Finishing
       DEF StageOf, OwnerOf, FaultOf, Preparing, Owning
  <2>6. QED BY <2>2, <2>3, <2>4, <2>5, ThreadStep
<1>5. CASE Raise /\ UNCHANGED <<status, scanning>>
  <2>1. TypeOK'
    BY <1>1, <1>2, <1>3, <1>5, Raising DEF TypeOK, repair, Stage
  <2>2. Others(t) /\ LockStep(t) /\ FlagStep(t) /\ RunStep(t)
    BY <1>1, <1>2, <1>3, <1>5, Raising
       DEF Others, LockStep, FlagStep, FlagMayStay, RunStep
  <2>3. Grows
    BY <1>1, <1>3, <1>5, Raising, Numbers DEF Grows, repair
  <2>4. StageOf(t)' /\ OwnerOf(t)' /\ FaultOf(t)'
    BY <1>1, <1>2, <1>3, <1>5, Raising
       DEF StageOf, OwnerOf, FaultOf, Preparing, Owning
  <2>5. QED BY <2>1, <2>2, <2>3, <2>4, ThreadStep
<1>6. QED BY <1>4, <1>5 DEF Recover, RecoverRow

LEMMA ConcludeInv ==
    ASSUME IInv, NEW t \in Thread, Conclude(t)
    PROVE  IInv'
<1>1. TypeOK /\ FaultOf(t) /\ pc[t] = "finish"
  BY DEF IInv, FaultInv, Conclude
<1>2. /\ pc'[t] = "idle" /\ run'[t] = 0
      /\ \A u \in Thread \ {t} : pc'[u] = pc[u] /\ run'[u] = run[u]
      /\ lock' = [lock EXCEPT ![Of(t)] = "free"]
      /\ pc' \in [Thread -> Stage]
      /\ run' \in [Thread -> 0..(nextRun - 1)]
      /\ lock' \in [Process -> {"free", "held"}]
  BY <1>1, Releasing DEF Conclude, Finally
<1>3. /\ UNCHANGED <<status, nextRun, life, repair, reserved, unstarted, crashes>>
      /\ \/ scanning' = FALSE /\ UNCHANGED faults
         \/ Raise /\ UNCHANGED scanning
  BY DEF Conclude, Finally
<1>4. TypeOK'
  BY <1>1, <1>2, <1>3, Raising DEF TypeOK, repair, Stage
<1>5. Grows
  BY <1>1, <1>3, Raising, Numbers DEF Grows, repair
<1>6. Others(t) /\ LockStep(t)
  BY <1>1, <1>2, <1>3 DEF Others, LockStep
<1>7. FlagStep(t)
  BY <1>1, <1>3, Raising, Numbers DEF FlagStep, FlagMayStay, Clears
<1>8. RunStep(t)
  <2>1. ASSUME NEW r \in Run, status'[r] = "running", run[t] = r
        PROVE  MayBeLost(r)'
    <3>1. faults >= 2 \/ (faults > 0 /\ r \in reserved)
      BY <1>1, <1>3, <2>1, Numbers DEF FaultOf
    <3>2. faults' \in Int /\ faults <= faults' /\ reserved' = reserved
      BY <1>1, <1>3, Raising, Numbers
    <3>3. QED BY <1>1, <3>1, <3>2, Numbers DEF MayBeLost
  <2>2. QED BY <1>2, <1>3, <2>1 DEF RunStep
<1>9. StageOf(t)' /\ OwnerOf(t)' /\ FaultOf(t)'
  BY <1>2 DEF StageOf, OwnerOf, FaultOf, Preparing, Owning
<1>10. QED BY <1>4, <1>5, <1>6, <1>7, <1>8, <1>9, ThreadStep

\* The caller gives its run and the lock to the background thread.
LEMMA SpawnInv ==
    ASSUME IInv, NEW t \in Thread, Spawn(t)
    PROVE  IInv'
<1>1. /\ TypeOK /\ StageOf(t) /\ OwnerOf(t)
      /\ pc[t] = "spawn" /\ t \in Caller /\ run[t] # 0 /\ run[t] \in reserved
  BY DEF IInv, StageInv, StageOf, OwnerInv, Spawn, Preparing, Owning
<1>2. UNCHANGED <<status, nextRun, scanning, lock, life, repair, reserved, crashes>>
  BY DEF Spawn
<1>3. CASE Raise /\ Goto(t, "undo") /\ unstarted' = unstarted \cup {run[t]} /\ UNCHANGED run
  <2>1. /\ pc'[t] = "undo" /\ \A u \in Thread \ {t} : pc'[u] = pc[u]
        /\ pc' \in [Thread -> Stage]
    BY <1>1, <1>3, Going DEF Stage
  <2>2. TypeOK'
    BY <1>1, <1>2, <1>3, <2>1, Raising DEF TypeOK, repair, Stage
  <2>3. Others(t) /\ LockStep(t) /\ FlagStep(t) /\ RunStep(t)
    BY <1>1, <1>2, <1>3, <2>1, Raising
       DEF Others, LockStep, FlagStep, FlagMayStay, RunStep
  <2>4. Grows
    BY <1>1, <1>2, <1>3, Raising, Numbers DEF Grows, repair
  <2>5. StageOf(t)' /\ OwnerOf(t)' /\ FaultOf(t)'
    BY <1>1, <1>2, <1>3, <2>1, Raising
       DEF StageOf, OwnerOf, FaultOf, Preparing, Owning
  <2>6. QED BY <2>2, <2>3, <2>4, <2>5, ThreadStep
<1>4. CASE /\ pc' = [pc EXCEPT ![t] = "idle", ![Of(t)] = "begin"]
           /\ HandOver(t)
           /\ UNCHANGED <<faults, unstarted>>
  <2> DEFINE b == Of(t)
  <2>1. b \in Thread /\ b \in Process /\ b # t /\ Of(b) = b
    BY <1>1, Processes
  <2>2. pc[b] = "idle" /\ run[b] = 0
    BY <1>1, <2>1 DEF IInv, LockInv, StageInv, StageOf
  <2> HIDE DEF b
  <2>3. /\ pc'[t] = "idle" /\ pc'[b] = "begin"
        /\ run'[t] = 0 /\ run'[b] = run[t]
        /\ \A u \in Thread \ {t, b} : pc'[u] = pc[u] /\ run'[u] = run[u]
    BY <1>1, <1>4, <2>1 DEF TypeOK, HandOver, b
  <2>4. TypeOK'
    <3>1. pc' \in [Thread -> Stage]
      BY <1>1, <1>4 DEF TypeOK, Stage
    <3>2. 0 \in 0..(nextRun - 1)
      BY <1>1, Numbers
    <3>3. run' \in [Thread -> 0..(nextRun - 1)]
      BY <1>1, <1>4, <3>2 DEF TypeOK, HandOver
    <3>4. QED BY <1>1, <1>2, <1>4, <3>1, <3>3 DEF TypeOK, repair, Stage
  <2>5. StageInv'
    <3>1. StageOf(t)'
      BY <2>3 DEF StageOf, Preparing, Owning
    <3>2. StageOf(b)'
      BY <1>1, <1>2, <2>3 DEF StageOf, Preparing, Owning
    <3>3. ASSUME NEW u \in Thread \ {t, b}
          PROVE  StageOf(u)'
      BY <1>2, <2>3 DEF IInv, StageInv, StageOf
    <3>4. QED BY <3>1, <3>2, <3>3 DEF StageInv
  <2>6. LockInv'
    <3>1. \A u \in Thread : pc[u] # "idle" /\ Of(u) = b => u = t
      BY <1>1 DEF IInv, LockInv, b
    <3>2. \A u \in Thread : pc'[u] # "idle" /\ Of(u) = b => u = b
      BY <2>3, <3>1
    <3>3. \A u \in Thread : Of(u) # b => pc'[u] = pc[u]
      BY <2>1, <2>3 DEF b
    <3>4. \A p \in Process : (\E u \in Thread : Of(u) = p /\ pc'[u] # "idle")
                          <=> (\E u \in Thread : Of(u) = p /\ pc[u] # "idle")
      <4>1. (\E u \in Thread : Of(u) = b /\ pc'[u] # "idle")
            /\ (\E u \in Thread : Of(u) = b /\ pc[u] # "idle")
        BY <1>1, <2>1, <2>3 DEF b
      <4>2. QED BY <3>3, <4>1
    <3>5. \A u, v \in Thread :
             Of(u) = Of(v) /\ pc'[u] # "idle" /\ pc'[v] # "idle" => u = v
      BY <3>2, <3>3 DEF IInv, LockInv
    <3>6. \A u \in Thread : pc'[u] # "idle" => life[Of(u)] # "down"
      BY <1>1, <3>3 DEF IInv, LockInv, b
    <3>7. QED BY <1>2, <3>4, <3>5, <3>6 DEF IInv, LockInv
  <2>7. OwnerInv'
    <3>1. \A u, v \in Thread : run'[u] # 0 /\ run'[u] = run'[v] => u = v
      BY <1>1, <2>3 DEF IInv, OwnerInv
    <3>2. OwnerOf(t)' /\ OwnerOf(b)'
      BY <1>1, <1>2, <2>3 DEF OwnerOf, Preparing
    <3>3. ASSUME NEW u \in Thread \ {t, b}
          PROVE  OwnerOf(u)'
      BY <1>2, <2>3 DEF IInv, OwnerInv, OwnerOf
    <3>4. QED BY <3>1, <3>2, <3>3 DEF OwnerInv
  <2>8. FaultInv'
    <3>1. FaultOf(t)' /\ FaultOf(b)'
      BY <2>3 DEF FaultOf
    <3>2. ASSUME NEW u \in Thread \ {t, b}
          PROVE  FaultOf(u)'
      BY <1>2, <1>4, <2>3 DEF IInv, FaultInv, FaultOf
    <3>3. QED BY <3>1, <3>2 DEF FaultInv
  <2>9. FlagInv'
    BY <2>1, <2>3 DEF FlagInv, Clears
  <2>10. RunsAreOwned'
    <3>1. \A r \in Run : (\E u \in Thread : run[u] = r) => (\E u \in Thread : run'[u] = r)
      BY <1>1, <2>1, <2>2, <2>3, Numbers
    <3>2. QED BY <1>2, <1>4, <3>1 DEF IInv, RunsAreOwned, Running
  <2>11. DeadInv'
    BY <1>1, <1>2, <2>1, <2>3 DEF IInv, DeadInv, repair, b
  <2>12. QED BY <2>4, <2>5, <2>6, <2>7, <2>8, <2>9, <2>10, <2>11 DEF IInv
<1>5. QED BY <1>3, <1>4 DEF Spawn

LEMMA StepInv ==
    ASSUME IInv, NEW t \in Thread, Step(t)
    PROVE  IInv'
BY ReserveInv, MarkInv, SpawnInv, UndoInv, BeginInv, OpenInv, RecordInv, ReportInv,
   RecoverInv, ConcludeInv DEF Step

-----------------------------------------------------------------------------
(* Processes and doctor.                                                   *)

\* What a process takes along when it ends.
LEMMA VanishInv ==
    ASSUME IInv, NEW p \in Process, Vanish(p),
           UNCHANGED <<status, nextRun, scanning, repair, reserved, unstarted, faults>>,
           crashes' \in 0..MaxCrashes,
           crashes' > 0 \/ (crashes' = crashes /\ Active(p) = {})
    PROVE  IInv'
<1>1. /\ TypeOK
      /\ \A t \in Thread : Of(t) = p => pc'[t] = "idle" /\ run'[t] = 0
      /\ \A t \in Thread : Of(t) # p => pc'[t] = pc[t] /\ run'[t] = run[t]
      /\ \A q \in Process \ {p} : life'[q] = life[q] /\ lock'[q] = lock[q]
      /\ lock'[p] = "free" /\ life'[p] = "down"
  BY DEF IInv, TypeOK, Vanish
<1>2. /\ crashes \in Int /\ crashes' \in Int /\ nextRun \in Int /\ nextRun > 0
      /\ faults \in Int
  BY <1>1, Numbers
<1>3. TypeOK'
  <2>1. /\ pc' \in [Thread -> Stage] /\ life' \in [Process -> {"up", "closing", "down"}]
        /\ lock' \in [Process -> {"free", "held"}]
    BY <1>1 DEF TypeOK, Vanish, Stage
  <2>2. run' \in [Thread -> 0..(nextRun - 1)]
    <3>1. 0 \in 0..(nextRun - 1)
      BY <1>2
    <3>2. run \in [Thread -> 0..(nextRun - 1)]
      BY <1>1 DEF TypeOK
    <3>3. run' = [t \in Thread |-> IF Of(t) = p THEN 0 ELSE run[t]]
      BY DEF Vanish
    <3>4. QED BY <3>1, <3>2, <3>3
  <2>3. QED BY <1>1, <2>1, <2>2 DEF TypeOK, repair, Stage
<1>4. StageInv'
  BY <1>1 DEF IInv, StageInv, StageOf, Preparing, Owning
<1>5. LockInv'
  BY <1>1, Processes DEF IInv, LockInv
<1>6. OwnerInv'
  BY <1>1 DEF IInv, OwnerInv, OwnerOf
<1>7. FaultInv'
  BY <1>1 DEF IInv, FaultInv, FaultOf
<1>8. FlagInv'
  <2>1. CASE crashes' > 0
    BY <2>1 DEF FlagInv, FlagMayStay
  <2>2. CASE crashes' = crashes /\ Active(p) = {}
    <3>1. \A t \in Thread : pc'[t] = pc[t]
      BY <1>1, <2>2 DEF Active
    <3>2. QED BY <2>2, <3>1 DEF IInv, FlagInv, FlagMayStay, Clears
  <2>3. QED BY <2>1, <2>2
<1>9. RunsAreOwned'
  <2>1. CASE crashes' > 0
    BY <2>1 DEF RunsAreOwned
  <2>2. CASE crashes' = crashes /\ Active(p) = {}
    <3>1. \A t \in Thread : Of(t) = p => pc[t] = "idle"
      BY <2>2 DEF Active
    <3>2. \A t \in Thread : run'[t] = run[t]
      BY <1>1, <3>1 DEF IInv, StageInv, StageOf
    <3>3. QED BY <2>2, <3>2 DEF IInv, RunsAreOwned, Running
  <2>3. QED BY <2>1, <2>2
<1>10. DeadInv'
  BY <1>1 DEF IInv, DeadInv, repair
<1>11. QED BY <1>3, <1>4, <1>5, <1>6, <1>7, <1>8, <1>9, <1>10 DEF IInv

LEMMA CrashInv ==
    ASSUME IInv, NEW p \in Process, Crash(p)
    PROVE  IInv'
<1>1. crashes \in Int /\ crashes \in 0..MaxCrashes
  BY Numbers DEF IInv, TypeOK
<1>2. crashes' \in 0..MaxCrashes /\ crashes' > 0
  BY <1>1, ScanRunsAssumption DEF Crash
<1>3. QED BY <1>2, VanishInv DEF Crash

LEMMA ExitInv ==
    ASSUME IInv, NEW p \in Process, Exit(p)
    PROVE  IInv'
<1>1. crashes \in Int /\ crashes \in 0..MaxCrashes
  BY Numbers DEF IInv, TypeOK
<1>2. /\ crashes' \in 0..MaxCrashes
      /\ crashes' > 0 \/ (crashes' = crashes /\ Active(p) = {})
  BY <1>1, ScanRunsAssumption DEF Exit
<1>3. QED BY <1>2, VanishInv DEF Exit

\* Starting and closing concern no thread.
LEMMA LifeInv ==
    ASSUME IInv, NEW p \in Process, Close(p) \/ Start(p)
    PROVE  IInv'
<1>1. /\ life' \in [Process -> {"up", "closing", "down"}]
      /\ \A q \in Process : life[q] # "down" => life'[q] # "down"
  BY DEF IInv, TypeOK, Close, Start
<1>2. UNCHANGED <<status, nextRun, scanning, lock, work, repair, ghosts>>
  BY DEF Close, Start
<1>3. TypeOK'
  BY <1>1, <1>2 DEF IInv, TypeOK, work, repair, ghosts
<1>4. LockInv'
  BY <1>1, <1>2, Processes DEF IInv, LockInv, work
<1>5. StageInv' /\ OwnerInv' /\ FaultInv'
  BY <1>2 DEF IInv, StageInv, StageOf, OwnerInv, OwnerOf, FaultInv, FaultOf, work, ghosts
<1>6. FlagInv' /\ RunsAreOwned' /\ DeadInv'
  BY <1>2 DEF IInv, FlagInv, FlagMayStay, Clears, RunsAreOwned, Running, DeadInv,
              work, ghosts, repair
<1>7. QED BY <1>3, <1>4, <1>5, <1>6 DEF IInv

\* Doctor looks while the daemon is down, when it has no run.
LEMMA ExamineInv ==
    ASSUME IInv, Examine
    PROVE  IInv'
<1>1. /\ overdue' \subseteq Running /\ doctor' \in {"rows", "rows then flag"}
      /\ life[Daemon] = "down"
      /\ UNCHANGED <<status, nextRun, scanning, lock, life, work, ghosts>>
  BY DEF Examine, Repairs
<1>2. overdue' \subseteq 1..(nextRun - 1)
  <2>1. \A r \in Run : status[r] = "running" => r < nextRun /\ r \in Int /\ r >= 1
    <3>1. \A r \in Run : status[r] = "absent" <=> r >= nextRun
      BY DEF IInv, TypeOK
    <3>2. QED BY <3>1, Numbers DEF Run, IInv
  <2>2. nextRun \in Int
    BY Numbers DEF IInv
  <2>3. \A r \in overdue' : r \in Run /\ status[r] = "running"
    BY <1>1 DEF Running
  <2>4. \A r \in overdue' : r \in 1..(nextRun - 1)
    BY <2>1, <2>2, <2>3
  <2>5. QED BY <2>4
<1>3. TypeOK'
  BY <1>1, <1>2 DEF IInv, TypeOK, work, ghosts
<1>4. \A t \in Thread : Of(t) = Daemon => run[t] = 0
  BY <1>1 DEF IInv, LockInv, StageInv, StageOf
<1>5. DeadInv'
  BY <1>1, <1>4 DEF DeadInv, work
<1>6. StageInv' /\ OwnerInv' /\ FaultInv' /\ LockInv'
  BY <1>1 DEF IInv, StageInv, StageOf, OwnerInv, OwnerOf, FaultInv, FaultOf, LockInv,
              work, ghosts
<1>7. FlagInv' /\ RunsAreOwned'
  BY <1>1 DEF IInv, FlagInv, FlagMayStay, Clears, RunsAreOwned, Running, work, ghosts
<1>8. QED BY <1>3, <1>5, <1>6, <1>7 DEF IInv

\* Its update fails running rows only.
LEMMA MarkAbandonedInv ==
    ASSUME IInv, MarkAbandoned
    PROVE  IInv'
<1>1. /\ UNCHANGED <<nextRun, scanning, lock, life, work, ghosts>>
      /\ overdue' = {} /\ doctor' \in {"idle", "flag"}
  BY DEF MarkAbandoned
<1>2. \A r \in Run : status'[r] = status[r] \/ (status[r] = "running" /\ status'[r] = "failed")
  BY DEF MarkAbandoned, Abandoned, Running
<1>3. \A t \in Thread : run[t] # 0 => run[t] \in Run
  BY RunsAreRows DEF IInv
<1>4. TypeOK'
  <2>1. status' \in [Run -> {"absent", "running"} \cup Verdict]
    BY DEF IInv, TypeOK, MarkAbandoned, Verdict
  <2>2. \A r \in Run : status'[r] = "absent" <=> r >= nextRun
    BY <1>2 DEF IInv, TypeOK
  <2>3. QED BY <1>1, <2>1, <2>2 DEF IInv, TypeOK, work, ghosts
<1>5. StageInv' /\ LockInv'
  BY <1>1 DEF IInv, StageInv, StageOf, LockInv, work, ghosts
<1>6. OwnerInv'
  BY <1>1, <1>2, <1>3 DEF IInv, OwnerInv, OwnerOf, work
<1>7. FaultInv'
  BY <1>1, <1>2, <1>3 DEF IInv, FaultInv, FaultOf, StageInv, StageOf, Owning, work, ghosts
<1>8. FlagInv' /\ DeadInv'
  BY <1>1 DEF IInv, FlagInv, FlagMayStay, Clears, DeadInv, work, ghosts
<1>9. RunsAreOwned'
  BY <1>1, <1>2 DEF IInv, RunsAreOwned, Running, work, ghosts
<1>10. QED BY <1>4, <1>5, <1>6, <1>7, <1>8, <1>9 DEF IInv

LEMMA ResetFlagInv ==
    ASSUME IInv, ResetFlag
    PROVE  IInv'
<1>1. /\ UNCHANGED <<status, nextRun, lock, life, work, overdue, ghosts>>
      /\ ~scanning' /\ scanning' \in BOOLEAN /\ doctor' = "idle"
  BY DEF ResetFlag
<1>2. TypeOK'
  BY <1>1 DEF IInv, TypeOK, work, ghosts
<1>3. StageInv' /\ OwnerInv' /\ FaultInv' /\ LockInv'
  BY <1>1 DEF IInv, StageInv, StageOf, OwnerInv, OwnerOf, FaultInv, FaultOf, LockInv,
              work, ghosts
<1>4. FlagInv' /\ RunsAreOwned' /\ DeadInv'
  BY <1>1 DEF IInv, FlagInv, RunsAreOwned, Running, DeadInv, work, ghosts
<1>5. QED BY <1>2, <1>3, <1>4 DEF IInv

LEMMA InitInv == Init => IInv
<1> SUFFICES ASSUME Init PROVE IInv
  OBVIOUS
<1>1. TypeOK
  <2>1. /\ nextRun = 1 /\ nextRun \in 1..(MaxRuns + 1)
        /\ \A r \in Run : status[r] = "absent" /\ r >= nextRun
        /\ faults \in 0..MaxFaults /\ crashes \in 0..MaxCrashes
    BY ScanRunsAssumption DEF Init, Run
  <2>2. run \in [Thread -> 0..(nextRun - 1)]
    BY <2>1 DEF Init
  <2>3. QED BY <2>1, <2>2 DEF Init, TypeOK
<1>2. StageInv /\ LockInv
  BY Processes DEF Init, StageInv, StageOf, LockInv, Preparing, Owning
<1>3. OwnerInv /\ FaultInv /\ FlagInv /\ RunsAreOwned /\ DeadInv
  BY DEF Init, OwnerInv, OwnerOf, FaultInv, FaultOf, FlagInv, RunsAreOwned, Running, DeadInv
<1>4. QED BY <1>1, <1>2, <1>3 DEF IInv

LEMMA NextInv ==
    ASSUME IInv, [Next]_vars
    PROVE  IInv'
<1>1. CASE \E t \in Caller : RunOnce(t) \/ Submit(t)
  BY <1>1, RunOnceInv, SubmitInv
<1>2. CASE \E t \in Thread : Step(t)
  BY <1>2, StepInv
<1>3. CASE \E p \in Process : Crash(p) \/ Close(p) \/ Exit(p) \/ Start(p)
  BY <1>3, CrashInv, LifeInv, ExitInv
<1>4. CASE Examine \/ MarkAbandoned \/ ResetFlag
  BY <1>4, ExamineInv, MarkAbandonedInv, ResetFlagInv
<1>5. CASE UNCHANGED vars
  <2>1. TypeOK'
    BY <1>5 DEF IInv, TypeOK, vars, work, repair, ghosts
  <2>2. StageInv' /\ OwnerInv' /\ FaultInv' /\ LockInv'
    BY <1>5 DEF IInv, StageInv, StageOf, OwnerInv, OwnerOf, FaultInv, FaultOf, LockInv,
                vars, work, ghosts
  <2>3. FlagInv' /\ RunsAreOwned' /\ DeadInv'
    BY <1>5 DEF IInv, FlagInv, FlagMayStay, Clears, RunsAreOwned, Running, DeadInv,
                vars, work, ghosts, repair
  <2>4. QED BY <2>1, <2>2, <2>3 DEF IInv
<1>6. QED BY <1>1, <1>2, <1>3, <1>4, <1>5 DEF Next

-----------------------------------------------------------------------------
(* The theorems.                                                           *)

\* The inductive invariant holds in every reachable state.
THEOREM Invariance == Spec => []IInv
<1>1. Init => IInv
  BY InitInv
<1>2. IInv /\ [Next]_vars => IInv'
  BY NextInv
<1>3. QED BY <1>1, <1>2, PTL DEF Spec

\* Every variable keeps its type, and scan_runs has the rows started so far.
THEOREM TypeCorrectness == Spec => []TypeOK
<1>1. IInv => TypeOK
  BY DEF IInv
<1>2. QED BY <1>1, Invariance, PTL

\* _scan_lock keeps the scans of a process apart although one thread takes
\* it and another gives it back, and no path keeps it (scanner.py).
THEOREM LocksAreKept == Spec => []LockDiscipline
<1>1. ASSUME IInv
      PROVE  LockDiscipline
  <2>1. SUFFICES ASSUME NEW p \in Process
                 PROVE  /\ Cardinality(Active(p)) <= 1
                        /\ lock[p] = "held" <=> Active(p) # {}
    BY DEF LockDiscipline
  <2>2. lock[p] = "held" <=> Active(p) # {}
    BY <1>1 DEF IInv, LockInv, Active
  <2>3. Cardinality(Active(p)) <= 1
    <3>1. CASE Active(p) = {}
      BY <3>1, FS_EmptySet
    <3>2. CASE Active(p) # {}
      <4>1. PICK t \in Active(p) : TRUE
        BY <3>2
      <4>2. Active(p) = {t}
        BY <1>1, <4>1 DEF IInv, LockInv, Active
      <4>3. QED BY <4>2, FS_Singleton
    <3>3. QED BY <3>1, <3>2
  <2>4. QED BY <2>2, <2>3
<1>2. QED BY <1>1, Invariance, PTL

\* A row is left in `running' only by a crash, a fault of the recovery, or a
\* fault between submit() and the try statement (scanner.py:404).
THEOREM RunsHaveOwners == Spec => []RunsAreOwned
<1>1. IInv => RunsAreOwned
  BY DEF IInv
<1>2. QED BY <1>1, Invariance, PTL

\* meta.scanning outlives the scans only after a crash, two faults or a
\* thread that could not be started.
THEOREM FlagsAreCleared == Spec => []FlagIsCleared
<1>1. IInv => FlagIsCleared
  BY DEF IInv, FlagInv, FlagMayStay, Clears, FlagIsCleared
<1>2. QED BY <1>1, Invariance, PTL

\* doctor writes to no run of the daemon, also when the daemon starts after
\* doctor has looked (maintenance.py).
THEOREM DoctorSparesTheLiving == Spec => AbandonedIsDead
<1> DEFINE Spared ==
      doctor' # doctor =>
          \A t \in Thread : Of(t) = Daemon /\ run[t] # 0 =>
              status'[run[t]] = status[run[t]]
<1>1. ASSUME IInv, Next
      PROVE  Spared
  <2>1. CASE MarkAbandoned
    <3>1. ASSUME NEW t \in Thread, Of(t) = Daemon, run[t] # 0
          PROVE  status'[run[t]] = status[run[t]]
      <4>1. run[t] \in Run /\ run[t] \notin overdue
        BY <1>1, <3>1, RunsAreRows DEF IInv, DeadInv
      <4>2. QED BY <2>1, <4>1 DEF MarkAbandoned, Abandoned
    <3>2. QED BY <3>1
  <2>2. CASE Examine \/ ResetFlag
    BY <2>2 DEF Examine, ResetFlag
  <2>3. CASE UNCHANGED doctor
    BY <2>3
  <2>4. QED BY <1>1, <2>1, <2>2, <2>3
            DEF Next, RunOnce, Submit, Crash, Close, Exit, Start, Step, Reserve, Mark,
                Spawn, Undo, Begin, Open, Record, Report, Recover, Conclude, repair
<1>2. ASSUME IInv, [Next]_vars
      PROVE  [Spared]_vars
  BY <1>1, <1>2
<1>3. QED BY <1>2, Invariance, PTL DEF Spec, AbandonedIsDead

-----------------------------------------------------------------------------
(* The scans implement ScanPromise.                                        *)

LEMMA DoingIs ==
    \A p, r : <<p, r>> \in doing <=> \E t \in Thread : run[t] # 0 /\ Of(t) = p /\ run[t] = r
BY DEF doing

\* A thread that scans is the only one of its process that may have a run.
LEMMA OthersHaveNoRun ==
    ASSUME IInv, NEW t \in Thread, pc[t] # "idle",
           NEW u \in Thread, Of(u) = Of(t), u # t
    PROVE  pc[u] = "idle" /\ run[u] = 0
BY DEF IInv, LockInv, StageInv, StageOf

LEMMA PromiseInit == Init => Promise!Init
<1>1. SUFFICES ASSUME Init PROVE Promise!Init
  OBVIOUS
<1>2. /\ \A p \in Process : lock[p] = "free"
      /\ \A t \in Thread : run[t] = 0
      /\ faults = 0 /\ status = [r \in Run |-> "absent"]
  BY <1>1 DEF Init
<1>3. busy = {} /\ doing = {}
  BY <1>2 DEF busy, doing
<1>4. (faults > 0) = FALSE
  BY <1>2
<1>5. QED BY <1>2, <1>3, <1>4 DEF Promise!Init

-----------------------------------------------------------------------------
(* What the actions do to who scans for which run.                         *)

LEMMA SameRuns ==
    ASSUME run' = run, lock' = lock
    PROVE  busy' = busy /\ doing' = doing
BY DEF busy, doing

LEMMA TakeMapped ==
    ASSUME IInv, NEW t \in Caller, RunOnce(t) \/ Submit(t)
    PROVE  Promise!Take(Of(t))
<1>1. /\ lock[Of(t)] = "free" /\ lock' = [lock EXCEPT ![Of(t)] = "held"]
      /\ run' = run /\ status' = status
  BY DEF RunOnce, Submit, Acquire
<1>2. lock \in [Process -> {"free", "held"}] /\ Of(t) \in Process
  BY Processes DEF IInv, TypeOK
<1>3. Of(t) \notin busy /\ busy' = busy \cup {Of(t)}
  BY <1>1, <1>2 DEF busy
<1>4. doing' = doing
  BY <1>1 DEF doing
<1>5. QED BY <1>1, <1>3, <1>4 DEF Promise!Take

LEMMA BeginMapped ==
    ASSUME IInv, NEW t \in Thread, pc[t] # "idle", run[t] = 0, StartRun(t), lock' = lock
    PROVE  Promise!Begin(Of(t), nextRun)
<1>1. /\ nextRun \in Run /\ run'[t] = nextRun /\ nextRun # 0
      /\ \A u \in Thread \ {t} : run'[u] = run[u]
      /\ status' = [status EXCEPT ![nextRun] = "running"]
  BY Starting, Numbers DEF IInv, StartRun
<1>2. Of(t) \in busy /\ busy' = busy
  BY Processes DEF IInv, LockInv, busy
<1>3. \A q \in Run : <<Of(t), q>> \notin doing
  BY DoingIs, OthersHaveNoRun
<1>4. doing' = doing \cup {<<Of(t), nextRun>>}
  BY <1>1 DEF doing
<1>5. \A q \in Run : status[q] = "absent" <=> q >= nextRun
  BY DEF IInv, TypeOK
<1>6. QED BY <1>1, <1>2, <1>3, <1>4, <1>5 DEF Promise!Begin

\* The threads of a process let go of its lock and of their run.
LEMMA Leaving ==
    ASSUME IInv, NEW p \in Process, lock' = [lock EXCEPT ![p] = "free"],
           \A u \in Thread : run'[u] = IF Of(u) = p THEN 0 ELSE run[u]
    PROVE  busy' = busy \ {p} /\ doing' = doing \ ({p} \X Run)
<1>1. lock \in [Process -> {"free", "held"}]
  BY DEF IInv, TypeOK
<1>2. busy' = busy \ {p}
  BY <1>1 DEF busy
<1>3. \A u \in Thread : run[u] # 0 => run[u] \in Run
  BY RunsAreRows DEF IInv
<1>4. doing' = {<<Of(u), run[u]>> : u \in {x \in Thread : run[x] # 0 /\ Of(x) # p}}
  BY DEF doing
<1>5. doing \ ({p} \X Run)
        = {<<Of(u), run[u]>> : u \in {x \in Thread : run[x] # 0 /\ Of(x) # p}}
  BY <1>3 DEF doing
<1>6. QED BY <1>2, <1>4, <1>5

LEMMA ReleaseMapped ==
    ASSUME IInv, NEW t \in Thread, pc[t] # "idle", Release(t)
    PROVE  busy' = busy \ {Of(t)} /\ doing' = doing \ ({Of(t)} \X Run)
<1>1. /\ lock' = [lock EXCEPT ![Of(t)] = "free"] /\ run'[t] = 0
      /\ \A u \in Thread \ {t} : run'[u] = run[u]
  BY Releasing DEF IInv
<1>2. \A u \in Thread : run'[u] = IF Of(u) = Of(t) THEN 0 ELSE run[u]
  BY <1>1, OthersHaveNoRun
<1>3. Of(t) \in Process
  BY Processes
<1>4. QED BY <1>1, <1>2, <1>3, Leaving

LEMMA HandOverMapped ==
    ASSUME IInv, NEW t \in Thread, pc[t] = "spawn", HandOver(t)
    PROVE  doing' = doing
<1>1. t \in Caller /\ Of(t) \in Thread /\ Of(t) # t /\ Of(Of(t)) = Of(t)
  BY Processes DEF IInv, StageInv, StageOf, Preparing
<1>2. run[t] # 0 /\ run[Of(t)] = 0
  BY <1>1, OthersHaveNoRun DEF IInv, StageInv, StageOf, Owning
<1>3. run \in [Thread -> 0..(nextRun - 1)]
  BY DEF IInv, TypeOK
<1>4. /\ run'[t] = 0 /\ run'[Of(t)] = run[t]
      /\ \A u \in Thread \ {t, Of(t)} : run'[u] = run[u]
  BY <1>1, <1>3 DEF HandOver
<1>5. \A pair : pair \in doing' <=> pair \in doing
  BY <1>1, <1>2, <1>4 DEF doing
<1>6. QED BY <1>5 DEF doing

-----------------------------------------------------------------------------
(* Every step is one the promise allows.                                   *)

LEMMA FaultsGrow ==
    ASSUME IInv, Next
    PROVE  faults > 0 => faults' > 0
<1>1. faults \in Int
  BY Numbers DEF IInv
<1>2. faults' = faults \/ faults' = faults + 1
  BY DEF Next, RunOnce, Submit, Crash, Close, Exit, Start, Examine, MarkAbandoned, ResetFlag,
         Step, Reserve, Mark, Spawn, Undo, Begin, Open, Record, Report, Recover, Conclude,
         Finally, Raise, ghosts
<1>3. QED BY <1>1, <1>2

LEMMA SettleMapped ==
    ASSUME IInv, IInv', Next,
           \A r \in Run : status'[r] \in Promise!MayBecome(r),
           \/ busy' = busy /\ doing' = doing
           \/ \E p \in Process : busy' = busy \ {p} /\ doing' = doing \ ({p} \X Run)
    PROVE  Promise!Next
<1>1. status' \in [Run -> {"absent", "running", "failed"} \cup Promise!Success]
  BY DEF IInv, TypeOK, Verdict, Promise!Success
<1>2. Promise!Settle
  BY <1>1 DEF Promise!Settle
<1>3. (faults > 0)' \in BOOLEAN /\ ((faults > 0) => (faults > 0)')
  BY FaultsGrow
<1>4. QED BY <1>2, <1>3 DEF Promise!Next

\* The verdict a thread records for the run it has.
Records(t) ==
    /\ run[t] # 0
    /\ \/ pc[t] = "scan" /\ \E v \in Verdict : Finish(run[t], v)
       \/ pc[t] \in {"undo", "recover"} /\ Finish(run[t], "failed")

LEMMA VerdictMapped ==
    ASSUME IInv, NEW t \in Thread, status' = status \/ Records(t)
    PROVE  \A r \in Run : status'[r] \in Promise!MayBecome(r)
<1>1. CASE status' = status
  BY <1>1 DEF Promise!MayBecome
<1>2. CASE Records(t)
  <2>1. /\ run[t] \in Run /\ run[t] # 0
        /\ status[run[t]] \in {"running", "succeeded", "partial", "failed"}
    <3>1. /\ run[t] \in Run /\ run[t] < nextRun /\ run[t] \in Int /\ nextRun \in Int
      BY <1>2, RunsAreRows, Numbers DEF IInv, Records
    <3>2. status[run[t]] \in {"absent", "running"} \cup Verdict /\ status[run[t]] # "absent"
      <4>1. /\ status \in [Run -> {"absent", "running"} \cup Verdict]
            /\ \A r \in Run : status[r] = "absent" <=> r >= nextRun
        BY DEF IInv, TypeOK
      <4>2. ~(run[t] >= nextRun)
        BY <3>1
      <4>3. QED BY <3>1, <4>1, <4>2
    <3>3. QED BY <1>2, <3>1, <3>2 DEF Verdict, Records
  <2>2. Promise!Underway(run[t])
    BY <2>1, DoingIs, Processes DEF Promise!Underway
  <2>3. PICK v \in Verdict : Finish(run[t], v) /\ (pc[t] = "scan" \/ v = "failed")
    BY <1>2 DEF Records, Verdict
  <2>4. status'[run[t]] = v /\ \A r \in Run \ {run[t]} : status'[r] = status[r]
    BY <2>1, <2>3, Finishing
  <2>5. \A r \in Run \ {run[t]} : status'[r] \in Promise!MayBecome(r)
    BY <2>4 DEF Promise!MayBecome
  <2>6. CASE pc[t] = "scan"
    <3>1. status[run[t]] \in {"running", "failed"}
      BY <2>1, <2>6 DEF IInv, OwnerInv, OwnerOf
    <3>2. v \in {"succeeded", "partial", "failed"}
      BY DEF Verdict
    <3>3. QED BY <2>2, <2>4, <2>5, <3>1, <3>2 DEF Promise!MayBecome, Promise!Success
  <2>7. CASE pc[t] # "scan"
    <3>1. v = "failed" /\ faults > 0
      BY <1>2, <2>3, <2>7 DEF Records, IInv, FaultInv, FaultOf
    <3>2. QED BY <2>1, <2>2, <2>4, <2>5, <3>1 DEF Promise!MayBecome, Promise!Success
  <2>8. QED BY <2>6, <2>7
<1>3. QED BY <1>1, <1>2

LEMMA StepKinds ==
    ASSUME IInv, NEW t \in Thread, Step(t)
    PROVE  /\ pc[t] # "idle"
           /\ \/ run' = run /\ lock' = lock /\ (status' = status \/ Records(t))
              \/ StartRun(t) /\ lock' = lock /\ run[t] = 0
              \/ Release(t) /\ (status' = status \/ Records(t))
              \/ HandOver(t) /\ lock' = lock /\ status' = status /\ pc[t] = "spawn"
<1>1. /\ pc[t] = "reserve" => run[t] = 0
      /\ pc[t] \in {"undo", "scan", "recover"} => run[t] # 0
  BY DEF IInv, StageInv, StageOf, Owning
<1>2. CASE Reserve(t) \/ Open(t)
  BY <1>1, <1>2 DEF Reserve, Open
<1>3. CASE Mark(t) \/ Begin(t) \/ Report(t)
  BY <1>3 DEF Mark, Begin, Report
<1>4. CASE Spawn(t)
  BY <1>4 DEF Spawn
<1>5. CASE Undo(t) \/ Conclude(t)
  BY <1>1, <1>5 DEF Undo, Conclude, Finally, Records
<1>6. CASE Record(t) \/ Recover(t)
  BY <1>1, <1>6 DEF Record, Recover, RecoverRow, Records
<1>7. QED BY <1>2, <1>3, <1>4, <1>5, <1>6 DEF Step

LEMMA StepMapped ==
    ASSUME IInv, IInv', Next, NEW t \in Thread, Step(t)
    PROVE  Promise!Next
<1>1. Of(t) \in Process
  BY Processes
<1>2. CASE run' = run /\ lock' = lock /\ (status' = status \/ Records(t))
  BY <1>2, SameRuns, VerdictMapped, SettleMapped
<1>3. CASE StartRun(t) /\ lock' = lock /\ run[t] = 0
  <2>1. Promise!Begin(Of(t), nextRun) /\ nextRun \in Run
    BY <1>3, StepKinds, BeginMapped DEF StartRun
  <2>2. (faults > 0)' \in BOOLEAN /\ ((faults > 0) => (faults > 0)')
    BY FaultsGrow
  <2>3. QED BY <1>1, <2>1, <2>2 DEF Promise!Next
<1>4. CASE Release(t) /\ (status' = status \/ Records(t))
  <2>1. busy' = busy \ {Of(t)} /\ doing' = doing \ ({Of(t)} \X Run)
    BY <1>4, StepKinds, ReleaseMapped
  <2>2. QED BY <1>1, <1>4, <2>1, VerdictMapped, SettleMapped
<1>5. CASE HandOver(t) /\ lock' = lock /\ status' = status /\ pc[t] = "spawn"
  <2>1. doing' = doing /\ busy' = busy
    BY <1>5, HandOverMapped DEF busy
  <2>2. QED BY <1>5, <2>1, VerdictMapped, SettleMapped
<1>6. QED BY <1>2, <1>3, <1>4, <1>5, StepKinds

LEMMA NextMapped ==
    ASSUME IInv, IInv', Next
    PROVE  Promise!Next
<1>1. CASE \E t \in Caller : RunOnce(t) \/ Submit(t)
  <2>1. PICK t \in Caller : RunOnce(t) \/ Submit(t)
    BY <1>1
  <2>2. Promise!Take(Of(t)) /\ Of(t) \in Process
    BY <2>1, TakeMapped, Processes
  <2>3. (faults > 0)' \in BOOLEAN /\ ((faults > 0) => (faults > 0)')
    BY FaultsGrow
  <2>4. QED BY <2>2, <2>3 DEF Promise!Next
<1>2. CASE \E t \in Thread : Step(t)
  BY <1>2, StepMapped
<1>3. ASSUME NEW p \in Process, Vanish(p), status' = status PROVE Promise!Next
  <2>1. busy' = busy \ {p} /\ doing' = doing \ ({p} \X Run)
    BY <1>3, Leaving DEF Vanish
  <2>2. \A r \in Run : status'[r] \in Promise!MayBecome(r)
    BY <1>3 DEF Promise!MayBecome
  <2>3. QED BY <2>1, <2>2, SettleMapped
<1>4. CASE \E p \in Process : Crash(p) \/ Exit(p)
  BY <1>3, <1>4 DEF Crash, Exit
<1>5. CASE MarkAbandoned
  <2>1. run' = run /\ lock' = lock
    BY <1>5 DEF MarkAbandoned, work
  <2>2. \A r \in Run : status'[r] \in Promise!MayBecome(r)
    BY <1>5 DEF MarkAbandoned, Abandoned, Running, Promise!MayBecome
  <2>3. QED BY <2>1, <2>2, SameRuns, SettleMapped
<1>6. CASE Examine \/ ResetFlag \/ \E p \in Process : Close(p) \/ Start(p)
  <2>1. run' = run /\ lock' = lock /\ status' = status
    BY <1>6 DEF Examine, ResetFlag, Close, Start, work
  <2>2. \A r \in Run : status'[r] \in Promise!MayBecome(r)
    BY <2>1 DEF Promise!MayBecome
  <2>3. QED BY <2>1, <2>2, SameRuns, SettleMapped
<1>7. QED BY <1>1, <1>2, <1>4, <1>5, <1>6 DEF Next

\* One scan has one run, kept when the background thread takes over; only
\* the process that scans for it makes it a success; and a success stands,
\* but for a fault in the same scan (scanner.py, storage/scans.py).
THEOREM ScansKeepPromise == Spec => KeepsScanPromise
<1>1. IInv /\ IInv' /\ [Next]_vars => [Promise!Next]_(Promise!vars)
  <2>1. SUFFICES ASSUME IInv, IInv', [Next]_vars
                 PROVE  [Promise!Next]_(Promise!vars)
    OBVIOUS
  <2>2. CASE Next
    BY <2>1, <2>2, NextMapped
  <2>3. CASE UNCHANGED vars
    BY <2>3, SameRuns DEF vars, work, ghosts, Promise!vars
  <2>4. QED BY <2>1, <2>2, <2>3
<1>2. QED BY <1>1, PromiseInit, Invariance, PTL DEF Spec, KeepsScanPromise, Promise!Spec
=============================================================================
