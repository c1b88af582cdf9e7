-------------------------- MODULE OutboxInvariant --------------------------
(***************************************************************************)
(* IInv is inductive, so its safety properties hold of every behaviour of  *)
(* Outbox, for all values of its constants.                                *)
(*                                                                         *)
(* Only Claim, Send and Tick do more than let go of something.  All other  *)
(* steps are quiet: rows are kept, removed, enqueued or settled (or        *)
(* released), and workers keep or drop what they hold.  That a quiet step  *)
(* preserves the invariants that relate rows to workers is proved once, in *)
(* QuietStep.                                                              *)
(***************************************************************************)
EXTENDS Outbox, FiniteSetTheorems, TLAPS

LEMMA NewestSubset ==
    ASSUME NEW S
    PROVE  Newest(S) \subseteq S
BY DEF Newest

\* The event add() has just inserted survives its own pruning.
LEMMA NewestKeepsMaximum ==
    ASSUME NEW S, NEW e \in Nat, \A f \in S : f \in Nat /\ f < e
    PROVE  e \in Newest(S \cup {e})
<1>1. {f \in S \cup {e} : f > e} = {}
  OBVIOUS
<1>2. Cardinality({}) < EventKeep
  BY FS_EmptySet, OutboxAssumption
<1>3. QED BY <1>1, <1>2 DEF Newest

(***************************************************************************)
(* Type correctness                                                        *)
(***************************************************************************)

LEMMA PurgeRowsType ==
    ASSUME NEW live, TypeOK, PurgeRows(live)
    PROVE  /\ attempts' \in [Delivery -> 0..MaxAttempts]
           /\ token' \in [Delivery -> Nat]
           /\ lease' \in [Delivery -> Nat]
           /\ retry' \in [Delivery -> Nat]
BY OutboxAssumption DEF PurgeRows, TypeOK, Purge

LEMMA InitType == Init => TypeOK
BY OutboxAssumption DEF Init, TypeOK, NoBatch, Status, Open, Terminal

LEMMA PublishType ==
    ASSUME TypeOK, NEW chans \in SUBSET Channel, Publish(chans)
    PROVE  TypeOK'
<1> DEFINE live == Newest(events \cup {nextEvent})
<1>1. live \in SUBSET Nat
  BY NewestSubset DEF TypeOK
<1>2. /\ attempts' \in [Delivery -> 0..MaxAttempts]
      /\ token' \in [Delivery -> Nat]
      /\ lease' \in [Delivery -> Nat]
      /\ retry' \in [Delivery -> Nat]
  BY PurgeRowsType DEF Publish
<1>3. status' \in [Delivery -> Status]
  BY DEF Publish, TypeOK, Purge, Status, Open
<1>4. notice' \in [Delivery -> Nat]
  BY DEF Publish, TypeOK, LiveNotices
<1>5. offSince' \in SUBSET Delivery
  <2>1. nextEvent \in 1..MaxEvents
    BY OutboxAssumption DEF Publish, TypeOK
  <2>2. {nextEvent} \X (chans \ enabled) \subseteq Delivery
    BY <2>1 DEF Delivery
  <2>3. QED BY <2>2 DEF Publish, TypeOK
<1>6. events' = live /\ nextEvent' = nextEvent + 1
  BY DEF Publish
<1>7. nextEvent' \in Nat \ {0}
  BY <1>6 DEF TypeOK
<1>8. QED BY <1>1, <1>2, <1>3, <1>4, <1>5, <1>6, <1>7 DEF Publish, TypeOK, worker

LEMMA RepublishType ==
    ASSUME TypeOK, NEW e \in 1..MaxEvents, NEW chans \in SUBSET Channel,
           Republish(e, chans)
    PROVE  TypeOK'
<1>1. status' \in [Delivery -> Status]
  BY DEF Republish, TypeOK, EnqueueMissing, Status, Open
<1>2. QED BY <1>1 DEF Republish, TypeOK, worker, eventLog

LEMMA EnvironmentType ==
    ASSUME TypeOK, ClearEvents \/ (\E c \in Channel : ToggleChannel(c)) \/ Tick
    PROVE  TypeOK'
<1>1. CASE ClearEvents
  <2>1. /\ attempts' \in [Delivery -> 0..MaxAttempts]
        /\ token' \in [Delivery -> Nat]
        /\ lease' \in [Delivery -> Nat]
        /\ retry' \in [Delivery -> Nat]
    BY <1>1, PurgeRowsType DEF ClearEvents
  <2>2. status' \in [Delivery -> Status]
    BY <1>1 DEF ClearEvents, TypeOK, Purge, Status
  <2>3. QED BY <1>1, <2>1, <2>2 DEF ClearEvents, TypeOK, worker, seen, LiveNotices
<1>2. CASE \E c \in Channel : ToggleChannel(c)
  BY <1>2 DEF ToggleChannel, TypeOK, outbox, eventLog, worker
<1>3. CASE Tick
  BY <1>3 DEF Tick, TypeOK, eventLog, worker, Less
<1>4. QED BY <1>1, <1>2, <1>3

\* A worker that settles a row, and what is left of its batch.
LEMMA DoneType ==
    ASSUME TypeOK, NEW w \in Worker, NEW d \in Delivery, Done(w, d)
    PROVE  /\ batch' \in [Worker -> [Delivery -> 0..MaxAttempts]]
           /\ job' \in [Worker -> Delivery \cup {NoJob}]
           /\ result' \in [Worker -> {"none", "ok", "error"}]
           /\ pc' \in [Worker -> {"idle", "check", "release", "claim", "report",
                          "settings", "next", "missing", "cancel", "send",
                          "ack", "note"}]
           /\ held' \in [Worker -> Nat]
           /\ snap' \in [Worker -> SUBSET Channel]
           /\ left' \in [Worker -> Nat]
<1> DEFINE rest == [batch[w] EXCEPT ![d] = 0]
<1>1. rest \in [Delivery -> 0..MaxAttempts]
  BY OutboxAssumption DEF TypeOK
<1>2. batch' = [batch EXCEPT ![w] = rest]
  BY DEF Done
<1>3. batch' \in [Worker -> [Delivery -> 0..MaxAttempts]]
  BY <1>1, <1>2 DEF TypeOK
<1>4. QED BY <1>3 DEF Done, TypeOK, Goto

LEMMA SettleType ==
    ASSUME TypeOK, NEW d \in Delivery, NEW s \in Status, NEW delay \in Nat,
           Settle(d, s, delay)
    PROVE  /\ status' \in [Delivery -> Status]
           /\ attempts' \in [Delivery -> 0..MaxAttempts]
           /\ token' \in [Delivery -> Nat]
           /\ lease' \in [Delivery -> Nat]
           /\ retry' \in [Delivery -> Nat]
BY DEF Settle, TypeOK

LEMMA CompleteType ==
    ASSUME TypeOK, NEW w \in Worker, NEW d \in Delivery, NEW ok \in BOOLEAN,
           CompleteDelivery(w, d, ok), Owns(w, d) => attempts[d] \in 1..MaxAttempts
    PROVE  /\ status' \in [Delivery -> Status]
           /\ attempts' \in [Delivery -> 0..MaxAttempts]
           /\ token' \in [Delivery -> Nat]
           /\ lease' \in [Delivery -> Nat]
           /\ retry' \in [Delivery -> Nat]
<1>1. CASE ~Owns(w, d)
  BY <1>1 DEF CompleteDelivery, TypeOK, outbox
<1>2. CASE Owns(w, d)
  <2>1. Backoff[attempts[d]] \in Nat
    BY <1>2, OutboxAssumption
  <2>2. {"sent", "dead", "pending"} \subseteq Status
    BY DEF Status, Open, Terminal
  <2>3. QED BY <1>2, <2>1, <2>2, SettleType DEF CompleteDelivery
<1>3. QED BY <1>1, <1>2

LEMMA EmitType ==
    ASSUME TypeOK, NEW d \in Delivery, EmitNotifyFailed(d)
    PROVE  /\ reported' \in SUBSET Delivery
           /\ status' \in [Delivery -> Status]
           /\ attempts' \in [Delivery -> 0..MaxAttempts]
           /\ token' \in [Delivery -> Nat]
           /\ lease' \in [Delivery -> Nat]
           /\ retry' \in [Delivery -> Nat]
           /\ events' \in SUBSET Nat
           /\ nextEvent' \in Nat \ {0}
           /\ notice' \in [Delivery -> Nat]
<1>1. CASE notice[d] # 0
  BY <1>1 DEF EmitNotifyFailed, TypeOK, outbox, eventLog
<1>2. CASE notice[d] = 0
  <2> DEFINE live == Newest(events \cup {nextEvent})
  <2>1. PurgeRows(live)
    BY <1>2 DEF EmitNotifyFailed
  <2>2. /\ attempts' \in [Delivery -> 0..MaxAttempts]
        /\ token' \in [Delivery -> Nat]
        /\ lease' \in [Delivery -> Nat]
        /\ retry' \in [Delivery -> Nat]
    BY <2>1, PurgeRowsType
  <2>3. status' \in [Delivery -> Status]
    BY <1>2 DEF EmitNotifyFailed, TypeOK, Purge, Status
  <2>4. live \in SUBSET Nat
    BY NewestSubset DEF TypeOK
  <2>5. notice' \in [Delivery -> Nat]
    BY <1>2 DEF EmitNotifyFailed, LiveNotices, TypeOK
  <2>6. events' = live /\ nextEvent' = nextEvent + 1
    BY <1>2 DEF EmitNotifyFailed
  <2>7. reported' \in SUBSET Delivery
    BY DEF EmitNotifyFailed, TypeOK
  <2>8. nextEvent' \in Nat \ {0}
    BY <2>6 DEF TypeOK
  <2>9. QED BY <2>2, <2>3, <2>4, <2>5, <2>6, <2>7, <2>8
<1>3. QED BY <1>1, <1>2

(***************************************************************************)
(* The inductive invariant: what a quiet step may do, and what follows     *)
(***************************************************************************)

\* What a quiet step may do to a row.
Kept(d) ==
    /\ status'[d] = status[d]
    /\ attempts'[d] = attempts[d]
    /\ token'[d] = token[d]
    /\ lease'[d] = lease[d]

Removed(d) ==
    /\ d[1] \notin events'
    /\ status'[d] = "absent"
    /\ attempts'[d] = 0
    /\ token'[d] = 0

Enqueued(d) ==
    /\ d[1] \in events \cup {nextEvent}
    /\ status[d] = "absent"
    /\ status'[d] = "pending"
    /\ attempts'[d] = attempts[d]
    /\ token'[d] = token[d]

Settled(d) ==
    /\ status[d] = "processing"
    /\ status'[d] \in {"pending", "sent", "dead", "cancelled"}
    /\ status'[d] = "dead" => attempts[d] = MaxAttempts
    /\ status'[d] = "sent" => d \in accepted
    /\ attempts'[d] = attempts[d]
    /\ token'[d] = 0
    /\ \A v \in Worker :
          held'[v] = token[d] /\ batch'[v][d] > 0 =>
              left'[v] = 0 \/ (pc'[v] = "note" /\ job'[v] = d)

RowsQuiet ==
    \A d \in Delivery : Kept(d) \/ Removed(d) \/ Enqueued(d) \/ Settled(d)

\* What it does to the event log.
LogQuiet ==
    /\ nextEvent <= nextEvent'
    /\ \A e \in events' : e \in events \/ (e = nextEvent /\ e < nextEvent')
    /\ \A d \in Delivery : status'[d] # "absent" => d[1] \in events'

\* And what it does to a worker and its claims.
WorkersQuiet ==
    \A v \in Worker :
        /\ held'[v] \in {0, held[v]}
        /\ left'[v] \in {0, left[v]}
        /\ \A d \in Delivery :
              \/ /\ batch'[v][d] = batch[v][d]
                 /\ batch[v][d] > 0 => held'[v] = held[v]
                 /\ batch[v][d] > 0 /\ Asked(v, d) => Asked(v, d)'
                 /\ batch[v][d] > 0 /\ pc[v] = "note" /\ job[v] = d =>
                        pc'[v] = "note" /\ job'[v] = d
              \/ /\ batch'[v][d] = 0
                 /\ held'[v] = 0 \/ token'[d] # held'[v]

Quiet ==
    /\ RowsQuiet
    /\ LogQuiet
    /\ WorkersQuiet
    /\ UNCHANGED <<nextToken, sends>>

\* How the rows and the log may change in any step, quiet or not.
Advances ==
    \A d \in Delivery :
        /\ status[d] = "absent" => status'[d] \in {"absent", "pending"}
        /\ status[d] \in Terminal => status'[d] \in {status[d], "absent"}
        /\ status[d] # "absent" /\ status'[d] = "absent" => Gone(d)'
        /\ status[d] # "sent" /\ status'[d] = "sent" => d \in accepted
        /\ Gone(d) => Gone(d)'

LEMMA EventIds == \A d \in Delivery : d[1] \in Int
BY OutboxAssumption DEF Delivery

LEMMA QuietStep ==
    ASSUME IInv, TypeOK', Quiet
    PROVE  /\ EventInv' /\ TokenInv' /\ AttemptInv' /\ SendOncePerAttempt'
           /\ LeaseInv' /\ LeaseExclusive' /\ NoEarlyDeath'
           /\ \A v \in Worker : pc[v] = "note" =>
                 status'[job[v]] \in {"dead", "absent"}
           /\ Advances
<1>1. /\ nextEvent \in Int /\ nextEvent' \in Int
      /\ events \subseteq Int /\ events' \subseteq Int
      /\ nextToken \in Int /\ nextToken > 0 /\ nextToken' = nextToken
      /\ sends' = sends
      /\ \A d \in Delivery :
            token[d] \in Int /\ attempts[d] \in Int /\ lease[d] \in Int
      /\ \A v \in Worker : held[v] \in Int /\ left[v] \in Int
      /\ \A v \in Worker, d \in Delivery : batch[v][d] \in Int
  BY DEF IInv, TypeOK, Quiet
<1>2. ASSUME NEW d \in Delivery
      PROVE  Kept(d) \/ Removed(d) \/ Enqueued(d) \/ Settled(d)
  BY DEF Quiet, RowsQuiet
<1>3. EventInv'
  <2>1. \A e \in events' : e < nextEvent'
    BY <1>1 DEF IInv, EventInv, Quiet, LogQuiet
  <2>2. NoOrphanRow'
    BY DEF NoOrphanRow, Quiet, LogQuiet
  <2>3. ASSUME NEW v \in Worker, NEW d \in Delivery, batch'[v][d] > 0
        PROVE  /\ d[1] < nextEvent'
               /\ d[1] \in events' => status'[d] # "absent"
    <3>1. batch[v][d] > 0
      BY <1>1, <2>3 DEF Quiet, WorkersQuiet
    <3>2. d[1] < nextEvent /\ (d[1] \in events => status[d] # "absent")
      BY <3>1 DEF IInv, EventInv
    <3>3. d[1] < nextEvent'
      BY <1>1, <3>2, EventIds DEF Quiet, LogQuiet
    <3>4. d[1] \in events' => d[1] \in events
      BY <1>1, <3>2, EventIds DEF Quiet, LogQuiet
    <3>5. QED BY <1>2, <3>2, <3>3, <3>4 DEF Kept, Removed, Enqueued, Settled
  <2>4. ASSUME NEW d \in Delivery, d[1] >= nextEvent'
        PROVE  attempts'[d] = 0
    <3>1. attempts[d] = 0
      BY <1>1, <2>4, EventIds DEF IInv, EventInv, Quiet, LogQuiet
    <3>2. QED BY <1>2, <3>1 DEF Kept, Removed, Enqueued, Settled
  <2>5. QED BY <2>1, <2>2, <2>3, <2>4 DEF EventInv
<1>4. RowTokens'
  BY <1>1, <1>2 DEF IInv, TokenInv, RowTokens, Kept, Removed, Enqueued, Settled
<1>5. HeldTokens'
  <2> SUFFICES ASSUME NEW v \in Worker
               PROVE  /\ held'[v] < nextToken'
                      /\ \A d \in Delivery :
                            /\ batch'[v][d] > 0 => held'[v] # 0
                            /\ held'[v] # 0 /\ token'[d] = held'[v] =>
                                  batch'[v][d] = attempts'[d]
    BY DEF HeldTokens
  <2>1. held'[v] \in {0, held[v]} /\ held[v] < nextToken
    BY DEF IInv, TokenInv, HeldTokens, Quiet, WorkersQuiet
  <2>2. ASSUME NEW d \in Delivery, batch'[v][d] > 0
        PROVE  held'[v] # 0
    BY <1>1, <2>2 DEF IInv, TokenInv, HeldTokens, Quiet, WorkersQuiet
  <2>3. ASSUME NEW d \in Delivery, held'[v] # 0, token'[d] = held'[v]
        PROVE  batch'[v][d] = attempts'[d]
    <3>1. held'[v] = held[v]
      BY <2>1, <2>3
    <3>2. token'[d] = token[d] /\ attempts'[d] = attempts[d]
      BY <1>2, <2>3 DEF Kept, Removed, Enqueued, Settled
    <3>3. batch[v][d] = attempts[d]
      BY <2>3, <3>1, <3>2 DEF IInv, TokenInv, HeldTokens
    <3>4. batch'[v][d] = batch[v][d]
      BY <2>3 DEF Quiet, WorkersQuiet
    <3>5. QED BY <3>2, <3>3, <3>4
  <2>4. QED BY <1>1, <2>1, <2>2, <2>3
<1>6. OneHolder'
  BY <1>1 DEF IInv, TokenInv, OneHolder, Quiet, WorkersQuiet
<1>7. UnclaimedUnsent'
  <2> SUFFICES ASSUME NEW d \in Delivery, NEW n \in 1..MaxAttempts,
                      ~Gone(d)', n > attempts'[d]
               PROVE  sends[d][n] = 0
    BY <1>1 DEF UnclaimedUnsent
  <2>1. ~Gone(d)
    BY <1>1, EventIds DEF Gone, Quiet, LogQuiet
  <2>2. attempts'[d] = attempts[d] \/ d[1] >= nextEvent'
    BY <1>1, <1>2, EventIds DEF Kept, Removed, Enqueued, Settled, Gone
  <2>3. n > attempts[d]
    <3>1. CASE attempts'[d] = attempts[d]
      BY <3>1
    <3>2. CASE d[1] >= nextEvent'
      BY <1>1, <3>2, EventIds DEF IInv, EventInv, Quiet, LogQuiet
    <3>3. QED BY <2>2, <3>1, <3>2
  <2>4. QED BY <2>1, <2>3 DEF IInv, AttemptInv, UnclaimedUnsent
<1>8. ClaimedUnsent'
  <2> SUFFICES ASSUME NEW v \in Worker, NEW d \in Delivery, batch'[v][d] > 0
               PROVE  /\ Gone(d)' \/ batch'[v][d] <= attempts'[d]
                      /\ Asked(v, d)' \/ sends[d][batch'[v][d]] = 0
    BY <1>1 DEF ClaimedUnsent
  <2>1. batch'[v][d] = batch[v][d] /\ (Asked(v, d) => Asked(v, d)')
    BY <1>1 DEF Quiet, WorkersQuiet
  <2>2. Asked(v, d)' \/ sends[d][batch'[v][d]] = 0
    BY <2>1 DEF IInv, AttemptInv, ClaimedUnsent
  <2>3. Gone(d) \/ batch[v][d] <= attempts[d]
    BY <2>1 DEF IInv, AttemptInv, ClaimedUnsent
  <2>4. d[1] < nextEvent
    BY <2>1 DEF IInv, EventInv
  <2>5. Gone(d) => Gone(d)'
    BY <1>1, <2>4, EventIds DEF Gone, Quiet, LogQuiet
  <2>6. attempts'[d] = attempts[d] \/ Gone(d)'
    BY <1>1, <1>2, <2>4, EventIds
       DEF Kept, Removed, Enqueued, Settled, Gone, Quiet, LogQuiet
  <2>7. QED BY <2>1, <2>2, <2>3, <2>5, <2>6
<1>9. OneClaimer'
  BY <1>1 DEF IInv, AttemptInv, OneClaimer, Quiet, WorkersQuiet
<1>10. SendOncePerAttempt'
  BY <1>1 DEF IInv, SendOncePerAttempt
<1>11. LeaseInv'
  <2> SUFFICES ASSUME NEW v \in Worker, NEW d \in Delivery,
                      left'[v] > 0, batch'[v][d] > 0, d[1] \in events'
               PROVE  \/ token'[d] = held'[v] /\ lease'[d] >= left'[v]
                      \/ pc'[v] = "note" /\ job'[v] = d
    BY DEF LeaseInv
  <2>1. /\ batch'[v][d] = batch[v][d] /\ held'[v] = held[v] /\ left'[v] = left[v]
        /\ pc[v] = "note" /\ job[v] = d => pc'[v] = "note" /\ job'[v] = d
    BY <1>1 DEF Quiet, WorkersQuiet
  <2>2. d[1] < nextEvent /\ (d[1] \in events => status[d] # "absent")
    BY <2>1 DEF IInv, EventInv
  <2>3. d[1] \in events
    BY <1>1, <2>2, EventIds DEF Quiet, LogQuiet
  <2>4. \/ token[d] = held[v] /\ lease[d] >= left[v]
        \/ pc[v] = "note" /\ job[v] = d
    BY <2>1, <2>3 DEF IInv, LeaseInv
  <2>5. Kept(d) \/ Settled(d)
    BY <1>2, <2>2, <2>3 DEF Removed, Enqueued
  <2>6. QED BY <2>1, <2>4, <2>5 DEF Kept, Settled
<1>12. LeaseExclusive'
  BY <1>1 DEF IInv, LeaseExclusive, Quiet, WorkersQuiet
<1>13. NoEarlyDeath'
  BY <1>2 DEF IInv, NoEarlyDeath, Kept, Removed, Enqueued, Settled
<1>14. ASSUME NEW v \in Worker, pc[v] = "note"
       PROVE  status'[job[v]] \in {"dead", "absent"}
  <2>1. /\ job[v] \in Delivery /\ batch[v][job[v]] > 0
        /\ status[job[v]] \in {"dead", "absent"}
    BY <1>14 DEF IInv, LocalInv, Working
  <2>2. /\ token[job[v]] = 0
        /\ job[v][1] < nextEvent /\ (job[v][1] \in events => status[job[v]] # "absent")
    BY <2>1 DEF IInv, TokenInv, RowTokens, EventInv
  <2>3. Kept(job[v]) \/ Removed(job[v])
    BY <1>1, <1>2, <2>1, <2>2, EventIds DEF Enqueued, Settled
  <2>4. QED BY <2>1, <2>3 DEF Kept, Removed
<1>15. \A d \in Delivery : Gone(d) => Gone(d)'
  BY <1>1, EventIds DEF Gone, Quiet, LogQuiet
<1>16. Advances
  <2> SUFFICES ASSUME NEW d \in Delivery
               PROVE  /\ status[d] = "absent" => status'[d] \in {"absent", "pending"}
                      /\ status[d] \in Terminal => status'[d] \in {status[d], "absent"}
                      /\ status[d] # "absent" /\ status'[d] = "absent" => Gone(d)'
                      /\ status[d] # "sent" /\ status'[d] = "sent" => d \in accepted
                      /\ Gone(d) => Gone(d)'
    BY DEF Advances
  <2>1. status[d] # "absent" => d[1] < nextEvent
    BY DEF IInv, EventInv, NoOrphanRow
  <2>2. d[1] < nextEvent => d[1] < nextEvent'
    BY <1>1, EventIds DEF Quiet, LogQuiet
  <2>3. QED BY <1>2, <1>15, <2>1, <2>2
            DEF Kept, Removed, Enqueued, Settled, Terminal, Gone
<1>17. QED
  BY <1>3, <1>4, <1>5, <1>6, <1>7, <1>8, <1>9, <1>10, <1>11, <1>12, <1>13, <1>14, <1>16
     DEF TokenInv, AttemptInv

-----------------------------------------------------------------------------
(* The steps that finish the row under work                                *)

LEMMA DoneEffect ==
    ASSUME TypeOK, NEW w \in Worker, NEW d \in Delivery, Done(w, d)
    PROVE  /\ \A v \in Worker \ {w} :
                 /\ pc'[v] = pc[v] /\ batch'[v] = batch[v] /\ held'[v] = held[v]
                 /\ job'[v] = job[v] /\ left'[v] = left[v] /\ result'[v] = result[v]
           /\ \A e \in Delivery :
                 batch'[w][e] = IF e = d THEN 0 ELSE batch[w][e]
           /\ pc'[w] \in {"idle", "next"}
           /\ pc'[w] = "idle" => \A e \in Delivery : batch'[w][e] = 0
           /\ \/ held'[w] = held[w] /\ left'[w] = left[w]
              \/ /\ held'[w] = 0 /\ left'[w] = 0
                 /\ \A e \in Delivery : batch'[w][e] = 0
<1> DEFINE rest == [batch[w] EXCEPT ![d] = 0]
           over == rest = NoBatch
<1>1. /\ batch' = [batch EXCEPT ![w] = rest]
      /\ job' = [job EXCEPT ![w] = NoJob]
      /\ result' = [result EXCEPT ![w] = "none"]
      /\ pc' = [pc EXCEPT ![w] = IF over THEN "idle" ELSE "next"]
      /\ held' = [held EXCEPT ![w] = IF over THEN 0 ELSE @]
      /\ left' = [left EXCEPT ![w] = IF over THEN 0 ELSE @]
  BY DEF Done, Goto
<1>2. \A e \in Delivery : rest[e] = IF e = d THEN 0 ELSE batch[w][e]
  BY DEF TypeOK
<1>3. batch'[w] = rest
  BY <1>1 DEF TypeOK
<1>4. over => \A e \in Delivery : rest[e] = 0
  BY DEF NoBatch
<1> HIDE DEF rest, over
<1>5. QED BY <1>1, <1>2, <1>3, <1>4 DEF TypeOK

\* A finished row is no longer leased by the worker that finished it.
LEMMA DoneQuiet ==
    ASSUME IInv, NEW w \in Worker, NEW d \in Delivery, Done(w, d),
           job[w] = d, token'[d] # held[w]
    PROVE  WorkersQuiet
<1> SUFFICES ASSUME NEW v \in Worker
             PROVE  /\ held'[v] \in {0, held[v]}
                    /\ left'[v] \in {0, left[v]}
                    /\ \A e \in Delivery :
                          \/ /\ batch'[v][e] = batch[v][e]
                             /\ batch[v][e] > 0 => held'[v] = held[v]
                             /\ batch[v][e] > 0 /\ Asked(v, e) => Asked(v, e)'
                             /\ batch[v][e] > 0 /\ pc[v] = "note" /\ job[v] = e =>
                                    pc'[v] = "note" /\ job'[v] = e
                          \/ /\ batch'[v][e] = 0
                             /\ held'[v] = 0 \/ token'[e] # held'[v]
  BY DEF WorkersQuiet
<1>1. CASE v # w
  BY <1>1, DoneEffect DEF IInv, Asked
<1>2. CASE v = w
  <2>1. CASE held'[w] = 0 /\ left'[w] = 0 /\ \A e \in Delivery : batch'[w][e] = 0
    BY <1>2, <2>1
  <2>2. CASE held'[w] = held[w] /\ left'[w] = left[w]
    <3>1. \A e \in Delivery : batch'[w][e] = IF e = d THEN 0 ELSE batch[w][e]
      BY DoneEffect DEF IInv
    <3>2. ASSUME NEW e \in Delivery, e # d PROVE ~Asked(w, e)
      BY <3>2 DEF Asked
    <3>3. QED BY <1>2, <2>2, <3>1, <3>2
  <2>3. QED BY <2>1, <2>2, DoneEffect DEF IInv
<1>3. QED BY <1>1, <1>2

LEMMA DoneLocal ==
    ASSUME IInv, NEW w \in Worker, NEW d \in Delivery, Done(w, d),
           pc[w] # "report", toReport' = toReport, accepted' = accepted,
           \A v \in Worker : pc[v] = "note" => status'[job[v]] \in {"dead", "absent"},
           \A e \in Delivery : Gone(e) => Gone(e)'
    PROVE  LocalInv'
<1> SUFFICES ASSUME NEW v \in Worker
             PROVE  /\ pc'[v] \in Working =>
                          job'[v] \in Delivery /\ batch'[v][job'[v]] > 0
                    /\ pc'[v] \in Fresh => \A e \in Delivery : batch'[v][e] = 0
                    /\ pc'[v] # "report" => toReport'[v] = {}
                    /\ pc'[v] = "missing" => Gone(job[v])'
                    /\ pc'[v] = "ack" => result'[v] # "none"
                    /\ pc'[v] = "ack" /\ result'[v] = "ok" => job'[v] \in accepted'
                    /\ pc'[v] = "note" => status'[job'[v]] \in {"dead", "absent"}
  BY DEF LocalInv
<1>1. CASE v # w
  <2>1. /\ pc'[v] = pc[v] /\ batch'[v] = batch[v] /\ job'[v] = job[v]
        /\ result'[v] = result[v]
    BY <1>1, DoneEffect DEF IInv
  <2>2. pc'[v] = "missing" => Gone(job[v])'
    BY <2>1 DEF IInv, LocalInv, Working, Gone
  <2>3. QED BY <2>1, <2>2 DEF IInv, LocalInv
<1>2. CASE v = w
  BY <1>2, DoneEffect DEF IInv, LocalInv, Working, Fresh
<1>3. QED BY <1>1, <1>2

\* The row a worker owns is its own alone, and settling it is quiet.
LEMMA SettleQuiet ==
    ASSUME IInv, NEW w \in Worker, NEW d \in Delivery, batch[w][d] > 0, Owns(w, d),
           NEW s \in {"pending", "sent", "dead", "cancelled"},
           s = "dead" => attempts[d] >= MaxAttempts,
           s = "sent" => d \in accepted,
           NEW delay \in Nat, Settle(d, s, delay),
           \A v \in Worker \ {w} : held'[v] = held[v],
           batch'[w][d] = 0 \/ (pc'[w] = "note" /\ job'[w] = d)
    PROVE  RowsQuiet /\ token'[d] = 0 /\ status[d] = "processing"
<1>1. /\ status'[d] = s /\ token'[d] = 0 /\ attempts'[d] = attempts[d]
      /\ \A e \in Delivery \ {d} : Kept(e)
  BY DEF Settle, Kept, IInv, TypeOK
<1>2. held[w] # 0 /\ token[d] = held[w]
  BY DEF Owns, IInv, TokenInv, HeldTokens
<1>3. \A v \in Worker \ {w} : held'[v] # token[d]
  BY <1>2 DEF IInv, TokenInv, OneHolder
<1>4. s = "dead" => attempts[d] = MaxAttempts
  BY OutboxAssumption DEF IInv, TypeOK
<1>5. status[d] = "processing"
  BY <1>2 DEF IInv, TokenInv, RowTokens
<1>6. Settled(d)
  BY <1>1, <1>2, <1>3, <1>4, <1>5 DEF Settled
<1>7. QED BY <1>1, <1>5, <1>6 DEF RowsQuiet

-----------------------------------------------------------------------------
(* Steps of the event log                                                  *)

LEMMA IdleWorkersQuiet ==
    ASSUME UNCHANGED <<pc, batch, held, job, left>>
    PROVE  WorkersQuiet
BY DEF WorkersQuiet, Asked

LEMMA PurgeQuiet ==
    ASSUME IInv, NEW live, events' = live, PurgeRows(live),
           status' = Purge(live, status, "absent")
    PROVE  /\ RowsQuiet
           /\ \A d \in Delivery : status'[d] # "absent" =>
                 d[1] \in events' /\ status'[d] = status[d]
<1>1. ASSUME NEW d \in Delivery
      PROVE  IF d[1] \in live THEN Kept(d) ELSE Removed(d)
  BY DEF PurgeRows, Purge, Kept, Removed
<1>2. QED BY <1>1 DEF RowsQuiet, Kept, Removed

LEMMA EmitQuiet ==
    ASSUME IInv, NEW d \in Delivery, EmitNotifyFailed(d)
    PROVE  /\ RowsQuiet /\ LogQuiet
           /\ \A e \in Delivery : status'[e] = "dead" => status[e] = "dead"
           /\ reported' = reported \cup {d}
<1>1. reported' = reported \cup {d}
  BY DEF EmitNotifyFailed
<1>2. CASE notice[d] # 0
  <2>1. UNCHANGED <<status, attempts, token, lease, events, nextEvent>>
    BY <1>2 DEF EmitNotifyFailed, outbox, eventLog
  <2>2. nextEvent <= nextEvent
    BY DEF IInv, TypeOK
  <2>3. QED BY <1>1, <2>1, <2>2
            DEF RowsQuiet, LogQuiet, Kept, IInv, EventInv, NoOrphanRow
<1>3. CASE notice[d] = 0
  <2> DEFINE live == Newest(events \cup {nextEvent})
  <2>1. /\ events' = live /\ nextEvent' = nextEvent + 1 /\ PurgeRows(live)
        /\ status' = Purge(live, status, "absent")
    BY <1>3 DEF EmitNotifyFailed
  <2>2. live \subseteq events \cup {nextEvent}
    BY NewestSubset
  <2> HIDE DEF live
  <2>3. /\ RowsQuiet
        /\ \A e \in Delivery : status'[e] # "absent" =>
              e[1] \in events' /\ status'[e] = status[e]
    BY <2>1, PurgeQuiet
  <2>4. nextEvent <= nextEvent' /\ nextEvent < nextEvent'
    BY <2>1 DEF IInv, TypeOK
  <2>5. LogQuiet
    BY <2>1, <2>2, <2>3, <2>4 DEF LogQuiet
  <2>6. QED BY <1>1, <2>3, <2>5
<1>4. QED BY <1>2, <1>3

\* A row that is reported stays reported, and a worker that has to report
\* one and does nothing about it still has to.
LEMMA DeathKept ==
    ASSUME IInv, \A d \in Delivery : status'[d] = "dead" => status[d] = "dead",
           UNCHANGED <<pc, job, toReport>>,
           reported \subseteq reported', lost \subseteq lost'
    PROVE  DeathReported'
BY DEF IInv, DeathReported

LEMMA LocalKept ==
    ASSUME IInv, UNCHANGED <<pc, batch, job, result, toReport, accepted>>,
           \A v \in Worker : pc[v] = "note" => status'[job[v]] \in {"dead", "absent"},
           \A d \in Delivery : Gone(d) => Gone(d)'
    PROVE  LocalInv'
<1>1. ASSUME NEW v \in Worker, pc[v] = "missing" PROVE Gone(job[v])'
  BY <1>1 DEF IInv, LocalInv, Working, Gone
<1>2. QED BY <1>1 DEF IInv, LocalInv

LEMMA PublishInv ==
    ASSUME IInv, NEW chans \in SUBSET Channel, Publish(chans)
    PROVE  IInv' /\ Advances
<1> DEFINE live == Newest(events \cup {nextEvent})
<1>1. TypeOK'
  BY PublishType DEF IInv
<1>2. /\ events' = live /\ nextEvent' = nextEvent + 1 /\ PurgeRows(live)
      /\ \A d \in Delivery : status'[d] =
            IF d[1] = nextEvent
            THEN IF d[2] \in chans THEN "pending" ELSE "absent"
            ELSE IF d[1] \in live THEN status[d] ELSE "absent"
      /\ UNCHANGED <<pc, batch, held, job, left, result, toReport, nextToken, sends,
                     accepted, reported, lost>>
  BY DEF Publish, Purge, worker
<1>3. live \subseteq events \cup {nextEvent} /\ nextEvent \in live
  BY NewestSubset, NewestKeepsMaximum DEF IInv, TypeOK, EventInv
<1> HIDE DEF live
<1>4. \A d \in Delivery : d[1] = nextEvent => status[d] = "absent"
  BY DEF IInv, TypeOK, EventInv, NoOrphanRow
<1>5. RowsQuiet
  <2> SUFFICES ASSUME NEW d \in Delivery
               PROVE  Kept(d) \/ Removed(d) \/ Enqueued(d)
    BY DEF RowsQuiet
  <2>1. IF d[1] \in live
        THEN /\ attempts'[d] = attempts[d]
             /\ token'[d] = token[d] /\ lease'[d] = lease[d]
        ELSE attempts'[d] = 0 /\ token'[d] = 0 /\ lease'[d] = 0
    BY <1>2 DEF PurgeRows, Purge
  <2>2. QED BY <1>2, <1>3, <1>4, <2>1 DEF Kept, Removed, Enqueued
<1>6. nextEvent <= nextEvent' /\ nextEvent < nextEvent'
  BY <1>2 DEF IInv, TypeOK
<1>7. LogQuiet
  BY <1>2, <1>3, <1>6 DEF LogQuiet
<1>8. Quiet
  BY <1>2, <1>5, <1>7, IdleWorkersQuiet DEF Quiet
<1>9. DeathReported'
  BY <1>2, DeathKept
<1>10. LocalInv'
  BY <1>1, <1>2, <1>8, QuietStep, LocalKept DEF Advances
<1>11. QED BY <1>1, <1>8, <1>9, <1>10, QuietStep DEF IInv

LEMMA RepublishInv ==
    ASSUME IInv, NEW e \in 1..MaxEvents, NEW chans \in SUBSET Channel,
           Republish(e, chans)
    PROVE  IInv' /\ Advances
<1>1. TypeOK'
  BY RepublishType DEF IInv
<1>2. /\ e \in events
      /\ \A d \in Delivery : status'[d] =
            IF d[1] = e /\ d[2] \in chans /\ status[d] = "absent"
            THEN "pending" ELSE status[d]
      /\ UNCHANGED <<attempts, token, lease, events, nextEvent, pc, batch, held, job,
                     left, result, toReport, nextToken, sends, accepted, reported, lost>>
  BY DEF Republish, EnqueueMissing, eventLog, worker
<1>3. RowsQuiet
  BY <1>2 DEF RowsQuiet, Kept, Enqueued
<1>4. nextEvent <= nextEvent
  BY DEF IInv, TypeOK
<1>5. LogQuiet
  BY <1>2, <1>4 DEF LogQuiet, IInv, EventInv, NoOrphanRow
<1>6. Quiet
  BY <1>2, <1>3, <1>5, IdleWorkersQuiet DEF Quiet
<1>7. DeathReported'
  BY <1>2, DeathKept
<1>8. LocalInv'
  BY <1>1, <1>2, <1>6, QuietStep, LocalKept DEF Advances
<1>9. QED BY <1>1, <1>6, <1>7, <1>8, QuietStep DEF IInv

LEMMA ClearEventsInv ==
    ASSUME IInv, ClearEvents
    PROVE  IInv' /\ Advances
<1>1. TypeOK'
  BY EnvironmentType DEF IInv
<1>2. /\ events' = {} /\ nextEvent' = nextEvent /\ PurgeRows({})
      /\ status' = Purge({}, status, "absent")
      /\ UNCHANGED <<pc, batch, held, job, left, result, toReport, nextToken, sends,
                     accepted, reported, lost>>
  BY DEF ClearEvents, worker, seen
<1>3. /\ RowsQuiet
      /\ \A d \in Delivery : status'[d] # "absent" =>
            d[1] \in events' /\ status'[d] = status[d]
  BY <1>2, PurgeQuiet
<1>4. nextEvent <= nextEvent'
  BY <1>2 DEF IInv, TypeOK
<1>5. Quiet
  BY <1>2, <1>3, <1>4, IdleWorkersQuiet DEF Quiet, LogQuiet
<1>6. DeathReported'
  BY <1>2, <1>3, DeathKept
<1>7. LocalInv'
  BY <1>1, <1>2, <1>5, QuietStep, LocalKept DEF Advances
<1>8. QED BY <1>1, <1>5, <1>6, <1>7, QuietStep DEF IInv

LEMMA ToggleChannelInv ==
    ASSUME IInv, NEW c \in Channel, ToggleChannel(c)
    PROVE  IInv' /\ Advances
<1>1. TypeOK'
  BY EnvironmentType DEF IInv
<1>2. UNCHANGED <<outbox, eventLog, pc, batch, held, job, left, result, toReport,
                  nextToken, sends, accepted, reported, lost>>
  BY DEF ToggleChannel, worker
<1>3. nextEvent <= nextEvent
  BY DEF IInv, TypeOK
<1>4. RowsQuiet /\ LogQuiet
  BY <1>2, <1>3 DEF RowsQuiet, Kept, LogQuiet, IInv, EventInv, NoOrphanRow, outbox, eventLog
<1>5. Quiet
  BY <1>2, <1>4, IdleWorkersQuiet DEF Quiet
<1>6. DeathReported'
  BY <1>2, DeathKept DEF outbox
<1>7. LocalInv'
  BY <1>1, <1>2, <1>5, QuietStep, LocalKept DEF Advances
<1>8. QED BY <1>1, <1>5, <1>6, <1>7, QuietStep DEF IInv

-----------------------------------------------------------------------------
(* Steps of run_once that only move on                                     *)

LEMMA OutboxKept ==
    ASSUME IInv, UNCHANGED <<outbox, eventLog>>
    PROVE  RowsQuiet /\ LogQuiet
<1>1. nextEvent <= nextEvent
  BY DEF IInv, TypeOK
<1>2. QED BY <1>1 DEF RowsQuiet, Kept, LogQuiet, IInv, EventInv, NoOrphanRow, outbox, eventLog

LEMMA MoveQuiet ==
    ASSUME IInv, NEW w \in Worker, pc[w] \notin {"ack", "note"},
           \A v \in Worker \ {w} : pc'[v] = pc[v] /\ job'[v] = job[v],
           UNCHANGED <<outbox, eventLog, batch, held, left, nextToken, sends>>
    PROVE  Quiet
<1>1. WorkersQuiet
  BY DEF WorkersQuiet, Asked
<1>2. QED BY <1>1, OutboxKept DEF Quiet

\* Nothing but the worker's own place and work changes.
LEMMA MoveInv ==
    ASSUME IInv, TypeOK', NEW w \in Worker, NEW l, Goto(w, l),
           pc[w] \notin {"ack", "note", "report"}, l \notin {"report", "ack", "note"},
           l \in Fresh => pc[w] \in Fresh,
           l \in Working => job'[w] \in Delivery /\ batch[w][job'[w]] > 0,
           l = "missing" => Gone(job'[w]),
           \A v \in Worker \ {w} : job'[v] = job[v],
           UNCHANGED <<outbox, eventLog, batch, held, left, result, toReport, nextToken,
                       sends, accepted, reported, lost>>
    PROVE  IInv' /\ Advances
<1>1. pc'[w] = l /\ \A v \in Worker \ {w} : pc'[v] = pc[v]
  BY DEF Goto, IInv, TypeOK
<1>2. Quiet
  BY <1>1, MoveQuiet
<1>3. UNCHANGED <<status, events, nextEvent>>
  BY DEF outbox, eventLog
<1>4. LocalInv'
  <2> SUFFICES ASSUME NEW v \in Worker
               PROVE  /\ pc'[v] \in Working =>
                            job'[v] \in Delivery /\ batch'[v][job'[v]] > 0
                      /\ pc'[v] \in Fresh => \A e \in Delivery : batch'[v][e] = 0
                      /\ pc'[v] # "report" => toReport'[v] = {}
                      /\ pc'[v] = "missing" => Gone(job[v])'
                      /\ pc'[v] = "ack" => result'[v] # "none"
                      /\ pc'[v] = "ack" /\ result'[v] = "ok" => job'[v] \in accepted'
                      /\ pc'[v] = "note" => status'[job'[v]] \in {"dead", "absent"}
    BY DEF LocalInv
  <2>1. CASE v = w
    BY <1>1, <1>3, <2>1 DEF IInv, LocalInv, Gone
  <2>2. CASE v # w
    BY <1>1, <1>3, <2>2 DEF IInv, LocalInv, Gone
  <2>3. QED BY <2>1, <2>2
<1>5. DeathReported'
  BY <1>1, <1>3 DEF IInv, DeathReported
<1>6. QED BY <1>2, <1>4, <1>5, QuietStep DEF IInv

LEMMA ReadSettingsFirstInv ==
    ASSUME IInv, NEW w \in Worker, ReadSettingsFirst(w)
    PROVE  IInv' /\ Advances
<1>1. TypeOK'
  BY DEF IInv, TypeOK, ReadSettingsFirst, Goto, outbox, eventLog, seen
<1>2. QED BY <1>1, MoveInv DEF ReadSettingsFirst, Fresh, Working, seen

LEMMA CheckDueInv ==
    ASSUME IInv, NEW w \in Worker, CheckDue(w)
    PROVE  IInv' /\ Advances
<1>1. TypeOK'
  BY DEF IInv, TypeOK, CheckDue, Goto, outbox, eventLog, seen
<1>2. /\ pc[w] \in {"check", "idle"}
      /\ Goto(w, "idle") \/ Goto(w, "release")
      /\ UNCHANGED <<outbox, eventLog, batch, held, left, job, result, toReport,
                     nextToken, sends, accepted, reported, lost>>
  BY DEF CheckDue, seen
<1>3. CASE Goto(w, "idle")
  BY <1>1, <1>2, <1>3, MoveInv DEF Fresh, Working
<1>4. CASE Goto(w, "release")
  BY <1>1, <1>2, <1>4, MoveInv DEF Fresh, Working
<1>5. QED BY <1>2, <1>3, <1>4

LEMMA ReadSettingsInv ==
    ASSUME IInv, NEW w \in Worker, ReadSettings(w)
    PROVE  IInv' /\ Advances
<1>1. TypeOK'
  BY DEF IInv, TypeOK, ReadSettings, Goto, outbox, eventLog, seen
<1>2. QED BY <1>1, MoveInv DEF ReadSettings, Fresh, Working, seen

LEMMA LookUpInv ==
    ASSUME IInv, NEW w \in Worker, LookUp(w)
    PROVE  IInv' /\ Advances
<1>1. TypeOK'
  BY DEF IInv, TypeOK, LookUp, Goto, outbox, eventLog, seen
<1>2. PICK d \in Delivery :
        /\ batch[w][d] > 0
        /\ job' = [job EXCEPT ![w] = d]
        /\ Goto(w, IF d[1] \notin events THEN "missing"
                   ELSE IF d[2] \in snap[w] THEN "send" ELSE "cancel")
  BY DEF LookUp
<1>3. /\ pc[w] = "next"
      /\ UNCHANGED <<outbox, eventLog, batch, held, left, result, toReport,
                     nextToken, sends, accepted, reported, lost>>
  BY DEF LookUp, seen
<1>4. job'[w] = d /\ \A v \in Worker \ {w} : job'[v] = job[v]
  BY <1>2 DEF IInv, TypeOK
<1>5. d[1] \notin events => Gone(d)
  BY <1>2 DEF IInv, EventInv, Gone
<1>6. PICK l \in {"missing", "send", "cancel"} :
        Goto(w, l) /\ (l = "missing" => Gone(d))
  BY <1>2, <1>5
<1>7. QED BY <1>1, <1>2, <1>3, <1>4, <1>6, MoveInv DEF Fresh, Working

-----------------------------------------------------------------------------
(* Steps of run_once that settle a row, report a death, or are abandoned   *)

\* What a worker holds while it works on a row.
LEMMA AtWork ==
    ASSUME IInv, NEW w \in Worker, pc[w] \in Working
    PROVE  /\ job[w] \in Delivery /\ batch[w][job[w]] > 0 /\ held[w] # 0
           /\ Owns(w, job[w]) =>
                 /\ status[job[w]] = "processing"
                 /\ attempts[job[w]] \in 1..MaxAttempts
                 /\ attempts[job[w]] = batch[w][job[w]]
<1>1. job[w] \in Delivery /\ batch[w][job[w]] > 0
  BY DEF IInv, LocalInv
<1>2. held[w] # 0
  BY <1>1 DEF IInv, TokenInv, HeldTokens
<1>3. ASSUME Owns(w, job[w])
      PROVE  /\ status[job[w]] = "processing" /\ attempts[job[w]] > 0
             /\ attempts[job[w]] = batch[w][job[w]]
  BY <1>1, <1>2, <1>3 DEF Owns, IInv, TokenInv, RowTokens, HeldTokens
<1>4. attempts[job[w]] \in 0..MaxAttempts
  BY <1>1 DEF IInv, TypeOK
<1>5. QED BY <1>1, <1>2, <1>3, <1>4, OutboxAssumption

\* complete_delivery changes the row of its worker or none.
LEMMA CompleteQuiet ==
    ASSUME IInv, NEW w \in Worker, pc[w] \in Working, NEW ok \in BOOLEAN,
           ok => job[w] \in accepted, CompleteDelivery(w, job[w], ok),
           \A v \in Worker \ {w} : held'[v] = held[v],
           batch'[w][job[w]] = 0 \/ (pc'[w] = "note" /\ job'[w] = job[w])
    PROVE  /\ RowsQuiet /\ token'[job[w]] # held[w]
           /\ \A d \in Delivery : status'[d] = "dead" =>
                 \/ status[d] = "dead"
                 \/ d = job[w] /\ Owns(w, d) /\ ~ok /\ attempts[d] >= MaxAttempts
           /\ \A d \in Delivery : status'[d] # "absent" => status[d] # "absent"
<1> DEFINE d == job[w]
<1>1. /\ d \in Delivery /\ batch[w][d] > 0 /\ held[w] # 0
      /\ Owns(w, d) => attempts[d] \in 1..MaxAttempts /\ status[d] = "processing"
  BY AtWork
<1> HIDE DEF d
<1>2. CASE ~Owns(w, d)
  <2>1. UNCHANGED <<status, attempts, token, lease>>
    BY <1>2 DEF CompleteDelivery, outbox, d
  <2>2. QED BY <1>2, <2>1 DEF RowsQuiet, Kept, Owns, d
<1>3. CASE Owns(w, d)
  <2>1. PICK s \in {"sent", "dead", "pending"}, delay \in Nat :
          /\ Settle(d, s, delay)
          /\ s = "dead" => ~ok /\ attempts[d] >= MaxAttempts
          /\ s = "sent" => d \in accepted
    <3>1. Backoff[attempts[d]] \in Nat
      BY <1>1, <1>3, OutboxAssumption
    <3>2. QED BY <1>3, <3>1 DEF CompleteDelivery, d
  <2>2. RowsQuiet /\ token'[d] = 0 /\ status[d] = "processing"
    BY <1>1, <1>3, <2>1, SettleQuiet DEF d
  <2>3. status'[d] = s /\ \A e \in Delivery \ {d} : status'[e] = status[e]
    BY <1>1, <2>1 DEF Settle, IInv, TypeOK
  <2>4. QED BY <1>1, <1>3, <2>1, <2>2, <2>3 DEF d
<1>4. QED BY <1>2, <1>3

\* What the steps that finish a row without a word have in common.
LEMMA FinishInv ==
    ASSUME IInv, TypeOK', NEW w \in Worker, pc[w] \in Working, Done(w, job[w]),
           RowsQuiet, token'[job[w]] # held[w],
           \A d \in Delivery : status'[d] # "absent" => status[d] # "absent",
           \A d \in Delivery : status'[d] = "dead" =>
              status[d] = "dead" /\ ~(pc[w] = "note" /\ job[w] = d),
           UNCHANGED <<eventLog, toReport, nextToken, sends, accepted, reported, lost>>
    PROVE  IInv' /\ Advances
<1>1. job[w] \in Delivery
  BY AtWork
<1>2. WorkersQuiet
  BY <1>1, DoneQuiet
<1>3. nextEvent <= nextEvent
  BY DEF IInv, TypeOK
<1>4. LogQuiet
  BY <1>3 DEF LogQuiet, IInv, EventInv, NoOrphanRow, eventLog
<1>5. Quiet
  BY <1>2, <1>4 DEF Quiet
<1>6. pc[w] # "report"
  BY DEF Working
<1>7. LocalInv'
  BY <1>1, <1>5, <1>6, QuietStep, DoneLocal DEF Advances
<1>8. DeathReported'
  <2>1. \A v \in Worker \ {w} : pc'[v] = pc[v] /\ job'[v] = job[v]
    BY <1>1, DoneEffect DEF IInv
  <2>2. QED BY <2>1 DEF IInv, DeathReported
<1>9. QED BY <1>5, <1>7, <1>8, QuietStep DEF IInv

LEMMA CompleteMissingInv ==
    ASSUME IInv, NEW w \in Worker, CompleteMissing(w)
    PROVE  IInv' /\ Advances
<1>1. /\ pc[w] = "missing" /\ pc[w] \in Working
      /\ CompleteDelivery(w, job[w], FALSE) /\ Done(w, job[w])
      /\ UNCHANGED <<eventLog, enabled, toReport, nextToken, sends, accepted,
                     offSince, reported, lost, crashes>>
  BY DEF CompleteMissing, Working
<1>2. job[w] \in Delivery /\ Gone(job[w])
  BY <1>1, AtWork DEF IInv, LocalInv
<1>3. status[job[w]] = "absent"
  BY <1>2 DEF IInv, EventInv, NoOrphanRow, Gone
<1>4. ~Owns(w, job[w])
  BY <1>1, <1>3, AtWork
<1>5. UNCHANGED outbox
  BY <1>1, <1>4 DEF CompleteDelivery
<1>6. TypeOK'
  BY <1>1, <1>2, <1>5, DoneType DEF IInv, TypeOK, outbox, eventLog
<1>7. RowsQuiet
  BY <1>1, <1>5, OutboxKept
<1>8. UNCHANGED <<status, token>>
  BY <1>5 DEF outbox
<1>9. QED BY <1>1, <1>4, <1>6, <1>7, <1>8, FinishInv DEF Owns

LEMMA CancelDeliveryInv ==
    ASSUME IInv, NEW w \in Worker, CancelDelivery(w)
    PROVE  IInv' /\ Advances
<1>1. /\ pc[w] = "cancel" /\ pc[w] \in Working
      /\ IF Owns(w, job[w]) THEN Settle(job[w], "cancelled", 0) ELSE UNCHANGED outbox
      /\ Done(w, job[w])
      /\ UNCHANGED <<eventLog, enabled, toReport, nextToken, sends, accepted,
                     offSince, reported, lost, crashes>>
  BY DEF CancelDelivery, Working
<1>2. job[w] \in Delivery /\ batch[w][job[w]] > 0 /\ held[w] # 0
  BY <1>1, AtWork
<1>3. /\ batch'[w][job[w]] = 0
      /\ \A v \in Worker \ {w} : held'[v] = held[v]
  BY <1>1, <1>2, DoneEffect DEF IInv
<1>4. CASE Owns(w, job[w])
  <2>1. "cancelled" \in Status
    BY DEF Status, Terminal
  <2>2. /\ status' \in [Delivery -> Status]
        /\ attempts' \in [Delivery -> 0..MaxAttempts]
        /\ token' \in [Delivery -> Nat]
        /\ lease' \in [Delivery -> Nat]
        /\ retry' \in [Delivery -> Nat]
    BY <1>1, <1>2, <1>4, <2>1, SettleType DEF IInv
  <2>3. TypeOK'
    BY <1>1, <1>2, <2>2, DoneType DEF IInv, TypeOK, eventLog
  <2>4. RowsQuiet /\ token'[job[w]] = 0 /\ status[job[w]] = "processing"
    BY <1>1, <1>2, <1>3, <1>4, SettleQuiet
  <2>5. \A d \in Delivery :
           status'[d] = IF d = job[w] THEN "cancelled" ELSE status[d]
    BY <1>1, <1>2, <1>4 DEF Settle, IInv, TypeOK
  <2>6. QED BY <1>1, <1>2, <2>3, <2>4, <2>5, FinishInv
<1>5. CASE ~Owns(w, job[w])
  <2>1. UNCHANGED <<outbox, status, token>>
    BY <1>1, <1>5 DEF outbox
  <2>2. TypeOK'
    BY <1>1, <1>2, <2>1, DoneType DEF IInv, TypeOK, outbox, eventLog
  <2>3. QED BY <1>1, <1>5, <2>1, <2>2, OutboxKept, FinishInv DEF Owns
<1>6. QED BY <1>4, <1>5

LEMMA AcknowledgeInv ==
    ASSUME IInv, NEW w \in Worker, Acknowledge(w)
    PROVE  IInv' /\ Advances
<1> DEFINE ok == result[w] = "ok"
           noted == result[w] = "error" /\ Owns(w, job[w]) /\ LastAttempt(w)
<1>1. /\ pc[w] = "ack" /\ pc[w] \in Working
      /\ CompleteDelivery(w, job[w], ok) /\ ok \in BOOLEAN
      /\ ok => job[w] \in accepted
      /\ UNCHANGED <<eventLog, enabled, toReport, nextToken, sends, accepted,
                     offSince, reported, lost, crashes>>
  BY DEF Acknowledge, Working, IInv, LocalInv
<1>2. /\ job[w] \in Delivery /\ batch[w][job[w]] > 0
      /\ Owns(w, job[w]) => /\ attempts[job[w]] \in 1..MaxAttempts
                            /\ attempts[job[w]] = batch[w][job[w]]
  BY <1>1, AtWork
<1>3. /\ status' \in [Delivery -> Status]
      /\ attempts' \in [Delivery -> 0..MaxAttempts]
      /\ token' \in [Delivery -> Nat]
      /\ lease' \in [Delivery -> Nat]
      /\ retry' \in [Delivery -> Nat]
  BY <1>1, <1>2, CompleteType DEF IInv
<1>4. CASE noted
  <2>1. Goto(w, "note") /\ UNCHANGED <<batch, held, job, result, snap, left>>
    BY <1>4 DEF Acknowledge
  <2>2. pc'[w] = "note" /\ \A v \in Worker \ {w} : pc'[v] = pc[v]
    BY <2>1 DEF Goto, IInv, TypeOK
  <2>3. TypeOK'
    BY <1>1, <1>3, <2>1 DEF Goto, IInv, TypeOK, eventLog
  <2>4. /\ RowsQuiet
        /\ \A d \in Delivery : status'[d] = "dead" => status[d] = "dead" \/ d = job[w]
        /\ \A d \in Delivery : status'[d] # "absent" => status[d] # "absent"
    BY <1>1, <2>1, <2>2, CompleteQuiet
  <2>5. nextEvent <= nextEvent
    BY DEF IInv, TypeOK
  <2>6. LogQuiet
    BY <1>1, <2>4, <2>5 DEF LogQuiet, IInv, EventInv, NoOrphanRow, eventLog
  <2>7. WorkersQuiet
    BY <2>1, <2>2 DEF WorkersQuiet, Asked
  <2>8. Quiet
    BY <1>1, <2>4, <2>6, <2>7 DEF Quiet
  <2>9. status'[job[w]] = "dead"
    <3>1. attempts[job[w]] >= MaxAttempts
      BY <1>2, <1>4 DEF LastAttempt
    <3>2. Settle(job[w], "dead", 0)
      BY <1>1, <1>4, <3>1 DEF CompleteDelivery
    <3>3. QED BY <1>2, <3>2 DEF Settle, IInv, TypeOK
  <2>10. LocalInv'
    <3> SUFFICES ASSUME NEW v \in Worker
                 PROVE  /\ pc'[v] \in Working =>
                              job'[v] \in Delivery /\ batch'[v][job'[v]] > 0
                        /\ pc'[v] \in Fresh => \A e \in Delivery : batch'[v][e] = 0
                        /\ pc'[v] # "report" => toReport'[v] = {}
                        /\ pc'[v] = "missing" => Gone(job[v])'
                        /\ pc'[v] = "ack" => result'[v] # "none"
                        /\ pc'[v] = "ack" /\ result'[v] = "ok" => job'[v] \in accepted'
                        /\ pc'[v] = "note" => status'[job'[v]] \in {"dead", "absent"}
      BY DEF LocalInv
    <3>1. CASE v = w
      BY <1>1, <1>2, <2>1, <2>2, <2>9, <3>1 DEF IInv, LocalInv, Fresh
    <3>2. CASE v # w
      <4>1. pc[v] = "note" => status'[job[v]] \in {"dead", "absent"}
        BY <2>3, <2>8, QuietStep
      <4>2. UNCHANGED <<events, nextEvent>>
        BY <1>1 DEF eventLog
      <4>3. QED BY <1>1, <2>1, <2>2, <3>2, <4>1, <4>2 DEF IInv, LocalInv, Gone
    <3>3. QED BY <3>1, <3>2
  <2>11. DeathReported'
    BY <1>1, <2>1, <2>2, <2>4 DEF IInv, DeathReported
  <2>12. QED BY <2>3, <2>8, <2>10, <2>11, QuietStep DEF IInv
<1>5. CASE ~noted
  <2>1. Done(w, job[w])
    BY <1>5 DEF Acknowledge
  <2>2. TypeOK'
    BY <1>1, <1>2, <1>3, <2>1, DoneType DEF IInv, TypeOK, eventLog
  <2>3. /\ batch'[w][job[w]] = 0
        /\ \A v \in Worker \ {w} : held'[v] = held[v]
    BY <1>2, <2>1, DoneEffect DEF IInv
  <2>4. /\ RowsQuiet /\ token'[job[w]] # held[w]
        /\ \A d \in Delivery : status'[d] = "dead" =>
              \/ status[d] = "dead"
              \/ d = job[w] /\ Owns(w, d) /\ ~ok /\ attempts[d] >= MaxAttempts
        /\ \A d \in Delivery : status'[d] # "absent" => status[d] # "absent"
    BY <1>1, <2>3, CompleteQuiet
  <2>5. ~ok => result[w] = "error"
    BY <1>1 DEF IInv, TypeOK, LocalInv
  <2>6. ~(Owns(w, job[w]) /\ ~ok /\ attempts[job[w]] >= MaxAttempts)
    BY <1>2, <1>5, <2>5 DEF LastAttempt
  <2>7. QED BY <1>1, <2>1, <2>2, <2>4, <2>6, FinishInv
<1>6. QED BY <1>4, <1>5

LEMMA NoteNotifyFailedInv ==
    ASSUME IInv, NEW w \in Worker, NoteNotifyFailed(w)
    PROVE  IInv' /\ Advances
<1>1. /\ pc[w] = "note" /\ pc[w] \in Working
      /\ EmitNotifyFailed(job[w]) /\ Done(w, job[w])
      /\ UNCHANGED <<enabled, toReport, nextToken, sends, accepted, offSince,
                     lost, crashes>>
  BY DEF NoteNotifyFailed, Working
<1>2. job[w] \in Delivery /\ held[w] # 0 /\ status[job[w]] \in {"dead", "absent"}
  BY <1>1, AtWork DEF IInv, LocalInv
<1>3. TypeOK'
  BY <1>1, <1>2, DoneType, EmitType DEF IInv, TypeOK
<1>4. /\ RowsQuiet /\ LogQuiet
      /\ \A d \in Delivery : status'[d] = "dead" => status[d] = "dead"
      /\ reported' = reported \cup {job[w]}
  BY <1>1, <1>2, EmitQuiet
<1>5. token[job[w]] = 0
  BY <1>2 DEF IInv, TokenInv, RowTokens
<1>6. token'[job[w]] = 0
  BY <1>2, <1>4, <1>5 DEF RowsQuiet, Kept, Removed, Enqueued, Settled
<1>7. Quiet
  BY <1>1, <1>2, <1>4, <1>6, DoneQuiet DEF Quiet
<1>8. LocalInv'
  BY <1>1, <1>2, <1>3, <1>7, QuietStep, DoneLocal DEF Advances
<1>9. DeathReported'
  <2>1. \A v \in Worker \ {w} : pc'[v] = pc[v] /\ job'[v] = job[v]
    BY <1>1, <1>2, DoneEffect DEF IInv
  <2>2. QED BY <1>1, <1>4, <2>1 DEF IInv, DeathReported
<1>10. QED BY <1>3, <1>7, <1>8, <1>9, QuietStep DEF IInv

LEMMA ReportDeadInv ==
    ASSUME IInv, NEW w \in Worker, ReportDead(w)
    PROVE  IInv' /\ Advances
<1>1. PICK d \in toReport[w] :
        /\ EmitNotifyFailed(d)
        /\ toReport' = [toReport EXCEPT ![w] = @ \ {d}]
        /\ IF toReport[w] # {d} THEN UNCHANGED <<pc, snap>>
           ELSE IF Busy(w) THEN Goto(w, "settings") /\ UNCHANGED snap
           ELSE Goto(w, "idle") /\ snap' = [snap EXCEPT ![w] = {}]
  BY DEF ReportDead
<1>2. /\ pc[w] = "report" /\ d \in Delivery
      /\ UNCHANGED <<enabled, batch, held, job, result, nextToken, left, sends,
                     accepted, offSince, lost, crashes>>
  BY DEF ReportDead, IInv, TypeOK
<1>3. TypeOK'
  BY <1>1, <1>2, EmitType DEF Goto, IInv, TypeOK
<1>4. /\ RowsQuiet /\ LogQuiet
      /\ \A e \in Delivery : status'[e] = "dead" => status[e] = "dead"
      /\ reported' = reported \cup {d}
  BY <1>1, <1>2, EmitQuiet
<1>5. /\ \A v \in Worker \ {w} : pc'[v] = pc[v] /\ toReport'[v] = toReport[v]
      /\ toReport'[w] = toReport[w] \ {d}
      /\ \/ pc'[w] = "report"
         \/ pc'[w] = "settings" /\ toReport[w] = {d}
         \/ pc'[w] = "idle" /\ toReport[w] = {d} /\ ~Busy(w)
  BY <1>1, <1>2 DEF Goto, IInv, TypeOK
<1>6. WorkersQuiet
  BY <1>2, <1>5 DEF WorkersQuiet, Asked
<1>7. Quiet
  BY <1>2, <1>4, <1>6 DEF Quiet
<1>8. LocalInv'
  <2> SUFFICES ASSUME NEW v \in Worker
               PROVE  /\ pc'[v] \in Working =>
                            job'[v] \in Delivery /\ batch'[v][job'[v]] > 0
                      /\ pc'[v] \in Fresh => \A e \in Delivery : batch'[v][e] = 0
                      /\ pc'[v] # "report" => toReport'[v] = {}
                      /\ pc'[v] = "missing" => Gone(job[v])'
                      /\ pc'[v] = "ack" => result'[v] # "none"
                      /\ pc'[v] = "ack" /\ result'[v] = "ok" => job'[v] \in accepted'
                      /\ pc'[v] = "note" => status'[job'[v]] \in {"dead", "absent"}
    BY DEF LocalInv
  <2>1. CASE v = w
    <3>1. ~Busy(w) => \A e \in Delivery : batch[w][e] = 0
      BY DEF Busy, IInv, TypeOK
    <3>2. QED BY <1>2, <1>5, <2>1, <3>1 DEF Working, Fresh
  <2>2. CASE v # w
    <3>1. pc[v] = "note" => status'[job[v]] \in {"dead", "absent"}
      BY <1>3, <1>7, QuietStep
    <3>2. pc[v] = "missing" => Gone(job[v])'
      BY <1>2, <1>3, <1>7, QuietStep DEF Advances, IInv, LocalInv, Working
    <3>3. QED BY <1>2, <1>5, <2>2, <3>1, <3>2 DEF IInv, LocalInv
  <2>3. QED BY <2>1, <2>2
<1>9. DeathReported'
  BY <1>2, <1>4, <1>5 DEF IInv, DeathReported
<1>10. QED BY <1>3, <1>7, <1>8, <1>9, QuietStep DEF IInv

LEMMA AbandonInv ==
    ASSUME IInv, NEW w \in Worker, Abandon(w)
    PROVE  IInv' /\ Advances
<1>1. \A v \in Worker : pc[v] = "note" => job[v] \in Delivery
  BY DEF IInv, LocalInv, Working
<1>2. TypeOK'
  <2>1. NoBatch \in [Delivery -> 0..MaxAttempts]
    BY OutboxAssumption DEF NoBatch
  <2>2. lost' \in SUBSET Delivery
    BY <1>1 DEF Abandon, IInv, TypeOK
  <2>3. QED BY <2>1, <2>2 DEF Abandon, Goto, IInv, TypeOK, outbox, eventLog
<1>3. /\ UNCHANGED <<outbox, eventLog, nextToken, sends, accepted, reported>>
      /\ lost' = lost \cup toReport[w] \cup (IF pc[w] = "note" THEN {job[w]} ELSE {})
      /\ pc'[w] = "idle" /\ held'[w] = 0 /\ left'[w] = 0 /\ toReport'[w] = {}
      /\ \A d \in Delivery : batch'[w][d] = 0
      /\ \A v \in Worker \ {w} :
            /\ pc'[v] = pc[v] /\ batch'[v] = batch[v] /\ held'[v] = held[v]
            /\ job'[v] = job[v] /\ left'[v] = left[v] /\ result'[v] = result[v]
            /\ toReport'[v] = toReport[v]
  BY DEF Abandon, Goto, NoBatch, IInv, TypeOK
<1>4. WorkersQuiet
  BY <1>3 DEF WorkersQuiet, Asked
<1>5. Quiet
  BY <1>3, <1>4, OutboxKept DEF Quiet
<1>6. UNCHANGED <<status, events, nextEvent>>
  BY <1>3 DEF outbox, eventLog
<1>7. LocalInv'
  <2> SUFFICES ASSUME NEW v \in Worker
               PROVE  /\ pc'[v] \in Working =>
                            job'[v] \in Delivery /\ batch'[v][job'[v]] > 0
                      /\ pc'[v] \in Fresh => \A e \in Delivery : batch'[v][e] = 0
                      /\ pc'[v] # "report" => toReport'[v] = {}
                      /\ pc'[v] = "missing" => Gone(job[v])'
                      /\ pc'[v] = "ack" => result'[v] # "none"
                      /\ pc'[v] = "ack" /\ result'[v] = "ok" => job'[v] \in accepted'
                      /\ pc'[v] = "note" => status'[job'[v]] \in {"dead", "absent"}
    BY DEF LocalInv
  <2>1. CASE v = w
    BY <1>3, <2>1 DEF Working
  <2>2. CASE v # w
    BY <1>3, <1>6, <2>2 DEF IInv, LocalInv, Gone
  <2>3. QED BY <2>1, <2>2
<1>8. DeathReported'
  BY <1>3, <1>6 DEF IInv, DeathReported
<1>9. QED BY <1>2, <1>5, <1>7, <1>8, QuietStep DEF IInv

\* An expired lease ran out for the worker, too.
LEMMA ReleaseExpiredInv ==
    ASSUME IInv, NEW w \in Worker, ReleaseExpired(w)
    PROVE  IInv' /\ Advances
<1>1. TypeOK'
  BY DEF ReleaseExpired, Goto, IInv, TypeOK, Status, Open, eventLog, seen
<1>2. /\ pc[w] = "release" /\ pc'[w] = "claim"
      /\ \A v \in Worker \ {w} : pc'[v] = pc[v]
      /\ \A d \in Delivery :
            IF Expired(d) THEN status'[d] = "pending" /\ token'[d] = 0
            ELSE status'[d] = status[d] /\ token'[d] = token[d]
      /\ UNCHANGED <<attempts, lease, events, nextEvent, batch, held, job, result,
                     toReport, nextToken, left, sends, accepted, reported, lost>>
  BY DEF ReleaseExpired, Goto, IInv, TypeOK, eventLog, seen
<1>3. RowsQuiet
  <2> SUFFICES ASSUME NEW d \in Delivery PROVE Kept(d) \/ Settled(d)
    BY DEF RowsQuiet
  <2>1. CASE ~Expired(d)
    BY <1>2, <2>1 DEF Kept
  <2>2. CASE Expired(d)
    <3>1. status[d] = "processing" /\ lease[d] = 0 /\ d[1] \in events
      BY <2>2 DEF Expired, IInv, EventInv, NoOrphanRow
    <3>2. ASSUME NEW v \in Worker, batch[v][d] > 0
          PROVE  left[v] = 0 \/ (pc[v] = "note" /\ job[v] = d)
      BY <3>1, <3>2 DEF IInv, LeaseInv, TypeOK
    <3>3. QED BY <1>2, <2>2, <3>1, <3>2 DEF Settled
  <2>3. QED BY <2>1, <2>2
<1>4. nextEvent <= nextEvent
  BY DEF IInv, TypeOK
<1>5. LogQuiet
  BY <1>2, <1>4 DEF LogQuiet, IInv, EventInv, NoOrphanRow, Expired
<1>6. WorkersQuiet
  BY <1>2 DEF WorkersQuiet, Asked
<1>7. Quiet
  BY <1>2, <1>3, <1>5, <1>6 DEF Quiet
<1>8. LocalInv'
  <2> SUFFICES ASSUME NEW v \in Worker
               PROVE  /\ pc'[v] \in Working =>
                            job'[v] \in Delivery /\ batch'[v][job'[v]] > 0
                      /\ pc'[v] \in Fresh => \A e \in Delivery : batch'[v][e] = 0
                      /\ pc'[v] # "report" => toReport'[v] = {}
                      /\ pc'[v] = "missing" => Gone(job[v])'
                      /\ pc'[v] = "ack" => result'[v] # "none"
                      /\ pc'[v] = "ack" /\ result'[v] = "ok" => job'[v] \in accepted'
                      /\ pc'[v] = "note" => status'[job'[v]] \in {"dead", "absent"}
    BY DEF LocalInv
  <2>1. CASE v = w
    BY <1>2, <2>1 DEF IInv, LocalInv, Working, Fresh
  <2>2. CASE v # w
    <3>1. pc[v] = "note" => status'[job[v]] \in {"dead", "absent"}
      BY <1>1, <1>7, QuietStep
    <3>2. QED BY <1>2, <2>2, <3>1 DEF IInv, LocalInv, Gone
  <2>3. QED BY <2>1, <2>2
<1>9. DeathReported'
  BY <1>2 DEF IInv, DeathReported
<1>10. QED BY <1>1, <1>7, <1>8, <1>9, QuietStep DEF IInv

-----------------------------------------------------------------------------
(* Time, the claim and the send                                            *)

LEMMA TickInv ==
    ASSUME IInv, Tick
    PROVE  IInv' /\ Advances
<1>1. TypeOK'
  BY EnvironmentType DEF IInv
<1>2. /\ \A d \in Delivery : lease'[d] = Less(lease[d])
      /\ \A v \in Worker : left'[v] = Less(left[v])
      /\ UNCHANGED <<status, attempts, token, events, nextEvent, pc, batch, held, job,
                     result, toReport, nextToken, sends, accepted, reported, lost>>
  BY DEF Tick, eventLog, worker
<1>3. LocalInv' /\ EventInv' /\ TokenInv' /\ AttemptInv'
  BY <1>2 DEF IInv, LocalInv, Gone, EventInv, NoOrphanRow, TokenInv, RowTokens,
              HeldTokens, OneHolder, AttemptInv, UnclaimedUnsent, ClaimedUnsent,
              OneClaimer, Asked
<1>4. SendOncePerAttempt' /\ NoEarlyDeath' /\ DeathReported'
  BY <1>2 DEF IInv, SendOncePerAttempt, NoEarlyDeath, DeathReported
<1>5. \A v \in Worker : left[v] \in Int /\ (left'[v] > 0 => left[v] > 0)
  BY <1>2 DEF Less, IInv, TypeOK
<1>6. LeaseInv'
  <2> SUFFICES ASSUME NEW v \in Worker, NEW d \in Delivery,
                      left'[v] > 0, batch[v][d] > 0, d[1] \in events
               PROVE  \/ token[d] = held[v] /\ lease'[d] >= left'[v]
                      \/ pc[v] = "note" /\ job[v] = d
    BY <1>2 DEF LeaseInv
  <2>1. \/ token[d] = held[v] /\ lease[d] >= left[v]
        \/ pc[v] = "note" /\ job[v] = d
    BY <1>5 DEF IInv, LeaseInv
  <2>2. lease[d] >= left[v] => lease'[d] >= left'[v]
    BY <1>2, <1>5 DEF Less, IInv, TypeOK
  <2>3. QED BY <2>1, <2>2
<1>7. LeaseExclusive'
  BY <1>2, <1>5 DEF IInv, LeaseExclusive
<1>8. Advances
  BY <1>2 DEF Advances, Gone
<1>9. QED BY <1>1, <1>3, <1>4, <1>6, <1>7, <1>8 DEF IInv

LEMMA CountUp ==
    ASSUME NEW S, NEW f \in [S -> Nat], NEW n \in S
    PROVE  LET g == [f EXCEPT ![n] = @ + 1]
           IN  /\ g \in [S -> Nat]
               /\ g[n] = f[n] + 1
               /\ \A m \in S \ {n} : g[m] = f[m]
OBVIOUS

LEMMA SendInv ==
    ASSUME IInv, NEW w \in Worker, Send(w)
    PROVE  IInv' /\ Advances
<1> DEFINE d == job[w]
           n == batch[w][d]
<1>1. /\ pc[w] = "send" /\ pc[w] \in Working
      /\ sends' = [sends EXCEPT ![d][n] = @ + 1]
      /\ \E r \in {"ok", "error"} :
            /\ result' = [result EXCEPT ![w] = r]
            /\ r = "ok" => d \in accepted'
      /\ accepted' \in {accepted, accepted \cup {d}}
      /\ Goto(w, "ack")
      /\ UNCHANGED <<outbox, eventLog, enabled, batch, held, job, snap, toReport,
                     nextToken, left, offSince, reported, lost, crashes>>
  BY DEF Send, Working
<1>2. d \in Delivery /\ n \in 1..MaxAttempts
  <2>1. d \in Delivery /\ n > 0
    BY <1>1, AtWork
  <2>2. n \in 0..MaxAttempts
    BY <2>1 DEF IInv, TypeOK
  <2>3. QED BY <2>1, <2>2, OutboxAssumption
<1>3. /\ sends' \in [Delivery -> [1..MaxAttempts -> Nat]]
      /\ sends'[d][n] = sends[d][n] + 1
      /\ \A e \in Delivery, m \in 1..MaxAttempts :
            e # d \/ m # n => sends'[e][m] = sends[e][m]
  <2> HIDE DEF d, n
  <2>1. sends \in [Delivery -> [1..MaxAttempts -> Nat]]
    BY DEF IInv, TypeOK
  <2> DEFINE row == [sends[d] EXCEPT ![n] = @ + 1]
  <2>2. sends' = [sends EXCEPT ![d] = row]
    BY <1>1
  <2>3. /\ row \in [1..MaxAttempts -> Nat]
        /\ row[n] = sends[d][n] + 1
        /\ \A m \in (1..MaxAttempts) \ {n} : row[m] = sends[d][m]
    <3>1. sends[d] \in [1..MaxAttempts -> Nat]
      BY <1>2, <2>1
    <3>2. QED BY <1>2, <3>1, CountUp
  <2> HIDE DEF row
  <2>4. /\ sends'[d] = row
        /\ \A e \in Delivery \ {d} : sends'[e] = sends[e]
    BY <1>2, <2>1, <2>2
  <2>5. sends' \in [Delivery -> [1..MaxAttempts -> Nat]]
    BY <2>1, <2>2, <2>3
  <2>6. \A e \in Delivery, m \in 1..MaxAttempts :
            e # d \/ m # n => sends'[e][m] = sends[e][m]
    BY <2>3, <2>4
  <2>7. QED BY <2>3, <2>4, <2>5, <2>6
<1>4. sends[d][n] = 0
  BY <1>1, <1>2 DEF IInv, AttemptInv, ClaimedUnsent, Asked
<1>5. TypeOK'
  <2>1. accepted' \in SUBSET Delivery
    BY <1>1, <1>2 DEF IInv, TypeOK
  <2>2. result' \in [Worker -> {"none", "ok", "error"}]
    BY <1>1 DEF IInv, TypeOK
  <2> HIDE DEF d, n
  <2>3. QED BY <1>1, <1>3, <2>1, <2>2 DEF Goto, IInv, TypeOK, outbox, eventLog
<1>6. /\ pc'[w] = "ack" /\ result'[w] # "none"
      /\ result'[w] = "ok" => job'[w] \in accepted'
      /\ \A v \in Worker \ {w} : pc'[v] = pc[v] /\ result'[v] = result[v]
  BY <1>1 DEF Goto, IInv, TypeOK
<1>7. UNCHANGED <<status, attempts, token, lease, events, nextEvent>>
  BY <1>1 DEF outbox, eventLog
<1> HIDE DEF d, n
<1>8. LocalInv'
  <2> SUFFICES ASSUME NEW v \in Worker
               PROVE  /\ pc'[v] \in Working =>
                            job'[v] \in Delivery /\ batch'[v][job'[v]] > 0
                      /\ pc'[v] \in Fresh => \A e \in Delivery : batch'[v][e] = 0
                      /\ pc'[v] # "report" => toReport'[v] = {}
                      /\ pc'[v] = "missing" => Gone(job[v])'
                      /\ pc'[v] = "ack" => result'[v] # "none"
                      /\ pc'[v] = "ack" /\ result'[v] = "ok" => job'[v] \in accepted'
                      /\ pc'[v] = "note" => status'[job'[v]] \in {"dead", "absent"}
    BY DEF LocalInv
  <2>1. CASE v = w
    BY <1>1, <1>6, <2>1 DEF IInv, LocalInv, Fresh
  <2>2. CASE v # w
    BY <1>1, <1>6, <1>7, <2>2 DEF IInv, LocalInv, Gone
  <2>3. QED BY <2>1, <2>2
<1>9. EventInv' /\ TokenInv'
  BY <1>1, <1>6, <1>7 DEF IInv, EventInv, NoOrphanRow, TokenInv, RowTokens, HeldTokens,
     OneHolder
<1>10. UnclaimedUnsent'
  <2> SUFFICES ASSUME NEW e \in Delivery, NEW m \in 1..MaxAttempts,
                      ~Gone(e), m > attempts[e]
               PROVE  sends'[e][m] = 0
    BY <1>7 DEF UnclaimedUnsent, Gone
  <2>1. sends[e][m] = 0
    BY DEF IInv, AttemptInv, UnclaimedUnsent
  <2>2. e # d \/ m # n
    <3>1. Gone(d) \/ n <= attempts[d]
      BY <1>2 DEF IInv, AttemptInv, ClaimedUnsent, n
    <3>2. attempts[e] \in Int
      BY DEF IInv, TypeOK
    <3>3. QED BY <1>2, <3>1, <3>2
  <2>3. QED BY <1>3, <2>1, <2>2
<1>11. ClaimedUnsent'
  <2> SUFFICES ASSUME NEW v \in Worker, NEW e \in Delivery, batch[v][e] > 0
               PROVE  /\ Gone(e) \/ batch[v][e] <= attempts[e]
                      /\ Asked(v, e)' \/ sends'[e][batch[v][e]] = 0
    BY <1>1, <1>7 DEF ClaimedUnsent, Gone
  <2>1. /\ Gone(e) \/ batch[v][e] <= attempts[e]
        /\ Asked(v, e) \/ sends[e][batch[v][e]] = 0
    BY DEF IInv, AttemptInv, ClaimedUnsent
  <2>2. batch[v][e] \in 1..MaxAttempts
    <3>1. batch[v][e] \in 0..MaxAttempts
      BY DEF IInv, TypeOK
    <3>2. QED BY <3>1, OutboxAssumption
  <2>3. CASE v = w /\ e = d
    BY <1>1, <1>6, <2>1, <2>3 DEF Asked, d
  <2>4. CASE v = w /\ e # d
    BY <1>1, <1>3, <2>1, <2>2, <2>4 DEF Asked, d
  <2>5. CASE v # w
    <3>1. e # d \/ batch[v][e] # n
      BY <1>2, <2>5 DEF IInv, AttemptInv, OneClaimer, n
    <3>2. Asked(v, e)' <=> Asked(v, e)
      BY <1>1, <1>6, <2>5 DEF Asked
    <3>3. QED BY <1>3, <2>1, <2>2, <3>1, <3>2
  <2>6. QED BY <2>3, <2>4, <2>5
<1>12. OneClaimer'
  BY <1>1 DEF IInv, AttemptInv, OneClaimer
<1>13. SendOncePerAttempt'
  BY <1>3, <1>4 DEF IInv, SendOncePerAttempt
<1>14. LeaseInv' /\ LeaseExclusive'
  BY <1>1, <1>6, <1>7 DEF IInv, LeaseInv, LeaseExclusive
<1>15. NoEarlyDeath' /\ DeathReported'
  BY <1>1, <1>6, <1>7 DEF IInv, NoEarlyDeath, DeathReported
<1>16. Advances
  BY <1>7 DEF Advances, Gone
<1>17. QED BY <1>5, <1>8, <1>9, <1>10, <1>11, <1>12, <1>13, <1>14, <1>15, <1>16
           DEF IInv, AttemptInv

LEMMA ClaimTakes ==
    ASSUME IInv, NEW w \in Worker, Claim(w)
    PROVE  \E dead, mine \in SUBSET Delivery :
              /\ dead \cap mine = {}
              /\ \A d \in dead \cup mine : Due(d)
              /\ \A d \in dead : attempts[d] = MaxAttempts
              /\ \A d \in mine : NextAttempt(d) \in 1..MaxAttempts
              /\ TakeRows(w, dead, mine)
<1>1. PICK rows \in SUBSET DueRows :
        LET gone == {d \in rows : Exhausted(d)} IN TakeRows(w, gone, rows \ gone)
  BY DEF Claim
<1> DEFINE dead == {d \in rows : Exhausted(d)}
           mine == rows \ dead
<1>2. /\ dead \in SUBSET Delivery /\ mine \in SUBSET Delivery
      /\ dead \cap mine = {}
      /\ \A d \in dead \cup mine : Due(d)
  BY DEF DueRows
<1>3. \A d \in dead : attempts[d] = MaxAttempts
  BY <1>2, OutboxAssumption DEF Exhausted, NextAttempt, IInv, TypeOK
<1>4. \A d \in mine : NextAttempt(d) \in 1..MaxAttempts
  BY <1>2, OutboxAssumption DEF Exhausted, NextAttempt, IInv, TypeOK
<1>5. TakeRows(w, dead, mine)
  BY <1>1
<1> HIDE DEF dead, mine
<1>6. QED BY <1>2, <1>3, <1>4, <1>5

LEMMA ClaimType ==
    ASSUME IInv, NEW w \in Worker, Claim(w)
    PROVE  TypeOK'
<1>1. PICK dead, mine \in SUBSET Delivery :
        /\ \A d \in mine : NextAttempt(d) \in 1..MaxAttempts
        /\ TakeRows(w, dead, mine)
  BY ClaimTakes
<1>2. status' \in [Delivery -> Status]
  BY <1>1 DEF TakeRows, IInv, TypeOK, Status, Open, Terminal
<1>3. attempts' \in [Delivery -> 0..MaxAttempts]
  BY <1>1, OutboxAssumption DEF TakeRows, IInv, TypeOK
<1>4. token' \in [Delivery -> Nat] /\ lease' \in [Delivery -> Nat]
  BY <1>1, OutboxAssumption DEF TakeRows, IInv, TypeOK
<1>5. batch' \in [Worker -> [Delivery -> 0..MaxAttempts]]
  <2> DEFINE claimed == [d \in Delivery |-> IF d \in mine THEN NextAttempt(d) ELSE 0]
  <2>1. claimed \in [Delivery -> 0..MaxAttempts]
    BY <1>1, OutboxAssumption
  <2>2. batch' = [batch EXCEPT ![w] = claimed]
    BY <1>1 DEF TakeRows
  <2> HIDE DEF claimed
  <2>3. QED BY <2>1, <2>2 DEF IInv, TypeOK
<1>6. toReport' \in [Worker -> SUBSET Delivery]
  BY <1>1 DEF TakeRows, IInv, TypeOK
<1>7. /\ held' \in [Worker -> Nat] /\ left' \in [Worker -> Nat]
      /\ nextToken' \in Nat \ {0}
  <2>1. CASE mine = {}
    <3>1. UNCHANGED <<held, left, nextToken>>
      BY <1>1, <2>1 DEF TakeRows
    <3>2. QED BY <3>1 DEF IInv, TypeOK
  <2>2. CASE mine # {}
    <3>1. /\ held' = [held EXCEPT ![w] = nextToken]
          /\ left' = [left EXCEPT ![w] = Lease]
          /\ nextToken' = nextToken + 1
      BY <1>1, <2>2 DEF TakeRows
    <3>2. QED BY <3>1, OutboxAssumption DEF IInv, TypeOK
  <2>3. QED BY <2>1, <2>2
<1>8. pc' \in [Worker -> {"idle", "check", "release", "claim", "report",
                          "settings", "next", "missing", "cancel", "send",
                          "ack", "note"}]
  BY <1>1 DEF TakeRows, Goto, IInv, TypeOK
<1>9. snap' \in [Worker -> SUBSET Channel]
  BY <1>1 DEF TakeRows, IInv, TypeOK
<1>10. UNCHANGED <<retry, eventLog, enabled, job, result, sends, accepted,
                   offSince, reported, lost, crashes>>
  BY DEF Claim
<1>11. QED
  BY <1>2, <1>3, <1>4, <1>5, <1>6, <1>7, <1>8, <1>9, <1>10 DEF IInv, TypeOK, eventLog

LEMMA ClaimInv ==
    ASSUME IInv, NEW w \in Worker, Claim(w)
    PROVE  IInv' /\ Advances
<1>1. PICK dead, mine \in SUBSET Delivery :
        /\ dead \cap mine = {}
        /\ \A d \in dead \cup mine : Due(d)
        /\ \A d \in dead : attempts[d] = MaxAttempts
        /\ \A d \in mine : NextAttempt(d) \in 1..MaxAttempts
        /\ TakeRows(w, dead, mine)
  BY ClaimTakes
<1>2. /\ pc[w] = "claim"
      /\ UNCHANGED <<events, nextEvent, job, result, sends, accepted, reported, lost>>
  BY DEF Claim, eventLog
<1>3. TypeOK'
  BY ClaimType
\* Row by row and worker by worker.
<1>4. /\ \A d \in dead : status'[d] = "dead" /\ token'[d] = 0
      /\ \A d \in mine :
            /\ status'[d] = "processing" /\ attempts'[d] = attempts[d] + 1
            /\ token'[d] = nextToken /\ lease'[d] = Lease
            /\ batch'[w][d] = attempts'[d]
      /\ \A d \in Delivery \ mine : attempts'[d] = attempts[d] /\ batch'[w][d] = 0
      /\ \A d \in Delivery \ (dead \cup mine) : Kept(d)
  BY <1>1 DEF TakeRows, NextAttempt, Kept, IInv, TypeOK
<1>5. /\ toReport'[w] = dead
      /\ \/ pc'[w] = "report"
         \/ dead = {} /\ pc'[w] = "settings"
         \/ dead = {} /\ mine = {} /\ pc'[w] = "idle"
      /\ \A v \in Worker \ {w} :
            /\ pc'[v] = pc[v] /\ batch'[v] = batch[v] /\ toReport'[v] = toReport[v]
  BY <1>1 DEF TakeRows, Goto, IInv, TypeOK
<1>6. /\ IF mine = {}
         THEN held'[w] = held[w] /\ left'[w] = left[w] /\ nextToken' = nextToken
         ELSE held'[w] = nextToken /\ left'[w] = Lease /\ nextToken' = nextToken + 1
      /\ \A v \in Worker \ {w} : held'[v] = held[v] /\ left'[v] = left[v]
  BY <1>1 DEF TakeRows, IInv, TypeOK
\* What was there before.
<1>7. /\ nextToken \in Nat \ {0}
      /\ \A d \in Delivery : attempts[d] \in Nat /\ token[d] \in Nat /\ lease[d] \in Nat
      /\ \A v \in Worker : held[v] \in Nat /\ left[v] \in Nat
      /\ \A v \in Worker, d \in Delivery : batch[v][d] \in Nat
  BY DEF IInv, TypeOK
<1>8. \A d \in dead \cup mine :
         /\ d \in Delivery /\ status[d] \in Open /\ d[1] \in events
         /\ d[1] < nextEvent
         /\ status[d] # "processing" \/ lease[d] = 0
  BY <1>1 DEF Due, Open, IInv, EventInv, NoOrphanRow
<1>9. \A d \in Delivery : batch[w][d] = 0
  BY <1>2 DEF IInv, LocalInv, Fresh
\* A worker whose lease runs works on rows that cannot be claimed.
<1>10. ASSUME NEW v \in Worker, NEW d \in dead \cup mine, left[v] > 0
       PROVE  batch[v][d] = 0
  <2> SUFFICES ASSUME batch[v][d] > 0 PROVE FALSE
    BY <1>7, <1>8
  <2>1. \/ token[d] = held[v] /\ lease[d] >= left[v]
        \/ pc[v] = "note" /\ job[v] = d
    BY <1>8, <1>10 DEF IInv, LeaseInv
  <2>2. CASE token[d] = held[v] /\ lease[d] >= left[v]
    <3>1. token[d] # 0
      BY <1>8, <2>2 DEF IInv, TokenInv, HeldTokens
    <3>2. status[d] = "processing"
      BY <1>8, <3>1 DEF IInv, TokenInv, RowTokens
    <3>3. QED BY <1>7, <1>8, <1>10, <2>2, <3>2
  <2>3. CASE pc[v] = "note" /\ job[v] = d
    BY <1>8, <2>3 DEF IInv, LocalInv, Open
  <2>4. QED BY <2>1, <2>2, <2>3
<1>11. LocalInv'
  <2> SUFFICES ASSUME NEW v \in Worker
               PROVE  /\ pc'[v] \in Working =>
                            job'[v] \in Delivery /\ batch'[v][job'[v]] > 0
                      /\ pc'[v] \in Fresh => \A e \in Delivery : batch'[v][e] = 0
                      /\ pc'[v] # "report" => toReport'[v] = {}
                      /\ pc'[v] = "missing" => Gone(job[v])'
                      /\ pc'[v] = "ack" => result'[v] # "none"
                      /\ pc'[v] = "ack" /\ result'[v] = "ok" => job'[v] \in accepted'
                      /\ pc'[v] = "note" => status'[job'[v]] \in {"dead", "absent"}
    BY <1>2 DEF LocalInv
  <2>1. CASE v = w
    BY <1>4, <1>5, <2>1 DEF Working, Fresh
  <2>2. CASE v # w
    <3>1. ASSUME pc[v] = "note" PROVE status'[job[v]] \in {"dead", "absent"}
      <4>1. job[v] \in Delivery /\ status[job[v]] \in {"dead", "absent"}
        BY <3>1 DEF IInv, LocalInv, Working
      <4>2. job[v] \notin dead \cup mine
        BY <1>8, <4>1 DEF Open
      <4>3. QED BY <1>4, <4>1, <4>2 DEF Kept
    <3>2. QED BY <1>2, <1>5, <2>2, <3>1 DEF IInv, LocalInv, Gone
  <2>3. QED BY <2>1, <2>2
<1>12. EventInv'
  <2>1. \A d \in Delivery : status'[d] # "absent" <=> status[d] # "absent"
    BY <1>4, <1>8 DEF Kept, Open
  <2>2. \A d \in Delivery : d[1] >= nextEvent => attempts'[d] = 0
    <3>1. \A d \in mine : ~(d[1] >= nextEvent)
      BY <1>8, EventIds DEF IInv, TypeOK
    <3>2. QED BY <1>4, <3>1 DEF IInv, EventInv
  <2>3. ASSUME NEW v \in Worker, NEW d \in Delivery, batch'[v][d] > 0
        PROVE  d[1] < nextEvent /\ (d[1] \in events => status[d] # "absent")
    <3>1. CASE v = w
      BY <1>4, <1>8, <2>3, <3>1 DEF Open
    <3>2. CASE v # w
      BY <1>5, <2>3, <3>2 DEF IInv, EventInv
    <3>3. QED BY <3>1, <3>2
  <2>4. QED BY <1>2, <2>1, <2>2, <2>3 DEF IInv, EventInv, NoOrphanRow
<1>13. RowTokens'
  <2> SUFFICES ASSUME NEW d \in Delivery
               PROVE  /\ token'[d] < nextToken'
                      /\ token'[d] # 0 => status'[d] = "processing" /\ attempts'[d] > 0
    BY DEF RowTokens
  <2>1. CASE d \in dead \cup mine
    BY <1>4, <1>6, <1>7, <2>1
  <2>2. CASE d \notin dead \cup mine
    BY <1>4, <1>6, <1>7, <2>2 DEF Kept, IInv, TokenInv, RowTokens
  <2>3. QED BY <2>1, <2>2
<1>14. HeldTokens'
  <2> SUFFICES ASSUME NEW v \in Worker
               PROVE  /\ held'[v] < nextToken'
                      /\ \A d \in Delivery :
                            /\ batch'[v][d] > 0 => held'[v] # 0
                            /\ held'[v] # 0 /\ token'[d] = held'[v] =>
                                  batch'[v][d] = attempts'[d]
    BY DEF HeldTokens
  <2>1. /\ held[v] < nextToken
        /\ \A d \in Delivery :
              /\ batch[v][d] > 0 => held[v] # 0
              /\ held[v] # 0 /\ token[d] = held[v] => batch[v][d] = attempts[d]
    BY DEF IInv, TokenInv, HeldTokens
  <2>2. \A d \in Delivery :
           token[d] < nextToken /\ (token[d] # 0 => attempts[d] > 0)
    BY DEF IInv, TokenInv, RowTokens
  <2>3. CASE v # w
    BY <1>4, <1>5, <1>6, <1>7, <2>1, <2>3 DEF Kept
  <2>4. CASE v = w /\ mine = {}
    BY <1>4, <1>6, <1>9, <2>1, <2>2, <2>4 DEF Kept
  <2>5. CASE v = w /\ mine # {}
    BY <1>4, <1>6, <1>7, <2>2, <2>5 DEF Kept
  <2>6. QED BY <2>3, <2>4, <2>5
<1>15. OneHolder'
  <2>1. \A v \in Worker : held[v] < nextToken
    BY DEF IInv, TokenInv, HeldTokens
  <2>2. QED BY <1>6, <1>7, <2>1 DEF IInv, TokenInv, OneHolder
<1>16. UnclaimedUnsent'
  <2>1. \A d \in Delivery : attempts'[d] \in Nat /\ attempts[d] <= attempts'[d]
    BY <1>4, <1>7
  <2>2. QED BY <1>2, <1>7, <2>1 DEF IInv, AttemptInv, UnclaimedUnsent, Gone
<1>17. \A d \in mine : attempts[d] + 1 \in 1..MaxAttempts /\ ~Gone(d)
  BY <1>1, <1>8 DEF NextAttempt, Gone
<1>18. ClaimedUnsent'
  <2> SUFFICES ASSUME NEW v \in Worker, NEW d \in Delivery, batch'[v][d] > 0
               PROVE  /\ Gone(d) \/ batch'[v][d] <= attempts'[d]
                      /\ Asked(v, d)' \/ sends[d][batch'[v][d]] = 0
    BY <1>2 DEF ClaimedUnsent, Gone
  <2>1. CASE v = w
    <3>1. d \in mine /\ batch'[v][d] = attempts[d] + 1
      BY <1>4, <2>1
    <3>2. sends[d][attempts[d] + 1] = 0
      BY <1>7, <1>17, <3>1 DEF IInv, AttemptInv, UnclaimedUnsent
    <3>3. QED BY <1>4, <1>7, <3>1, <3>2
  <2>2. CASE v # w
    <3>1. batch'[v][d] = batch[v][d] /\ (Asked(v, d) => Asked(v, d)')
      BY <1>2, <1>5, <2>2 DEF Asked
    <3>2. /\ Gone(d) \/ batch[v][d] <= attempts[d]
          /\ Asked(v, d) \/ sends[d][batch[v][d]] = 0
      BY <3>1 DEF IInv, AttemptInv, ClaimedUnsent
    <3>3. attempts[d] <= attempts'[d]
      BY <1>4, <1>7
    <3>4. attempts'[d] \in Nat
      BY <1>4, <1>7
    <3>5. QED BY <1>7, <3>1, <3>2, <3>3, <3>4
  <2>3. QED BY <2>1, <2>2
<1>19. OneClaimer'
  <2>1. ASSUME NEW v \in Worker \ {w}, NEW d \in mine
        PROVE  batch[v][d] # attempts[d] + 1
    BY <1>7, <1>17 DEF IInv, AttemptInv, ClaimedUnsent
  <2> SUFFICES ASSUME NEW u \in Worker, NEW v \in Worker, NEW d \in Delivery,
                      u # v, batch'[u][d] > 0
               PROVE  batch'[u][d] # batch'[v][d]
    BY DEF OneClaimer
  <2>2. CASE u = w
    BY <1>4, <1>5, <2>1, <2>2
  <2>3. CASE v = w
    BY <1>4, <1>5, <2>1, <2>3
  <2>4. CASE u # w /\ v # w
    BY <1>5, <2>4 DEF IInv, AttemptInv, OneClaimer
  <2>5. QED BY <2>2, <2>3, <2>4
<1>20. SendOncePerAttempt'
  BY <1>2 DEF IInv, SendOncePerAttempt
<1>21. LeaseInv'
  <2> SUFFICES ASSUME NEW v \in Worker, NEW d \in Delivery,
                      left'[v] > 0, batch'[v][d] > 0, d[1] \in events
               PROVE  \/ token'[d] = held'[v] /\ lease'[d] >= left'[v]
                      \/ pc'[v] = "note" /\ job[v] = d
    BY <1>2 DEF LeaseInv
  <2>1. CASE v = w
    BY <1>4, <1>6, <2>1, OutboxAssumption
  <2>2. CASE v # w
    <3>1. left[v] > 0 /\ batch[v][d] > 0
      BY <1>5, <1>6, <2>2
    <3>2. d \notin dead \cup mine
      BY <1>10, <3>1
    <3>3. QED BY <1>4, <1>5, <1>6, <2>2, <3>1, <3>2 DEF Kept, IInv, LeaseInv
  <2>3. QED BY <2>1, <2>2
<1>22. LeaseExclusive'
  <2> SUFFICES ASSUME NEW u \in Worker, NEW v \in Worker, NEW d \in Delivery,
                      u # v, left'[u] > 0, left'[v] > 0
               PROVE  batch'[u][d] = 0 \/ batch'[v][d] = 0
    BY DEF LeaseExclusive
  <2>1. CASE u = w
    BY <1>4, <1>5, <1>6, <1>10, <2>1
  <2>2. CASE v = w
    BY <1>4, <1>5, <1>6, <1>10, <2>2
  <2>3. CASE u # w /\ v # w
    BY <1>5, <1>6, <2>3 DEF IInv, LeaseExclusive
  <2>4. QED BY <2>1, <2>2, <2>3
<1>23. NoEarlyDeath'
  <2>1. \A d \in dead : attempts'[d] = MaxAttempts
    BY <1>1, <1>4
  <2>2. QED BY <1>4, <2>1 DEF Kept, IInv, NoEarlyDeath
<1>24. DeathReported'
  <2>1. toReport[w] = {}
    BY <1>2 DEF IInv, LocalInv
  <2>2. QED BY <1>2, <1>4, <1>5, <2>1 DEF Kept, IInv, DeathReported
<1>25. Advances
  BY <1>2, <1>4, <1>8 DEF Advances, Kept, Gone, Open, Terminal
<1>26. QED BY <1>3, <1>11, <1>12, <1>13, <1>14, <1>15, <1>16, <1>18, <1>19, <1>20, <1>21,
              <1>22, <1>23, <1>24, <1>25 DEF IInv, TokenInv, AttemptInv
=============================================================================
