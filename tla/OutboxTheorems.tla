--------------------------- MODULE OutboxTheorems ---------------------------
(***************************************************************************)
(* What holds of the outbox for any workers, channels, limits and crashes. *)
(* OutboxInvariant proves that every step preserves IInv and lets rows     *)
(* change only as Advances says; the theorems follow from that.            *)
(***************************************************************************)
EXTENDS OutboxInvariant

LEMMA InitInv == Init => IInv
<1> SUFFICES ASSUME Init PROVE IInv
  OBVIOUS
<1>1. TypeOK
  BY InitType
<1>2. LocalInv /\ EventInv /\ DeathReported
  BY DEF Init, LocalInv, Working, EventInv, NoOrphanRow, DeathReported, NoBatch
<1>3. TokenInv
  BY DEF Init, TokenInv, RowTokens, HeldTokens, OneHolder, NoBatch
<1>4. AttemptInv /\ SendOncePerAttempt
  BY DEF Init, AttemptInv, UnclaimedUnsent, ClaimedUnsent, OneClaimer,
         SendOncePerAttempt, NoBatch
<1>5. LeaseInv /\ LeaseExclusive /\ NoEarlyDeath
  BY DEF Init, LeaseInv, LeaseExclusive, NoEarlyDeath
<1>6. QED BY <1>1, <1>2, <1>3, <1>4, <1>5 DEF IInv

LEMMA StutterInv ==
    ASSUME IInv, UNCHANGED vars
    PROVE  IInv' /\ Advances
<1>1. TypeOK'
  BY DEF IInv, TypeOK, vars, outbox, eventLog, worker, seen
<1>2. UNCHANGED <<outbox, eventLog, pc, batch, held, job, left, result, toReport,
                  nextToken, sends, accepted, reported, lost>>
  BY DEF vars, worker, seen
<1>3. Quiet
  BY <1>2, IdleWorkersQuiet, OutboxKept DEF Quiet
<1>4. UNCHANGED status
  BY <1>2 DEF outbox
<1>5. LocalInv'
  BY <1>1, <1>2, <1>3, QuietStep, LocalKept DEF Advances
<1>6. DeathReported'
  BY <1>2, <1>4, DeathKept
<1>7. QED BY <1>1, <1>3, <1>5, <1>6, QuietStep DEF IInv

LEMMA NextInv ==
    ASSUME IInv, [Next]_vars
    PROVE  IInv' /\ Advances
<1>1. CASE Environment
  <2>1. CASE \E chans \in SUBSET Channel : Publish(chans)
    BY <2>1, PublishInv
  <2>2. CASE \E chans \in SUBSET Channel, e \in 1..MaxEvents : Republish(e, chans)
    BY <2>2, RepublishInv
  <2>3. CASE ClearEvents
    BY <2>3, ClearEventsInv
  <2>4. CASE \E c \in Channel : ToggleChannel(c)
    BY <2>4, ToggleChannelInv
  <2>5. CASE Tick
    BY <2>5, TickInv
  <2>6. QED BY <1>1, <2>1, <2>2, <2>3, <2>4, <2>5 DEF Environment
<1>2. ASSUME NEW w \in Worker, Step(w) \/ Abandon(w)
      PROVE  IInv' /\ Advances
  <2>1. CASE ReadSettingsFirst(w)
    BY <2>1, ReadSettingsFirstInv
  <2>2. CASE CheckDue(w)
    BY <2>2, CheckDueInv
  <2>3. CASE ReleaseExpired(w)
    BY <2>3, ReleaseExpiredInv
  <2>4. CASE Claim(w)
    BY <2>4, ClaimInv
  <2>5. CASE ReportDead(w)
    BY <2>5, ReportDeadInv
  <2>6. CASE ReadSettings(w)
    BY <2>6, ReadSettingsInv
  <2>7. CASE LookUp(w)
    BY <2>7, LookUpInv
  <2>8. CASE CompleteMissing(w)
    BY <2>8, CompleteMissingInv
  <2>9. CASE CancelDelivery(w)
    BY <2>9, CancelDeliveryInv
  <2>10. CASE Send(w)
    BY <2>10, SendInv
  <2>11. CASE Acknowledge(w)
    BY <2>11, AcknowledgeInv
  <2>12. CASE NoteNotifyFailed(w)
    BY <2>12, NoteNotifyFailedInv
  <2>13. CASE Abandon(w)
    BY <2>13, AbandonInv
  <2>14. QED BY <1>2, <2>1, <2>2, <2>3, <2>4, <2>5, <2>6, <2>7, <2>8, <2>9, <2>10,
                <2>11, <2>12, <2>13 DEF Step
<1>3. CASE UNCHANGED vars
  BY <1>3, StutterInv
<1>4. QED BY <1>1, <1>2, <1>3 DEF Next

-----------------------------------------------------------------------------

\* The inductive invariant holds in every reachable state of the outbox.
THEOREM Invariance == Spec => []IInv
<1>1. Init => IInv
  BY InitInv
<1>2. IInv /\ [Next]_vars => IInv'
  BY NextInv
<1>3. QED BY <1>1, <1>2, PTL DEF Spec

\* Every variable keeps its type: in particular no row is ever claimed for
\* an attempt beyond MAX_DELIVERY_ATTEMPTS.
THEOREM TypeCorrectness == Spec => []TypeOK
<1>1. IInv => TypeOK
  BY DEF IInv
<1>2. QED BY <1>1, Invariance, PTL

\* No attempt reaches the provider twice, whatever workers, leases, retries
\* and crashes do: claim_pending_deliveries never hands out an attempt twice.
THEOREM OneSendPerAttempt == Spec => []SendOncePerAttempt
<1>1. IInv => SendOncePerAttempt
  BY DEF IInv
<1>2. QED BY <1>1, Invariance, PTL

\* Workers whose leases run never share a delivery.
THEOREM LeasesExclude == Spec => []LeaseExclusive
<1>1. IInv => LeaseExclusive
  BY DEF IInv
<1>2. QED BY <1>1, Invariance, PTL

\* The claim and complete_delivery give a delivery up after MaxAttempts
\* attempts and not before.
THEOREM DeathIsLate == Spec => []NoEarlyDeath
<1>1. IInv => NoEarlyDeath
  BY DEF IInv
<1>2. QED BY <1>1, Invariance, PTL

\* Every death is announced, about to be, or lost with its worker.
THEOREM DeathIsReported == Spec => []DeathReported
<1>1. IInv => DeathReported
  BY DEF IInv
<1>2. QED BY <1>1, Invariance, PTL

\* add() and clear() leave no row without its event.
THEOREM RowsHaveEvents == Spec => []NoOrphanRow
<1>1. IInv => NoOrphanRow
  BY DEF IInv, EventInv
<1>2. QED BY <1>1, Invariance, PTL

\* A finished delivery is never reopened.
THEOREM Finality == Spec => TerminalStable
<1>1. IInv /\ [Next]_vars =>
         [\A d \in Delivery : status[d] \in Terminal =>
             status'[d] \in {status[d], "absent"}]_vars
  BY NextInv DEF Advances
<1>2. QED BY <1>1, Invariance, PTL DEF Spec, TerminalStable

-----------------------------------------------------------------------------
(* Cancellation.  A worker that is not handed its settings beforehand      *)
(* reads them after its claim; from then on it may refuse a row it still   *)
(* owns only if the channel was off while the row existed.                 *)

\* The service loop of the daemon: no worker is retry_pending_deliveries of
\* `scan --local`, whose settings are older than its claim.
NoOneShot == OneShot = {}

\* Places of a worker that has read its settings.
Decided == {"next"} \cup Working

OffInv ==
    \A d \in Delivery :
        status[d] \in Open /\ d[2] \notin enabled => d \in offSince

SnapInv ==
    \A w \in Worker, d \in Delivery :
        /\ pc[w] \in Decided /\ held[w] # 0 /\ token[d] = held[w]
        /\ d[2] \notin snap[w]
        => d \in offSince

RefusedInv ==
    \A w \in Worker : pc[w] = "cancel" => job[w][2] \notin snap[w]

CancelInv == OffInv /\ SnapInv /\ RefusedInv /\ CancelJustified

\* A step that opens and cancels no row and leaves the settings alone.
LEMMA RowsRefused ==
    ASSUME CancelInv, offSince \subseteq offSince', enabled' = enabled,
           \A d \in Delivery :
               /\ status'[d] \in Open => status[d] \in Open
               /\ status'[d] = "cancelled" => status[d] = "cancelled"
    PROVE  OffInv' /\ CancelJustified'
BY DEF CancelInv, OffInv, CancelJustified

\* A step after which a worker owns no more rows than before, and neither
\* reads the settings nor refuses a row.
LEMMA WorkersRefuse ==
    ASSUME CancelInv, offSince \subseteq offSince',
           \A w \in Worker :
               /\ pc'[w] \in Decided => /\ pc[w] \in Decided
                                        /\ held'[w] \in {0, held[w]}
                                        /\ snap'[w] = snap[w]
               /\ pc'[w] = "cancel" => pc[w] = "cancel" /\ job'[w] = job[w],
           \A d \in Delivery : token'[d] \in {0, token[d]}
    PROVE  SnapInv' /\ RefusedInv'
<1>1. SnapInv'
  BY DEF CancelInv, SnapInv
<1>2. RefusedInv'
  BY DEF CancelInv, RefusedInv, Decided, Working
<1>3. QED BY <1>1, <1>2

LEMMA PurgeRefused ==
    ASSUME NEW live, PurgeRows(live), status' = Purge(live, status, "absent")
    PROVE  \A d \in Delivery : /\ status'[d] \in {"absent", status[d]}
                               /\ token'[d] \in {0, token[d]}
BY DEF PurgeRows, Purge

LEMMA EnvironmentRefused ==
    ASSUME IInv, CancelInv, Environment
    PROVE  CancelInv'
<1> USE DEF IInv, TypeOK
<1>1. ASSUME NEW chans \in SUBSET Channel, Publish(chans)
      PROVE  CancelInv'
  <2> DEFINE live == Newest(events \cup {nextEvent})
  <2>1. /\ status' = [d \in Delivery |->
                        IF d[1] = nextEvent
                        THEN IF d[2] \in chans THEN "pending" ELSE "absent"
                        ELSE Purge(live, status, "absent")[d]]
        /\ offSince' = offSince \cup ({nextEvent} \X (chans \ enabled))
        /\ PurgeRows(live)
        /\ UNCHANGED <<enabled, worker>>
    BY <1>1 DEF Publish
  <2> HIDE DEF live
  <2>2. ASSUME NEW d \in Delivery
        PROVE  \/ status'[d] \in {"absent", status[d]}
               \/ status'[d] = "pending" /\ (d[2] \notin enabled => d \in offSince')
    BY <2>1 DEF Purge, Delivery
  <2>3. \A d \in Delivery : token'[d] \in {0, token[d]}
    BY <2>1 DEF PurgeRows, Purge
  <2>4. OffInv' /\ CancelJustified'
    BY <2>1, <2>2 DEF CancelInv, OffInv, CancelJustified, Open
  <2>5. SnapInv' /\ RefusedInv'
    BY <2>1, <2>3, WorkersRefuse DEF worker
  <2>6. QED BY <2>4, <2>5 DEF CancelInv
<1>2. ASSUME NEW chans \in SUBSET Channel, NEW e \in 1..MaxEvents, Republish(e, chans)
      PROVE  CancelInv'
  <2>1. /\ status' = EnqueueMissing(e, chans)
        /\ offSince' = offSince \cup
              {d \in Delivery : status'[d] # status[d] /\ d[2] \notin enabled}
        /\ UNCHANGED <<token, enabled, worker>>
    BY <1>2 DEF Republish
  <2>2. OffInv' /\ CancelJustified'
    BY <2>1 DEF CancelInv, OffInv, CancelJustified, EnqueueMissing, Open
  <2>3. SnapInv' /\ RefusedInv'
    BY <2>1, WorkersRefuse DEF worker
  <2>4. QED BY <2>2, <2>3 DEF CancelInv
<1>3. CASE ClearEvents
  <2>1. /\ \A d \in Delivery : /\ status'[d] \in {"absent", status[d]}
                               /\ token'[d] \in {0, token[d]}
        /\ UNCHANGED <<enabled, worker, offSince>>
    BY <1>3, PurgeRefused DEF ClearEvents, seen
  <2>2. OffInv' /\ CancelJustified'
    BY <2>1, RowsRefused DEF Open
  <2>3. SnapInv' /\ RefusedInv'
    BY <2>1, WorkersRefuse DEF worker
  <2>4. QED BY <2>2, <2>3 DEF CancelInv
<1>4. ASSUME NEW c \in Channel, ToggleChannel(c)
      PROVE  CancelInv'
  <2>1. /\ enabled' = IF c \in enabled THEN enabled \ {c} ELSE enabled \cup {c}
        /\ offSince' = offSince \cup
              {d \in Delivery : d[2] = c /\ c \in enabled /\ status[d] \in Open}
        /\ UNCHANGED <<status, token, worker>>
    BY <1>4 DEF ToggleChannel, outbox
  <2>2. OffInv' /\ CancelJustified'
    BY <2>1 DEF CancelInv, OffInv, CancelJustified
  <2>3. SnapInv' /\ RefusedInv'
    BY <2>1, WorkersRefuse DEF worker
  <2>4. QED BY <2>2, <2>3 DEF CancelInv
<1>5. CASE Tick
  <2>1. UNCHANGED <<status, token, enabled, worker, offSince>>
    BY <1>5 DEF Tick
  <2>2. QED BY <2>1, RowsRefused, WorkersRefuse DEF worker, CancelInv
<1>6. QED BY <1>1, <1>2, <1>3, <1>4, <1>5 DEF Environment

\* What the end of a row does to the settings its worker has read.
LEMMA DoneRefuses ==
    ASSUME IInv, CancelInv, NEW w \in Worker, pc[w] \in Decided, NEW d \in Delivery,
           Done(w, d), offSince' = offSince,
           \A e \in Delivery : token'[e] \in {0, token[e]}
    PROVE  SnapInv' /\ RefusedInv'
<1>1. /\ pc' = [pc EXCEPT ![w] = IF [batch[w] EXCEPT ![d] = 0] = NoBatch
                                 THEN "idle" ELSE "next"]
      /\ held' = [held EXCEPT ![w] = IF [batch[w] EXCEPT ![d] = 0] = NoBatch
                                     THEN 0 ELSE @]
      /\ snap' = [snap EXCEPT ![w] = IF [batch[w] EXCEPT ![d] = 0] = NoBatch
                                     THEN {} ELSE @]
      /\ job' = [job EXCEPT ![w] = NoJob]
  BY DEF Done, Goto
<1>2. ASSUME NEW v \in Worker, v # w
      PROVE  /\ pc'[v] = pc[v] /\ held'[v] = held[v]
             /\ snap'[v] = snap[v] /\ job'[v] = job[v]
  BY <1>1, <1>2 DEF IInv, TypeOK
<1>3. /\ pc'[w] \in {"idle", "next"} /\ held'[w] \in {0, held[w]}
      /\ pc'[w] = "next" => snap'[w] = snap[w]
  BY <1>1 DEF IInv, TypeOK
<1>4. "idle" \notin Decided /\ "cancel" # "idle" /\ "cancel" # "next"
  BY DEF Decided, Working
<1>5. QED BY <1>2, <1>3, <1>4, WorkersRefuse

LEMMA SettleRefused ==
    ASSUME IInv, NEW d \in Delivery, NEW s, NEW delay, Settle(d, s, delay)
    PROVE  \A e \in Delivery : /\ status'[e] = IF e = d THEN s ELSE status[e]
                               /\ token'[e] \in {0, token[e]}
BY DEF Settle, IInv, TypeOK

LEMMA CompleteRefused ==
    ASSUME IInv, NEW w \in Worker, pc[w] \in Working, NEW ok \in BOOLEAN,
           CompleteDelivery(w, job[w], ok)
    PROVE  \A e \in Delivery :
              /\ status'[e] \in Open => status[e] \in Open
              /\ status'[e] = "cancelled" => status[e] = "cancelled"
              /\ token'[e] \in {0, token[e]}
<1>1. job[w] \in Delivery /\ (Owns(w, job[w]) => status[job[w]] = "processing")
  BY AtWork
<1>2. CASE UNCHANGED outbox
  BY <1>2 DEF outbox
<1>3. CASE Owns(w, job[w])
  <2>1. PICK s \in {"sent", "dead", "pending"} : \E delay : Settle(job[w], s, delay)
    BY <1>3 DEF CompleteDelivery
  <2>2. QED BY <1>1, <1>3, <2>1, SettleRefused DEF Open
<1>4. QED BY <1>2, <1>3 DEF CompleteDelivery

LEMMA EmitRefused ==
    ASSUME IInv, NEW d \in Delivery, EmitNotifyFailed(d)
    PROVE  \A e \in Delivery : /\ status'[e] \in {"absent", status[e]}
                               /\ token'[e] \in {0, token[e]}
<1>1. CASE notice[d] # 0
  BY <1>1 DEF EmitNotifyFailed, outbox
<1>2. CASE notice[d] = 0
  BY <1>2, PurgeRefused DEF EmitNotifyFailed
<1>3. QED BY <1>1, <1>2

\* The steps of run_once up to its reading of the settings, and a crash: the
\* worker has not decided on any row afterwards.
LEMMA UndecidedRefused ==
    ASSUME IInv, CancelInv, NEW w \in Worker,
           pc'[w] \notin Decided,
           \A v \in Worker \ {w} : /\ pc'[v] = pc[v] /\ held'[v] = held[v]
                                   /\ snap'[v] = snap[v] /\ job'[v] = job[v],
           \A d \in Delivery :
               \/ token'[d] \in {0, token[d]}
               \/ \A v \in Worker \ {w} : token'[d] # held[v],
           \A d \in Delivery :
               /\ status'[d] \in Open => status[d] \in Open
               /\ status'[d] = "cancelled" => status[d] = "cancelled",
           UNCHANGED <<enabled, offSince>>
    PROVE  CancelInv'
<1>1. OffInv' /\ CancelJustified'
  BY RowsRefused
<1>2. SnapInv'
  <2> SUFFICES ASSUME NEW v \in Worker, NEW d \in Delivery,
                      pc'[v] \in Decided, held'[v] # 0, token'[d] = held'[v],
                      d[2] \notin snap'[v]
               PROVE  d \in offSince'
    BY DEF SnapInv
  <2>1. v # w
    OBVIOUS
  <2>2. /\ pc[v] \in Decided /\ held[v] # 0 /\ token'[d] = held[v]
        /\ d[2] \notin snap[v]
    BY <2>1
  <2>3. token[d] = held[v]
    BY <2>1, <2>2
  <2>4. QED BY <2>2, <2>3 DEF CancelInv, SnapInv
<1>3. RefusedInv'
  BY DEF CancelInv, RefusedInv, Decided, Working
<1>4. QED BY <1>1, <1>2, <1>3 DEF CancelInv

LEMMA ClaimRefused ==
    ASSUME IInv, CancelInv, NEW w \in Worker, Claim(w)
    PROVE  CancelInv'
<1>1. PICK dead, mine \in SUBSET Delivery :
        /\ \A d \in dead \cup mine : Due(d)
        /\ TakeRows(w, dead, mine)
  BY ClaimTakes
<1>2. UNCHANGED <<enabled, offSince, job>>
  BY DEF Claim
<1>3. /\ \A d \in Delivery : status'[d] = IF d \in dead THEN "dead"
                                          ELSE IF d \in mine THEN "processing"
                                          ELSE status[d]
      /\ \A d \in Delivery : token'[d] \in {0, token[d], nextToken}
  BY <1>1 DEF TakeRows
<1>4. \A d \in dead \cup mine : status[d] \in Open
  BY <1>1 DEF Due
<1>5. \A d \in Delivery : /\ status'[d] \in Open => status[d] \in Open
                          /\ status'[d] = "cancelled" => status[d] = "cancelled"
  BY <1>3, <1>4 DEF Open
<1>6. /\ pc'[w] \in {"report", "settings", "idle"}
      /\ \A v \in Worker \ {w} : /\ pc'[v] = pc[v] /\ held'[v] = held[v]
                                 /\ snap'[v] = snap[v]
  BY <1>1 DEF TakeRows, Goto, IInv, TypeOK
<1>7. pc'[w] \notin Decided
  BY <1>6 DEF Decided, Working
<1>8. \A v \in Worker : held[v] # nextToken
  BY DEF IInv, TokenInv, HeldTokens, TypeOK
<1>9. \A d \in Delivery : \/ token'[d] \in {0, token[d]}
                          \/ \A v \in Worker \ {w} : token'[d] # held[v]
  BY <1>3, <1>8
<1>10. QED BY <1>2, <1>5, <1>6, <1>7, <1>9, UndecidedRefused

\* The settings are read when the rows are claimed already: what a row of the
\* worker misses in them, it has missed since it was enqueued or since.
LEMMA ReadSettingsRefused ==
    ASSUME NoOneShot, IInv, CancelInv, NEW w \in Worker, ReadSettings(w)
    PROVE  CancelInv'
<1>1. /\ snap' = [snap EXCEPT ![w] = enabled]
      /\ pc' = [pc EXCEPT ![w] = "next"]
      /\ UNCHANGED <<status, token, enabled, held, job, offSince>>
  BY DEF ReadSettings, NoOneShot, Prefetches, Goto, outbox, seen
<1>2. OffInv' /\ CancelJustified'
  BY <1>1, RowsRefused
<1>3. SnapInv'
  <2> SUFFICES ASSUME NEW v \in Worker, NEW d \in Delivery,
                      pc'[v] \in Decided, held[v] # 0, token[d] = held[v],
                      d[2] \notin snap'[v]
               PROVE  d \in offSince
    BY <1>1 DEF SnapInv
  <2>1. CASE v = w
    <3>1. d[2] \notin enabled
      BY <1>1, <2>1 DEF IInv, TypeOK
    <3>2. status[d] = "processing"
      BY DEF IInv, TokenInv, RowTokens
    <3>3. QED BY <3>1, <3>2 DEF CancelInv, OffInv, Open
  <2>2. CASE v # w
    BY <1>1, <2>2 DEF IInv, TypeOK, CancelInv, SnapInv
  <2>3. QED BY <2>1, <2>2
<1>4. RefusedInv'
  BY <1>1 DEF IInv, TypeOK, CancelInv, RefusedInv
<1>5. QED BY <1>2, <1>3, <1>4 DEF CancelInv

LEMMA LookUpRefused ==
    ASSUME IInv, CancelInv, NEW w \in Worker, LookUp(w)
    PROVE  CancelInv'
<1>1. PICK d \in Delivery :
        /\ job' = [job EXCEPT ![w] = d]
        /\ Goto(w, IF d[1] \notin events THEN "missing"
                   ELSE IF d[2] \in snap[w] THEN "send" ELSE "cancel")
  BY DEF LookUp
<1>2. /\ pc[w] = "next"
      /\ UNCHANGED <<status, token, enabled, held, snap, offSince>>
  BY DEF LookUp, outbox, seen
<1>3. OffInv' /\ CancelJustified'
  BY <1>2, RowsRefused
<1>4. /\ \A v \in Worker \ {w} : pc'[v] = pc[v] /\ job'[v] = job[v]
      /\ job'[w] = d
      /\ pc'[w] = "cancel" => d[2] \notin snap[w]
  BY <1>1 DEF Goto, IInv, TypeOK
<1>5. SnapInv'
  BY <1>2, <1>4 DEF CancelInv, SnapInv, Decided
<1>6. RefusedInv'
  BY <1>2, <1>4 DEF CancelInv, RefusedInv
<1>7. QED BY <1>3, <1>5, <1>6 DEF CancelInv

LEMMA CancelDeliveryRefused ==
    ASSUME IInv, CancelInv, NEW w \in Worker, CancelDelivery(w)
    PROVE  CancelInv'
<1>1. /\ pc[w] = "cancel" /\ Done(w, job[w])
      /\ IF Owns(w, job[w]) THEN Settle(job[w], "cancelled", 0) ELSE UNCHANGED outbox
      /\ UNCHANGED <<enabled, offSince>>
  BY DEF CancelDelivery
<1>2. pc[w] \in Working /\ pc[w] \in Decided
  BY <1>1 DEF Decided, Working
<1>3. job[w] \in Delivery /\ held[w] # 0
  BY <1>2, AtWork
<1>4. CASE Owns(w, job[w])
  <2>1. \A e \in Delivery :
           /\ status'[e] = IF e = job[w] THEN "cancelled" ELSE status[e]
           /\ token'[e] \in {0, token[e]}
    BY <1>1, <1>3, <1>4, SettleRefused
  <2>2. job[w] \in offSince
    BY <1>1, <1>2, <1>3, <1>4 DEF CancelInv, SnapInv, RefusedInv, Owns
  <2>3. OffInv' /\ CancelJustified'
    BY <1>1, <2>1, <2>2 DEF CancelInv, OffInv, CancelJustified, Open
  <2>4. SnapInv' /\ RefusedInv'
    BY <1>1, <1>2, <1>3, <2>1, DoneRefuses
  <2>5. QED BY <2>3, <2>4 DEF CancelInv
<1>5. CASE UNCHANGED outbox
  <2>1. UNCHANGED <<status, token>>
    BY <1>5 DEF outbox
  <2>2. QED BY <1>1, <1>2, <1>3, <2>1, RowsRefused, DoneRefuses DEF CancelInv
<1>6. QED BY <1>1, <1>4, <1>5

LEMMA StepRefused ==
    ASSUME NoOneShot, IInv, CancelInv, NEW w \in Worker, Step(w) \/ Abandon(w)
    PROVE  CancelInv'
<1> USE DEF Decided, Working
<1>1. CASE ReadSettingsFirst(w) \/ CheckDue(w)
  <2>1. /\ UNCHANGED <<status, token, enabled, held, job, offSince>>
        /\ pc'[w] \in {"check", "idle", "release"}
        /\ \A v \in Worker \ {w} : pc'[v] = pc[v] /\ snap'[v] = snap[v]
    BY <1>1 DEF ReadSettingsFirst, CheckDue, Goto, IInv, TypeOK, outbox, seen
  <2>2. QED BY <2>1, UndecidedRefused
<1>2. CASE ReleaseExpired(w)
  <2>1. /\ UNCHANGED <<enabled, held, job, snap, offSince>>
        /\ pc'[w] = "claim" /\ \A v \in Worker \ {w} : pc'[v] = pc[v]
        /\ \A d \in Delivery :
              /\ status'[d] = IF Expired(d) THEN "pending" ELSE status[d]
              /\ token'[d] \in {0, token[d]}
    BY <1>2 DEF ReleaseExpired, Goto, IInv, TypeOK, seen
  <2>2. QED BY <2>1, UndecidedRefused DEF Expired, Open
<1>3. CASE Claim(w)
  BY <1>3, ClaimRefused
<1>4. CASE ReportDead(w)
  <2>1. PICK d \in Delivery : EmitNotifyFailed(d)
    BY <1>4 DEF ReportDead, IInv, TypeOK
  <2>2. /\ UNCHANGED <<enabled, held, job, offSince>>
        /\ pc'[w] \in {"report", "settings", "idle"}
        /\ \A v \in Worker \ {w} : pc'[v] = pc[v] /\ snap'[v] = snap[v]
    BY <1>4 DEF ReportDead, Goto, IInv, TypeOK
  <2>3. QED BY <2>1, <2>2, EmitRefused, UndecidedRefused DEF Open
<1>5. CASE ReadSettings(w)
  BY <1>5, ReadSettingsRefused
<1>6. CASE LookUp(w)
  BY <1>6, LookUpRefused
<1>7. CASE CompleteMissing(w)
  <2>1. /\ pc[w] = "missing" /\ CompleteDelivery(w, job[w], FALSE)
        /\ Done(w, job[w]) /\ UNCHANGED <<enabled, offSince>>
    BY <1>7 DEF CompleteMissing
  <2>2. job[w] \in Delivery
    BY <2>1, AtWork
  <2>3. QED BY <2>1, <2>2, CompleteRefused, RowsRefused, DoneRefuses DEF CancelInv
<1>8. CASE CancelDelivery(w)
  BY <1>8, CancelDeliveryRefused
<1>9. CASE Send(w)
  <2>1. /\ UNCHANGED <<status, token, enabled, held, job, snap, offSince>>
        /\ pc[w] = "send" /\ pc' = [pc EXCEPT ![w] = "ack"]
    BY <1>9 DEF Send, Goto, outbox
  <2>2. \A v \in Worker : v # w => pc'[v] = pc[v]
    BY <2>1 DEF IInv, TypeOK
  <2>3. pc'[w] = "ack"
    BY <2>1 DEF IInv, TypeOK
  <2>4. QED BY <2>1, <2>2, <2>3, RowsRefused, WorkersRefuse DEF CancelInv
<1>10. CASE Acknowledge(w)
  <2>1. /\ pc[w] = "ack" /\ CompleteDelivery(w, job[w], result[w] = "ok")
        /\ UNCHANGED <<enabled, offSince>>
        /\ \/ Done(w, job[w])
           \/ /\ pc' = [pc EXCEPT ![w] = "note"]
              /\ UNCHANGED <<held, job, snap>>
    BY <1>10 DEF Acknowledge, Goto
  <2>2. \A e \in Delivery :
           /\ status'[e] \in Open => status[e] \in Open
           /\ status'[e] = "cancelled" => status[e] = "cancelled"
           /\ token'[e] \in {0, token[e]}
    BY <2>1, CompleteRefused
  <2>3. OffInv' /\ CancelJustified'
    BY <2>1, <2>2, RowsRefused
  <2>4. CASE Done(w, job[w])
    <3>1. job[w] \in Delivery
      BY <2>1, AtWork
    <3>2. QED BY <2>1, <2>2, <2>3, <2>4, <3>1, DoneRefuses DEF CancelInv
  <2>5. CASE pc' = [pc EXCEPT ![w] = "note"] /\ UNCHANGED <<held, job, snap>>
    <3>1. pc'[w] = "note" /\ \A v \in Worker : v # w => pc'[v] = pc[v]
      BY <2>5 DEF IInv, TypeOK
    <3>2. SnapInv' /\ RefusedInv'
      BY <2>1, <2>2, <2>5, <3>1, WorkersRefuse
    <3>3. QED BY <2>3, <3>2 DEF CancelInv
  <2>6. QED BY <2>1, <2>4, <2>5
<1>11. CASE NoteNotifyFailed(w)
  <2>1. /\ pc[w] = "note" /\ EmitNotifyFailed(job[w]) /\ Done(w, job[w])
        /\ UNCHANGED <<enabled, offSince>>
    BY <1>11 DEF NoteNotifyFailed
  <2>2. job[w] \in Delivery
    BY <2>1, AtWork
  <2>3. QED BY <2>1, <2>2, EmitRefused, RowsRefused, DoneRefuses
            DEF CancelInv, Open
<1>12. CASE Abandon(w)
  <2>1. /\ UNCHANGED <<status, token, enabled, offSince>>
        /\ pc'[w] = "idle"
        /\ \A v \in Worker \ {w} : /\ pc'[v] = pc[v] /\ held'[v] = held[v]
                                   /\ snap'[v] = snap[v] /\ job'[v] = job[v]
    BY <1>12 DEF Abandon, Goto, IInv, TypeOK, outbox
  <2>2. QED BY <2>1, UndecidedRefused
<1>13. QED BY <1>1, <1>2, <1>3, <1>4, <1>5, <1>6, <1>7, <1>8, <1>9, <1>10, <1>11,
              <1>12 DEF Step

\* The service loop cancels a delivery only if its channel was off at some
\* time since it was enqueued: run_once reads the settings after the claim,
\* and a lease lost in between is noticed by cancel_delivery.
THEOREM CancellationsAreJustified ==
    ASSUME NoOneShot PROVE Spec => []CancelJustified
<1>1. Init => CancelInv
  BY DEF Init, CancelInv, OffInv, SnapInv, RefusedInv, CancelJustified, Open
<1>2. IInv /\ CancelInv /\ [Next]_vars => CancelInv'
  <2> SUFFICES ASSUME IInv, CancelInv, [Next]_vars PROVE CancelInv'
    OBVIOUS
  <2>1. CASE Environment
    BY <2>1, EnvironmentRefused
  <2>2. ASSUME NEW w \in Worker, Step(w) \/ Abandon(w) PROVE CancelInv'
    BY <2>2, StepRefused
  <2>3. CASE UNCHANGED vars
    BY <2>3 DEF vars, outbox, worker, seen, CancelInv, OffInv, SnapInv, RefusedInv,
                CancelJustified
  <2>4. QED BY <2>1, <2>2, <2>3 DEF Next
<1>3. CancelInv => CancelJustified
  BY DEF CancelInv
<1>4. QED BY <1>1, <1>2, <1>3, Invariance, PTL DEF Spec

-----------------------------------------------------------------------------
(* The outbox implements DeliveryPromise.                                  *)

\* The outcome of a delivery in this state and in the next.
LEMMA OutcomeIs ==
    ASSUME NEW d \in Delivery
    PROVE  /\ outcome[d] =
                 IF status[d] \in Open THEN "open"
                 ELSE IF status[d] \in Terminal THEN status[d]
                 ELSE IF Gone(d) THEN "gone" ELSE "none"
           /\ outcome'[d] =
                 IF status'[d] \in Open THEN "open"
                 ELSE IF status'[d] \in Terminal THEN status'[d]
                 ELSE IF Gone(d)' THEN "gone" ELSE "none"
BY DEF outcome, Gone, Open, Terminal

LEMMA InitPromise == Init => Promise!Init
<1> SUFFICES ASSUME Init PROVE Promise!Init
  OBVIOUS
<1>1. \A d \in Delivery : ~(d[1] < 1)
  BY OutboxAssumption DEF Delivery
<1>2. outcome = [d \in Delivery |-> "none"]
  BY <1>1 DEF Init, outcome, Open, Terminal
<1>3. used = [d \in Delivery |-> {}]
  BY DEF Init, used
<1>4. QED BY <1>2, <1>3 DEF Init, Promise!Init

\* Rows that advance keep the promise about outcomes.
LEMMA OutcomePromise ==
    ASSUME IInv, IInv', Advances
    PROVE  /\ outcome' \in [Delivery -> {"none", "open", "sent", "dead",
                                         "cancelled", "gone"}]
           /\ \A d \in Delivery : outcome'[d] \in Promise!MayBecome(d)
<1>1. \A d \in Delivery : status[d] \in Status /\ status'[d] \in Status
  BY DEF IInv, TypeOK
<1>2. \A d \in Delivery : outcome'[d] \in {"none", "open", "sent", "dead",
                                           "cancelled", "gone"}
  BY OutcomeIs DEF Terminal
<1>3. outcome' \in [Delivery -> {"none", "open", "sent", "dead", "cancelled", "gone"}]
  BY <1>2 DEF outcome
<1>4. ASSUME NEW d \in Delivery
      PROVE  outcome'[d] \in Promise!MayBecome(d)
  <2>1. status[d] = "absent" \/ status[d] \in Open \/ status[d] \in Terminal
    BY <1>1 DEF Status
  <2>2. status'[d] = "absent" \/ status'[d] \in Open \/ status'[d] \in Terminal
    BY <1>1 DEF Status
  <2>3. Gone(d) => status[d] = "absent"
    BY DEF IInv, EventInv, NoOrphanRow, Gone
  <2>4. Gone(d)' => status'[d] = "absent"
    BY DEF IInv, EventInv, NoOrphanRow, Gone
  <2>5. /\ status[d] = "absent" => status'[d] \in {"absent", "pending"}
        /\ status[d] \in Terminal => status'[d] \in {status[d], "absent"}
        /\ status[d] # "absent" /\ status'[d] = "absent" => Gone(d)'
        /\ status[d] # "sent" /\ status'[d] = "sent" => d \in accepted
        /\ Gone(d) => Gone(d)'
    BY DEF Advances
  <2>6. CASE status[d] = "absent"
    BY <2>4, <2>5, <2>6, OutcomeIs DEF Promise!MayBecome, Open, Terminal
  <2>7. CASE status[d] \in Open
    BY <2>2, <2>5, <2>7, OutcomeIs DEF Promise!MayBecome, Open, Terminal
  <2>8. CASE status[d] \in Terminal
    BY <2>5, <2>8, OutcomeIs DEF Promise!MayBecome, Open, Terminal
  <2>9. QED BY <2>1, <2>6, <2>7, <2>8
<1>5. QED BY <1>3, <1>4

\* A send asks the provider for an attempt it was not asked for before.
LEMMA SendPromise ==
    ASSUME IInv, NEW w \in Worker, Send(w)
    PROVE  Promise!Ask(job[w])
<1> DEFINE d == job[w]
           n == batch[w][d]
<1>1. /\ pc[w] = "send" /\ pc[w] \in Working
      /\ sends' = [sends EXCEPT ![d][n] = @ + 1]
      /\ accepted' \in {accepted, accepted \cup {d}}
      /\ UNCHANGED <<outbox, eventLog>>
  BY DEF Send, Working
<1>2. d \in Delivery /\ n \in 1..MaxAttempts
  <2>1. d \in Delivery /\ n > 0
    BY <1>1, AtWork
  <2>2. n \in 0..MaxAttempts
    BY <2>1 DEF IInv, TypeOK
  <2>3. QED BY <2>1, <2>2, OutboxAssumption
<1>3. sends[d][n] = 0
  BY <1>1, <1>2 DEF IInv, AttemptInv, ClaimedUnsent, Asked
<1> HIDE DEF d, n
<1>4. n \in (1..MaxAttempts) \ used[d]
  BY <1>2, <1>3 DEF used
<1>5. used' = [used EXCEPT ![d] = @ \cup {n}]
  <2> DEFINE row == [sends[d] EXCEPT ![n] = @ + 1]
  <2>1. sends[d] \in [1..MaxAttempts -> Nat]
    BY <1>2 DEF IInv, TypeOK
  <2>2. /\ row[n] = sends[d][n] + 1
        /\ \A m \in (1..MaxAttempts) \ {n} : row[m] = sends[d][m]
    BY <1>2, <2>1, CountUp
  <2>3. sends' = [sends EXCEPT ![d] = row]
    BY <1>1
  <2> HIDE DEF row
  <2>4. sends'[d] = row /\ \A e \in Delivery \ {d} : sends'[e] = sends[e]
    BY <1>2, <2>3 DEF IInv, TypeOK
  <2>5. {m \in 1..MaxAttempts : sends'[d][m] > 0} = used[d] \cup {n}
    BY <1>2, <1>3, <2>2, <2>4 DEF used
  <2>6. \A e \in Delivery \ {d} : {m \in 1..MaxAttempts : sends'[e][m] > 0} = used[e]
    BY <2>4 DEF used
  <2>7. used' = [e \in Delivery |-> IF e = d THEN used[d] \cup {n} ELSE used[e]]
    BY <2>5, <2>6 DEF used
  <2>8. used = [e \in Delivery |-> used[e]]
    BY DEF used
  <2>9. QED BY <2>7, <2>8
<1>6. outcome[d] # "none"
  <2>1. d[1] < nextEvent /\ (d[1] \in events => status[d] # "absent")
    BY <1>1, <1>2, AtWork DEF IInv, EventInv, d
  <2>2. status[d] \in Status
    BY <1>2 DEF IInv, TypeOK
  <2>3. QED BY <1>2, <2>1, <2>2, OutcomeIs DEF Gone, Status, Open, Terminal
<1>7. UNCHANGED outcome
  BY <1>1 DEF outcome, outbox, eventLog
<1>8. QED BY <1>1, <1>4, <1>5, <1>6, <1>7 DEF Promise!Ask, d

LEMMA StepPromise ==
    ASSUME IInv, [Next]_vars
    PROVE  [Promise!Next]_(Promise!vars)
<1>1. IInv' /\ Advances
  BY NextInv
<1>2. CASE \E w \in Worker : Send(w)
  BY <1>2, SendPromise, AtWork DEF Send, Working, Promise!Next
<1>3. CASE ~\E w \in Worker : Send(w)
  <2>1. UNCHANGED <<sends, accepted>>
    BY <1>3 DEF Next, vars, Environment, Step, Publish, Republish, ClearEvents,
                ToggleChannel, Tick, ReadSettingsFirst, CheckDue, ReleaseExpired,
                Claim, ReportDead, ReadSettings, LookUp, CompleteMissing,
                CancelDelivery, Acknowledge, NoteNotifyFailed, Abandon, seen
  <2>2. UNCHANGED <<used, accepted>>
    BY <2>1 DEF used
  <2>3. Promise!Settle
    BY <1>1, <2>2, OutcomePromise DEF Promise!Settle
  <2>4. QED BY <2>3 DEF Promise!Next
<1>4. QED BY <1>2, <1>3

\* Every behaviour of the outbox, seen through outcome, used and accepted,
\* is one that DeliveryPromise allows.
THEOREM ImplementsPromise == Spec => KeepsPromise
<1>1. Init => Promise!Init
  BY InitPromise
<1>2. IInv /\ [Next]_vars => [Promise!Next]_(Promise!vars)
  BY StepPromise
<1>3. QED BY <1>1, <1>2, Invariance, PTL DEF Spec, KeepsPromise, Promise!Spec
=============================================================================
