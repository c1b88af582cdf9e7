------------------------------- MODULE Outbox -------------------------------
(***************************************************************************)
(* The durable notification outbox: the tables `events` and                *)
(* `notification_outbox` (storage/events.py) and the workers that lease,   *)
(* send and acknowledge their rows (deliveries.py).                        *)
(*                                                                         *)
(* One delivery is one row of notification_outbox, named by its unique key *)
(* <<event id, channel>>.  Every SQLite transaction is one step; the       *)
(* statements a worker runs outside a transaction are separate steps, so   *)
(* other workers, the scanner, the user and the clock interleave there.    *)
(*                                                                         *)
(* Time is relative: lease[d] and retry[d] hold the ticks left until       *)
(* leased_until and next_retry_at, 0 standing for NULL and for the past,   *)
(* which the code's comparisons with utcnow() do not tell apart.           *)
(*                                                                         *)
(* An operator whose comment starts with "Mutant" is no part of the        *)
(* specification: it is the definition below it with a plausible bug, kept *)
(* to see that the properties notice.                                      *)
(***************************************************************************)
EXTENDS Integers, FiniteSets

CONSTANTS
    Worker,        \* loops or one-shot calls of OutboxWorker.run_once
    OneShot,       \* workers of retry_pending_deliveries (`scan --local`)
    Channel,       \* notification channels
    MaxAttempts,   \* MAX_DELIVERY_ATTEMPTS
    Lease,         \* lease_seconds, in ticks
    Backoff,       \* retry delay in ticks after each failed attempt
    BatchSize,     \* OutboxWorker.batch_size
    EventKeep,     \* EVENT_KEEP
    MaxEvents,     \* bound: highest event id the scanner publishes
    MaxCrashes     \* bound: how often a worker is abandoned half-way

ASSUME OutboxAssumption ==
    /\ OneShot \subseteq Worker
    /\ MaxAttempts \in Nat \ {0}
    /\ Lease \in Nat \ {0}
    /\ Backoff \in [1..MaxAttempts -> Nat]
    /\ BatchSize \in Nat \ {0}
    /\ EventKeep \in Nat \ {0}
    /\ MaxEvents \in Nat
    /\ MaxCrashes \in Nat

Delivery == (1..MaxEvents) \X Channel
NoJob == <<0, 0>>                      \* not a Delivery: event ids start at 1

Open == {"pending", "processing"}
Terminal == {"sent", "dead", "cancelled"}
Status == {"absent"} \cup Open \cup Terminal

VARIABLES
    (* notification_outbox, one field each; "absent" where there is no row *)
    status, attempts, token, lease, retry,
    (* events: the live ids, the next id, and for each delivery the id of
       its live notify_failed event (0: none)                             *)
    events, nextEvent, notice,
    (* meta.notify: the channels enabled in the stored settings *)
    enabled,
    (* the local state of run_once: program counter, claimed rows with the
       attempt number read at the claim (0: not in the batch), lease token,
       current row, what send_fn returned, the settings read, and the rows
       whose death is still to be reported                                *)
    pc, batch, held, job, result, snap, toReport,
    nextToken,
    (* observation only: what is left of the worker's own lease, how often
       each attempt reached the provider, what the provider accepted,
       whether the channel was off since the row exists, which deaths were
       reported or lost with an abandoned worker                          *)
    left, sends, accepted, offSince, reported, lost, crashes

outbox == <<status, attempts, token, lease, retry>>
eventLog == <<events, nextEvent, notice>>
worker == <<pc, batch, held, job, result, snap, toReport>>
seen == <<left, sends, accepted, offSince, reported, lost, crashes>>
vars == <<outbox, eventLog, enabled, worker, nextToken, seen>>

NoBatch == [d \in Delivery |-> 0]

Init ==
    /\ status = [d \in Delivery |-> "absent"]
    /\ attempts = [d \in Delivery |-> 0]
    /\ token = [d \in Delivery |-> 0]
    /\ lease = [d \in Delivery |-> 0]
    /\ retry = [d \in Delivery |-> 0]
    /\ events = {}
    /\ nextEvent = 1
    /\ notice = [d \in Delivery |-> 0]
    /\ enabled \in SUBSET Channel
    /\ pc = [w \in Worker |-> "idle"]
    /\ batch = [w \in Worker |-> NoBatch]
    /\ held = [w \in Worker |-> 0]
    /\ job = [w \in Worker |-> NoJob]
    /\ result = [w \in Worker |-> "none"]
    /\ snap = [w \in Worker |-> {}]
    /\ toReport = [w \in Worker |-> {}]
    /\ nextToken = 1
    /\ left = [w \in Worker |-> 0]
    /\ sends = [d \in Delivery |-> [n \in 1..MaxAttempts |-> 0]]
    /\ accepted = {}
    /\ offSince = {}
    /\ reported = {}
    /\ lost = {}
    /\ crashes = 0

-----------------------------------------------------------------------------
(* The event log and the rows that hang on it                              *)

\* add() keeps the newest EventKeep events that are not scan results.
Newest(S) == {e \in S : Cardinality({f \in S : f > e}) < EventKeep}

\* Mutant: the rows are not deleted with their events.
KeepAllRows(live, field, none) == field

\* DELETE FROM notification_outbox WHERE event_id NOT IN (SELECT id FROM events)
Purge(live, field, none) ==
    [d \in Delivery |-> IF d[1] \in live THEN field[d] ELSE none]

PurgeRows(live) ==
    /\ attempts' = Purge(live, attempts, 0)
    /\ token' = Purge(live, token, 0)
    /\ lease' = Purge(live, lease, 0)
    /\ retry' = Purge(live, retry, 0)

LiveNotices(live) ==
    [d \in Delivery |-> IF notice[d] \in live THEN notice[d] ELSE 0]

\* A scan transaction records an `appeared` event and enqueues it for the
\* channels of the settings it read when it began, hence for any channels.
Publish(chans) ==
    LET e == nextEvent
        live == Newest(events \cup {e})
    IN  /\ e <= MaxEvents
        /\ events' = live
        /\ nextEvent' = e + 1
        /\ notice' = LiveNotices(live)
        /\ status' = [d \in Delivery |->
                        IF d[1] = e
                        THEN IF d[2] \in chans THEN "pending" ELSE "absent"
                        ELSE Purge(live, status, "absent")[d]]
        /\ PurgeRows(live)
        /\ offSince' = offSince \cup ({e} \X (chans \ enabled))
        /\ UNCHANGED <<enabled, worker, nextToken, left, sends, accepted,
                       reported, lost, crashes>>

\* Mutant: ON CONFLICT resets the row to pending.
RequeueRows(e, chans) ==
    [d \in Delivery |->
        IF d[1] = e /\ d[2] \in chans THEN "pending" ELSE status[d]]

\* The fingerprint is already stored: add() returns the old id and
\* enqueue_delivery inserts only the rows that are missing.
EnqueueMissing(e, chans) ==
    [d \in Delivery |->
        IF d[1] = e /\ d[2] \in chans /\ status[d] = "absent"
        THEN "pending" ELSE status[d]]

Republish(e, chans) ==
    /\ e \in events
    /\ \A d \in Delivery : notice[d] # e
    /\ status' = EnqueueMissing(e, chans)
    /\ offSince' = offSince \cup
                     {d \in Delivery : status'[d] # status[d] /\ d[2] \notin enabled}
    /\ UNCHANGED <<attempts, token, lease, retry, eventLog, enabled, worker,
                   nextToken, left, sends, accepted, reported, lost, crashes>>

\* clear(): the user empties the event page.
ClearEvents ==
    /\ events # {}
    /\ events' = {}
    /\ notice' = LiveNotices({})
    /\ status' = Purge({}, status, "absent")
    /\ PurgeRows({})
    /\ UNCHANGED <<nextEvent, enabled, worker, nextToken, seen>>

\* The user switches a channel on or off.
ToggleChannel(c) ==
    /\ enabled' = IF c \in enabled THEN enabled \ {c} ELSE enabled \cup {c}
    /\ offSince' = offSince \cup
                     {d \in Delivery : d[2] = c /\ c \in enabled /\ status[d] \in Open}
    /\ UNCHANGED <<outbox, eventLog, worker, nextToken, left, sends, accepted,
                   reported, lost, crashes>>

Less(n) == IF n > 0 THEN n - 1 ELSE 0

Tick ==
    /\ \/ \E d \in Delivery : lease[d] > 0 \/ retry[d] > 0
       \/ \E w \in Worker : left[w] > 0
    /\ lease' = [d \in Delivery |-> Less(lease[d])]
    /\ retry' = [d \in Delivery |-> Less(retry[d])]
    /\ left' = [w \in Worker |-> Less(left[w])]
    /\ UNCHANGED <<status, attempts, token, eventLog, enabled, worker,
                   nextToken, sends, accepted, offSince, reported, lost,
                   crashes>>

-----------------------------------------------------------------------------
(* run_once, one step per transaction or call                              *)

Goto(w, l) == pc' = [pc EXCEPT ![w] = l]

\* Mutant: the lease of another worker is not looked at.
DueWhileLeased(d) == status[d] \in Open /\ retry[d] = 0

\* Mutant: only pending rows count as due.
DuePendingOnly(d) == status[d] = "pending" /\ retry[d] = 0

\* What has_due_deliveries and claim_pending_deliveries select.
Due(d) == /\ status[d] \in Open
          /\ retry[d] = 0
          /\ status[d] # "processing" \/ lease[d] = 0

DueRows == {d \in Delivery : Due(d)}

\* Mutant: the service loop, too, is handed settings read beforehand.
EveryWorkerPrefetches(w) == TRUE

\* retry_pending_deliveries is handed the settings, read before run_once.
Prefetches(w) == w \in OneShot

ReadSettingsFirst(w) ==
    /\ Prefetches(w)
    /\ pc[w] = "idle"
    /\ snap' = [snap EXCEPT ![w] = enabled]
    /\ Goto(w, "check")
    /\ UNCHANGED <<outbox, eventLog, enabled, batch, held, job, result,
                   toReport, nextToken, seen>>

CheckDue(w) ==
    /\ pc[w] = IF Prefetches(w) THEN "check" ELSE "idle"
    /\ IF DueRows = {}
       THEN /\ Prefetches(w)
            /\ Goto(w, "idle")
            /\ snap' = [snap EXCEPT ![w] = {}]
       ELSE /\ Goto(w, "release")
            /\ UNCHANGED snap
    /\ UNCHANGED <<outbox, eventLog, enabled, batch, held, job, result,
                   toReport, nextToken, seen>>

\* The rows release_expired_leases makes retryable.
Expired(d) == status[d] = "processing" /\ lease[d] = 0

ReleaseExpired(w) ==
    /\ pc[w] = "release"
    /\ status' = [d \in Delivery |->
                    IF Expired(d) THEN "pending" ELSE status[d]]
    /\ token' = [d \in Delivery |-> IF Expired(d) THEN 0 ELSE token[d]]
    /\ Goto(w, "claim")
    /\ UNCHANGED <<attempts, lease, retry, eventLog, enabled, batch, held, job,
                   result, snap, toReport, nextToken, seen>>

\* Mutant: the attempt after an expired lease is not counted as a new one.
AttemptUnlessReclaimed(d) ==
    IF status[d] = "processing" THEN attempts[d] ELSE attempts[d] + 1

\* The number a claim gives to its attempt.
NextAttempt(d) == attempts[d] + 1

\* Mutant: the limit is off by one, one attempt too many or too few.
ExhaustedLate(d) == attempts[d] > MaxAttempts
ExhaustedEarly(d) == attempts[d] + 1 >= MaxAttempts

Exhausted(d) == NextAttempt(d) > MaxAttempts

\* What a claim writes: the rows in dead have used up their attempts and die,
\* those in mine are leased to w for their next attempt.
TakeRows(w, dead, mine) ==
    /\ status' = [d \in Delivery |-> IF d \in dead THEN "dead"
                                     ELSE IF d \in mine THEN "processing"
                                     ELSE status[d]]
    /\ attempts' = [d \in Delivery |-> IF d \in mine THEN NextAttempt(d)
                                       ELSE attempts[d]]
    /\ token' = [d \in Delivery |-> IF d \in dead THEN 0
                                    ELSE IF d \in mine THEN nextToken
                                    ELSE token[d]]
    /\ lease' = [d \in Delivery |-> IF d \in dead THEN 0
                                    ELSE IF d \in mine THEN Lease
                                    ELSE lease[d]]
    /\ batch' = [batch EXCEPT ![w] = [d \in Delivery |->
                    IF d \in mine THEN NextAttempt(d) ELSE 0]]
    /\ toReport' = [toReport EXCEPT ![w] = dead]
    /\ IF mine = {}
       THEN UNCHANGED <<held, left, nextToken>>
       ELSE /\ held' = [held EXCEPT ![w] = nextToken]
            /\ left' = [left EXCEPT ![w] = Lease]
            /\ nextToken' = nextToken + 1
    /\ IF dead # {} THEN Goto(w, "report") /\ UNCHANGED snap
       ELSE IF mine # {} THEN Goto(w, "settings") /\ UNCHANGED snap
       ELSE Goto(w, "idle") /\ snap' = [snap EXCEPT ![w] = {}]

\* claim_pending_deliveries: one immediate transaction takes up to BatchSize
\* due rows.  (The code takes them in id order; here they may be any.)
Claim(w) ==
    /\ pc[w] = "claim"
    /\ \E rows \in SUBSET DueRows :
        /\ IF Cardinality(DueRows) <= BatchSize THEN rows = DueRows
           ELSE Cardinality(rows) = BatchSize
        /\ LET dead == {d \in rows : Exhausted(d)}
           IN  TakeRows(w, dead, rows \ dead)
    /\ UNCHANGED <<retry, eventLog, enabled, job, result, sends, accepted,
                   offSince, reported, lost, crashes>>

\* emit_notify_failed(d): a transaction of its own; add() returns at once if
\* the fingerprint is stored, and prunes otherwise.
EmitNotifyFailed(d) ==
    /\ reported' = reported \cup {d}
    /\ IF notice[d] # 0
       THEN UNCHANGED <<outbox, eventLog>>
       ELSE LET live == Newest(events \cup {nextEvent})
            IN  /\ events' = live
                /\ nextEvent' = nextEvent + 1
                /\ notice' = [LiveNotices(live) EXCEPT ![d] = nextEvent]
                /\ status' = Purge(live, status, "absent")
                /\ PurgeRows(live)

Busy(w) == \E d \in Delivery : batch[w][d] > 0

\* The deaths found by the claim are reported after its commit.
ReportDead(w) ==
    /\ pc[w] = "report"
    /\ \E d \in toReport[w] :
        /\ EmitNotifyFailed(d)
        /\ toReport' = [toReport EXCEPT ![w] = @ \ {d}]
        /\ IF toReport[w] # {d} THEN UNCHANGED <<pc, snap>>
           ELSE IF Busy(w) THEN Goto(w, "settings") /\ UNCHANGED snap
           ELSE Goto(w, "idle") /\ snap' = [snap EXCEPT ![w] = {}]
    /\ UNCHANGED <<enabled, batch, held, job, result, nextToken, left, sends,
                   accepted, offSince, lost, crashes>>

\* `settings_override or db.settings()`: once per batch, after the claim.
ReadSettings(w) ==
    /\ pc[w] = "settings"
    /\ IF Prefetches(w) THEN UNCHANGED snap
       ELSE snap' = [snap EXCEPT ![w] = enabled]
    /\ Goto(w, "next")
    /\ UNCHANGED <<outbox, eventLog, enabled, batch, held, job, result,
                   toReport, nextToken, seen>>

\* get_event, and the choice the loop body makes with it.  (The code walks
\* the batch in id order; here the rows come in any order.)
LookUp(w) ==
    /\ pc[w] = "next"
    /\ \E d \in Delivery :
        /\ batch[w][d] > 0
        /\ job' = [job EXCEPT ![w] = d]
        /\ Goto(w, IF d[1] \notin events THEN "missing"
                   ELSE IF d[2] \in snap[w] THEN "send" ELSE "cancel")
    /\ UNCHANGED <<outbox, eventLog, enabled, batch, held, result, snap,
                   toReport, nextToken, seen>>

\* The row under work is done: go on with the batch, or return.
Done(w, d) ==
    LET rest == [batch[w] EXCEPT ![d] = 0]
        over == rest = NoBatch
    IN  /\ batch' = [batch EXCEPT ![w] = rest]
        /\ job' = [job EXCEPT ![w] = NoJob]
        /\ result' = [result EXCEPT ![w] = "none"]
        /\ Goto(w, IF over THEN "idle" ELSE "next")
        /\ held' = [held EXCEPT ![w] = IF over THEN 0 ELSE @]
        /\ snap' = [snap EXCEPT ![w] = IF over THEN {} ELSE @]
        /\ left' = [left EXCEPT ![w] = IF over THEN 0 ELSE @]

\* The UPDATE of complete_delivery and cancel_delivery: the row leaves its
\* lease with a new status and a new retry delay.
Settle(d, s, delay) ==
    /\ status' = [status EXCEPT ![d] = s]
    /\ token' = [token EXCEPT ![d] = 0]
    /\ lease' = [lease EXCEPT ![d] = 0]
    /\ retry' = [retry EXCEPT ![d] = delay]
    /\ UNCHANGED attempts

\* Mutant: the acknowledgement does not look at the lease token.
OwnsAnyRow(w, d) == status[d] # "absent"

\* WHERE event_id=? AND channel=? AND lease_token=?
Owns(w, d) == token[d] = held[w]

CompleteDelivery(w, d, ok) ==
    IF ~Owns(w, d) THEN UNCHANGED outbox
    ELSE IF ok THEN Settle(d, "sent", 0)
    ELSE IF attempts[d] >= MaxAttempts THEN Settle(d, "dead", 0)
    ELSE Settle(d, "pending", Backoff[attempts[d]])

\* "event missing": completed as a failure.
CompleteMissing(w) ==
    /\ pc[w] = "missing"
    /\ CompleteDelivery(w, job[w], FALSE)
    /\ Done(w, job[w])
    /\ UNCHANGED <<eventLog, enabled, toReport, nextToken, sends, accepted,
                   offSince, reported, lost, crashes>>

\* The channel is not enabled in the settings that were read.
CancelDelivery(w) ==
    /\ pc[w] = "cancel"
    /\ IF Owns(w, job[w]) THEN Settle(job[w], "cancelled", 0)
       ELSE UNCHANGED outbox
    /\ Done(w, job[w])
    /\ UNCHANGED <<eventLog, enabled, toReport, nextToken, sends, accepted,
                   offSince, reported, lost, crashes>>

\* send_fn: the provider may have accepted a message whose call failed.
Send(w) ==
    /\ pc[w] = "send"
    /\ LET d == job[w] IN
        /\ sends' = [sends EXCEPT ![d][batch[w][d]] = @ + 1]
        /\ \E r \in {"ok", "error"}, took \in BOOLEAN :
            /\ r = "ok" => took
            /\ result' = [result EXCEPT ![w] = r]
            /\ accepted' = IF took THEN accepted \cup {d} ELSE accepted
    /\ Goto(w, "ack")
    /\ UNCHANGED <<outbox, eventLog, enabled, batch, held, job, snap, toReport,
                   nextToken, left, offSince, reported, lost, crashes>>

\* Mutant: off by one against complete_delivery's own limit.
LastAttemptPassed(w) == batch[w][job[w]] > MaxAttempts

\* complete_delivery after the send.  An acknowledged error on the last
\* attempt leads to note_notify_failed.
LastAttempt(w) == batch[w][job[w]] >= MaxAttempts

Acknowledge(w) ==
    /\ pc[w] = "ack"
    /\ CompleteDelivery(w, job[w], result[w] = "ok")
    /\ IF result[w] = "error" /\ Owns(w, job[w]) /\ LastAttempt(w)
       THEN /\ Goto(w, "note")
            /\ UNCHANGED <<batch, held, job, result, snap, left>>
       ELSE Done(w, job[w])
    /\ UNCHANGED <<eventLog, enabled, toReport, nextToken, sends, accepted,
                   offSince, reported, lost, crashes>>

NoteNotifyFailed(w) ==
    /\ pc[w] = "note"
    /\ EmitNotifyFailed(job[w])
    /\ Done(w, job[w])
    /\ UNCHANGED <<enabled, toReport, nextToken, sends, accepted, offSince,
                   lost, crashes>>

\* An exception leaves run_once, the process dies, or stop() gives up on the
\* thread: the local state is gone, the leases stay.
Abandon(w) ==
    /\ pc[w] # "idle"
    /\ crashes < MaxCrashes
    /\ crashes' = crashes + 1
    /\ lost' = lost \cup toReport[w]
                    \cup (IF pc[w] = "note" THEN {job[w]} ELSE {})
    /\ Goto(w, "idle")
    /\ batch' = [batch EXCEPT ![w] = NoBatch]
    /\ held' = [held EXCEPT ![w] = 0]
    /\ job' = [job EXCEPT ![w] = NoJob]
    /\ result' = [result EXCEPT ![w] = "none"]
    /\ snap' = [snap EXCEPT ![w] = {}]
    /\ toReport' = [toReport EXCEPT ![w] = {}]
    /\ left' = [left EXCEPT ![w] = 0]
    /\ UNCHANGED <<outbox, eventLog, enabled, nextToken, sends, accepted,
                   offSince, reported>>

-----------------------------------------------------------------------------

Step(w) ==
    \/ ReadSettingsFirst(w) \/ CheckDue(w) \/ ReleaseExpired(w) \/ Claim(w)
    \/ ReportDead(w) \/ ReadSettings(w) \/ LookUp(w) \/ CompleteMissing(w)
    \/ CancelDelivery(w) \/ Send(w) \/ Acknowledge(w) \/ NoteNotifyFailed(w)

Environment ==
    \/ \E chans \in SUBSET Channel :
          \/ Publish(chans)
          \/ \E e \in 1..MaxEvents : Republish(e, chans)
    \/ ClearEvents
    \/ \E c \in Channel : ToggleChannel(c)
    \/ Tick

Next ==
    \/ Environment
    \/ \E w \in Worker : Step(w) \/ Abandon(w)

Spec == Init /\ [][Next]_vars

\* The clock runs, and the service thread polls again after every pass or
\* exception (OutboxWorker.start); a one-shot caller may stop anywhere.
FairSpec ==
    /\ Spec
    /\ WF_vars(Tick)
    /\ \A w \in Worker \ OneShot : WF_vars(Step(w))

-----------------------------------------------------------------------------
(* Properties                                                              *)

TypeOK ==
    /\ status \in [Delivery -> Status]
    /\ attempts \in [Delivery -> 0..MaxAttempts]
    /\ token \in [Delivery -> Nat]
    /\ lease \in [Delivery -> Nat]
    /\ retry \in [Delivery -> Nat]
    /\ events \in SUBSET Nat
    /\ nextEvent \in Nat \ {0}
    /\ notice \in [Delivery -> Nat]
    /\ enabled \in SUBSET Channel
    /\ pc \in [Worker -> {"idle", "check", "release", "claim", "report",
                          "settings", "next", "missing", "cancel", "send",
                          "ack", "note"}]
    /\ batch \in [Worker -> [Delivery -> 0..MaxAttempts]]
    /\ held \in [Worker -> Nat]
    /\ job \in [Worker -> Delivery \cup {NoJob}]
    /\ result \in [Worker -> {"none", "ok", "error"}]
    /\ snap \in [Worker -> SUBSET Channel]
    /\ toReport \in [Worker -> SUBSET Delivery]
    /\ nextToken \in Nat \ {0}
    /\ left \in [Worker -> Nat]
    /\ sends \in [Delivery -> [1..MaxAttempts -> Nat]]
    /\ accepted \in SUBSET Delivery
    /\ offSince \in SUBSET Delivery
    /\ reported \in SUBSET Delivery
    /\ lost \in SUBSET Delivery
    /\ crashes \in Nat

\* However workers overlap, expire or die, no attempt of a delivery reaches
\* the provider twice: the user gets a message at most MaxAttempts times.
SendOncePerAttempt ==
    \A d \in Delivery, n \in 1..MaxAttempts : sends[d][n] <= 1

\* Two workers whose leases both still run never work on the same delivery.
LeaseExclusive ==
    \A v, w \in Worker : v # w /\ left[v] > 0 /\ left[w] > 0 =>
        \A d \in Delivery : batch[v][d] = 0 \/ batch[w][d] = 0

\* A delivery is given up only after all MAX_DELIVERY_ATTEMPTS attempts.
NoEarlyDeath ==
    \A d \in Delivery : status[d] = "dead" => attempts[d] = MaxAttempts

\* Every death is announced by a notify_failed event, or is about to be,
\* unless the worker that had to announce it was abandoned: the two places
\* that decide on it (complete_delivery and run_once) agree.
DeathReported ==
    \A d \in Delivery : status[d] = "dead" =>
        \/ d \in reported \cup lost
        \/ \E w \in Worker :
              d \in toReport[w] \/ (pc[w] = "note" /\ job[w] = d)

\* No row outlives its event, whichever transaction deleted the event.
NoOrphanRow ==
    \A d \in Delivery : status[d] # "absent" => d[1] \in events

\* A delivery is cancelled only if its channel was off at some time since it
\* was enqueued: run_once reads the settings after the claim.
CancelJustified ==
    \A d \in Delivery : status[d] = "cancelled" => d \in offSince

\* A finished row is final: no late acknowledgement, expired lease or
\* repeated enqueue reopens it; it can only go with its event.
TerminalStable ==
    [][\A d \in Delivery : status[d] \in Terminal =>
          status'[d] \in {status[d], "absent"}]_vars

\* The outbox implements the promise of DeliveryPromise: a row seen from
\* outside is nobody's business until it is enqueued, open while it is
\* pending or processing, and gone when its event is.
outcome == [d \in Delivery |->
              IF status[d] \in Open THEN "open"
              ELSE IF status[d] \in Terminal THEN status[d]
              ELSE IF d[1] < nextEvent /\ d[1] \notin events THEN "gone"
              ELSE "none"]
used == [d \in Delivery |-> {n \in 1..MaxAttempts : sends[d][n] > 0}]

Promise == INSTANCE DeliveryPromise
    WITH Delivery <- Delivery, MaxAttempts <- MaxAttempts,
         outcome <- outcome, used <- used, accepted <- accepted

\* Seen from outside, every step is one the promise allows or none at all:
\* a message goes out at most MaxAttempts times, a delivery counts as sent
\* only if the provider took it, and what is settled stays settled.
KeepsPromise == Promise!Spec

\* Every enqueued delivery is settled or removed in the end, although
\* providers fail, one-shot workers stop and workers are abandoned.
EveryDeliverySettles ==
    \A d \in Delivery : status[d] \in Open ~> status[d] \notin Open

-----------------------------------------------------------------------------
(* The inductive invariant behind the safety properties                    *)

Working == {"missing", "cancel", "send", "ack", "note"}
Fresh == {"idle", "check", "release", "claim"}

\* The event of d was published and has been deleted since.
Gone(d) == d[1] < nextEvent /\ d[1] \notin events

\* Program counter and local state fit together.
LocalInv ==
    \A w \in Worker :
        /\ pc[w] \in Working => job[w] \in Delivery /\ batch[w][job[w]] > 0
        /\ pc[w] \in Fresh => \A d \in Delivery : batch[w][d] = 0
        /\ pc[w] # "report" => toReport[w] = {}
        /\ pc[w] = "missing" => Gone(job[w])
        /\ pc[w] = "ack" => result[w] # "none"
        /\ pc[w] = "ack" /\ result[w] = "ok" => job[w] \in accepted
        /\ pc[w] = "note" => status[job[w]] \in {"dead", "absent"}

\* Event ids only grow, so neither a row nor a claim meets a reused id.
EventInv ==
    /\ \A e \in events : e < nextEvent
    /\ NoOrphanRow
    /\ \A d \in Delivery : d[1] >= nextEvent => attempts[d] = 0
    /\ \A w \in Worker, d \in Delivery : batch[w][d] > 0 =>
          /\ d[1] < nextEvent
          /\ d[1] \in events => status[d] # "absent"

\* A lease token is on a processing row, of one worker, and stands for that
\* worker's claim of the row.
RowTokens ==
    \A d \in Delivery :
        /\ token[d] < nextToken
        /\ token[d] # 0 => status[d] = "processing" /\ attempts[d] > 0

HeldTokens ==
    \A w \in Worker :
        /\ held[w] < nextToken
        /\ \A d \in Delivery :
              /\ batch[w][d] > 0 => held[w] # 0
              /\ held[w] # 0 /\ token[d] = held[w] => batch[w][d] = attempts[d]

OneHolder ==
    \A v, w \in Worker : v # w /\ held[v] # 0 => held[v] # held[w]

TokenInv == RowTokens /\ HeldTokens /\ OneHolder

\* No attempt is sent before it is claimed; a claimed one was not sent before
\* its worker sends it, and no other worker claims it.
Asked(w, d) == job[w] = d /\ pc[w] \in {"ack", "note"}

UnclaimedUnsent ==
    \A d \in Delivery, n \in 1..MaxAttempts :
        ~Gone(d) /\ n > attempts[d] => sends[d][n] = 0

ClaimedUnsent ==
    \A w \in Worker, d \in Delivery : batch[w][d] > 0 =>
        /\ Gone(d) \/ batch[w][d] <= attempts[d]
        /\ Asked(w, d) \/ sends[d][batch[w][d]] = 0

OneClaimer ==
    \A v, w \in Worker, d \in Delivery :
        v # w /\ batch[v][d] > 0 => batch[v][d] # batch[w][d]

AttemptInv == UnclaimedUnsent /\ ClaimedUnsent /\ OneClaimer

\* While a worker's lease runs, so does the lease of the rows it works on.
LeaseInv ==
    \A w \in Worker, d \in Delivery :
        left[w] > 0 /\ batch[w][d] > 0 /\ d[1] \in events =>
            \/ token[d] = held[w] /\ lease[d] >= left[w]
            \/ pc[w] = "note" /\ job[w] = d

IInv ==
    /\ TypeOK
    /\ LocalInv
    /\ EventInv
    /\ TokenInv
    /\ AttemptInv
    /\ SendOncePerAttempt
    /\ LeaseInv
    /\ LeaseExclusive
    /\ NoEarlyDeath
    /\ DeathReported
=============================================================================
