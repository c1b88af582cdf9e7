----------------------------- MODULE EventFeed -----------------------------
(***************************************************************************)
(* The feed of events and the desktop's thread that reads it to notify     *)
(* (storage/events.py, web/routes_api.py, client.py, desktop.py            *)
(* _poll_appeared).  Events get ascending ids that are never used again;   *)
(* the oldest are pruned and a user may clear them all, while the thread   *)
(* works on an answer it got earlier.                                      *)
(*                                                                         *)
(* An operator whose comment starts with "Mutant" is no part of the        *)
(* specification: it is the definition below it with a plausible bug.      *)
(***************************************************************************)
EXTENDS Integers, Sequences, FiniteSetsExt, Ranking

CONSTANTS
    EventKeep,     \* EVENT_KEEP: events that pruning leaves
    PollLimit,     \* events of one answer (50)
    MaxEvents      \* bound: events ever written, the first included

ASSUME EventFeedAssumption ==
    /\ EventKeep \in Nat \ {0}
    /\ PollLimit \in Nat \ {0}
    /\ MaxEvents \in Nat \ {0}

VARIABLES
    appeared,      \* ids of the events of type `appeared' there are
    others,        \* ids of the events of other types
    lastId,        \* the table's AUTOINCREMENT counter
    poller,        \* the thread: "first", "wait", "batch", "stopped"
    cursor,
    rows,          \* rest of the answer the thread works on
    notifyOn, stopPoll,
    told           \* observation only: ids notified, in order

feedVars == <<appeared, others, lastId, poller, cursor, rows, notifyOn, stopPoll, told>>
tableVars == <<appeared, others, lastId>>
pollVars == <<poller, cursor, rows, told>>

-----------------------------------------------------------------------------
(* The table.                                                              *)

Newest(ids, n) == {i \in ids : Cardinality({j \in ids : j > i}) < n}

(* add: insert and prune in one transaction. *)
AddEvent ==
    /\ lastId < MaxEvents
    /\ lastId' = lastId + 1
    /\ \E kind \in {"appeared", "other"} :
          LET kept == Newest(appeared \union others \union {lastId + 1}, EventKeep) IN
          /\ appeared' = (IF kind = "appeared" THEN appeared \union {lastId + 1}
                          ELSE appeared) \intersect kept
          /\ others' = (IF kind = "other" THEN others \union {lastId + 1}
                        ELSE others) \intersect kept
    /\ UNCHANGED pollVars /\ UNCHANGED <<notifyOn, stopPoll>>

ClearEvents ==
    /\ appeared' = {} /\ others' = {}
    /\ UNCHANGED <<lastId, notifyOn, stopPoll>> /\ UNCHANGED pollVars

OlderFirst == {pair \in (1..MaxEvents) \X (1..MaxEvents) : pair[1] < pair[2]}
NewerFirst == {pair \in (1..MaxEvents) \X (1..MaxEvents) : pair[1] > pair[2]}
Ascending(ids) == InOrder(ids, OlderFirst)
Descending(ids) == InOrder(ids, NewerFirst)
FirstOf(seq, n) == SubSeq(seq, 1, IF Len(seq) < n THEN Len(seq) ELSE n)

(* Mutant: the newest first, as in a list without a cursor. *)
ListNewestAfter(after, limit) ==
    FirstOf(Descending({i \in appeared : i > after}), limit)

(* list with after_id and type. *)
ListAfter(after, limit) == FirstOf(Ascending({i \in appeared : i > after}), limit)

ListNewest(limit) == FirstOf(Descending(appeared), limit)

-----------------------------------------------------------------------------
(* _poll_appeared.                                                         *)

(* The position from which events are new; 0 when it cannot be read. *)
FirstCursor ==
    /\ poller = "first"
    /\ poller' = "wait"
    /\ \/ cursor' = IF ListNewest(1) = <<>> THEN 0 ELSE ListNewest(1)[1]
       \/ cursor' = 0
    /\ UNCHANGED <<rows, told, notifyOn, stopPoll>> /\ UNCHANGED tableVars

(* After 12 seconds, unless stopped; a read that fails changes nothing. *)
ReadRows ==
    /\ poller = "wait"
    /\ ~stopPoll /\ notifyOn
    /\ rows' = ListAfter(cursor, PollLimit)
    /\ rows' # <<>>
    /\ poller' = "batch"
    /\ UNCHANGED <<cursor, told, notifyOn, stopPoll>> /\ UNCHANGED tableVars

NextCursor(id) == Max({cursor, id})

NotifyRow ==
    /\ poller = "batch"
    /\ LET id == Head(rows) IN
       IF id <= cursor
       THEN UNCHANGED <<told, cursor>>
       ELSE told' = Append(told, id) /\ cursor' = NextCursor(id)
    /\ rows' = Tail(rows)
    /\ poller' = IF Len(rows) = 1 THEN "wait" ELSE "batch"
    /\ UNCHANGED <<notifyOn, stopPoll>> /\ UNCHANGED tableVars

EndPoll ==
    /\ poller = "wait" /\ stopPoll
    /\ poller' = "stopped"
    /\ UNCHANGED <<cursor, rows, told, notifyOn, stopPoll>> /\ UNCHANGED tableVars

(* set_computer_notify, and cleanup. *)
ToggleNotify ==
    /\ notifyOn' = ~notifyOn
    /\ UNCHANGED stopPoll /\ UNCHANGED tableVars /\ UNCHANGED pollVars

StopPoll ==
    /\ ~stopPoll
    /\ stopPoll' = TRUE
    /\ UNCHANGED notifyOn /\ UNCHANGED tableVars /\ UNCHANGED pollVars

-----------------------------------------------------------------------------

FeedInit ==
    /\ appeared = {1} /\ others = {} /\ lastId = 1
    /\ poller = "first"
    /\ cursor = 0
    /\ rows = <<>>
    /\ notifyOn \in BOOLEAN
    /\ stopPoll = FALSE
    /\ told = <<>>

PollerStep == FirstCursor \/ ReadRows \/ NotifyRow \/ EndPoll

FeedNext == AddEvent \/ ClearEvents \/ ToggleNotify \/ StopPoll \/ PollerStep

(* The thread runs, and reads do not fail for ever. *)
FeedFairness == WF_feedVars(PollerStep)

FeedSpec == FeedInit /\ [][FeedNext]_feedVars /\ FeedFairness

-----------------------------------------------------------------------------
(* Properties.                                                             *)

(* An event that came after the thread's start is notified, also when more *)
(* came at once than fit one answer, unless it is pruned or cleared before *)
(* the thread reads it, or notifications are off (desktop.py 429-447).     *)
EventsAreNotified ==
    \A id \in 1..MaxEvents :
        (poller # "first" /\ id \in appeared /\ id > cursor)
        ~> (id \in Range(told) \/ id \notin appeared \/ ~notifyOn \/ stopPoll)
=============================================================================
