----------------------------- MODULE TuiTables -----------------------------
(***************************************************************************)
(* The tables of the terminal interface (tui_app.py).  Every request runs  *)
(* on a thread of its own, while the user goes on, and hands its result to *)
(* the loop; each handler of the loop is one step.  An area is a table     *)
(* with a generation; its content is a version of what the server has, so  *)
(* that old and new can be told apart.  How the interface gets its client  *)
(* and what its end does is TuiConnect.                                    *)
(*                                                                         *)
(* A refresh is a record of the areas it covers, the generation each had   *)
(* when it began, and the versions its thread has read so far.  The        *)
(* settings, which every refresh of everything reads too, are only known   *)
(* or not; whether their generation is still current is left open.         *)
(***************************************************************************)
EXTENDS Integers, FiniteSetsExt

CONSTANTS
    ListingOp,     \* groups of operations on the listed families: settings-write
    WatchOp,       \* on watches: watch-create, -toggle, -delete
    EventOp,       \* and on events: events-clear
    MaxVersions,   \* bound: changes the server has seen
    MaxAsks        \* bound: what the user asks for

ASSUME TuiTablesAssumption ==
    /\ ListingOp \intersect (WatchOp \union EventOp) = {} /\ WatchOp \intersect EventOp = {}
    /\ "scan" \notin ListingOp \union WatchOp \union EventOp
    /\ MaxVersions \in Nat /\ MaxAsks \in Nat

Area == {"listings", "watches", "events"}
Group == ListingOp \union WatchOp \union EventOp \union {"scan"}

VARIABLES
    remote,        \* the server: [Area -> version]
    shown,         \* [Area -> version in the table]
    gen,           \* _generations
    known,         \* _last_settings is not empty
    asks,          \* bound
    tasks,         \* refreshes under way
    ops,           \* [Group -> an operation under way]
    own,           \* observation only: [Area -> version of the last own change told to the user]
    missed,        \* observation only: areas whose last refresh failed, which the user was told
    hushed         \* observation only: areas whose last refresh failed in silence

tuiVars == <<remote, shown, gen, known, asks, tasks, ops, own, missed, hushed>>
viewVars == <<shown, gen, known, tasks, own, missed, hushed>>

-----------------------------------------------------------------------------
(* Refreshes.                                                              *)

(* reload_all, reload_listings, reload_watches, reload_events: each begins *)
(* a new generation of the areas it covers.                                *)
Reload(refreshes, owned) ==
    /\ gen' = [a \in Area |-> gen[a] + (IF a \in UNION refreshes THEN 1 ELSE 0)]
    /\ tasks' = tasks \union
          {[areas |-> areas, gen |-> [a \in areas |-> gen[a] + 1], got |-> <<>>] : areas \in refreshes}
    /\ missed' = missed \ UNION refreshes
    /\ hushed' = hushed \ UNION refreshes
    /\ own' = owned

(* reload_listings reloads everything while the settings are not known. *)
Listings == IF known THEN {"listings"} ELSE Area

(* The buttons, the filters, action_reload, and _poll_status when it sees  *)
(* that a scan has finished.                                               *)
UserReloads(areas) ==
    /\ asks < MaxAsks /\ asks' = asks + 1
    /\ Reload({areas}, own)
    /\ UNCHANGED <<remote, shown, known, ops>>

(* The thread asks for the listings first, for the events last; each       *)
(* answer is of that moment.                                               *)
FirstUnread(t) ==
    LET left == t.areas \ DOMAIN t.got
    IN CASE "listings" \in left -> "listings"
         [] "listings" \notin left /\ "watches" \in left -> "watches"
         [] OTHER -> "events"

TaskReads(t) ==
    /\ DOMAIN t.got # t.areas
    /\ LET a == FirstUnread(t)
           got == [b \in DOMAIN t.got \union {a} |-> IF b = a THEN remote[a] ELSE t.got[b]]
       IN tasks' = (tasks \ {t}) \union {[t EXCEPT !.got = got]}
    /\ UNCHANGED <<remote, shown, gen, known, asks, ops, own, missed, hushed>>

(* Mutant: a result is taken whatever was begun after it. *)
AnyGeneration(t, a) == a \in t.areas

GenerationIsCurrent(t, a) == a \in t.areas /\ t.gen[a] = gen[a]

TaskShows(t) ==
    /\ DOMAIN t.got = t.areas
    /\ tasks' = tasks \ {t}
    /\ shown' = [a \in Area |-> IF GenerationIsCurrent(t, a) THEN t.got[a] ELSE shown[a]]
    /\ known' \in {known, known \/ t.areas = Area}
    /\ UNCHANGED <<remote, gen, asks, ops, own, missed, hushed>>

(* A refresh of everything tells of its error only if no other refresh of  *)
(* the listings has begun since; one of a table if it is the current one.  *)
Tells(t) == IF t.areas = Area THEN GenerationIsCurrent(t, "listings")
                              ELSE \E a \in t.areas : GenerationIsCurrent(t, a)

(* An error of any of its requests drops the whole refresh. *)
TaskFails(t) ==
    /\ tasks' = tasks \ {t}
    /\ LET lost == {a \in Area : GenerationIsCurrent(t, a)} IN
       /\ missed' = IF Tells(t) THEN missed \union lost ELSE missed
       /\ hushed' = IF Tells(t) THEN hushed ELSE hushed \union lost
    /\ UNCHANGED <<remote, shown, gen, known, asks, ops, own>>

(* run_worker(exclusive): a refresh whose thread has not begun is dropped  *)
(* when another of its group is started; a thread that runs is not stopped. *)
TaskDropped(t) ==
    /\ \E u \in tasks : u.areas = t.areas /\ \A a \in t.areas : u.gen[a] > t.gen[a]
    /\ t.got = <<>>
    /\ tasks' = tasks \ {t}
    /\ UNCHANGED <<remote, shown, gen, known, asks, ops, own, missed, hushed>>

(* reload_settings, or the listen switch, has its answer shown. *)
SettingsShown ==
    /\ ~known /\ known' = TRUE
    /\ UNCHANGED <<remote, shown, gen, asks, tasks, ops, own, missed, hushed>>

-----------------------------------------------------------------------------
(* Operations of the user, one of a group at a time.                       *)

AreaOf(g) == CASE g \in ListingOp -> "listings" [] g \in WatchOp -> "watches" [] OTHER -> "events"

(* A scan reloads everything, the listed families their table and that of  *)
(* the watches, the others their table.                                    *)
RefreshesOf(g) == CASE g = "scan" -> {Area}
                    [] g \in ListingOp -> {{"listings"}, {"watches"}}
                    [] OTHER -> {{AreaOf(g)}}

NoOp == [at |-> "none"]
Changes == remote["listings"] + remote["watches"] + remote["events"]

(* _run_unique_client_task; action_scan has a flag of its own.  Listed     *)
(* families are changed only when the settings are known.                  *)
StartOp(g) ==
    /\ ops[g] = NoOp
    /\ g \in ListingOp => known
    /\ asks < MaxAsks /\ asks' = asks + 1
    /\ ops' = [ops EXCEPT ![g] = [at |-> "sent"]]
    /\ UNCHANGED remote /\ UNCHANGED viewVars

OpLands(g) ==
    /\ ops[g].at = "sent" /\ Changes < MaxVersions
    /\ remote' = [remote EXCEPT ![AreaOf(g)] = @ + 1]
    /\ ops' = [ops EXCEPT ![g] = [at |-> "answered", version |-> remote[AreaOf(g)] + 1]]
    /\ UNCHANGED asks /\ UNCHANGED viewVars

(* An error, an answer that is lost, or settings read again meanwhile:     *)
(* nothing is told and nothing is reloaded.                                *)
OpFails(g) ==
    /\ ops[g] # NoOp
    /\ ops' = [ops EXCEPT ![g] = NoOp]
    /\ UNCHANGED <<remote, asks>> /\ UNCHANGED viewVars

(* Its finish: the user is told, and what it changed is read again. *)
OpFinishes(g) ==
    /\ ops[g].at = "answered"
    /\ ops' = [ops EXCEPT ![g] = NoOp]
    /\ Reload(RefreshesOf(g), [own EXCEPT ![AreaOf(g)] = Max({@, ops[g].version})])
    /\ UNCHANGED <<remote, shown, known, asks>>

(* Another client, or a scan of the server's own. *)
ServerChanges(a) ==
    /\ Changes < MaxVersions
    /\ remote' = [remote EXCEPT ![a] = @ + 1]
    /\ UNCHANGED <<asks, ops>> /\ UNCHANGED viewVars

-----------------------------------------------------------------------------
(* The first refresh, of everything, has been begun by _connect's finish.  *)
TuiInit ==
    /\ remote = [a \in Area |-> 0] /\ shown = [a \in Area |-> 0] /\ gen = [a \in Area |-> 1]
    /\ known = FALSE
    /\ tasks = {[areas |-> Area, gen |-> [a \in Area |-> 1], got |-> <<>>]}
    /\ asks = 0 /\ ops = [g \in Group |-> NoOp]
    /\ own = [a \in Area |-> 0] /\ missed = {} /\ hushed = {}

TuiNext ==
    \/ \E areas \in {Area, Listings, {"watches"}, {"events"}} : UserReloads(areas)
    \/ \E t \in tasks : TaskReads(t) \/ TaskShows(t) \/ TaskFails(t) \/ TaskDropped(t)
    \/ SettingsShown
    \/ \E g \in Group : StartOp(g) \/ OpLands(g) \/ OpFails(g) \/ OpFinishes(g)
    \/ \E a \in Area : ServerChanges(a)

TuiSpec == TuiInit /\ [][TuiNext]_tuiVars

-----------------------------------------------------------------------------
(* A change the user was told of is in its table once no refresh of that   *)
(* table is on its way: a refresh begun earlier, of this table or of       *)
(* everything, does not put the old rows back (_next_generation,           *)
(* _generation_is_current).  The exception is a refresh that failed.  The  *)
(* user is told of that, but not always: reload_all keeps silent about its *)
(* own failure when the listings alone were reloaded after it began        *)
(* (tui_app.py 945-950), although the watches and events were its to show. *)
(* The table of the listings is never left stale in silence.               *)
OwnEditShown ==
    \A a \in Area :
        (\A t \in tasks : ~GenerationIsCurrent(t, a)) /\ shown[a] < own[a]
        => a \in missed \/ (a \in hushed /\ a # "listings")
=============================================================================
