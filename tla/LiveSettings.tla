---------------------------- MODULE LiveSettings ----------------------------
(***************************************************************************)
(* The settings of a running service and the parts that follow them: the   *)
(* requests that change them (web/routes_settings.py, routes_api.py,       *)
(* usecases.py, settings.py, storage/settings.py), the scan job that is    *)
(* put in its place after a change (web/app.py), the copy that decides     *)
(* about each request (web/auth.py), the settings page, which posts all it *)
(* shows, as old as it may be (settings.html), and what start-up and an    *)
(* import do while no service runs (cli.py, maintenance.py).               *)
(*                                                                         *)
(* Requests are handled by threads.  A change reads the settings, turns    *)
(* the form or the patch into new values, reads the settings once more,    *)
(* writes in one transaction, counts the version up, reads the settings a  *)
(* third time and replaces the job; each of these is a step.  (`version +=  *)
(* 1' is one step: the interpreter switches threads at calls and jumps     *)
(* only.)  The event loop's part of an access check is one step between    *)
(* two awaits.                                                             *)
(*                                                                         *)
(* A bind address is modelled by what listener_requires_auth tells apart,  *)
(* a token by where it came from, a channel by what the page shows of it,  *)
(* the switch, and what it does not, the secret.  An operator whose        *)
(* comment starts with "Mutant" is no part of the specification: it is the *)
(* definition below it with a plausible bug.                               *)
(***************************************************************************)
EXTENDS Integers, FiniteSets

CONSTANTS
    Writer,        \* requests that change settings, in flight at once
    Visitor,       \* requests that are checked for access, in flight at once
    Channel,       \* notification channels
    Interval,      \* scan intervals the user asks for, in seconds
    EnvToken,      \* APPLE_REFURB_WATCH_ACCESS_TOKEN is set
    MaxCommits     \* bound: transactions that change the settings

ASSUME LiveSettingsAssumption ==
    /\ Interval \subseteq Nat
    /\ \E n \in Interval : n >= 60
    /\ EnvToken \in BOOLEAN
    /\ MaxCommits \in Nat
    /\ "service" \notin Channel

Host == {"loopback", "any"}
Token == {"none", "typed", "made", "env"}
Conf == {"blank", "given"}           \* a switch is off or on, a secret unset or set
Valid == {n \in Interval : n >= 60}
NoJob == 0

Switch == Channel \X {"on"}
Part == Switch \cup (Channel \X {"secret"})

\* What the settings page shows, and what one request may undo of another.
Shown == Switch \cup ({"service"} \X {"lan", "interval"})
Field == Part \cup ({"service"} \X {"token", "lan", "interval"})

VARIABLES
    store,         \* meta: the settings as committed
    bound,         \* bound_host of the running service, "off" without one
    version,       \* SettingsRepository.version
    job,           \* interval of the scheduled scan, NoJob without one
    writer,        \* open pages, and local variables of the requests that change settings
    cache,         \* AuthMiddleware's copy and _cache_version
    visitor,       \* local variables of _auth_state
    (* observation only *)
    commits,       \* transactions so far
    answered,      \* the latest transaction whose version is counted
    touched        \* for each field, the latest transaction that set or changed it

settingsVars ==
    <<store, bound, version, job, writer, cache, visitor, commits, answered, touched>>

-----------------------------------------------------------------------------
(* Patches: partial functions from setting names to values.                *)

Settings == [host : Host, lan : BOOLEAN, token : Token, listen : BOOLEAN,
             interval : Valid, notify : [Part -> Conf]]

NoEdit == [k \in {} |-> k]

Over(patch, base) ==
    [k \in (DOMAIN patch) \cup (DOMAIN base) |->
        IF k \in DOMAIN patch THEN patch[k] ELSE base[k]]

HostFor(lan) == IF lan THEN "any" ELSE "loopback"

NeedsToken(patch, current) ==
    /\ Over(patch, current).host = "any"
    /\ "token" \notin DOMAIN patch
    /\ current.token = "none"

(* normalize_settings_patch: an empty token is dropped, the lan switch     *)
(* picks the address, and a reachable address without token gets one.      *)
Normalize(patch, current) ==
    LET kept == [k \in {k \in DOMAIN patch : k # "token" \/ patch[k] # "none"} |-> patch[k]]
        full == IF "lan" \in DOMAIN kept
                THEN Over(kept, [host |-> HostFor(kept.lan)])
                ELSE kept
    IN IF NeedsToken(full, current) THEN Over(full, [token |-> "made"]) ELSE full

(* Mutant: a secret that is left blank is taken from the defaults. *)
FormNotifyFromDefaults(posted, current) ==
    [p \in Part |-> IF p \in DOMAIN posted THEN posted[p] ELSE "blank"]

(* Every switch is the form's, and off if the form has none; a secret that *)
(* is neither typed nor cleared stays.                                     *)
FormNotify(posted, current) ==
    [p \in Part |-> IF p \in DOMAIN posted THEN posted[p]
                    ELSE IF p \in Switch THEN "blank" ELSE current[p]]

(* form_settings: the interval, the access and the switches of all         *)
(* channels come from the form; one that clears the token also turns the   *)
(* listener off.                                                           *)
FormPatch(form, clear, current) ==
    LET plain == [k \in DOMAIN form \ {"notify"} |->
                     IF clear /\ k = "lan" THEN FALSE ELSE form[k]]
        access == IF clear THEN Over([token |-> "none"], Normalize(plain, current))
                           ELSE Normalize(plain, current)
    IN Over([notify |-> FormNotify(form.notify, current.notify)], access)

(* What the user, or the caller, means to set.  The listen switch of the   *)
(* pages ("switch") updates the settings directly.                         *)
UserEdits ==
    {[lan |-> b] : b \in BOOLEAN} \cup {[lan |-> TRUE, token |-> "typed"]}
    \cup {[notify |-> [d \in {p} |-> v]] : p \in Part, v \in Conf}
    \cup {[interval |-> n] : n \in Interval}

Listens == {[listen |-> b] : b \in BOOLEAN}

PageOps ==
    {[via |-> "page", set |-> s, clear |-> FALSE] : s \in UserEdits}
    \cup {[via |-> "page", set |-> NoEdit, clear |-> TRUE]}

CallOps ==
    {[via |-> "api", set |-> s, clear |-> FALSE] : s \in UserEdits \cup Listens}
    \cup {[via |-> "switch", set |-> s, clear |-> FALSE] : s \in Listens}

(* settings.html shows no secret and no token. *)
Page(s) ==
    [interval |-> s.interval, lan |-> s.lan, notify |-> [p \in Switch |-> s.notify[p]]]

(* The form that the page posts: all that it shows, with the user's edit. *)
Filled(edit, page) ==
    IF "notify" \in DOMAIN edit
    THEN Over([notify |-> Over(edit.notify, page.notify)], page)
    ELSE Over(edit, page)

Retimes(op) == op.via = "page" \/ DOMAIN op.set \cap {"interval", "listen"} # {}

JobFor(s) == IF s.listen THEN s.interval ELSE NoJob

-----------------------------------------------------------------------------
(* Requests that change settings.                                          *)

Idle == [pc |-> "idle"]

At(w, pc) == writer[w].pc = pc

(* An open page is no request, and outlives the service. *)
InFlight == {w \in Writer : writer[w].pc \notin {"idle", "page"}}

Room == bound # "off" /\ commits + Cardinality(InFlight) < MaxCommits

OpenPage(w) ==
    /\ bound # "off"
    /\ writer[w] = Idle
    /\ writer' = [writer EXCEPT ![w] =
          [pc |-> "page", page |-> Page(store), opened |-> commits]]
    /\ UNCHANGED <<store, bound, version, job, cache, visitor, commits, answered, touched>>

Request(pc, op, patch, opened) ==
    [pc |-> pc, op |-> op, patch |-> patch, notify |-> NoEdit,
     since |-> commits, opened |-> opened]

(* Mutant: the guard looks at the stored address, not at the open socket. *)
ClearBlockedByStore == store.host # "loopback"

ClearBlocked == bound # "loopback"

(* POST /settings: a form that would clear the token of a reachable        *)
(* service is answered with 409 and the page.                              *)
Submit(w, op) ==
    /\ Room
    /\ At(w, "page")
    /\ op.clear => ~ClearBlocked
    /\ writer' = [writer EXCEPT ![w] =
          Request("read", op, Filled(op.set, writer[w].page), writer[w].opened)]
    /\ UNCHANGED <<store, bound, version, job, cache, visitor, commits, answered, touched>>

(* PATCH /api/v1/settings and POST /settings/listen. *)
Call(w, op) ==
    /\ Room
    /\ writer[w] = Idle
    /\ writer' = [writer EXCEPT ![w] =
          Request(IF op.via = "switch" THEN "merge" ELSE "read", op, op.set, commits)]
    /\ UNCHANGED <<store, bound, version, job, cache, visitor, commits, answered, touched>>

Acceptable(op) == "interval" \in DOMAIN op.set => op.set.interval \in Valid

(* The first read: settings_save's `before', patch_settings' current. *)
ReadBefore(w) ==
    /\ At(w, "read")
    /\ Acceptable(writer[w].op)
    /\ LET op == writer[w].op
           given == writer[w].patch
       IN writer' = [writer EXCEPT ![w].pc = "merge",
                       ![w].patch = IF op.via = "page" THEN FormPatch(given, op.clear, store)
                                    ELSE Normalize(given, store)]
    /\ UNCHANGED <<store, bound, version, job, cache, visitor, commits, answered, touched>>

(* SettingsValueError: answered with 400, nothing is written. *)
Refuse(w) ==
    /\ At(w, "read")
    /\ ~Acceptable(writer[w].op)
    /\ writer' = [writer EXCEPT ![w] = Idle]
    /\ UNCHANGED <<store, bound, version, job, cache, visitor, commits, answered, touched>>

(* SettingsRepository.update reads all(), outside its transaction. *)
ReadMerge(w) ==
    /\ At(w, "merge")
    /\ writer' = [writer EXCEPT ![w].pc = "commit", ![w].notify = store.notify]
    /\ UNCHANGED <<store, bound, version, job, cache, visitor, commits, answered, touched>>

ValueOf(s, f) == IF f[1] = "service" THEN s[f[2]] ELSE s.notify[f]

Writes(patch, f) ==
    IF f[1] = "service" THEN f[2] \in DOMAIN patch
    ELSE "notify" \in DOMAIN patch /\ f \in DOMAIN patch.notify

(* The fields a request means to set. *)
Meant(op) ==
    {f \in Field : Writes(op.set, f)}
    \cup (IF op.clear THEN {"service"} \X {"token", "lan"} ELSE {})

Committed(patch, notify) ==
    IF "notify" \in DOMAIN patch
    THEN Over(Over([notify |-> Over(patch.notify, notify)], patch), store)
    ELSE Over(patch, store)

Touch(meant) ==
    touched' = [f \in Field |->
        IF f \in meant \/ ValueOf(store', f) # ValueOf(store, f)
        THEN commits + 1 ELSE touched[f]]

Commit(w) ==
    /\ At(w, "commit")
    /\ store' = Committed(writer[w].patch, writer[w].notify)
    /\ commits' = commits + 1
    /\ Touch(Meant(writer[w].op))
    /\ writer' = [writer EXCEPT ![w] =
          [pc |-> "count", wish |-> commits + 1, retimes |-> Retimes(writer[w].op)]]
    /\ UNCHANGED <<bound, version, job, cache, visitor, answered>>

Larger(m, n) == IF m > n THEN m ELSE n

(* self.version += 1, after the transaction. *)
Count(w) ==
    /\ At(w, "count")
    /\ version' = version + 1
    /\ answered' = Larger(answered, writer[w].wish)
    /\ writer' = [writer EXCEPT ![w] =
          IF writer[w].retimes THEN [pc |-> "look"] ELSE Idle]
    /\ UNCHANGED <<store, bound, job, cache, visitor, commits, touched>>

(* reschedule: the settings are read, then the job is replaced. *)
Look(w) ==
    /\ At(w, "look")
    /\ writer' = [writer EXCEPT ![w] = [pc |-> "retime", wish |-> JobFor(store)]]
    /\ UNCHANGED <<store, bound, version, job, cache, visitor, commits, answered, touched>>

Retime(w) ==
    /\ At(w, "retime")
    /\ job' = writer[w].wish
    /\ writer' = [writer EXCEPT ![w] = Idle]
    /\ UNCHANGED <<store, bound, version, cache, visitor, commits, answered, touched>>

-----------------------------------------------------------------------------
(* The access check.  `at' tells which transaction a copy is from.         *)

Out == [pc |-> "out"]

Current == version = cache.version

(* What a copy of the settings decides with: the bound host overrides. *)
Copy(s, h) == [token |-> s.token, needs |-> h # "loopback", at |-> commits]

(* _auth_state up to its first await: the copy, if its version is current. *)
Arrive(v) ==
    /\ bound # "off"
    /\ visitor[v] = Out
    /\ visitor' = [visitor EXCEPT ![v] =
          IF Current THEN [pc |-> "judged", since |-> answered, by |-> cache.copy]
                     ELSE [pc |-> "queued", since |-> answered]]
    /\ UNCHANGED <<store, bound, version, job, writer, cache, commits, answered, touched>>

Refreshing == \E v \in Visitor : visitor[v].pc \in {"fetch", "keep"}

(* _refresh_lock is taken, and the versions are compared again. *)
Enter(v) ==
    /\ visitor[v].pc = "queued"
    /\ ~Refreshing
    /\ visitor' = [visitor EXCEPT ![v] =
          IF Current THEN [pc |-> "judged", since |-> visitor[v].since, by |-> cache.copy]
          ELSE [pc |-> "fetch", since |-> visitor[v].since, version |-> version]]
    /\ UNCHANGED <<store, bound, version, job, writer, cache, commits, answered, touched>>

Fetch(v) ==
    /\ visitor[v].pc = "fetch"
    /\ visitor' = [visitor EXCEPT ![v] =
          [pc |-> "keep", since |-> visitor[v].since, version |-> visitor[v].version,
           copy |-> Copy(store, bound)]]
    /\ UNCHANGED <<store, bound, version, job, writer, cache, commits, answered, touched>>

(* Mutant: the version stored is the one after the read. *)
KeptLatest(v) == [version |-> version, copy |-> visitor[v].copy]

Kept(v) == [version |-> visitor[v].version, copy |-> visitor[v].copy]

Keep(v) ==
    /\ visitor[v].pc = "keep"
    /\ cache' = Kept(v)
    /\ visitor' = [visitor EXCEPT ![v] =
          [pc |-> "judged", since |-> visitor[v].since, by |-> visitor[v].copy]]
    /\ UNCHANGED <<store, bound, version, job, writer, commits, answered, touched>>

(* _reject decides by that copy, and the request goes on or is refused. *)
Leave(v) ==
    /\ visitor[v].pc = "judged"
    /\ visitor' = [visitor EXCEPT ![v] = Out]
    /\ UNCHANGED <<store, bound, version, job, writer, cache, commits, answered, touched>>

-----------------------------------------------------------------------------
(* Start, stop, and the import that demands a stopped service.             *)

Blank == [token |-> "none", needs |-> FALSE, at |-> 0]

(* serve: --host is saved by --persist, and the environment's token if     *)
(* there is none, before the address is checked.                           *)
Serve(host, persist) ==
    /\ bound = "off"
    /\ LET given == IF EnvToken /\ store.token = "none" THEN [store EXCEPT !.token = "env"] ELSE store
           h == IF host = "unset" THEN given.host ELSE host
           saved == IF persist THEN [given EXCEPT !.host = h] ELSE given
           runs == h = "any" => saved.token # "none"
       IN /\ saved # store => commits < MaxCommits
          /\ store' = saved
          /\ commits' = IF saved # store THEN commits + 1 ELSE commits
          /\ answered' = commits'
          /\ bound' = IF runs THEN h ELSE "off"
          /\ job' = IF runs THEN JobFor(saved) ELSE NoJob
    /\ version' = 0
    /\ cache' = [version |-> -1, copy |-> Blank]
    /\ Touch({})
    /\ UNCHANGED <<writer, visitor>>

Stop ==
    /\ bound # "off"
    /\ InFlight = {}
    /\ \A v \in Visitor : visitor[v] = Out
    /\ bound' = "off"
    /\ job' = NoJob
    /\ UNCHANGED <<store, version, writer, cache, visitor, commits, answered, touched>>

(* import_config without and with --include-secrets, in one transaction. *)
Import(set, secrets) ==
    /\ bound = "off"
    /\ commits < MaxCommits
    /\ LET patch == [k \in (DOMAIN set) \ (IF secrets THEN {} ELSE {"token", "notify"}) |-> set[k]]
       IN store' = Committed(Normalize(patch, store), store.notify)
    /\ commits' = commits + 1
    /\ answered' = commits + 1
    /\ Touch({})
    /\ UNCHANGED <<bound, version, job, writer, cache, visitor>>

Files == {[host |-> h, lan |-> h = "any", token |-> t] : h \in Host, t \in {"none", "typed"}}

-----------------------------------------------------------------------------

SettingsInit ==
    /\ store \in {s \in Settings : s.token \in {"none", "typed"} /\ s.host = HostFor(s.lan) /\ s.listen
                                   /\ s.interval = 60 /\ s.notify = [p \in Part |-> "blank"]}
    /\ bound = "off"
    /\ version = 0
    /\ job = NoJob
    /\ writer = [w \in Writer |-> Idle]
    /\ cache = [version |-> -1, copy |-> Blank]
    /\ visitor = [v \in Visitor |-> Out]
    /\ commits = 0
    /\ answered = 0
    /\ touched = [f \in Field |-> 0]

WriterStep(w) ==
    \/ OpenPage(w)
    \/ \E op \in PageOps : Submit(w, op)
    \/ \E op \in CallOps : Call(w, op)
    \/ ReadBefore(w) \/ Refuse(w) \/ ReadMerge(w) \/ Commit(w) \/ Count(w)
    \/ Look(w) \/ Retime(w)

VisitorStep(v) == Arrive(v) \/ Enter(v) \/ Fetch(v) \/ Keep(v) \/ Leave(v)

SettingsNext ==
    \/ \E w \in Writer : WriterStep(w)
    \/ \E v \in Visitor : VisitorStep(v)
    \/ \E h \in Host \cup {"unset"}, p \in BOOLEAN : Serve(h, p)
    \/ Stop
    \/ \E f \in Files, s \in BOOLEAN : Import(f, s)

SettingsSpec == SettingsInit /\ [][SettingsNext]_settingsVars

-----------------------------------------------------------------------------
(* Properties.                                                             *)

(* A request is judged by settings at least as new as the last change that *)
(* was counted before it arrived: the copy's version is read before the    *)
(* copy and counted after the commit (auth.py 166-176, settings.py 75).    *)
FreshVerdict ==
    \A v \in Visitor : visitor[v].pc = "judged" => visitor[v].by.at >= visitor[v].since

(* A service on a reachable address keeps a token as long as it runs:      *)
(* whatever forms, patches and imports do meanwhile, and although the      *)
(* stored address may already be another (routes_settings.py 37-47).       *)
BoundHasToken == bound = "any" => store.token # "none"

(* A field that a request does not mean to set is overwritten only if      *)
(* somebody has set it since the request got to know it.  A secret or the  *)
(* token that was set before the request began is never undone: only       *)
(* requests that overlap overwrite each other (storage/settings.py 54).    *)
(* What the page shows is posted as the page shows it, so a form undoes    *)
(* what was changed after its page was opened, and nothing else            *)
(* (settings_public.py 66-126).  A token may be made where there is none.  *)
Learned(w, f) == IF f \in Shown THEN writer[w].opened ELSE writer[w].since

ChangesSurvive ==
    [][\A w \in Writer, f \in Field :
          (/\ At(w, "commit") /\ writer'[w].pc = "count"
           /\ f \notin Meant(writer[w].op)
           /\ ValueOf(store', f) # ValueOf(store, f)
           /\ f = <<"service", "token">> => store.token # "none")
          => touched[f] > Learned(w, f)]_settingsVars
=============================================================================
