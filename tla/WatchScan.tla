------------------------------ MODULE WatchScan ------------------------------
(***************************************************************************)
(* What a scan does to the watches: scanner.py's _run_scan_locked with the *)
(* repositories it writes (storage/watches.py, products.py, settings.py),  *)
(* and the requests of web/routes_watches.py and the settings page that    *)
(* run while it is out on the network.                                     *)
(*                                                                         *)
(* A scan reads the settings and the enabled watches once, fetches for     *)
(* minutes, and commits everything in one transaction, against snapshots   *)
(* that may be stale by then.  Each read, each fetch and the transaction   *)
(* are one step.  (Settings and watches are read by two statements in a    *)
(* row: whatever happens between them commutes with one of the two.)       *)
(*                                                                         *)
(* A timestamp is modelled by what the code compares it with: `fresh` is   *)
(* the set of watches with created_at >= last_success_at, and the marker   *)
(* of a sold-out hit is the number of its mark-out instead of updated_at.  *)
(*                                                                         *)
(* An operator whose comment starts with "Mutant" is no part of the        *)
(* specification: it is the definition below it with a plausible bug.      *)
(***************************************************************************)
EXTENDS Integers, FiniteSets

CONSTANTS
    Scanner,       \* processes that scan one database
    Sku,
    Listing,       \* category pages
    Shelf,         \* the category page of each SKU
    DetailSku,     \* SKUs whose specifications are on the detail page only
    EventKeep,     \* EVENT_KEEP
    MaxWatches,    \* bound: watches ever created
    MaxMoves,      \* bound: changes of the shop's stock
    MaxEdits,      \* bound: changes the user makes to watches and settings
    MaxAborts      \* bound: scans that end with an exception or a crash

ASSUME WatchScanAssumption ==
    /\ Shelf \in [Sku -> Listing]
    /\ DetailSku \subseteq Sku
    /\ EventKeep \in Nat \ {0}
    /\ MaxWatches \in Nat
    /\ MaxMoves \in Nat
    /\ MaxEdits \in Nat
    /\ MaxAborts \in Nat

Watch == 1..MaxWatches               \* AUTOINCREMENT ids, never reused

VARIABLES
    stock,         \* what the shop really sells now
    listings,      \* settings: the categories to scan
    baseline,      \* settings: baseline_done
    state, rule,   \* watches: life cycle, and the SKUs that would match
    fresh,         \* watches with created_at >= last_success_at
    row, marker,   \* watch_sku: hit state, mark-out number (0 if not "out")
    catalog,       \* products with in_stock = 1
    specs,         \* spec_cache: SKUs whose specifications are known
    events,        \* live fingerprints <<watch, sku, marker>> of "appeared"
    scan,          \* the local variables of _run_scan_locked
    outs,          \* scans so far that marked a hit sold out
    (* observation only: SKUs that arrived in the shop since the watch last
       had them in stock; pairs a complete scan settled without looking;
       SKUs that were missing at some time since a scan began            *)
    arrived, unseen, gone,
    moves, edits, aborts

settings == <<listings, baseline>>
watches == <<state, rule, fresh>>
store == <<row, marker, catalog, specs, events, outs>>
vars == <<stock, settings, watches, store, scan, arrived, unseen, gone,
          moves, edits, aborts>>

Idle == [at |-> "idle", base |-> FALSE, listings |-> {}, watches |-> {},
         rule |-> [w \in Watch |-> {}], seeds |-> {}, todo |-> {},
         fetched |-> {}, found |-> {}, blind |-> {}, learned |-> {},
         known |-> {}]

Exists(w) == state[w] \in {"on", "off"}

Init ==
    /\ stock \in SUBSET Sku
    /\ listings \in (SUBSET Listing) \ {{}}
    /\ baseline = FALSE
    /\ state = [w \in Watch |-> "new"]
    /\ rule = [w \in Watch |-> {}]
    /\ fresh = {}
    /\ row = [w \in Watch |-> [s \in Sku |-> "none"]]
    /\ marker = [w \in Watch |-> [s \in Sku |-> 0]]
    /\ catalog = {}
    /\ specs = {}
    /\ events = {}
    /\ scan = [p \in Scanner |-> Idle]
    /\ outs = 0
    /\ arrived = [w \in Watch |-> {}]
    /\ unseen = {}
    /\ gone = [p \in Scanner |-> {}]
    /\ moves = 0
    /\ edits = 0
    /\ aborts = 0

-----------------------------------------------------------------------------
(* The shop and the user                                                   *)

Arrive(s) ==
    /\ s \notin stock
    /\ stock' = stock \cup {s}
    /\ arrived' = [w \in Watch |-> IF Exists(w) THEN arrived[w] \cup {s}
                                   ELSE arrived[w]]
    /\ UNCHANGED gone

SellOut(s) ==
    /\ s \in stock
    /\ stock' = stock \ {s}
    /\ gone' = [p \in Scanner |-> IF scan[p].at = "idle" THEN {}
                                  ELSE gone[p] \cup {s}]
    /\ UNCHANGED arrived

ShopMoves ==
    /\ moves < MaxMoves
    /\ moves' = moves + 1
    /\ \E s \in Sku : Arrive(s) \/ SellOut(s)
    /\ UNCHANGED <<settings, watches, store, scan, unseen, edits, aborts>>

\* create(): created_at is now, hence later than last_success_at.
CreateWatch(w, r) ==
    /\ state[w] = "new"
    /\ \A v \in 1..(w - 1) : state[v] # "new"
    /\ state' = [state EXCEPT ![w] = "on"]
    /\ rule' = [rule EXCEPT ![w] = r]
    /\ fresh' = fresh \cup {w}
    /\ UNCHANGED <<stock, settings, store, scan, arrived, unseen, gone, moves,
                   edits, aborts>>

Edit == edits < MaxEdits /\ edits' = edits + 1

ToggleWatch(w) ==
    /\ Edit
    /\ Exists(w)
    /\ state' = [state EXCEPT ![w] = IF @ = "on" THEN "off" ELSE "on"]
    /\ UNCHANGED <<stock, settings, rule, fresh, store, scan, arrived, unseen,
                   gone, moves, aborts>>

\* update(): the filters change, created_at does not.
UpdateWatch(w, r) ==
    /\ Edit
    /\ Exists(w)
    /\ r # rule[w]
    /\ rule' = [rule EXCEPT ![w] = r]
    /\ UNCHANGED <<stock, settings, state, fresh, store, scan, arrived, unseen,
                   gone, moves, aborts>>

\* delete() removes the hits, too; the events stay.
DeleteWatch(w) ==
    /\ Edit
    /\ Exists(w)
    /\ state' = [state EXCEPT ![w] = "deleted"]
    /\ row' = [row EXCEPT ![w] = [s \in Sku |-> "none"]]
    /\ marker' = [marker EXCEPT ![w] = [s \in Sku |-> 0]]
    /\ fresh' = fresh \ {w}
    /\ UNCHANGED <<stock, settings, rule, catalog, specs, events, outs, scan,
                   arrived, unseen, gone, moves, aborts>>

\* watch_hit_delete: only a sold-out hit may be removed.
ForgetHit(w, s) ==
    /\ Edit
    /\ Exists(w)
    /\ row[w][s] = "out"
    /\ row' = [row EXCEPT ![w][s] = "none"]
    /\ marker' = [marker EXCEPT ![w][s] = 0]
    /\ UNCHANGED <<stock, settings, watches, catalog, specs, events, outs,
                   scan, arrived, unseen, gone, moves, aborts>>

\* Mutant: safe_listings has no default for an empty selection.
SetAnyListings(L) ==
    /\ Edit
    /\ L # listings
    /\ listings' = L
    /\ UNCHANGED <<stock, baseline, watches, store, scan, arrived, unseen,
                   gone, moves, aborts>>

\* safe_listings: never an empty selection.
SetListings(L) ==
    /\ Edit
    /\ L # listings
    /\ L # {}
    /\ listings' = L
    /\ UNCHANGED <<stock, baseline, watches, store, scan, arrived, unseen,
                   gone, moves, aborts>>

ClearEvents ==
    /\ Edit
    /\ events # {}
    /\ events' = {}
    /\ UNCHANGED <<stock, settings, watches, row, marker, catalog, specs, outs,
                   scan, arrived, unseen, gone, moves, aborts>>

User ==
    \/ \E w \in Watch, r \in (SUBSET Sku) \ {{}} :
          CreateWatch(w, r) \/ UpdateWatch(w, r)
    \/ \E w \in Watch : ToggleWatch(w) \/ DeleteWatch(w)
    \/ \E w \in Watch, s \in Sku : ForgetHit(w, s)
    \/ \E L \in SUBSET Listing : SetListings(L)
    \/ ClearEvents

-----------------------------------------------------------------------------
(* The scan                                                                *)

\* Mutant: only the baseline is silent, a new watch is not.
SeedBaselineOnly(on) == IF baseline THEN {} ELSE on

\* _should_seed_watch, evaluated on the snapshots of settings and watches.
Seeds(on) == IF baseline THEN on \cap fresh ELSE on

Begin(p) ==
    /\ scan[p].at = "idle"
    /\ LET on == {w \in Watch : state[w] = "on"}
       IN  scan' = [scan EXCEPT ![p] =
                      [Idle EXCEPT !.at = "fetch", !.base = baseline,
                                   !.listings = listings, !.watches = on,
                                   !.rule = rule, !.seeds = Seeds(on),
                                   !.todo = listings]]
    /\ gone' = [gone EXCEPT ![p] = Sku \ stock]
    /\ UNCHANGED <<stock, settings, watches, store, arrived, unseen, moves,
                   edits, aborts>>

OnShelf(l) == {s \in Sku : Shelf[s] = l}

Fetch(p, l) ==
    /\ scan[p].at = "fetch"
    /\ l \in scan[p].todo
    /\ scan' = [scan EXCEPT ![p].todo = @ \ {l},
                            ![p].fetched = @ \cup {l},
                            ![p].found = @ \cup (stock \cap OnShelf(l))]
    /\ UNCHANGED <<stock, settings, watches, store, arrived, unseen, gone,
                   moves, edits, aborts>>

FetchFails(p, l) ==
    /\ scan[p].at = "fetch"
    /\ l \in scan[p].todo
    /\ scan' = [scan EXCEPT ![p].todo = @ \ {l}]
    /\ UNCHANGED <<stock, settings, watches, store, arrived, unseen, gone,
                   moves, edits, aborts>>

\* _needs_detail, after the specification cache has been consulted.
NeedsDetail(p) ==
    {s \in scan[p].found \cap DetailSku :
        s \notin specs /\ \E w \in scan[p].watches : s \in scan[p].rule[w]}

\* The detail pages, some of which fail, then observed_at = utcnow(): the
\* watches that exist by now are older than this scan's last_success_at.
Observe(p) ==
    /\ scan[p].at = "fetch"
    /\ scan[p].todo = {}
    /\ \E failed \in SUBSET NeedsDetail(p) :
          scan' = [scan EXCEPT ![p].at = "commit",
                               ![p].blind = failed,
                               ![p].learned = NeedsDetail(p) \ failed,
                               ![p].known = {w \in Watch : Exists(w)}]
    /\ UNCHANGED <<stock, settings, watches, store, arrived, unseen, gone,
                   moves, edits, aborts>>

Complete(p) == scan[p].fetched # {} /\ scan[p].fetched = scan[p].listings

\* The SKUs this scan shows to watch w, and those of them that matched.
Matched(p, w) == (scan[p].found \cap scan[p].rule[w]) \ scan[p].blind

\* Mutant: a partial scan records nothing new.
KnownIfPartial(p, w) ==
    IF w \notin scan[p].watches THEN {}
    ELSE IF Complete(p) THEN Matched(p, w)
    ELSE {s \in Matched(p, w) : row[w][s] = "in"}

Present(p, w) == IF w \in scan[p].watches THEN Matched(p, w) ELSE {}

\* Neither seeded nor already in stock and notified.
Appeared(p, w) ==
    {s \in Present(p, w) : w \notin scan[p].seeds /\ row[w][s] # "in"}

\* Mutant: the categories that failed are not spared.
AllLeave(p, w) ==
    {s \in Sku : w \in scan[p].watches /\ row[w][s] = "in"
                 /\ s \notin Present(p, w)}

\* mark_watch_skus_out: with every category after a complete scan.
Leaving(p, w) ==
    {s \in Sku :
        /\ w \in scan[p].watches
        /\ row[w][s] = "in"
        /\ s \notin Present(p, w)
        /\ Complete(p) \/ Shelf[s] \in scan[p].fetched}

\* Mutant: the fingerprint does not tell one restock from another.
UnmarkedFingerprint(w, s) == <<w, s, 0>>

\* event_fingerprint("appeared", ...) with the old state's updated_at.
Fingerprint(w, s) == <<w, s, marker[w][s]>>

\* add() for each appearance, keeping the newest EventKeep events: a stored
\* fingerprint adds nothing, and the older events go first.
AddEvents(new) ==
    \E kept \in SUBSET (events \cup new) :
        /\ Cardinality(kept) = LET n == Cardinality(events \cup new)
                               IN  IF n < EventKeep THEN n ELSE EventKeep
        /\ new \ events \subseteq kept \/ kept \subseteq new \ events
        /\ events' = kept

\* mark_listing_stock and mark_listings_out_except.
NewCatalog(p) ==
    IF scan[p].fetched = {} THEN catalog
    ELSE {s \in Sku : /\ Shelf[s] \in scan[p].listings
                      /\ IF Shelf[s] \in scan[p].fetched
                         THEN s \in scan[p].found ELSE s \in catalog}

\* Observation: did this scan look at SKU s for watch w?
LooksAt(p, w, s) ==
    /\ w \in scan[p].watches
    /\ s \in scan[p].rule[w] \ scan[p].blind
    /\ Shelf[s] \in scan[p].listings

\* Observation: w is past its silent first scan, or lost a hit, unlooked.
SettledUnseen(p, w, s) ==
    /\ ~LooksAt(p, w, s)
    /\ \/ s \in Leaving(p, w)
       \/ /\ Complete(p)
          /\ w \in scan[p].known \cap (fresh \cup scan[p].watches)

Commit(p) ==
    /\ scan[p].at = "commit"
    /\ row' = [w \in Watch |-> [s \in Sku |->
                 IF s \in Present(p, w) THEN "in"
                 ELSE IF s \in Leaving(p, w) THEN "out" ELSE row[w][s]]]
    /\ marker' = [w \in Watch |-> [s \in Sku |->
                    IF s \in Present(p, w) THEN 0
                    ELSE IF s \in Leaving(p, w) THEN outs + 1
                    ELSE marker[w][s]]]
    /\ outs' = IF \E w \in Watch : Leaving(p, w) # {} THEN outs + 1 ELSE outs
    /\ AddEvents({Fingerprint(x[1], x[2]) :
                    x \in {y \in Watch \X Sku : y[2] \in Appeared(p, y[1])}})
    /\ catalog' = NewCatalog(p)
    /\ specs' = specs \cup scan[p].learned
    /\ IF Complete(p)
       THEN /\ baseline' = TRUE
            /\ fresh' = {w \in Watch : Exists(w) /\ w \notin scan[p].known}
       ELSE UNCHANGED <<baseline, fresh>>
    /\ arrived' = [w \in Watch |-> arrived[w] \ Present(p, w)]
    /\ unseen' = {x \in Watch \X Sku :
                    \/ SettledUnseen(p, x[1], x[2])
                    \/ /\ x \in unseen
                       /\ \/ ~LooksAt(p, x[1], x[2])
                          \/ Shelf[x[2]] \notin scan[p].fetched}
    /\ scan' = [scan EXCEPT ![p] = Idle]
    /\ gone' = [gone EXCEPT ![p] = {}]
    /\ UNCHANGED <<stock, listings, state, rule, moves, edits, aborts>>

\* An exception, in the transaction or before it, or the end of the process:
\* nothing of the snapshot is stored.
Abort(p) ==
    /\ scan[p].at # "idle"
    /\ aborts < MaxAborts
    /\ aborts' = aborts + 1
    /\ scan' = [scan EXCEPT ![p] = Idle]
    /\ gone' = [gone EXCEPT ![p] = {}]
    /\ UNCHANGED <<stock, settings, watches, store, arrived, unseen, moves,
                   edits>>

ScanStep(p) ==
    \/ Begin(p)
    \/ \E l \in Listing : Fetch(p, l) \/ FetchFails(p, l)
    \/ Observe(p)
    \/ Commit(p)
    \/ Abort(p)

Next == ShopMoves \/ User \/ \E p \in Scanner : ScanStep(p)

Spec == Init /\ [][Next]_vars

\* The scheduler keeps scanning, and neither a category page, nor the detail
\* pages, nor the transaction fails for ever.
Clean(p, l) == l \in scan'[p].fetched /\ scan'[p].blind = {}
CommitsFound(p, l) == l \in scan[p].fetched /\ scan[p].blind = {} /\ Commit(p)

FairSpec ==
    /\ Spec
    /\ \A p \in Scanner :
        /\ WF_vars(Begin(p))
        /\ WF_vars(\E l \in Listing : Fetch(p, l) \/ FetchFails(p, l))
        /\ WF_vars(Observe(p))
        /\ WF_vars(Commit(p))
        /\ \A l \in Listing : /\ SF_vars(Fetch(p, l))
                              /\ SF_vars(Observe(p) /\ Clean(p, l))
                              /\ SF_vars(CommitsFound(p, l))

-----------------------------------------------------------------------------
(* Properties                                                              *)

\* Every variable has its type.
TypeOK ==
    /\ stock \in SUBSET Sku
    /\ listings \in (SUBSET Listing) \ {{}}
    /\ baseline \in BOOLEAN
    /\ state \in [Watch -> {"new", "on", "off", "deleted"}]
    /\ rule \in [Watch -> SUBSET Sku]
    /\ fresh \in SUBSET Watch
    /\ row \in [Watch -> [Sku -> {"none", "in", "out"}]]
    /\ marker \in [Watch -> [Sku -> 0..outs]]
    /\ catalog \in SUBSET Sku
    /\ specs \in SUBSET DetailSku
    /\ events \in SUBSET (Watch \X Sku \X (0..outs))
    /\ scan \in [Scanner ->
         [at : {"idle", "fetch", "commit"}, base : BOOLEAN,
          listings : SUBSET Listing, watches : SUBSET Watch,
          rule : [Watch -> SUBSET Sku], seeds : SUBSET Watch,
          todo : SUBSET Listing, fetched : SUBSET Listing,
          found : SUBSET Sku, blind : SUBSET Sku, learned : SUBSET DetailSku,
          known : SUBSET Watch]]
    /\ outs \in Nat
    /\ arrived \in [Watch -> SUBSET Sku]
    /\ unseen \in SUBSET (Watch \X Sku)
    /\ gone \in [Scanner -> SUBSET Sku]
    /\ moves \in 0..MaxMoves
    /\ edits \in 0..MaxEdits
    /\ aborts \in 0..MaxAborts

\* A scan stores an event that was not stored before.
Pushed(w, s) == \E m \in 0..outs : <<w, s, m>> \in events' \ events

\* A SKU is announced to a watch only if it arrived in the shop since the
\* watch was created and last had it in stock.  Exempt are the pairs that a
\* complete scan settled without looking and the watches deleted while a scan
\* was using them: what README.md:202 leaves out.
PushJustified ==
    [][\A w \in Watch, s \in Sku : Pushed(w, s) =>
          s \in arrived[w] \/ <<w, s>> \in unseen \/ state[w] = "deleted"]_vars

\* README.md:202, without the exemptions: only products that appear later, or
\* come back after having been sold out, are pushed.
OnlyArrivalsArePushed ==
    [][\A w \in Watch, s \in Sku : Pushed(w, s) => s \in arrived[w]]_vars

\* The same for the watches that a user has deleted.
DeletedWatchIsQuiet ==
    [][\A w \in Watch, s \in Sku :
          Pushed(w, s) /\ state[w] = "deleted" => s \in arrived[w]]_vars

\* A hit that was sold out and is in stock again is announced, unless the
\* watch is still in its silent first scan.
RestockPushed ==
    [][\A w \in Watch, s \in Sku :
          row[w][s] = "out" /\ row'[w][s] = "in" =>
              \/ Pushed(w, s)
              \/ \E p \in Scanner : w \in scan[p].seeds /\ Commit(p)]_vars

\* README.md:202 and the comment at scanner.py:307: every SKU that comes (back)
\* into a watch's stock outside its silent scans makes a new event.
EveryAppearancePushed ==
    [][\A w \in Watch, s \in Sku :
          row[w][s] # "in" /\ row'[w][s] = "in" /\ state[w] # "deleted" =>
              \/ Pushed(w, s)
              \/ \E p \in Scanner : w \in scan[p].seeds /\ Commit(p)]_vars

\* A hit or a product is marked sold out only by a scan during which the shop
\* was out of it, or that was not to look for it: a category that could not
\* be fetched proves nothing.
SoldOutIsReal ==
    [][\A p \in Scanner, s \in Sku :
          scan[p].at = "commit" /\ scan'[p] # scan[p] =>
              /\ s \in catalog \ catalog' =>
                    s \in gone[p] \/ Shelf[s] \notin scan[p].listings
              /\ \A w \in Watch :
                    row[w][s] = "in" /\ row'[w][s] = "out" =>
                        \/ s \in gone[p]
                        \/ Shelf[s] \notin scan[p].listings
                        \/ s \notin scan[p].rule[w]]_vars

\* A SKU that stays in a scanned category and that an enabled watch wants ends
\* up among the hits of the watch, however the fetches fail on the way.
Wanted(w, s) == /\ state[w] = "on"
                /\ s \in rule[w] \cap stock
                /\ Shelf[s] \in listings

StockIsNoticed ==
    \A w \in Watch, s \in Sku : <>[]Wanted(w, s) => <>[](row[w][s] = "in")
=============================================================================
