----------------------------- MODULE StatusView ----------------------------
(***************************************************************************)
(* The status a request answers with and its cached count of the products  *)
(* in stock (status_view.py), against the scans that change the stock      *)
(* (scanner.py, storage/products.py) and the settings that change what is  *)
(* counted.  Requests run on threads of their own; one statement or one    *)
(* transaction of the database is one step.                                *)
(*                                                                         *)
(* A listing is the name of a page of the shop.  A product of MacBook      *)
(* stands on two of them.  Mutant operators are not part of the            *)
(* specification.                                                          *)
(***************************************************************************)
EXTENDS Integers, FiniteSetsExt

CONSTANTS
    Reader,            \* threads that answer requests
    MacBook, Desktop, Tablet,  \* sets of products
    Choosable,         \* sets of listings the user chooses between
    MaxScans,          \* bound: scans committed
    MaxChoices         \* bound: changes of the listings

ASSUME StatusViewAssumption ==
    /\ MacBook \intersect (Desktop \union Tablet) = {} /\ Desktop \intersect Tablet = {}
    /\ \A keys \in Choosable : keys \subseteq {"mac", "macbook-pro", "ipad"}
    /\ IsFiniteSet(MacBook) /\ IsFiniteSet(Desktop) /\ IsFiniteSet(Tablet)
    /\ MaxScans \in Nat /\ MaxChoices \in Nat

VARIABLES
    item,              \* products table: [Product -> [shelf, stock]]
    listings,          \* the setting
    scanFor,           \* listings of the scan under way, {} when there is none
    lastScan, lastCount,  \* last_scan_at, last_product_count
    cached,            \* _stock_count_cache
    req,               \* [Reader -> the request it answers]
    choices,           \* bound
    seen               \* observation only: counts that were true during the request

statusVars == <<item, listings, scanFor, lastScan, lastCount, cached, req, choices, seen>>

-----------------------------------------------------------------------------
(* categories.py.                                                          *)

Wares == MacBook \union Desktop \union Tablet
MacChildListings == {"macbook-pro"}
DefaultListings == {"mac", "ipad", "watch"}

CompactKeys(keys) == IF "mac" \in keys THEN keys \ MacChildListings ELSE keys
ListenKeys(keys) == IF keys = {} THEN DefaultListings ELSE CompactKeys(keys)

PagesOf(p) == CASE p \in MacBook -> {"mac", "macbook-pro"}
                [] p \in Desktop -> {"mac"}
                [] OTHER -> {"ipad"}

(* listing_item_matches: by the page it was found on or by its title.      *)
ItemMatches(key, p, shelf) ==
    \/ key = shelf
    \/ key = "mac" /\ (shelf \in {"mac"} \union MacChildListings \/ p \in MacBook \union Desktop)
    \/ key = "macbook-pro" /\ p \in MacBook
    \/ key = "ipad" /\ p \in Tablet

-----------------------------------------------------------------------------
(* _compute_listen_stock_count: a statement either way.                    *)

InScopeOf(table, keys) ==
    {p \in Wares : table[p].stock /\ \E k \in keys : ItemMatches(k, p, table[p].shelf)}
OnShelvesOf(table, keys) == {p \in Wares : table[p].stock /\ table[p].shelf \in keys}

StockCount(table, chosen) ==
    LET keys == ListenKeys(chosen) IN
    IF keys \intersect MacChildListings # {} THEN Cardinality(InScopeOf(table, keys))
    ELSE Cardinality(OnShelvesOf(table, keys \union (IF "mac" \in keys THEN MacChildListings ELSE {})))

(* Mutant: the time of the scan is left out. *)
KeyOfCount(r) == <<ListenKeys(req[r].chosen), 0, req[r].count>>

StockKey(r) == <<ListenKeys(req[r].chosen), req[r].scan, req[r].count>>

-----------------------------------------------------------------------------
NoRequest == [at |-> "idle"]

(* load_status. *)
ReadChosen(r) ==
    /\ req[r].at = "idle"
    /\ req' = [req EXCEPT ![r] = [at |-> "scan", chosen |-> listings]]
    /\ seen' = [seen EXCEPT ![r] = {StockCount(item, listings)}]
    /\ UNCHANGED <<item, listings, scanFor, lastScan, lastCount, cached, choices>>

ReadLastScan(r) ==
    /\ req[r].at = "scan"
    /\ req' = [req EXCEPT ![r] = [at |-> "lookup", chosen |-> req[r].chosen,
                                  scan |-> lastScan, count |-> lastCount]]
    /\ UNCHANGED <<item, listings, scanFor, lastScan, lastCount, cached, choices, seen>>

LookUp(r) ==
    /\ req[r].at = "lookup"
    /\ req' = [req EXCEPT ![r] = IF cached # <<>> /\ cached[1] = StockKey(r)
                                 THEN [at |-> "told", stock |-> cached[2]]
                                 ELSE [@ EXCEPT !.at = "count"]]
    /\ UNCHANGED <<item, listings, scanFor, lastScan, lastCount, cached, choices, seen>>

CountStock(r) ==
    /\ req[r].at = "count"
    /\ req' = [req EXCEPT ![r] = [at |-> "keep", chosen |-> req[r].chosen, scan |-> req[r].scan,
                                  count |-> req[r].count, stock |-> StockCount(item, req[r].chosen)]]
    /\ UNCHANGED <<item, listings, scanFor, lastScan, lastCount, cached, choices, seen>>

KeepCount(r) ==
    /\ req[r].at = "keep"
    /\ cached' = <<StockKey(r), req[r].stock>>
    /\ req' = [req EXCEPT ![r] = [at |-> "told", stock |-> req[r].stock]]
    /\ UNCHANGED <<item, listings, scanFor, lastScan, lastCount, choices, seen>>

AnswerSent(r) ==
    /\ req[r].at = "told"
    /\ req' = [req EXCEPT ![r] = NoRequest]
    /\ seen' = [seen EXCEPT ![r] = {}]
    /\ UNCHANGED <<item, listings, scanFor, lastScan, lastCount, cached, choices>>

-----------------------------------------------------------------------------
(* SettingsRepository.update of the listings. *)
ChooseListings(chosen) ==
    /\ choices < MaxChoices
    /\ listings' = chosen
    /\ choices' = choices + 1
    /\ UNCHANGED <<item, scanFor, lastScan, lastCount, cached, req, seen>>

(* _run_scan_locked reads the listings, DEFAULT_LISTING_KEY if none are    *)
(* chosen, fetches, and commits at the end.                                *)
ScanBegins ==
    /\ scanFor = {} /\ lastScan < MaxScans
    /\ scanFor' = CompactKeys(IF listings = {} THEN {"mac"} ELSE listings)
    /\ UNCHANGED <<item, listings, lastScan, lastCount, cached, req, choices, seen>>

(* upsert, then mark_listing_stock and mark_listings_out_except. *)
Stocked(found, fetched, chosen) ==
    [p \in Wares |->
        IF p \in found THEN [shelf |-> CHOOSE k \in PagesOf(p) \intersect fetched : TRUE, stock |-> TRUE]
        ELSE [item[p] EXCEPT !.stock = @ /\ ~(fetched # {} /\ (item[p].shelf \in fetched \/ item[p].shelf \notin chosen))]]

(* The counts the table answers with are noted for every request under way. *)
ScanCommits(fetched, found) ==
    /\ scanFor # {} /\ fetched \subseteq scanFor
    /\ found \subseteq {p \in Wares : PagesOf(p) \intersect fetched # {}}
    /\ item' = Stocked(found, fetched, scanFor)
    /\ lastScan' = lastScan + 1 /\ lastCount' = Cardinality(found)
    /\ scanFor' = {}
    /\ seen' = [r \in Reader |-> IF "chosen" \in DOMAIN req[r]
                                 THEN seen[r] \union {StockCount(item', req[r].chosen)} ELSE seen[r]]
    /\ UNCHANGED <<listings, cached, req, choices>>

-----------------------------------------------------------------------------
StatusInit ==
    /\ item = [p \in Wares |-> [shelf |-> CHOOSE k \in PagesOf(p) : TRUE, stock |-> FALSE]]
    /\ listings \in Choosable
    /\ scanFor = {} /\ lastScan = 0 /\ lastCount = 0 /\ cached = <<>>
    /\ req = [r \in Reader |-> NoRequest]
    /\ choices = 0 /\ seen = [r \in Reader |-> {}]

StatusNext ==
    \/ \E r \in Reader :
          ReadChosen(r) \/ ReadLastScan(r) \/ LookUp(r) \/ CountStock(r) \/ KeepCount(r) \/ AnswerSent(r)
    \/ \E chosen \in Choosable : ChooseListings(chosen)
    \/ ScanBegins
    \/ \E fetched \in SUBSET scanFor, found \in SUBSET Wares : ScanCommits(fetched, found)

StatusSpec == StatusInit /\ [][StatusNext]_statusVars

-----------------------------------------------------------------------------
(* The count a request answers with is the count of the listings it read,  *)
(* true at some moment while it was being answered: neither a scan that    *)
(* commits between the reads, nor a count another thread put in the cache  *)
(* for an older scan or for other listings, makes it tell an old stock     *)
(* (_listen_stock_count).                                                  *)
CountWasTrue == \A r \in Reader : req[r].at = "told" => req[r].stock \in seen[r]
=============================================================================
