------------------------------ MODULE ShopPage -----------------------------
(***************************************************************************)
(* The page of products in stock: which products a listing shows, the      *)
(* facets with their counts, the filters picked, and the pages the rows    *)
(* are loaded by (categories.py, query.py, listing.py, filters/,           *)
(* usecases.list_shop, web/routes_pages.home, client.listings).  Scans and *)
(* settings may change what is listed between two requests.                *)
(*                                                                         *)
(* Three dimensions stand for all: one taken from a column, one that the   *)
(* shop's data, a column or a label may give, one that belongs to Macs     *)
(* only.  A title is the set of the words the rules look for.              *)
(***************************************************************************)
EXTENDS Integers, Sequences, FiniteSetsExt, Ranking

CONSTANTS
    Item,          \* products, numbers that stand for their SKUs
    Facts,         \* [Item -> what the products table has of it], price 0 when it has none
    PageSize,      \* PAGE_SIZE
    MaxRequests,   \* bound: pages opened and options picked
    MaxChanges     \* bound: scans that change the stock, changes of the listings

ASSUME ShopAssumption ==
    /\ Item \subseteq Nat /\ IsFiniteSet(Item) /\ PageSize \in Nat \ {0}
    /\ \A i \in Item : {"shelf", "title", "model", "color", "label", "raw", "ram", "price"}
                           \subseteq DOMAIN Facts[i]
    /\ \A i \in Item : Facts[i].price \in Nat
    /\ MaxRequests \in Nat /\ MaxChanges \in Nat

VARIABLES
    inStock,       \* products with in_stock
    wanted,        \* the listings of the settings
    page,          \* what the browser shows
    requests, changes

shopVars == <<inStock, wanted, page, requests, changes>>

None == "none"

-----------------------------------------------------------------------------
(* categories.py.                                                          *)

MacChildren == {"macbook-pro", "macbook-air"}
Selections == {{"mac"}, {"macbook-pro"}, {"ipad"}, {"mac", "ipad"}, {"ipad", "accessories"}}

Compacted(keys) == IF "mac" \in keys THEN keys \ MacChildren ELSE keys
Family(key) == IF key \in MacChildren THEN "mac" ELSE key
Families(keys) == {Family(k) : k \in Compacted(keys)}

(* canonical_shop_listing_key: "" stands for every family. *)
ShownListing(key, keys) ==
    CASE Cardinality(Families(keys)) = 1 -> CHOOSE f \in Families(keys) : TRUE
      [] OTHER -> IF Family(key) \in Families(keys) THEN Family(key) ELSE ""

TitleWords(key) ==
    CASE key = "mac" -> {"Mac", "Studio Display"}
      [] key = "ipad" -> {"iPad", "Pencil"}
      [] key = "accessories" -> {"Pencil", "Studio Display"}
      [] key = "macbook-pro" -> {"MacBook Pro"}
      [] OTHER -> {}

Models(key) ==
    CASE key = "mac" -> {"display"}
      [] key = "accessories" -> {"display", "ipadaccessories"}
      [] key = "macbook-pro" -> {"macbookpro"}
      [] OTHER -> {}

(* listing_item_matches. *)
InListing(key, i) ==
    \/ key = "" \/ Facts[i].shelf = key
    \/ key = "mac" /\ Facts[i].shelf \in MacChildren
    \/ Facts[i].model \in Models(key)
    \/ Facts[i].title \intersect TitleWords(key) # {}

InScope(i) == \E key \in Compacted(wanted) : InListing(key, i)

-----------------------------------------------------------------------------
(* filters/.                                                               *)

DimKeys(listing) ==
    CASE listing = "mac" -> {"model", "color", "memory"}
      [] listing = "ipad" -> {"model", "color"}
      [] listing = "accessories" -> {"model"}
      [] OTHER -> {}

ColorNames == [spacegray |-> "space_gray", grayLabel |-> "space_gray", yellowLabel |-> "yellow"]
Materials == {"aluminum", "titanium"}
ColorListings == [silver |-> {"mac", "ipad"}, space_gray |-> {"mac", "ipad"}, yellow |-> {"mac"}]

(* _canonical_dim. *)
Canonical(key, token) ==
    IF key = "color" /\ token \in DOMAIN ColorNames THEN ColorNames[token] ELSE token

ColorOf(i) ==
    LET named == Canonical("color", Facts[i].label) IN
    CASE Facts[i].color \notin Materials \union {None} -> Canonical("color", Facts[i].color)
      [] OTHER -> IF named \in DOMAIN ColorListings THEN named ELSE None

(* product_dims: what the shop says, else what the columns say. *)
DimOf(i, key) ==
    CASE key \in DOMAIN Facts[i].raw -> Canonical(key, Facts[i].raw[key])
      [] key = "model" -> Facts[i].model
      [] key = "memory" -> Facts[i].ram
      [] OTHER -> ColorOf(i)

(* dims_match. *)
DimsMatch(i, picks) == \A key \in DOMAIN picks : DimOf(i, key) \in picks[key]

(* _value_listings. *)
ListingsOf(key, value) ==
    CASE key = "color" -> IF value \in DOMAIN ColorListings THEN ColorListings[value] ELSE {"mac", "ipad"}
      [] key = "memory" -> {"mac"}
      [] value = "display" -> {"mac", "accessories"}
      [] value = "ipadaccessories" -> {"ipad", "accessories"}
      [] value = "ipadair" -> {"ipad"}
      [] OTHER -> {"mac"}

(* restrict_dims: a dimension or a value foreign to the listing is dropped. *)
Restricted(picks, listing) ==
    IF listing = "" THEN picks
    ELSE LET left(key) == {v \in picks[key] : listing \in ListingsOf(key, v)}
             keys == {key \in (DOMAIN picks) \intersect DimKeys(listing) : left(key) # {}}
         IN [key \in keys |-> left(key)]

-----------------------------------------------------------------------------
(* usecases.list_shop.                                                     *)

Listed(listing) == {i \in inStock : InScope(i) /\ InListing(listing, i)}

(* sort_products: without a price last, then by price and SKU. *)
NoPrice(i) == Facts[i].price = 0
Cheaper ==
    LET cheaper(i, j) == Facts[i].price < Facts[j].price \/ (Facts[i].price = Facts[j].price /\ i < j)
    IN {pair \in Item \X Item :
           IF NoPrice(pair[1]) = NoPrice(pair[2]) THEN cheaper(pair[1], pair[2]) ELSE NoPrice(pair[2])}

Found(listing, picks) == {i \in Listed(listing) : DimsMatch(i, picks)}
Rows(listing, picks) == InOrder(Found(listing, picks), Cheaper)

(* Mutant: an option is counted with its own dimension's picks applied. *)
AllPicks(picks, key) == picks

OtherPicks(picks, key) == [k \in (DOMAIN picks) \ {key} |-> picks[k]]

(* facet_groups with refine: the products behind each option. *)
OptionCount(listing, picks, key, value) ==
    Cardinality({i \in Listed(listing) : DimsMatch(i, OtherPicks(picks, key)) /\ DimOf(i, key) = value})

Counts(listing, picks) ==
    [key \in DimKeys(listing) |->
        LET live == {DimOf(i, key) : i \in Listed(listing)} \ {None}
            values == live \union (IF key \in DOMAIN picks THEN picks[key] ELSE {})
        IN [v \in values |-> OptionCount(listing, picks, key, v)]]

NoPromise == -1

Slice(rows, offset) == SubSeq(rows, offset + 1, Min({offset + PageSize, Len(rows)}))

(* The answer to a request for the page. *)
PageFor(key, asked, promised) ==
    LET listing == ShownListing(key, wanted)
        picks == Restricted(asked, listing)
        rows == Rows(listing, picks)
    IN [listing |-> listing, picks |-> picks, counts |-> Counts(listing, picks),
        rows |-> Slice(rows, 0), more |-> PageSize < Len(rows),
        same |-> TRUE, promised |-> promised]

-----------------------------------------------------------------------------
(* home: another listing drops the picks. *)
OpenListing(key) ==
    /\ requests < MaxRequests /\ requests' = requests + 1
    /\ page' = PageFor(key, <<>>, NoPromise)
    /\ UNCHANGED <<inStock, wanted, changes>>

(* What the counts of the page say the answer will have: their sum, as the *)
(* size of a disjoint union.                                               *)
Promised(key, values) == Cardinality(UNION {{v} \X (1..page.counts[key][v]) : v \in values})

(* An option; one without products is disabled, but a link may carry it. *)
PickOption(key, value) ==
    /\ requests < MaxRequests /\ requests' = requests + 1
    /\ key \in DOMAIN page.picks => value \notin page.picks[key]
    /\ LET values == {value} \union (IF key \in DOMAIN page.picks THEN page.picks[key] ELSE {})
           asked == [k \in DOMAIN page.picks \union {key} |-> IF k = key THEN values ELSE page.picks[k]]
       IN page' = PageFor(page.listing, asked,
                          IF page.same /\ page.listing \in ListingsOf(key, value)
                          THEN Promised(key, values) ELSE NoPromise)
    /\ UNCHANGED <<inStock, wanted, changes>>

(* The next page of the grid, and the loop of client.listings(all_pages). *)
LoadMore ==
    /\ page.more
    /\ LET rows == Rows(page.listing, page.picks)
           offset == Len(page.rows)
       IN page' = [page EXCEPT !.rows = @ \o Slice(rows, offset), !.more = offset + PageSize < Len(rows)]
    /\ UNCHANGED <<inStock, wanted, requests, changes>>

-----------------------------------------------------------------------------
(* A scan commits another stock; the settings get other listings. *)
Restock(stock) ==
    /\ changes < MaxChanges /\ changes' = changes + 1
    /\ inStock' = stock
    /\ page' = [page EXCEPT !.same = FALSE]
    /\ UNCHANGED <<wanted, requests>>

SelectListings(keys) ==
    /\ changes < MaxChanges /\ changes' = changes + 1
    /\ wanted' = keys
    /\ page' = [page EXCEPT !.same = FALSE]
    /\ UNCHANGED <<inStock, requests>>

ShopInit ==
    /\ inStock \in SUBSET Item /\ wanted \in Selections
    /\ requests = 0 /\ changes = 0
    /\ page = PageFor("", <<>>, NoPromise)

ShopNext ==
    \/ \E key \in {"", "mac", "ipad", "accessories"} : OpenListing(key)
    \/ \E key \in DOMAIN page.counts : \E value \in DOMAIN page.counts[key] : PickOption(key, value)
    \/ LoadMore
    \/ \E stock \in SUBSET Item : Restock(stock)
    \/ \E keys \in Selections : SelectListings(keys)

ShopSpec == ShopInit /\ [][ShopNext]_shopVars

-----------------------------------------------------------------------------
(* Unless a scan or a setting changed the list since the page was opened,  *)
(* the pages loaded one after the other hold every product once, and as    *)
(* many as the counts behind the options of the page before, which decide  *)
(* what can be picked, when an option of the listing's own was picked: the *)
(* rules of the facets (facet_groups), of the filter                       *)
(* (ProductQuery.matches) and of the paging (list_shop) agree.             *)
FacetPredictsPage ==
    page.same /\ ~page.more =>
        /\ Cardinality({page.rows[n] : n \in DOMAIN page.rows}) = Len(page.rows)
        /\ page.promised >= 0 => Len(page.rows) = page.promised
=============================================================================
