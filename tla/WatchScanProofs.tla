--------------------------- MODULE WatchScanProofs ---------------------------
(***************************************************************************)
(* What a scan announces and marks sold out, for any watches, SKUs,        *)
(* categories and edits.  The invariants that a scan's snapshot keeps      *)
(* while the shop and the user move on are proved one after the other;     *)
(* those that two scans of one database break name the one scanner.        *)
(***************************************************************************)
EXTENDS WatchScan, FiniteSetTheorems, TLAPS

\* What _run_scan_locked keeps in its local variables.
Snapshot ==
    [at : {"idle", "fetch", "commit"}, base : BOOLEAN,
     listings : SUBSET Listing, watches : SUBSET Watch,
     rule : [Watch -> SUBSET Sku], seeds : SUBSET Watch,
     todo : SUBSET Listing, fetched : SUBSET Listing,
     found : SUBSET Sku, blind : SUBSET Sku, learned : SUBSET DetailSku,
     known : SUBSET Watch]

-----------------------------------------------------------------------------
(* The steps of a scan, field by field.                                    *)

LEMMA Snapshots ==
    TypeOK => scan \in [Scanner -> Snapshot]
BY DEF TypeOK, Snapshot

LEMMA IdleSnapshot ==
    /\ Idle \in Snapshot
    /\ Idle.at = "idle" /\ Idle.watches = {} /\ Idle.seeds = {}
    /\ Idle.found = {} /\ Idle.fetched = {} /\ Idle.learned = {}
BY WatchScanAssumption DEF Idle, Snapshot

\* Only the scan of p moves.
Alone(p) == \A q \in Scanner \ {p} : scan'[q] = scan[q]

LEMMA Beginning ==
    ASSUME TypeOK, NEW p \in Scanner, Begin(p)
    PROVE  /\ Alone(p) /\ scan' \in [Scanner -> Snapshot]
           /\ scan'[p].at = "fetch"
           /\ scan'[p].watches = {w \in Watch : state[w] = "on"}
           /\ scan'[p].seeds = Seeds({w \in Watch : state[w] = "on"})
           /\ scan'[p].rule = rule /\ scan'[p].listings = listings
           /\ scan'[p].fetched = {} /\ scan'[p].found = {}
           /\ gone'[p] = Sku \ stock /\ \A q \in Scanner \ {p} : gone'[q] = gone[q]
<1> DEFINE on == {w \in Watch : state[w] = "on"}
           new == [Idle EXCEPT !.at = "fetch", !.base = baseline,
                               !.listings = listings, !.watches = on,
                               !.rule = rule, !.seeds = Seeds(on),
                               !.todo = listings]
<1>1. scan' = [scan EXCEPT ![p] = new]
  BY DEF Begin
<1>2. Seeds(on) \in SUBSET Watch
  BY DEF Seeds
<1>3. /\ new \in Snapshot /\ new.at = "fetch" /\ new.watches = on
      /\ new.seeds = Seeds(on) /\ new.rule = rule /\ new.listings = listings
      /\ new.fetched = {} /\ new.found = {}
  BY <1>2, IdleSnapshot DEF TypeOK, Snapshot, Idle
<1>4. gone' = [gone EXCEPT ![p] = Sku \ stock] /\ gone \in [Scanner -> SUBSET Sku]
  BY DEF Begin, TypeOK
<1> HIDE DEF new, on
<1>5. scan'[p] = new /\ Alone(p) /\ scan' \in [Scanner -> Snapshot]
  BY <1>1, <1>3, Snapshots DEF Alone
<1>6. QED BY <1>3, <1>4, <1>5 DEF on

LEMMA Fetching ==
    ASSUME TypeOK, NEW p \in Scanner, NEW l \in Listing,
           Fetch(p, l) \/ FetchFails(p, l)
    PROVE  /\ Alone(p) /\ scan' \in [Scanner -> Snapshot]
           /\ scan[p].at = "fetch" /\ scan'[p].at = "fetch"
           /\ scan'[p].watches = scan[p].watches
           /\ scan'[p].seeds = scan[p].seeds
           /\ scan'[p].rule = scan[p].rule
           /\ scan'[p].listings = scan[p].listings
           /\ \/ /\ scan'[p].fetched = scan[p].fetched \cup {l}
                 /\ scan'[p].found = scan[p].found \cup (stock \cap OnShelf(l))
              \/ /\ scan'[p].fetched = scan[p].fetched
                 /\ scan'[p].found = scan[p].found
<1>1. scan \in [Scanner -> Snapshot] /\ stock \in SUBSET Sku
  BY Snapshots DEF TypeOK
<1>2. CASE Fetch(p, l)
  <2> DEFINE new == [scan[p] EXCEPT !.todo = @ \ {l}, !.fetched = @ \cup {l},
                                    !.found = @ \cup (stock \cap OnShelf(l))]
  <2>1. scan' = [scan EXCEPT ![p] = new]
    BY <1>1, <1>2 DEF Fetch
  <2>2. /\ new \in Snapshot /\ new.at = scan[p].at
        /\ new.watches = scan[p].watches /\ new.seeds = scan[p].seeds
        /\ new.rule = scan[p].rule /\ new.listings = scan[p].listings
        /\ new.fetched = scan[p].fetched \cup {l}
        /\ new.found = scan[p].found \cup (stock \cap OnShelf(l))
    BY <1>1 DEF Snapshot
  <2>3. scan[p].at = "fetch"
    BY <1>2 DEF Fetch
  <2> HIDE DEF new
  <2>4. QED BY <1>1, <2>1, <2>2, <2>3 DEF Alone
<1>3. CASE FetchFails(p, l)
  BY <1>1, <1>3 DEF FetchFails, Alone, Snapshot
<1>4. QED BY <1>2, <1>3

LEMMA Observing ==
    ASSUME TypeOK, NEW p \in Scanner, Observe(p)
    PROVE  /\ Alone(p) /\ scan' \in [Scanner -> Snapshot]
           /\ scan[p].at = "fetch" /\ scan'[p].at = "commit"
           /\ scan'[p].watches = scan[p].watches
           /\ scan'[p].seeds = scan[p].seeds
           /\ scan'[p].rule = scan[p].rule
           /\ scan'[p].listings = scan[p].listings
           /\ scan'[p].fetched = scan[p].fetched
           /\ scan'[p].found = scan[p].found
           /\ scan'[p].blind \cup scan'[p].learned = NeedsDetail(p)
<1>1. scan \in [Scanner -> Snapshot] /\ specs \in SUBSET DetailSku
  BY Snapshots DEF TypeOK
<1>2. PICK failed \in SUBSET NeedsDetail(p) :
        scan' = [scan EXCEPT ![p].at = "commit", ![p].blind = failed,
                             ![p].learned = NeedsDetail(p) \ failed,
                             ![p].known = {w \in Watch : Exists(w)}]
  BY DEF Observe
<1>3. NeedsDetail(p) \subseteq DetailSku /\ NeedsDetail(p) \subseteq Sku
  BY <1>1 DEF NeedsDetail, Snapshot
<1>4. scan[p].at = "fetch"
  BY DEF Observe
<1> DEFINE new == [scan[p] EXCEPT !.at = "commit", !.blind = failed,
                                  !.learned = NeedsDetail(p) \ failed,
                                  !.known = {w \in Watch : Exists(w)}]
<1>5. scan' = [scan EXCEPT ![p] = new]
  BY <1>1, <1>2
<1>6. /\ new \in Snapshot /\ new.at = "commit"
      /\ new.watches = scan[p].watches /\ new.seeds = scan[p].seeds
      /\ new.rule = scan[p].rule /\ new.listings = scan[p].listings
      /\ new.fetched = scan[p].fetched /\ new.found = scan[p].found
      /\ new.blind = failed /\ new.learned = NeedsDetail(p) \ failed
  BY <1>1, <1>3 DEF Snapshot
<1> HIDE DEF new
<1>7. QED BY <1>1, <1>4, <1>5, <1>6 DEF Alone

LEMMA Ending ==
    ASSUME TypeOK, NEW p \in Scanner, Commit(p) \/ Abort(p)
    PROVE  /\ Alone(p) /\ scan' \in [Scanner -> Snapshot]
           /\ scan'[p] = Idle
           /\ gone'[p] = {} /\ \A q \in Scanner \ {p} : gone'[q] = gone[q]
<1>1. scan' = [scan EXCEPT ![p] = Idle] /\ gone' = [gone EXCEPT ![p] = {}]
  BY DEF Commit, Abort
<1>2. QED BY <1>1, Snapshots, IdleSnapshot DEF Alone, TypeOK

\* A category that was fetched shows what was on its shelf.
LEMMA Found ==
    ASSUME NEW p \in Scanner, NEW s \in Sku, NEW w \in Watch
    PROVE  /\ s \in Present(p, w) <=>
                 /\ w \in scan[p].watches /\ s \in scan[p].found
                 /\ s \in scan[p].rule[w] /\ s \notin scan[p].blind
           /\ s \in Appeared(p, w) <=>
                 /\ s \in Present(p, w) /\ w \notin scan[p].seeds
                 /\ row[w][s] # "in"
           /\ s \in Leaving(p, w) <=>
                 /\ w \in scan[p].watches /\ row[w][s] = "in"
                 /\ s \notin Present(p, w)
                 /\ Complete(p) \/ Shelf[s] \in scan[p].fetched
BY DEF Present, Matched, Appeared, Leaving

\* The events a commit stores are old ones or those of its appearances.
LEMMA Announced ==
    ASSUME NEW p \in Scanner, Commit(p)
    PROVE  \A e \in events' : \/ e \in events
                              \/ \E w \in Watch, s \in Sku :
                                    s \in Appeared(p, w) /\ e = Fingerprint(w, s)
<1> DEFINE pairs == {y \in Watch \X Sku : y[2] \in Appeared(p, y[1])}
<1>1. AddEvents({Fingerprint(x[1], x[2]) : x \in pairs})
  BY DEF Commit
<1>2. \A e \in events' : e \in events \/ \E x \in pairs : e = Fingerprint(x[1], x[2])
  BY <1>1 DEF AddEvents
<1>3. \A x \in pairs : x[1] \in Watch /\ x[2] \in Sku /\ x[2] \in Appeared(p, x[1])
  OBVIOUS
<1> HIDE DEF pairs
<1>4. QED BY <1>2, <1>3

-----------------------------------------------------------------------------
(* Types                                                                   *)

LEMMA Settings ==
    TypeOK => /\ outs \in Nat /\ outs \in Int /\ outs >= 0
              /\ moves \in Int /\ edits \in Int /\ aborts \in Int
BY WatchScanAssumption DEF TypeOK

LEMMA InitType == Init => TypeOK
<1> SUFFICES ASSUME Init PROVE TypeOK
  OBVIOUS
<1>1. scan \in [Scanner -> Snapshot]
  BY IdleSnapshot DEF Init
<1>2. 0 \in 0..outs /\ 0 \in Nat /\ outs = 0
  BY DEF Init
<1>3. moves \in 0..MaxMoves /\ edits \in 0..MaxEdits /\ aborts \in 0..MaxAborts
  BY WatchScanAssumption DEF Init
<1>4. QED BY <1>1, <1>2, <1>3 DEF Init, TypeOK, Snapshot

LEMMA ShopType ==
    ASSUME TypeOK, ShopMoves
    PROVE  TypeOK'
<1>1. moves' \in 0..MaxMoves
  BY Settings, WatchScanAssumption DEF ShopMoves, TypeOK
<1>2. stock' \in SUBSET Sku
  BY DEF ShopMoves, Arrive, SellOut, TypeOK
<1>3. arrived' \in [Watch -> SUBSET Sku]
  <2>1. ASSUME NEW s \in Sku, Arrive(s)
        PROVE  arrived' \in [Watch -> SUBSET Sku]
    BY <2>1 DEF Arrive, TypeOK
  <2>2. QED BY <2>1 DEF ShopMoves, SellOut, TypeOK
<1>4. gone' \in [Scanner -> SUBSET Sku]
  <2>1. ASSUME NEW s \in Sku, SellOut(s)
        PROVE  gone' \in [Scanner -> SUBSET Sku]
    BY <2>1 DEF SellOut, TypeOK
  <2>2. QED BY <2>1 DEF ShopMoves, Arrive, TypeOK
<1>5. QED BY <1>1, <1>2, <1>3, <1>4
          DEF TypeOK, ShopMoves, settings, watches, store

LEMMA UserType ==
    ASSUME TypeOK, User
    PROVE  TypeOK'
<1>1. edits' \in 0..MaxEdits
  BY Settings, WatchScanAssumption
     DEF User, TypeOK, Edit, CreateWatch, UpdateWatch, ToggleWatch, DeleteWatch,
         ForgetHit, SetListings, ClearEvents
<1>2. 0 \in 0..outs
  BY Settings
<1>3. ASSUME NEW w \in Watch, NEW r \in SUBSET Sku,
             CreateWatch(w, r) \/ UpdateWatch(w, r)
      PROVE  TypeOK'
  <2>1. rule' \in [Watch -> SUBSET Sku] /\ fresh' \in SUBSET Watch
    BY <1>3 DEF TypeOK, CreateWatch, UpdateWatch
  <2>2. state' \in [Watch -> {"new", "on", "off", "deleted"}]
    BY <1>3 DEF TypeOK, CreateWatch, UpdateWatch
  <2>3. CASE CreateWatch(w, r)
    BY <2>1, <2>2, <2>3 DEF TypeOK, CreateWatch, settings, store
  <2>4. CASE UpdateWatch(w, r)
    BY <1>1, <2>1, <2>2, <2>4 DEF TypeOK, UpdateWatch, settings, store
  <2>5. QED BY <1>3, <2>3, <2>4
<1>4. ASSUME NEW w \in Watch, ToggleWatch(w)
      PROVE  TypeOK'
  BY <1>1, <1>4 DEF TypeOK, ToggleWatch, settings, store
<1>5. ASSUME NEW w \in Watch, DeleteWatch(w)
      PROVE  TypeOK'
  <2>1. /\ row' \in [Watch -> [Sku -> {"none", "in", "out"}]]
        /\ state' \in [Watch -> {"new", "on", "off", "deleted"}]
        /\ fresh' \in SUBSET Watch
    BY <1>5 DEF DeleteWatch, TypeOK
  <2>2. marker' \in [Watch -> [Sku -> 0..outs]]
    <3> DEFINE none == [s \in Sku |-> 0]
    <3>1. none \in [Sku -> 0..outs]
      BY <1>2
    <3>2. marker' = [marker EXCEPT ![w] = none] /\ marker \in [Watch -> [Sku -> 0..outs]]
      BY <1>5 DEF DeleteWatch, TypeOK
    <3> HIDE DEF none
    <3>3. QED BY <3>1, <3>2
  <2>3. QED BY <1>1, <1>5, <2>1, <2>2 DEF TypeOK, DeleteWatch, settings
<1>6. ASSUME NEW w \in Watch, NEW s \in Sku, ForgetHit(w, s)
      PROVE  TypeOK'
  <2>1. row' \in [Watch -> [Sku -> {"none", "in", "out"}]]
    BY <1>6 DEF ForgetHit, TypeOK
  <2>2. marker' \in [Watch -> [Sku -> 0..outs]]
    BY <1>2, <1>6 DEF ForgetHit, TypeOK
  <2>3. QED BY <1>1, <1>6, <2>1, <2>2 DEF TypeOK, ForgetHit, settings, watches
<1>7. ASSUME NEW L \in SUBSET Listing, SetListings(L)
      PROVE  TypeOK'
  <2>1. listings' \in (SUBSET Listing) \ {{}}
    BY <1>7 DEF SetListings
  <2>2. QED BY <1>1, <1>7, <2>1 DEF TypeOK, SetListings, watches, store
<1>8. CASE ClearEvents
  BY <1>1, <1>8 DEF TypeOK, ClearEvents, settings, watches
<1>9. QED BY <1>3, <1>4, <1>5, <1>6, <1>7, <1>8 DEF User

LEMMA CommitType ==
    ASSUME TypeOK, NEW p \in Scanner, Commit(p)
    PROVE  TypeOK'
<1>1. scan' \in [Scanner -> Snapshot] /\ scan[p] \in Snapshot
  BY Ending, Snapshots
<1>2. outs' \in Nat /\ 0 \in 0..outs' /\ \A m \in 0..outs : m \in 0..outs'
  BY Settings DEF Commit
<1>3. row' \in [Watch -> [Sku -> {"none", "in", "out"}]]
  BY DEF Commit, TypeOK
<1>4. marker' \in [Watch -> [Sku -> 0..outs']]
  <2>1. \A w \in Watch, s \in Sku : s \in Leaving(p, w) => outs + 1 \in 0..outs'
    BY Settings DEF Commit
  <2>2. marker \in [Watch -> [Sku -> 0..outs]]
    BY DEF TypeOK
  <2>3. \A w \in Watch, s \in Sku : marker[w][s] \in 0..outs'
    BY <1>2, <2>2
  <2>4. QED BY <1>2, <2>1, <2>3 DEF Commit
<1>5. events' \in SUBSET (Watch \X Sku \X (0..outs'))
  <2>1. /\ marker \in [Watch -> [Sku -> 0..outs]]
        /\ events \subseteq Watch \X Sku \X (0..outs)
    BY DEF TypeOK
  <2>2. \A w \in Watch, s \in Sku : marker[w][s] \in 0..outs'
    BY <1>2, <2>1
  <2>3. \A w \in Watch, s \in Sku : Fingerprint(w, s) \in Watch \X Sku \X (0..outs')
    BY <2>2 DEF Fingerprint
  <2>4. \A e \in events : e \in Watch \X Sku \X (0..outs')
    BY <1>2, <2>1
  <2>5. QED BY <2>3, <2>4, Announced
<1>6. catalog' \in SUBSET Sku /\ specs' \in SUBSET DetailSku
  BY <1>1 DEF Commit, NewCatalog, TypeOK, Snapshot
<1>7. baseline' \in BOOLEAN /\ fresh' \in SUBSET Watch
  BY DEF Commit, TypeOK
<1>8. /\ arrived' \in [Watch -> SUBSET Sku] /\ unseen' \in SUBSET (Watch \X Sku)
      /\ gone' \in [Scanner -> SUBSET Sku]
  BY DEF Commit, TypeOK
<1>9. UNCHANGED <<stock, listings, state, rule, moves, edits, aborts>>
  BY DEF Commit
<1>10. QED BY <1>1, <1>2, <1>3, <1>4, <1>5, <1>6, <1>7, <1>8, <1>9 DEF TypeOK, Snapshot

LEMMA ScanType ==
    ASSUME TypeOK, NEW p \in Scanner, ScanStep(p)
    PROVE  TypeOK'
<1>1. CASE Commit(p)
  BY <1>1, CommitType
<1>2. CASE Abort(p)
  <2>1. aborts' \in 0..MaxAborts
    BY <1>2, Settings, WatchScanAssumption DEF Abort, TypeOK
  <2>2. gone' \in [Scanner -> SUBSET Sku]
    BY <1>2 DEF Abort, TypeOK
  <2>3. QED BY <1>2, <2>1, <2>2, Ending
            DEF TypeOK, Abort, Snapshot, settings, watches, store
<1>3. CASE Begin(p)
  <2>1. gone' \in [Scanner -> SUBSET Sku]
    BY <1>3 DEF Begin, TypeOK
  <2>2. QED BY <1>3, <2>1, Beginning
            DEF TypeOK, Begin, Snapshot, settings, watches, store
<1>4. ASSUME NEW l \in Listing, Fetch(p, l) \/ FetchFails(p, l)
      PROVE  TypeOK'
  BY <1>4, Fetching DEF TypeOK, Fetch, FetchFails, Snapshot, settings, watches, store
<1>5. CASE Observe(p)
  BY <1>5, Observing DEF TypeOK, Observe, Snapshot, settings, watches, store
<1>6. QED BY <1>1, <1>2, <1>3, <1>4, <1>5 DEF ScanStep

\* Every variable of WatchScan keeps its type.
THEOREM TypeCorrectness == Spec => []TypeOK
<1>1. ASSUME TypeOK, [Next]_vars
      PROVE  TypeOK'
  <2>1. CASE UNCHANGED vars
    BY <1>1, <2>1 DEF vars, settings, watches, store, TypeOK
  <2>2. QED BY <1>1, <2>1, ShopType, UserType, ScanType DEF Next
<1>2. QED BY <1>1, InitType, PTL DEF Spec

-----------------------------------------------------------------------------
(* What the user's requests and the shop leave alone.                      *)

\* Requests create and delete watches and forget hits; to a scan they do
\* nothing.
LEMMA Requests ==
    ASSUME TypeOK, User
    PROVE  /\ UNCHANGED <<stock, baseline, catalog, specs, outs, scan, arrived,
                          unseen, gone>>
           /\ events' \subseteq events
           /\ \A w \in Watch :
                 /\ state[w] # "new" => state'[w] # "new"
                 /\ Exists(w)' => /\ Exists(w) \/ w \in fresh'
                                  /\ state[w] # "new" => Exists(w)
                 /\ Exists(w)' /\ Exists(w) => (w \in fresh' <=> w \in fresh)
                 /\ \A s \in Sku :
                       \/ row'[w][s] = row[w][s] /\ marker'[w][s] = marker[w][s]
                       \/ row'[w][s] = "none" /\ (row[w][s] = "out" \/ ~Exists(w)')
<1> DEFINE Kept(w) ==
      /\ state[w] # "new" => state'[w] # "new"
      /\ Exists(w)' => /\ Exists(w) \/ w \in fresh'
                       /\ state[w] # "new" => Exists(w)
      /\ Exists(w)' /\ Exists(w) => (w \in fresh' <=> w \in fresh)
      Hits(w) == \A s \in Sku :
         \/ row'[w][s] = row[w][s] /\ marker'[w][s] = marker[w][s]
         \/ row'[w][s] = "none" /\ (row[w][s] = "out" \/ ~Exists(w)')
<1>1. UNCHANGED <<stock, baseline, catalog, specs, outs, scan, arrived, unseen, gone>>
  BY DEF User, CreateWatch, UpdateWatch, ToggleWatch, DeleteWatch, ForgetHit,
         SetListings, ClearEvents, settings, store
<1>2. events' \subseteq events
  BY DEF User, CreateWatch, UpdateWatch, ToggleWatch, DeleteWatch, ForgetHit,
         SetListings, ClearEvents, settings, store
<1>3. /\ state \in [Watch -> {"new", "on", "off", "deleted"}]
      /\ row \in [Watch -> [Sku -> {"none", "in", "out"}]]
      /\ marker \in [Watch -> [Sku -> 0..outs]]
  BY DEF TypeOK
<1>4. ASSUME NEW v \in Watch, NEW r \in SUBSET Sku, CreateWatch(v, r)
      PROVE  \A w \in Watch : Kept(w) /\ Hits(w)
  BY <1>3, <1>4 DEF CreateWatch, Exists, store
<1>5. ASSUME NEW v \in Watch, ToggleWatch(v)
      PROVE  \A w \in Watch : Kept(w) /\ Hits(w)
  BY <1>3, <1>5 DEF ToggleWatch, Exists, store
<1>6. ASSUME NEW v \in Watch, DeleteWatch(v)
      PROVE  \A w \in Watch : Kept(w) /\ Hits(w)
  <2>1. /\ \A w \in Watch \ {v} : /\ row'[w] = row[w] /\ marker'[w] = marker[w]
                                  /\ state'[w] = state[w]
        /\ fresh' = fresh \ {v} /\ state'[v] = "deleted"
        /\ row'[v] = [s \in Sku |-> "none"]
    BY <1>3, <1>6 DEF DeleteWatch
  <2>2. QED BY <2>1 DEF Exists
<1>7. ASSUME NEW v \in Watch, NEW z \in Sku, ForgetHit(v, z)
      PROVE  \A w \in Watch : Kept(w) /\ Hits(w)
  <2>1. /\ \A w \in Watch, s \in Sku :
              w # v \/ s # z => row'[w][s] = row[w][s] /\ marker'[w][s] = marker[w][s]
        /\ row'[v][z] = "none" /\ row[v][z] = "out" /\ UNCHANGED <<state, fresh>>
    BY <1>3, <1>7 DEF ForgetHit, watches
  <2>2. QED BY <2>1 DEF Exists
<1>8. ASSUME UNCHANGED <<state, fresh, row, marker>>
      PROVE  \A w \in Watch : Kept(w) /\ Hits(w)
  BY <1>8 DEF Exists
<1>9. \A w \in Watch : Kept(w) /\ Hits(w)
  <2>1. ASSUME NEW L \in SUBSET Listing, SetListings(L)
        PROVE  UNCHANGED <<state, fresh, row, marker>>
    BY <2>1 DEF SetListings, watches, store
  <2>2. ASSUME NEW v \in Watch, NEW r \in SUBSET Sku, UpdateWatch(v, r)
        PROVE  UNCHANGED <<state, fresh, row, marker>>
    BY <2>2 DEF UpdateWatch, store
  <2>3. ClearEvents => UNCHANGED <<state, fresh, row, marker>>
    BY DEF ClearEvents, watches
  <2>4. QED BY <1>4, <1>5, <1>6, <1>7, <1>8, <2>1, <2>2, <2>3 DEF User
<1>10. QED BY <1>1, <1>2, <1>9

\* The other steps of a scan touch nothing that is stored.
LEMMA NothingStored ==
    ASSUME NEW p \in Scanner, ScanStep(p), ~Commit(p)
    PROVE  UNCHANGED <<stock, settings, watches, store, arrived, unseen>>
BY DEF ScanStep, Begin, Fetch, FetchFails, Observe, Abort

-----------------------------------------------------------------------------
(* A hit that comes back makes a new event.                                *)

\* The event that the return of a sold-out hit will make is not stored yet.
MarkerInv ==
    \A w \in Watch, s \in Sku :
        row[w][s] = "out" => <<w, s, marker[w][s]>> \notin events

LEMMA MarkerStep ==
    ASSUME TypeOK, MarkerInv, [Next]_vars
    PROVE  MarkerInv'
<1>1. CASE User
  BY <1>1, Requests DEF MarkerInv
<1>2. ASSUME NEW p \in Scanner, Commit(p)
      PROVE  MarkerInv'
  <2> SUFFICES ASSUME NEW w \in Watch, NEW s \in Sku, row'[w][s] = "out",
                      <<w, s, marker'[w][s]>> \in events'
               PROVE  FALSE
    BY DEF MarkerInv
  <2>1. /\ row'[w][s] = IF s \in Present(p, w) THEN "in"
                        ELSE IF s \in Leaving(p, w) THEN "out" ELSE row[w][s]
        /\ marker'[w][s] = IF s \in Present(p, w) THEN 0
                           ELSE IF s \in Leaving(p, w) THEN outs + 1
                           ELSE marker[w][s]
    BY <1>2 DEF Commit
  <2>2. \A v \in Watch, z \in Sku : marker[v][z] \in 0..outs
    BY DEF TypeOK
  <2>3. <<w, s, marker'[w][s]>> \in events \/ marker'[w][s] = marker[w][s]
    <3>1. SUFFICES ASSUME NEW v \in Watch, NEW z \in Sku, z \in Appeared(p, v),
                          <<w, s, marker'[w][s]>> = Fingerprint(v, z)
                   PROVE  marker'[w][s] = marker[w][s]
      BY <1>2, Announced
    <3>2. QED BY <3>1 DEF Fingerprint
  <2>4. CASE s \in Leaving(p, w)
    <3>1. marker'[w][s] = outs + 1
      BY <2>1, <2>4, Found
    <3>2. outs + 1 \notin 0..outs
      BY Settings
    <3>3. events \subseteq Watch \X Sku \X (0..outs)
      BY DEF TypeOK
    <3>4. QED BY <2>2, <2>3, <3>1, <3>2, <3>3
  <2>5. CASE s \notin Leaving(p, w)
    <3>1. row[w][s] = "out" /\ marker'[w][s] = marker[w][s] /\ s \notin Present(p, w)
      BY <2>1, <2>5
    <3>2. <<w, s, marker[w][s]>> \notin events
      BY <3>1 DEF MarkerInv
    <3>3. PICK v \in Watch, z \in Sku : z \in Appeared(p, v)
                                        /\ <<w, s, marker[w][s]>> = Fingerprint(v, z)
      BY <1>2, <3>1, <3>2, Announced
    <3>4. v = w /\ z = s
      BY <3>3 DEF Fingerprint
    <3>5. QED BY <3>1, <3>3, <3>4, Found
  <2>6. QED BY <2>4, <2>5
<1>3. CASE UNCHANGED <<row, marker, events>>
  BY <1>3 DEF MarkerInv
<1>4. QED BY <1>1, <1>2, <1>3, NothingStored DEF Next, vars, store, ShopMoves

\* What the commit of p announces: pairs of a watch and a SKU.
Announcing(p) == {y \in Watch \X Sku : y[2] \in Appeared(p, y[1])}

\* EVENT_KEEP has room for all of it.  (Events of a commit that exceeds it
\* are pruned by the same transaction.)
RoomFor(p) == Cardinality(Announcing(p)) <= EventKeep

\* Then every announcement of a commit that is new is stored.
LEMMA AllAnnounced ==
    ASSUME IsFiniteSet(Sku), TypeOK, NEW p \in Scanner, Commit(p), RoomFor(p),
           NEW w \in Watch, NEW s \in Sku, s \in Appeared(p, w),
           Fingerprint(w, s) \notin events
    PROVE  Fingerprint(w, s) \in events'
<1> DEFINE pairs == Announcing(p)
           new == {Fingerprint(x[1], x[2]) : x \in pairs}
           n == Cardinality(events \cup new)
<1>1. PICK kept \in SUBSET (events \cup new) :
        /\ Cardinality(kept) = IF n < EventKeep THEN n ELSE EventKeep
        /\ new \ events \subseteq kept \/ kept \subseteq new \ events
        /\ events' = kept
  BY DEF Commit, AddEvents, Announcing
<1>2. <<w, s>> \in pairs /\ Fingerprint(w, s) \in new
  BY DEF Announcing
<1>3. /\ IsFiniteSet(Watch \X Sku) /\ IsFiniteSet(pairs)
      /\ Cardinality(pairs) \in Nat
  <2>1. IsFiniteSet(Watch)
    <3>1. 1 \in Int /\ MaxWatches \in Int
      BY WatchScanAssumption
    <3>2. QED BY <3>1, FS_Interval DEF Watch
  <2>2. IsFiniteSet(Watch \X Sku)
    BY <2>1, FS_Product
  <2>3. pairs \in SUBSET (Watch \X Sku)
    BY DEF Announcing
  <2>4. QED BY <2>1, <2>2, <2>3, FS_Subset, FS_CardinalityType
<1>4. IsFiniteSet(new) /\ Cardinality(new) <= Cardinality(pairs)
  <2> DEFINE f == [x \in pairs |-> Fingerprint(x[1], x[2])]
  <2>1. f \in Surjection(pairs, new)
    BY DEF Surjection
  <2> HIDE DEF f, pairs, new
  <2>2. QED BY <1>3, <2>1, FS_Surjection
<1>5. IsFiniteSet(events)
  <2>1. IsFiniteSet(0..outs)
    <3>1. 0 \in Int /\ outs \in Int
      BY Settings
    <3>2. QED BY <3>1, FS_Interval
  <2>2. IsFiniteSet((Watch \X Sku) \X (0..outs))
    BY <1>3, <2>1, FS_Product
  <2> DEFINE f == [x \in (Watch \X Sku) \X (0..outs) |-> <<x[1][1], x[1][2], x[2]>>]
  <2>3. f \in Surjection((Watch \X Sku) \X (0..outs), Watch \X Sku \X (0..outs))
    <3>1. ASSUME NEW e \in Watch \X Sku \X (0..outs)
          PROVE  \E x \in (Watch \X Sku) \X (0..outs) : f[x] = e
      <4>1. <<<<e[1], e[2]>>, e[3]>> \in (Watch \X Sku) \X (0..outs)
        OBVIOUS
      <4>2. f[<<<<e[1], e[2]>>, e[3]>>] = e
        BY <4>1
      <4>3. QED BY <4>1, <4>2
    <3>2. f \in [(Watch \X Sku) \X (0..outs) -> Watch \X Sku \X (0..outs)]
      OBVIOUS
    <3>3. QED BY <3>1, <3>2 DEF Surjection
  <2>4. IsFiniteSet(Watch \X Sku \X (0..outs))
    <3> HIDE DEF f
    <3>1. QED BY <2>2, <2>3, FS_Surjection
  <2>5. events \in SUBSET (Watch \X Sku \X (0..outs))
    BY DEF TypeOK
  <2>6. QED BY <2>4, <2>5, FS_Subset
<1> HIDE DEF pairs, new
<1>6. new \ events \subseteq kept
  <2>1. /\ IsFiniteSet(new \ events) /\ Cardinality(new \ events) <= Cardinality(new)
        /\ IsFiniteSet(events \cup new)
        /\ Cardinality(new \ events) <= Cardinality(events \cup new)
    <3>1. new \ events \in SUBSET new /\ new \ events \in SUBSET (events \cup new)
      OBVIOUS
    <3>2. IsFiniteSet(events \cup new)
      BY <1>4, <1>5, FS_Union
    <3>3. QED BY <1>4, <3>1, <3>2, FS_Subset
  <2>2. /\ Cardinality(new) \in Nat /\ Cardinality(new \ events) \in Nat
        /\ n \in Nat /\ EventKeep \in Nat
    BY <1>4, <2>1, FS_CardinalityType, WatchScanAssumption
  <2>3. Cardinality(new \ events) <= EventKeep
    <3>1. Cardinality(pairs) <= EventKeep
      BY DEF RoomFor, pairs
    <3>2. QED BY <1>3, <1>4, <2>1, <2>2, <3>1
  <2>4. CASE kept \subseteq new \ events
    <3>1. kept \in SUBSET (new \ events)
      BY <2>4
    <3>2. /\ Cardinality(kept) <= Cardinality(new \ events)
          /\ Cardinality(new \ events) = Cardinality(kept) => new \ events = kept
      BY <2>1, <3>1, FS_Subset
    <3>3. Cardinality(kept) >= Cardinality(new \ events) /\ Cardinality(kept) \in Nat
      BY <1>1, <2>1, <2>2, <2>3
    <3>4. QED BY <2>2, <3>2, <3>3
  <2>5. QED BY <1>1, <2>4
<1>7. QED BY <1>1, <1>2, <1>6

\* No event of an earlier return of a sold-out hit is stored under its
\* present marker, so its next return is news to events.add.
THEOREM MarkersAreNew == Spec => []MarkerInv
<1>1. Init => MarkerInv
  BY DEF Init, MarkerInv
<1>2. QED BY <1>1, MarkerStep, TypeCorrectness, PTL DEF Spec

\* A hit that was sold out and is in stock again is announced, unless the
\* watch is in its silent first scan, with any number of scanners, as long as
\* no scan announces more than EVENT_KEEP events at once.
THEOREM RestocksArePushed ==
    ASSUME IsFiniteSet(Sku)
    PROVE  Spec /\ [][\A p \in Scanner : Commit(p) => RoomFor(p)]_vars
               => RestockPushed
<1> DEFINE Announces(w, s) ==
      row[w][s] = "out" /\ row'[w][s] = "in" =>
          \/ Pushed(w, s)
          \/ \E p \in Scanner : w \in scan[p].seeds /\ Commit(p)
<1>1. ASSUME TypeOK, MarkerInv, Next, \A p \in Scanner : Commit(p) => RoomFor(p),
             NEW w \in Watch, NEW s \in Sku
      PROVE  Announces(w, s)
  <2> SUFFICES ASSUME row[w][s] = "out", row'[w][s] = "in",
                      \A p \in Scanner : Commit(p) => w \notin scan[p].seeds
               PROVE  Pushed(w, s)
    OBVIOUS
  <2>1. PICK p \in Scanner : Commit(p)
    <3>1. ~User
      BY <1>1, Requests
    <3>2. ~UNCHANGED row
      OBVIOUS
    <3>3. QED BY <1>1, <3>1, <3>2, NothingStored DEF Next, ShopMoves, store
  <2>2. s \in Present(p, w)
    BY <2>1 DEF Commit
  <2>3. s \in Appeared(p, w)
    BY <2>1, <2>2, Found
  <2>4. Fingerprint(w, s) \in events' \ events
    BY <1>1, <2>1, <2>3, AllAnnounced DEF MarkerInv, Fingerprint
  <2>5. marker[w][s] \in 0..outs
    BY <1>1 DEF TypeOK
  <2>6. QED BY <2>4, <2>5 DEF Pushed, Fingerprint
<1>2. ASSUME TypeOK, MarkerInv, [Next]_vars,
             [\A p \in Scanner : Commit(p) => RoomFor(p)]_vars
      PROVE  [\A w \in Watch, s \in Sku : Announces(w, s)]_vars
  BY <1>1, <1>2
<1>3. QED BY <1>2, TypeCorrectness, MarkersAreNew, PTL DEF Spec, RestockPushed

-----------------------------------------------------------------------------
(* What is marked sold out was out of stock, or not looked for.            *)

\* A SKU that a fetched category did not show was missing at some time since
\* the scan began, and so was all that is missing now.
GoneInv ==
    \A p \in Scanner, s \in Sku :
        /\ scan[p].at # "idle"
        /\ s \notin stock \/ (Shelf[s] \in scan[p].fetched /\ s \notin scan[p].found)
        => s \in gone[p]

LEMMA GoneStep ==
    ASSUME TypeOK, GoneInv, [Next]_vars
    PROVE  GoneInv'
<1>1. CASE UNCHANGED <<stock, scan, gone>>
  BY <1>1 DEF GoneInv
<1>2. CASE User
  BY <1>1, <1>2, Requests
<1>3. CASE ShopMoves
  <2>1. PICK z \in Sku : Arrive(z) \/ SellOut(z)
    BY <1>3 DEF ShopMoves
  <2>2. scan' = scan
    BY <1>3 DEF ShopMoves
  <2>3. \A p \in Scanner, s \in Sku :
          scan[p].at # "idle" =>
              /\ s \in gone[p] => s \in gone'[p]
              /\ s \notin stock' => s \notin stock \/ s \in gone'[p]
    BY <2>1, <2>2 DEF Arrive, SellOut, TypeOK
  <2>4. QED BY <2>2, <2>3 DEF GoneInv
<1>4. ASSUME NEW p \in Scanner, ScanStep(p)
      PROVE  GoneInv'
  <2>1. stock' = stock
    BY <1>4 DEF ScanStep, Begin, Fetch, FetchFails, Observe, Commit, Abort
  <2>2. CASE Begin(p)
    BY <2>1, <2>2, Beginning DEF GoneInv, Alone
  <2>3. ASSUME NEW l \in Listing, Fetch(p, l) \/ FetchFails(p, l)
        PROVE  GoneInv'
    <3>1. gone' = gone
      BY <2>3 DEF Fetch, FetchFails
    <3>2. \A s \in Sku : Shelf[s] \in scan'[p].fetched /\ s \notin scan'[p].found =>
             \/ s \notin stock
             \/ Shelf[s] \in scan[p].fetched /\ s \notin scan[p].found
      BY <2>3, Fetching DEF OnShelf
    <3>3. QED BY <2>1, <2>3, <3>1, <3>2, Fetching DEF GoneInv, Alone
  <2>4. CASE Observe(p)
    <3>1. gone' = gone
      BY <2>4 DEF Observe
    <3>2. QED BY <2>1, <2>4, <3>1, Observing DEF GoneInv, Alone
  <2>5. CASE Commit(p) \/ Abort(p)
    BY <2>1, <2>5, Ending, IdleSnapshot DEF GoneInv, Alone
  <2>6. QED BY <1>4, <2>2, <2>3, <2>4, <2>5 DEF ScanStep
<1>5. QED BY <1>1, <1>2, <1>3, <1>4 DEF Next, vars

\* A SKU that a scan does not find in a category it fetched was not on sale
\* at some time since that scan began, with any number of scanners.
THEOREM MissingIsGone == Spec => []GoneInv
<1>1. Init => GoneInv
  BY IdleSnapshot DEF Init, GoneInv
<1>2. QED BY <1>1, GoneStep, TypeCorrectness, PTL DEF Spec

\* One scan at a time, which _scan_lock gives the daemon; `scan --local' is a
\* second scanner.
OneScanner == \A p, q \in Scanner : p = q

\* A hit that is in stock was identified: a scan is blind only to SKUs whose
\* specifications nobody has stored.
SpecsInv ==
    /\ \A w \in Watch, s \in DetailSku : row[w][s] = "in" => s \in specs
    /\ \A p \in Scanner : scan[p].at = "commit" =>
          /\ scan[p].blind \subseteq DetailSku \ specs
          /\ \A w \in scan[p].watches :
                scan[p].found \cap DetailSku \cap scan[p].rule[w]
                    \subseteq specs \cup scan[p].learned \cup scan[p].blind

LEMMA SpecsStep ==
    ASSUME OneScanner, TypeOK, SpecsInv, [Next]_vars
    PROVE  SpecsInv'
<1>1. CASE User \/ ShopMoves
  <2>1. scan' = scan /\ specs' = specs
    BY <1>1, Requests DEF ShopMoves, store
  <2>2. \A w \in Watch, s \in Sku : row'[w][s] \in {"none", row[w][s]}
    BY <1>1, Requests DEF ShopMoves, store
  <2>3. QED BY <2>1, <2>2, WatchScanAssumption DEF SpecsInv
<1>2. ASSUME NEW p \in Scanner, ScanStep(p)
      PROVE  SpecsInv'
  <2>1. \A q \in Scanner : q = p
    BY <1>2 DEF OneScanner
  <2>2. CASE Commit(p)
    <3>1. scan'[p].at # "commit"
      BY <2>2, Ending, IdleSnapshot
    <3>2. ASSUME NEW w \in Watch, NEW s \in DetailSku, row'[w][s] = "in"
          PROVE  s \in specs'
      <4>1. s \in Sku /\ (s \in Present(p, w) \/ row[w][s] = "in")
        BY <2>2, <3>2, WatchScanAssumption DEF Commit
      <4>2. specs' = specs \cup scan[p].learned /\ scan[p].at = "commit"
        BY <2>2 DEF Commit
      <4>3. QED BY <3>2, <4>1, <4>2, Found DEF SpecsInv
    <3>3. QED BY <2>1, <3>1, <3>2 DEF SpecsInv
  <2>3. CASE Observe(p)
    <3>1. row' = row /\ specs' = specs
      BY <2>3 DEF Observe, store
    <3>2. scan'[p].blind \subseteq DetailSku \ specs
      BY <2>3, Observing DEF NeedsDetail
    <3>3. \A w \in scan'[p].watches :
            scan'[p].found \cap DetailSku \cap scan'[p].rule[w]
                \subseteq specs \cup scan'[p].learned \cup scan'[p].blind
      BY <2>3, Observing DEF NeedsDetail
    <3>4. QED BY <2>1, <3>1, <3>2, <3>3 DEF SpecsInv
  <2>4. CASE ~Commit(p) /\ ~Observe(p)
    <3>1. row' = row /\ specs' = specs
      BY <1>2, <2>4, NothingStored DEF store
    <3>2. scan'[p].at # "commit"
      BY <1>2, <2>4, Beginning, Fetching, Ending, IdleSnapshot DEF ScanStep
    <3>3. QED BY <2>1, <3>1, <3>2 DEF SpecsInv
  <2>5. QED BY <2>2, <2>3, <2>4
<1>3. CASE UNCHANGED vars
  BY <1>3 DEF vars, store, SpecsInv
<1>4. QED BY <1>1, <1>2, <1>3 DEF Next

\* A hit or a product is marked sold out only if the shop was out of it at
\* some time since the scan began, or the scan was not to look for it.
THEOREM SoldOutWasGone ==
    ASSUME OneScanner
    PROVE  Spec => SoldOutIsReal
<1> DEFINE Real(p, s) ==
      scan[p].at = "commit" /\ scan'[p] # scan[p] =>
          /\ s \in catalog \ catalog' =>
                s \in gone[p] \/ Shelf[s] \notin scan[p].listings
          /\ \A w \in Watch :
                row[w][s] = "in" /\ row'[w][s] = "out" =>
                    \/ s \in gone[p]
                    \/ Shelf[s] \notin scan[p].listings
                    \/ s \notin scan[p].rule[w]
<1>1. ASSUME TypeOK, GoneInv, SpecsInv, Next, NEW p \in Scanner, NEW s \in Sku
      PROVE  Real(p, s)
  <2>1. SUFFICES ASSUME scan[p].at = "commit", scan'[p] # scan[p]
                 PROVE  Real(p, s)
    OBVIOUS
  <2>2. ScanStep(p)
    <3>1. scan' # scan
      BY <2>1
    <3>2. PICK q \in Scanner : ScanStep(q)
      BY <1>1, <3>1, Requests DEF Next, ShopMoves
    <3>3. QED BY <3>2 DEF OneScanner
  <2>3. CASE ~Commit(p)
    <3>1. catalog' = catalog /\ row' = row
      BY <2>2, <2>3, NothingStored DEF store
    <3>2. QED BY <3>1
  <2>4. CASE Commit(p)
    <3>1. ASSUME s \in catalog, s \notin catalog', Shelf[s] \in scan[p].listings
          PROVE  s \in gone[p]
      <4>1. Shelf[s] \in scan[p].fetched /\ s \notin scan[p].found
        BY <2>4, <3>1 DEF Commit, NewCatalog
      <4>2. QED BY <1>1, <2>1, <4>1 DEF GoneInv
    <3>2. ASSUME NEW w \in Watch, row[w][s] = "in", row'[w][s] = "out",
                 Shelf[s] \in scan[p].listings, s \in scan[p].rule[w]
          PROVE  s \in gone[p]
      <4>1. s \in Leaving(p, w) /\ s \notin Present(p, w)
        BY <2>4, <3>2 DEF Commit
      <4>2. w \in scan[p].watches /\ Shelf[s] \in scan[p].fetched
        BY <3>2, <4>1, Found DEF Complete
      <4>3. s \notin scan[p].blind
        BY <1>1, <2>1, <3>2 DEF SpecsInv
      <4>4. s \notin scan[p].found
        BY <3>2, <4>1, <4>2, <4>3, Found
      <4>5. QED BY <1>1, <2>1, <4>2, <4>4 DEF GoneInv
    <3>3. QED BY <3>1, <3>2
  <2>5. QED BY <2>3, <2>4
<1>2. ASSUME TypeOK, GoneInv, SpecsInv, [Next]_vars
      PROVE  [\A p \in Scanner, s \in Sku : Real(p, s)]_vars
  BY <1>1, <1>2
<1>3. Init => SpecsInv
  BY IdleSnapshot, WatchScanAssumption DEF Init, SpecsInv
<1>4. Spec => []SpecsInv
  BY <1>3, SpecsStep, TypeCorrectness, PTL DEF Spec
<1>5. QED BY <1>2, <1>4, TypeCorrectness, MissingIsGone, PTL DEF Spec, SoldOutIsReal

-----------------------------------------------------------------------------
(* What is announced has arrived.                                          *)

\* The SKU arrived since the watch last had it, or a complete scan settled
\* the pair without looking.
Justified(w, s) == s \in arrived[w] \/ <<w, s>> \in unseen

\* The silent first scan of the watch is over.
Settled(w) == Exists(w) /\ baseline /\ w \notin fresh

\* A settled watch has every SKU the shop sells, or would be right to
\* announce it.
SettledInv ==
    /\ baseline \/ \A w \in Watch : Exists(w) => w \in fresh
    /\ \A w \in Watch, s \in stock :
          Settled(w) => row[w][s] = "in" \/ Justified(w, s)

\* The same of what a scan has found for a watch that it does not seed, though
\* the SKU may be gone by now; and what it did not find has arrived since.
FoundInv ==
    \A p \in Scanner : \A w \in scan[p].watches :
        /\ state[w] # "new"
        /\ Exists(w) =>
              /\ w \notin scan[p].seeds =>
                    /\ Settled(w)
                    /\ \A s \in scan[p].found : row[w][s] = "in" \/ Justified(w, s)
              /\ \A s \in stock \ scan[p].found :
                    Shelf[s] \in scan[p].fetched => s \in arrived[w]

LEMMA JustifiedUser ==
    ASSUME TypeOK, SettledInv, FoundInv, User
    PROVE  SettledInv' /\ FoundInv'
<1>1. /\ UNCHANGED <<stock, baseline, scan, arrived, unseen>>
      /\ \A p \in Scanner : scan[p].watches \subseteq Watch /\ scan[p].found \subseteq Sku
      /\ stock \subseteq Sku
  BY Requests, Snapshots DEF TypeOK, Snapshot
<1>2. \A w \in Watch :
        /\ Settled(w)' => Settled(w)
        /\ Exists(w)' => \A s \in Sku : row[w][s] = "in" => row'[w][s] = "in"
        /\ Settled(w) /\ Exists(w)' => Settled(w)'
        /\ state[w] # "new" => state'[w] # "new" /\ (Exists(w)' => Exists(w))
        /\ Exists(w)' /\ w \notin fresh' => Exists(w) /\ w \notin fresh
  BY <1>1, Requests DEF Settled
<1>3. \A w \in Watch, s \in Sku : Justified(w, s)' = Justified(w, s)
  BY <1>1 DEF Justified
<1>4. SettledInv'
  BY <1>1, <1>2, <1>3 DEF SettledInv, Settled
<1>5. FoundInv'
  BY <1>1, <1>2, <1>3 DEF FoundInv
<1>6. QED BY <1>4, <1>5

LEMMA JustifiedShop ==
    ASSUME TypeOK, SettledInv, FoundInv, ShopMoves
    PROVE  SettledInv' /\ FoundInv'
<1>1. UNCHANGED <<baseline, state, fresh, row, scan, unseen>>
  BY DEF ShopMoves, settings, watches, store
<1>2. /\ \A w \in Watch : arrived[w] \subseteq arrived'[w]
      /\ \A w \in Watch : Exists(w) => stock' \ stock \subseteq arrived'[w]
  BY DEF ShopMoves, Arrive, SellOut, TypeOK
<1>3. \A w \in Watch : /\ Exists(w)' = Exists(w) /\ Settled(w)' = Settled(w)
                       /\ \A s \in Sku : Justified(w, s) => Justified(w, s)'
  BY <1>1, <1>2 DEF Exists, Settled, Justified
<1>4. /\ stock \subseteq Sku /\ stock' \subseteq Sku
      /\ \A p \in Scanner : scan[p].watches \subseteq Watch /\ scan[p].found \subseteq Sku
  BY Snapshots, ShopType DEF TypeOK, Snapshot
<1>5. SettledInv'
  BY <1>1, <1>2, <1>3, <1>4 DEF SettledInv, Settled, Justified
<1>6. FoundInv'
  BY <1>1, <1>2, <1>3, <1>4 DEF FoundInv
<1>7. QED BY <1>5, <1>6

LEMMA JustifiedScan ==
    ASSUME TypeOK, SettledInv, FoundInv, NEW p \in Scanner, ScanStep(p), ~Commit(p)
    PROVE  SettledInv' /\ FoundInv'
<1>1. UNCHANGED <<stock, baseline, state, fresh, row, arrived, unseen>>
  BY NothingStored DEF settings, watches, store
<1>2. \A w \in Watch : /\ Exists(w)' = Exists(w) /\ Settled(w)' = Settled(w)
                       /\ \A s \in Sku : Justified(w, s)' = Justified(w, s)
  BY <1>1 DEF Exists, Settled, Justified
<1>3. /\ stock \subseteq Sku
      /\ \A q \in Scanner : scan[q].watches \subseteq Watch /\ scan[q].found \subseteq Sku
  BY Snapshots DEF TypeOK, Snapshot
<1>4. SettledInv'
  BY <1>1, <1>2, <1>3 DEF SettledInv
<1>5. ASSUME Begin(p) PROVE FoundInv'
  <2>1. \A w \in scan'[p].watches : w \in Watch /\ state[w] = "on"
    BY <1>5, Beginning
  <2>2. \A w \in scan'[p].watches : w \notin scan'[p].seeds => baseline /\ w \notin fresh
    BY <1>5, Beginning DEF Seeds
  <2>3. /\ scan'[p].found = {} /\ scan'[p].fetched = {}
        /\ \A q \in Scanner \ {p} : scan'[q] = scan[q]
    BY <1>5, Beginning DEF Alone
  <2>4. \A w \in scan'[p].watches :
          state'[w] # "new" /\ (w \notin scan'[p].seeds => Settled(w)')
    BY <1>1, <1>2, <2>1, <2>2 DEF Settled, Exists
  <2>5. \A q \in Scanner \ {p} : \A w \in scan'[q].watches :
          /\ w \in scan[q].watches /\ w \in Watch /\ state'[w] = state[w]
          /\ scan'[q].seeds = scan[q].seeds /\ scan'[q].found = scan[q].found
          /\ scan'[q].fetched = scan[q].fetched /\ scan[q].found \subseteq Sku
    BY <1>1, <1>3, <2>3
  <2>6. QED BY <1>1, <1>2, <2>3, <2>4, <2>5 DEF FoundInv
<1>6. ASSUME NEW l \in Listing, Fetch(p, l) \/ FetchFails(p, l)
      PROVE  FoundInv'
  <2>1. \A s \in scan'[p].found : s \in scan[p].found \/ s \in stock
    BY <1>6, Fetching
  <2>2. \A s \in stock \ scan'[p].found :
          Shelf[s] \in scan'[p].fetched =>
             s \notin scan[p].found /\ Shelf[s] \in scan[p].fetched
    BY <1>3, <1>6, Fetching DEF OnShelf
  <2>3. QED BY <1>1, <1>2, <1>3, <1>6, <2>1, <2>2, Fetching
            DEF FoundInv, SettledInv, Alone
<1>7. ASSUME Observe(p) PROVE FoundInv'
  BY <1>1, <1>2, <1>3, <1>7, Observing DEF FoundInv, Alone
<1>8. ASSUME Abort(p) PROVE FoundInv'
  BY <1>1, <1>2, <1>3, <1>8, Ending, IdleSnapshot DEF FoundInv, Alone
<1>9. QED BY <1>4, <1>5, <1>6, <1>7, <1>8 DEF ScanStep

\* The pair is in stock, was justified before, or the scan settles it.
LEMMA JustifiedCommit ==
    ASSUME OneScanner, TypeOK, SettledInv, FoundInv, NEW p \in Scanner, Commit(p)
    PROVE  SettledInv' /\ FoundInv'
<1>1. /\ \A q \in Scanner : q = p
      /\ scan'[p].watches = {}
  BY Ending, IdleSnapshot DEF OneScanner
<1>2. FoundInv'
  BY <1>1 DEF FoundInv
<1>3. /\ stock' = stock /\ stock \subseteq Sku /\ state' = state
      /\ \A w \in Watch : Exists(w)' = Exists(w)
      /\ scan[p].watches \subseteq Watch
  BY Snapshots DEF Commit, TypeOK, Exists, Snapshot
<1>4. /\ Complete(p) => baseline' /\ \A w \in Watch :
            w \in fresh' <=> Exists(w) /\ w \notin scan[p].known
      /\ ~Complete(p) => baseline' = baseline /\ fresh' = fresh
  BY DEF Commit
<1>5. baseline' \/ \A w \in Watch : Exists(w)' => w \in fresh'
  BY <1>3, <1>4 DEF SettledInv
<1>6. ASSUME NEW w \in Watch, NEW s \in stock, Settled(w)'
      PROVE  row'[w][s] = "in" \/ Justified(w, s)'
  <2>1. /\ row'[w][s] = IF s \in Present(p, w) THEN "in"
                        ELSE IF s \in Leaving(p, w) THEN "out" ELSE row[w][s]
        /\ arrived'[w] = arrived[w] \ Present(p, w)
        /\ <<w, s>> \in unseen' <=>
              \/ SettledUnseen(p, w, s)
              \/ /\ <<w, s>> \in unseen
                 /\ ~LooksAt(p, w, s) \/ Shelf[s] \notin scan[p].fetched
    BY <1>3 DEF Commit, TypeOK
  <2>2. Exists(w) /\ s \in Sku
    BY <1>3, <1>6 DEF Settled
  <2>3. SUFFICES ASSUME s \notin Present(p, w), row'[w][s] # "in"
                 PROVE  s \in arrived[w] \/ <<w, s>> \in unseen'
    BY <2>1, <2>2 DEF Justified
  <2>4. ASSUME LooksAt(p, w, s), Shelf[s] \in scan[p].fetched
        PROVE  s \in arrived[w]
    <3>1. s \notin scan[p].found /\ w \in scan[p].watches
      BY <2>2, <2>3, <2>4, Found DEF LooksAt
    <3>2. QED BY <2>2, <2>4, <3>1 DEF FoundInv
  <2>5. Complete(p) => Settled(w) \/ w \in scan[p].known \cap (fresh \cup scan[p].watches)
    BY <1>4, <1>6, <2>2 DEF Settled, SettledInv
  <2>6. ~Complete(p) => Settled(w)
    BY <1>4, <1>6, <2>2 DEF Settled
  <2>7. CASE LooksAt(p, w, s)
    <3>1. SUFFICES ASSUME Shelf[s] \notin scan[p].fetched
                   PROVE  s \in arrived[w] \/ <<w, s>> \in unseen'
      BY <2>4, <2>7
    <3>2. ~Complete(p) /\ s \notin Leaving(p, w)
      BY <2>2, <2>7, <3>1, Found DEF Complete, LooksAt
    <3>3. row[w][s] # "in" /\ Settled(w)
      BY <2>1, <2>3, <2>6, <3>2
    <3>4. s \in arrived[w] \/ <<w, s>> \in unseen
      BY <3>3 DEF SettledInv, Justified
    <3>5. QED BY <2>1, <3>1, <3>4
  <2>8. CASE ~LooksAt(p, w, s)
    <3>1. CASE SettledUnseen(p, w, s)
      BY <2>1, <3>1
    <3>2. CASE ~SettledUnseen(p, w, s)
      <4>1. Settled(w) /\ row[w][s] # "in"
        BY <2>1, <2>3, <2>5, <2>6, <2>8, <3>2 DEF SettledUnseen
      <4>2. s \in arrived[w] \/ <<w, s>> \in unseen
        BY <4>1 DEF SettledInv, Justified
      <4>3. QED BY <2>1, <2>8, <4>2
    <3>3. QED BY <3>1, <3>2
  <2>9. QED BY <2>7, <2>8
<1>7. QED BY <1>2, <1>3, <1>5, <1>6 DEF SettledInv

\* README.md:202 with its exemptions: what is announced to a watch arrived
\* since the watch was created and last had it in stock, or was settled by a
\* complete scan that did not look for it, or the watch has been deleted.
THEOREM PushesAreJustified ==
    ASSUME OneScanner
    PROVE  Spec => PushJustified
<1> DEFINE Right(w, s) ==
      Pushed(w, s) =>
          s \in arrived[w] \/ <<w, s>> \in unseen \/ state[w] = "deleted"
<1>1. ASSUME TypeOK, SettledInv, FoundInv, Next, NEW w \in Watch, NEW s \in Sku
      PROVE  Right(w, s)
  <2>1. SUFFICES ASSUME Pushed(w, s), state[w] # "deleted"
                 PROVE  Justified(w, s)
    BY DEF Justified
  <2>2. PICK m \in 0..outs : <<w, s, m>> \in events' \ events
    BY <2>1 DEF Pushed
  <2>3. PICK p \in Scanner : Commit(p)
    BY <1>1, <2>2, Requests, NothingStored DEF Next, ShopMoves, store
  <2>4. s \in Appeared(p, w)
    <3>1. PICK v \in Watch, z \in Sku : z \in Appeared(p, v)
                                        /\ <<w, s, m>> = Fingerprint(v, z)
      BY <2>2, <2>3, Announced
    <3>2. QED BY <3>1 DEF Fingerprint
  <2>5. /\ w \in scan[p].watches /\ s \in scan[p].found
        /\ w \notin scan[p].seeds /\ row[w][s] # "in"
    BY <2>4, Found
  <2>6. state[w] # "new"
    BY <1>1, <2>5 DEF FoundInv
  <2>7. Exists(w)
    BY <1>1, <2>1, <2>6 DEF TypeOK, Exists
  <2>8. QED BY <1>1, <2>5, <2>7 DEF FoundInv
<1>2. ASSUME TypeOK, SettledInv, FoundInv, [Next]_vars
      PROVE  [\A w \in Watch, s \in Sku : Right(w, s)]_vars
  BY <1>1, <1>2
<1>3. Init => SettledInv /\ FoundInv
  BY IdleSnapshot DEF Init, SettledInv, FoundInv, Settled, Exists
<1>4. ASSUME TypeOK, SettledInv, FoundInv, [Next]_vars
      PROVE  SettledInv' /\ FoundInv'
  <2>1. CASE UNCHANGED vars
    BY <1>4, <2>1 DEF vars, settings, watches, store, SettledInv, FoundInv, Settled,
                      Exists, Justified
  <2>2. QED BY <1>4, <2>1, JustifiedUser, JustifiedShop, JustifiedScan, JustifiedCommit
            DEF Next
<1>5. Spec => [](SettledInv /\ FoundInv)
  BY <1>3, <1>4, TypeCorrectness, PTL DEF Spec
<1>6. QED BY <1>2, <1>5, TypeCorrectness, PTL DEF Spec, PushJustified
=============================================================================
